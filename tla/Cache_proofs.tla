------------------------------ MODULE Cache_proofs -------------------------------
(***************************************************************************)
(* What a start reads from the cache, for any groups, devices and tables,  *)
(* any number of handlers and changes of the table.                        *)
(*                                                                         *)
(* The invariant speaks of a trail: the positions a handler has gone       *)
(* through and the lines it has written between them.  A reader between    *)
(* two devices stands at a position of the same trail, so that what it has *)
(* read and what the handler had written there can be compared without     *)
(* computing either from the whole file.                                   *)
(***************************************************************************)
EXTENDS Cache, FiniteSetTheorems, SequenceTheorems, TLAPS

------------------------------------------------------------------------------
(* Positions                                                               *)

Place(stage, label, mac, field, line) ==
    [stage |-> stage, label |-> label, mac |-> mac, field |-> field, line |-> line]

\* What a position of a handler in the iteration looks like.
Proper(p) ==
    /\ p \in Places /\ p.stage # "idle"
    /\ p.stage = "group" => p = Opened
    /\ p.stage \in {"size", "device"} => p.label \in Labels \ {Blank}
    /\ p.stage = "size" => p.field = 0
    /\ p.stage = "device" => p.mac \in Macs \cup {None}
    /\ p.field > 0 => p.mac \in Macs

\* The handler writes a line and goes from p to q, whatever the table is.
Moves(p, q, line) ==
    \/ /\ line = Line("label", q.label)
       /\ p.stage # "size" /\ p.field = 0
       /\ q.label \in Labels \ {Blank} /\ q.label > p.label
       /\ q = Place("size", q.label, p.mac, 0, p.line + 1)
    \/ /\ line.kind = "count"
       /\ p.stage = "size"
       /\ q = Place("device", p.label, None, 0, p.line + 1)
    \/ /\ line = Line("name", q.mac)
       /\ p.stage = "device" /\ p.field = 0
       /\ q.mac \in Macs /\ q.mac > p.mac
       /\ q = Place("device", p.label, q.mac, 1, p.line + 1)
    \/ /\ line = Line("mac", p.mac)
       /\ p.stage = "device" /\ p.field = 1
       /\ q = Place("device", p.label, p.mac, 2, p.line + 1)
    \/ /\ line.kind = "number"
       /\ p.stage = "device" /\ p.field > 1
       /\ line.value \in had[p.mac][p.field - 1]
       /\ q = Place("device", p.label, p.mac,
                    IF p.field - 1 = Fields THEN 0 ELSE p.field + 1, p.line + 1)

\* What a table that does not change makes of it.
Members(t, l) == IF l \in DOMAIN t THEN DOMAIN t[l] ELSE {}
Rest(t, l) == {k \in DOMAIN t : k > l /\ k # Blank}
Exhausted(t, p) ==
    /\ p.stage # "size" /\ p.field = 0
    /\ p.stage = "device" => \A m \in Members(t, p.label) : m <= p.mac

Exact(t, p, q, line) ==
    /\ line.kind = "label" =>
          /\ Exhausted(t, p)
          /\ q.label \in Rest(t, p.label)
          /\ \A l \in Rest(t, p.label) : q.label <= l
    /\ line.kind = "count" => line.value = Cardinality(Members(t, p.label))
    /\ line.kind = "name" =>
          /\ q.mac \in Members(t, p.label)
          /\ \A m \in Members(t, p.label) : m > p.mac => q.mac <= m
    /\ line.kind = "number" => line.value = t[p.label][p.mac][p.field - 1]

PlaceIn(t, p) ==
    /\ p.stage # "group" => p.label \in DOMAIN t
    /\ p.field > 0 => p.mac \in DOMAIN t[p.label]
    /\ p.stage = "device" /\ p.mac # None => p.mac \in DOMAIN t[p.label]

------------------------------------------------------------------------------
(* Trails: the positions of a handler and the lines it writes between them *)

\* The positions of one device follow each other.
Triples(trail) ==
    \A k \in DOMAIN trail : trail[k].field = 1 =>
        \A j \in 0..Fields : k + j \in DOMAIN trail =>
            trail[k + j] = Place("device", trail[k].label, trail[k].mac, j + 1, k + j - 1)

Trail(trail, lines) ==
    /\ trail \in Seq(Places) /\ lines \in Seq(Written)
    /\ Len(trail) = Len(lines) + 1
    /\ trail[1] = Opened
    /\ \A k \in DOMAIN trail : Proper(trail[k]) /\ trail[k].line = k - 1
    /\ \A k \in DOMAIN lines : Moves(trail[k], trail[k + 1], lines[k])
    /\ Triples(trail)

ExactTrail(t, trail, lines) ==
    /\ \A k \in DOMAIN lines : Exact(t, trail[k], trail[k + 1], lines[k])
    /\ \A k \in DOMAIN trail : PlaceIn(t, trail[k])

\* Which of the lines the file has, and where the handlers are.
Writing(trail, lines) ==
    /\ Len(file) <= Len(lines)
    /\ \A k \in DOMAIN file : file[k] \in {Hole, lines[k]}
    /\ job.alone \/ job.whole => file = lines
    /\ job.whole => Active = {}
    /\ job.whole /\ job.steady =>
          /\ Exhausted(job.table, trail[Len(trail)])
          /\ Rest(job.table, trail[Len(trail)].label) = {}
    /\ \A h \in Active : at[h].line < Len(trail) /\ at[h] = trail[at[h].line + 1]
    /\ Active # {} =>
          /\ pc = "running" /\ job.by \in Active
          /\ at[job.by].line <= Len(file)
          /\ \A k \in 1..at[job.by].line : file[k] = lines[k]
    /\ job.alone => /\ Active \subseteq {job.by}
                    /\ Active # {} => at[job.by].line = Len(file)

------------------------------------------------------------------------------
(* Reading                                                                 *)

TableOK(t) ==
    /\ t = [l \in DOMAIN t |-> t[l]] /\ DOMAIN t \subseteq Labels
    /\ \A l \in DOMAIN t : DOMAIN t[l] \subseteq Macs /\ HasDevices(t[l])
Own(group) == \A m \in DOMAIN group, i \in 1..Fields : m \in Macs /\ group[m][i] \in had[m][i]

InGroup == pc = "reading" /\ reader.group
Done == IF pc = "reading" THEN reader.line ELSE Len(file)
ReadOf(l) == IF InGroup /\ l = reader.label THEN reader.devices ELSE groups[l]

\* What has been read of any file, between two devices or groups.
Reading(trail, lines) ==
    LET p == trail[Done + 1]
    IN  /\ Done <= Len(lines) /\ p.stage # "size" /\ p.field = 0
        /\ \A k \in 1..Done : trail[k].label <= p.label
        /\ \A l \in DOMAIN groups : l \in Labels /\ l <= p.label /\ Own(groups[l])
        /\ InGroup => /\ p.stage = "device" /\ reader.label = p.label
                      /\ p.label \notin DOMAIN groups
                      /\ Own(reader.devices)
                      /\ \A m \in DOMAIN reader.devices : m <= p.mac
        /\ \A k \in 1..Done : lines[k].kind = "number" =>
              /\ trail[k].label \in DOMAIN groups \/ (InGroup /\ trail[k].label = reader.label)
              /\ trail[k].mac \in DOMAIN ReadOf(trail[k].label)
              /\ lines[k].value = ReadOf(trail[k].label)[trail[k].mac][trail[k].field - 1]

\* What has been read of a file that was written from the table t.
ReadingExact(t, trail) ==
    LET p == trail[Done + 1]
        l == p.label
    IN  /\ \A k \in DOMAIN groups : k \in DOMAIN t \ {Blank} /\ groups[k] = t[k]
        /\ \A k \in DOMAIN t \ {Blank} : k <= l => k \in DOMAIN groups \/ (InGroup /\ k = l)
        /\ InGroup =>
              /\ reader.devices = [m \in {n \in DOMAIN t[l] : n <= p.mac} |-> t[l][m]]
              /\ reader.left + Cardinality(DOMAIN reader.devices) = Cardinality(DOMAIN t[l])
        /\ ~InGroup => Exhausted(t, p)

------------------------------------------------------------------------------
(* The invariant                                                           *)

RunningInv ==
    /\ pc = "running" => TableOK(groups) /\ \A l \in DOMAIN groups : Own(groups[l])
    /\ pc = "running" /\ ~job.alone => job.steady /\ \E h, g \in Active : h # g
    /\ pc = "running" /\ job.steady /\ Active # {} => groups = job.table
    /\ Active # {} => pc = "running"
    /\ job.steady => TableOK(job.table)

\* The states in which something is known of the file.
Tracked == job.alone \/ (job.steady /\ (pc = "running" \/ job.whole))

FileInv(trail, lines) ==
    /\ Trail(trail, lines)
    /\ Writing(trail, lines)
    /\ job.steady => ExactTrail(job.table, trail, lines)
    /\ pc \in {"reading", "started"} => Reading(trail, lines)
    /\ pc \in {"reading", "started"} /\ job.steady => ReadingExact(job.table, trail)
    /\ job.whole /\ job.steady => pc # "threw"

Inv == TypeOK /\ RunningInv /\ (Tracked => \E trail, lines : FileInv(trail, lines))

------------------------------------------------------------------------------
(* Getline                                                                 *)

LEMMA WrittenKinds ==
    /\ Hole \notin Written /\ End \notin Written /\ Hole # End
    /\ \A line \in Written :
          /\ line = Line(line.kind, line.value)
          /\ line.kind \in {"label", "count", "name", "mac", "number"}
          /\ line.kind = "label" => line.value \in Labels
          /\ line.kind \in {"name", "mac"} => line.value \in Macs
          /\ line.kind \in {"count", "number"} => line.value \in Nat
          /\ StoiAccepts(line) <=> line.kind \in {"count", "number"}
    /\ ~StoiAccepts(End)
BY DEF Written, Hole, End, Line, StoiAccepts

\* Without holes getline reads the lines one by one.
LEMMA GetlineOfWhole ==
    ASSUME NEW n \in Nat \ {0}, file \in Seq(Written)
    PROVE  Getline(n) = IF n <= Len(file) THEN file[n] ELSE End
<1>1. \A k \in DOMAIN file : file[k] \in Written
  OBVIOUS
<1>2. \A k \in DOMAIN file : file[k] # Hole
  BY <1>1, WrittenKinds
<1>3. ASSUME NEW k \in DOMAIN file
      PROVE  IsLine(n, k) <=> k = n
  <2>1. {j \in 1..k : file[j] # Hole} = 1..k
    BY <1>2
  <2>2. Cardinality(1..k) = k
    BY FS_Interval
  <2> QED BY <1>2, <2>1, <2>2 DEF IsLine
<1>4. ASSUME NEW k \in DOMAIN file
      PROVE  Found(k) = file[k]
  BY <1>2 DEF Found
<1>5. CASE n <= Len(file)
  <2>1. n \in DOMAIN file /\ IsLine(n, n)
    BY <1>3, <1>5
  <2>2. (CHOOSE k \in DOMAIN file : IsLine(n, k)) = n
    BY <1>3, <2>1
  <2> QED BY <1>4, <1>5, <2>1, <2>2 DEF Getline
<1>6. CASE ~(n <= Len(file))
  BY <1>3, <1>6 DEF Getline
<1> QED BY <1>5, <1>6

\* With holes, what std::stoi accepts is a line that has been written.
LEMMA GetlineType ==
    ASSUME NEW n, file \in Seq(Written \cup {Hole})
    PROVE  /\ StoiAccepts(Getline(n)) => Getline(n).value \in Nat
           /\ Getline(n).kind = "label" => Getline(n).value \in Labels
           /\ Getline(n).kind = "mac" => Getline(n).value \in Macs
<1>1. CASE \E k \in DOMAIN file : IsLine(n, k)
  <2> DEFINE k == CHOOSE j \in DOMAIN file : IsLine(n, j)
  <2>1. k \in DOMAIN file /\ file[k] # Hole
    BY <1>1 DEF IsLine
  <2>2. file[k] \in Written
    BY <2>1
  <2>3. Getline(n) = Line("garbled", 0) \/ Getline(n) = file[k]
    BY <1>1 DEF Getline, Found
  <2> HIDE DEF k
  <2>4. CASE Getline(n) = Line("garbled", 0)
    BY <2>4 DEF StoiAccepts, Line
  <2>5. CASE Getline(n) = file[k]
    BY <2>2, <2>5, WrittenKinds
  <2> QED BY <2>3, <2>4, <2>5
<1>2. CASE ~\E k \in DOMAIN file : IsLine(n, k)
  BY <1>2 DEF Getline, End, Line, StoiAccepts
<1> QED BY <1>1, <1>2

------------------------------------------------------------------------------
(* Trails                                                                  *)

LEMMA OpenedIsProper == Proper(Opened) /\ Opened.line = 0 /\ Opened.field = 0
<1>2. Fields \in Nat
  BY CacheAssumption
<1>3. Opened \in Places
  BY <1>2 DEF Opened, Place, Places
<1> QED BY <1>3 DEF Proper, Opened, Place

LEMMA MovesProper ==
    ASSUME NEW p, NEW q, NEW line \in Written, Proper(p), Moves(p, q, line)
    PROVE  Proper(q) /\ q.line = p.line + 1 /\ q.stage # "group"
<1>1. /\ p \in Places /\ p.line \in Nat /\ p.field \in 0..(Fields + 1)
      /\ p.label \in Labels \cup {0, None} /\ p.mac \in Macs \cup {0, None}
      /\ Fields \in Nat \ {0}
  BY CacheAssumption DEF Proper, Places, Place
<1>2. CASE /\ p.stage # "size" /\ p.field = 0 /\ q.label \in Labels \ {Blank}
           /\ q = Place("size", q.label, p.mac, 0, p.line + 1)
  BY <1>1, <1>2 DEF Proper, Places, Place
<1>3. CASE /\ p.stage = "size"
           /\ q = Place("device", p.label, None, 0, p.line + 1)
  BY <1>1, <1>3 DEF Proper, Places, Place
<1>4. CASE /\ p.stage = "device" /\ p.field = 0 /\ q.mac \in Macs
           /\ q = Place("device", p.label, q.mac, 1, p.line + 1)
  BY <1>1, <1>4 DEF Proper, Places, Place
<1>5. CASE /\ p.stage = "device" /\ p.field = 1
           /\ q = Place("device", p.label, p.mac, 2, p.line + 1)
  BY <1>1, <1>5 DEF Proper, Places, Place
<1>6. CASE /\ p.stage = "device" /\ p.field > 1
           /\ q = Place("device", p.label, p.mac,
                        IF p.field - 1 = Fields THEN 0 ELSE p.field + 1, p.line + 1)
  BY <1>1, <1>6 DEF Proper, Places, Place
<1> QED BY <1>2, <1>3, <1>4, <1>5, <1>6 DEF Moves

\* One table leaves a handler one way to go on.
LEMMA SameStep ==
    ASSUME NEW t, NEW p, NEW q, NEW line, NEW r, NEW other, Proper(p), TableOK(t),
           Moves(p, q, line), Exact(t, p, q, line),
           Moves(p, r, other), Exact(t, p, r, other),
           line \in Written, other \in Written
    PROVE  q = r /\ line = other
<1> USE CacheAssumption
<1>1. /\ p \in Places /\ p.field \in 0..(Fields + 1)
      /\ line = Line(line.kind, line.value) /\ other = Line(other.kind, other.value)
  BY WrittenKinds DEF Proper, Places, Place
<1>2. /\ Rest(t, p.label) \subseteq Nat
      /\ Members(t, p.label) \subseteq Nat
  BY DEF TableOK, Rest, Members
<1>3. CASE line.kind = "label"
  <2>1. /\ Exhausted(t, p) /\ q.label \in Rest(t, p.label)
        /\ \A l \in Rest(t, p.label) : q.label <= l
        /\ q = Place("size", q.label, p.mac, 0, p.line + 1)
        /\ p.stage # "size" /\ p.field = 0 /\ line = Line("label", q.label)
    BY <1>3 DEF Moves, Exact, Line
  <2>2. other.kind # "name"
    <3> SUFFICES ASSUME other.kind = "name" PROVE FALSE
      OBVIOUS
    <3>1. p.stage = "device" /\ r.mac \in Members(t, p.label) /\ r.mac > p.mac /\ r.mac \in Macs
      BY DEF Moves, Exact, Line
    <3>2. p.mac \in Int
      BY <3>1 DEF Proper, None
    <3> QED BY <1>2, <2>1, <3>1, <3>2 DEF Exhausted
  <2>3. /\ r.label \in Rest(t, p.label) /\ \A l \in Rest(t, p.label) : r.label <= l
        /\ r = Place("size", r.label, p.mac, 0, p.line + 1)
        /\ other = Line("label", r.label)
    BY <2>1, <2>2 DEF Moves, Exact, Line
  <2>4. q.label = r.label
    BY <1>2, <2>1, <2>3
  <2> QED BY <2>1, <2>3, <2>4
<1>4. CASE line.kind = "count"
  BY <1>1, <1>4 DEF Moves, Exact, Line
<1>5. CASE line.kind = "name"
  <2>1. /\ p.stage = "device" /\ p.field = 0
        /\ q.mac \in Members(t, p.label) /\ q.mac > p.mac
        /\ \A m \in Members(t, p.label) : m > p.mac => q.mac <= m
        /\ q = Place("device", p.label, q.mac, 1, p.line + 1)
        /\ line = Line("name", q.mac)
    BY <1>5 DEF Moves, Exact, Line
  <2>2. p.mac \in Int
    BY <2>1 DEF Proper, None
  <2>3. other.kind # "label"
    BY <1>2, <2>1, <2>2 DEF Exact, Exhausted
  <2>4. /\ r.mac \in Members(t, p.label) /\ r.mac > p.mac
        /\ \A m \in Members(t, p.label) : m > p.mac => r.mac <= m
        /\ r = Place("device", p.label, r.mac, 1, p.line + 1)
        /\ other = Line("name", r.mac)
    BY <2>1, <2>3 DEF Moves, Exact, Line
  <2>5. q.mac = r.mac
    BY <1>2, <2>1, <2>4
  <2> QED BY <2>1, <2>4, <2>5
<1>6. CASE line.kind = "mac"
  BY <1>1, <1>6 DEF Moves, Exact, Line
<1>7. CASE line.kind = "number"
  <2>1. p.stage = "device" /\ p.field > 1
    BY <1>7 DEF Moves, Line
  <2>2. other.kind = "number" /\ q = r
    BY <1>1, <1>7, <2>1 DEF Moves, Line
  <2> QED BY <1>1, <1>7, <2>2 DEF Exact
<1> QED BY <1>3, <1>4, <1>5, <1>6, <1>7, WrittenKinds

LEMMA AppendAt ==
    ASSUME NEW S, NEW s \in Seq(S), NEW x \in S
    PROVE  /\ Append(s, x) \in Seq(S) /\ Len(Append(s, x)) = Len(s) + 1
           /\ \A k \in 1..Len(s) : Append(s, x)[k] = s[k]
           /\ Append(s, x)[Len(s) + 1] = x
OBVIOUS

\* A line more, and the position behind it.
LEMMA ExtendTrail ==
    ASSUME NEW trail, NEW lines, Trail(trail, lines),
           NEW q, NEW line \in Written, Moves(trail[Len(trail)], q, line)
    PROVE  Trail(Append(trail, q), Append(lines, line))
<1> DEFINE n == Len(trail)
           p == trail[n]
           T == Append(trail, q)
           L == Append(lines, line)
<1>1. /\ trail \in Seq(Places) /\ lines \in Seq(Written) /\ n = Len(lines) + 1
      /\ n \in Nat \ {0} /\ Len(lines) \in Nat
      /\ DOMAIN trail = 1..n /\ DOMAIN lines = 1..(n - 1)
      /\ \A k \in 1..n : Proper(trail[k]) /\ trail[k].line = k - 1
  BY DEF Trail
<1>2. Proper(p) /\ Proper(q) /\ q.line = n /\ q \in Places
  <2>1. Proper(p) /\ p.line = n - 1
    BY <1>1
  <2> QED BY <1>1, <2>1, MovesProper DEF Proper
<1>3. /\ T \in Seq(Places) /\ Len(T) = n + 1 /\ DOMAIN T = 1..(n + 1)
      /\ \A k \in 1..n : T[k] = trail[k]
      /\ T[n + 1] = q
  BY <1>1, <1>2, AppendAt
<1>4. /\ L \in Seq(Written) /\ Len(L) = n /\ DOMAIN L = 1..n
      /\ \A k \in 1..(n - 1) : L[k] = lines[k]
      /\ L[n] = line
  BY <1>1, AppendAt
<1> HIDE DEF T, L
<1>5. T[1] = Opened
  BY <1>1, <1>3 DEF Trail
<1>6. ASSUME NEW k \in DOMAIN T
      PROVE  Proper(T[k]) /\ T[k].line = k - 1
  BY <1>1, <1>2, <1>3
<1>7. ASSUME NEW k \in DOMAIN L
      PROVE  Moves(T[k], T[k + 1], L[k])
  <2>1. CASE k < n
    <3>1. Moves(trail[k], trail[k + 1], lines[k])
      BY <1>1, <1>4, <2>1 DEF Trail
    <3> QED BY <1>1, <1>3, <1>4, <2>1, <3>1
  <2>2. CASE k = n
    BY <1>3, <1>4, <2>2
  <2> QED BY <1>4, <2>1, <2>2
<1>8. Triples(T)
  <2> SUFFICES ASSUME NEW k \in 1..(n + 1), T[k].field = 1,
                      NEW j \in 0..Fields, k + j \in 1..(n + 1)
               PROVE  T[k + j] = Place("device", T[k].label, T[k].mac, j + 1, k + j - 1)
    BY <1>3 DEF Triples
  <2>1. CASE k + j <= n
    <3>1. k \in DOMAIN trail /\ k + j \in DOMAIN trail /\ trail[k].field = 1
      BY <1>1, <1>3, <2>1, CacheAssumption
    <3>2. trail[k + j] = Place("device", trail[k].label, trail[k].mac, j + 1, k + j - 1)
      BY <3>1 DEF Trail, Triples
    <3> QED BY <1>1, <1>3, <3>1, <3>2
  <2>2. CASE k = n + 1
    <3>1. j = 0 /\ T[k] = q /\ q.field = 1
      BY <1>3, <2>2, CacheAssumption
    <3>2. q \in Places /\ Proper(q) /\ q.line = n
      BY <1>2
    <3>3. q = Place(q.stage, q.label, q.mac, q.field, q.line)
      BY <3>2 DEF Places, Place
    <3>4. q.stage = "device"
      BY <3>1, <3>2 DEF Proper, Opened, Place, Places
    <3> QED BY <1>1, <2>2, <3>1, <3>2, <3>3, <3>4
  <2>3. CASE k <= n /\ k + j = n + 1
    <3>0. Fields \in Nat /\ k \in Nat /\ j \in Nat
      BY CacheAssumption
    <3>1. j - 1 \in 0..Fields /\ k \in DOMAIN trail /\ k + (j - 1) = n /\ n \in DOMAIN trail
      BY <1>1, <2>3, <3>0
    <3>2. trail[k] = T[k] /\ trail[k].field = 1
      BY <1>3, <2>3
    <3>3. p = Place("device", trail[k].label, trail[k].mac, j, n - 1)
      <4>1. \A i \in 0..Fields : k + i \in DOMAIN trail =>
               trail[k + i] = Place("device", trail[k].label, trail[k].mac, i + 1, k + i - 1)
        BY <3>1, <3>2 DEF Trail, Triples
      <4>2. trail[k + (j - 1)] = Place("device", trail[k].label, trail[k].mac, (j - 1) + 1, k + (j - 1) - 1)
        BY <3>1, <4>1
      <4>3. (j - 1) + 1 = j /\ k + (j - 1) - 1 = n - 1
        BY <2>3, <3>1, <1>1
      <4> QED BY <3>1, <4>2, <4>3
    <3>4. /\ p.stage = "device" /\ p.field = j /\ j >= 1 /\ j - 1 # Fields /\ p.line = n - 1
          /\ p.label = trail[k].label /\ p.mac = trail[k].mac
      BY <3>1, <3>3, <2>3, CacheAssumption DEF Place
    <3>5. q = Place("device", p.label, p.mac, j + 1, n)
      BY <1>1, <3>4 DEF Moves
    <3>6. k + j = n + 1 /\ k + j - 1 = n
      BY <1>1, <2>3, <3>0
    <3> QED BY <1>3, <3>2, <3>4, <3>5, <3>6
  <2> QED BY <1>1, <2>1, <2>2, <2>3
<1> QED BY <1>1, <1>3, <1>4, <1>5, <1>6, <1>7, <1>8 DEF Trail, T, L

LEMMA ExtendExact ==
    ASSUME NEW t, NEW trail, NEW lines, Trail(trail, lines), ExactTrail(t, trail, lines),
           NEW q, NEW line \in Written, Moves(trail[Len(trail)], q, line),
           Exact(t, trail[Len(trail)], q, line)
    PROVE  ExactTrail(t, Append(trail, q), Append(lines, line))
<1> DEFINE n == Len(trail)
           p == trail[n]
           T == Append(trail, q)
           L == Append(lines, line)
<1>1. /\ trail \in Seq(Places) /\ lines \in Seq(Written) /\ n = Len(lines) + 1
      /\ n \in Nat \ {0} /\ Len(lines) \in Nat
      /\ DOMAIN trail = 1..n /\ DOMAIN lines = 1..(n - 1)
      /\ Proper(p)
  BY DEF Trail
<1>2. q \in Places
  BY <1>1, MovesProper DEF Proper
<1>3. /\ DOMAIN T = 1..(n + 1) /\ \A k \in 1..n : T[k] = trail[k]
      /\ T[n + 1] = q
  BY <1>1, <1>2, AppendAt
<1>4. /\ DOMAIN L = 1..n /\ \A k \in 1..(n - 1) : L[k] = lines[k]
      /\ L[n] = line
  BY <1>1, AppendAt
<1> HIDE DEF T, L
<1>5. PlaceIn(t, p)
  BY <1>1 DEF ExactTrail
<1>6. PlaceIn(t, q)
  <2>1. CASE line.kind = "label"
    BY <2>1 DEF Moves, Exact, PlaceIn, Rest, Place, Line
  <2>2. CASE line.kind = "count"
    BY <2>2, <1>5 DEF Moves, PlaceIn, Place, Line
  <2>3. CASE line.kind = "name"
    BY <2>3, <1>5 DEF Moves, Exact, Members, PlaceIn, Place, Line
  <2>4. CASE line.kind \in {"mac", "number"}
    <3>1. p.field \in Int
      BY <1>1 DEF Proper, Places
    <3>2. p.stage = "device" /\ p.field > 0 /\ q.label = p.label /\ q.mac = p.mac
      BY <2>4, <3>1 DEF Moves, Place, Line
    <3> QED BY <1>5, <3>2 DEF PlaceIn
  <2> QED BY <2>1, <2>2, <2>3, <2>4, WrittenKinds
<1>7. ASSUME NEW k \in DOMAIN L
      PROVE  Exact(t, T[k], T[k + 1], L[k])
  <2>1. CASE k < n
    <3>1. Exact(t, trail[k], trail[k + 1], lines[k])
      BY <1>1, <1>4, <2>1 DEF ExactTrail
    <3> QED BY <1>1, <1>3, <1>4, <2>1, <3>1
  <2>2. CASE k = n
    BY <1>3, <1>4, <2>2
  <2> QED BY <1>4, <2>1, <2>2
<1>8. ASSUME NEW k \in DOMAIN T
      PROVE  PlaceIn(t, T[k])
  <2>1. CASE k <= n
    BY <1>1, <1>3, <2>1 DEF ExactTrail
  <2>2. CASE k = n + 1
    BY <1>3, <1>6, <2>2
  <2> QED BY <1>1, <1>3, <2>1, <2>2
<1> QED BY <1>7, <1>8 DEF ExactTrail, T, L

------------------------------------------------------------------------------
(* What a handler writes                                                   *)

Writes(h) == WriteGroup(h) \/ WriteSize(h) \/ WriteName(h) \/ WriteAddress(h) \/ WriteNumber(h)

LEMMA PlaceUpdates ==
    ASSUME NEW p \in Places, NEW l, NEW m
    PROVE  /\ [p EXCEPT !.stage = "size", !.label = l] = Place("size", l, p.mac, p.field, p.line)
           /\ [p EXCEPT !.stage = "device", !.mac = None, !.field = 0]
                   = Place("device", p.label, None, 0, p.line)
           /\ [p EXCEPT !.mac = m, !.field = 1] = Place(p.stage, p.label, m, 1, p.line)
<1>1. ASSUME NEW q, q = [p EXCEPT !.stage = "size", !.label = l]
      PROVE  q = Place("size", l, p.mac, p.field, p.line)
  BY <1>1 DEF Places, Place
<1>2. ASSUME NEW q, q = [p EXCEPT !.stage = "device", !.mac = None, !.field = 0]
      PROVE  q = Place("device", p.label, None, 0, p.line)
  BY <1>2 DEF Places, Place
<1>3. ASSUME NEW q, q = [p EXCEPT !.mac = m, !.field = 1]
      PROVE  q = Place(p.stage, p.label, m, 1, p.line)
  BY <1>3 DEF Places, Place
<1> QED BY <1>1, <1>2, <1>3

LEMMA WriteLineGoes ==
    ASSUME NEW h, NEW line, NEW to \in Places, WriteLine(h, line, to)
    PROVE  at' = [at EXCEPT ![h] = Place(to.stage, to.label, to.mac, to.field, to.line + 1)]
<1>1. [to EXCEPT !.line = @ + 1] = Place(to.stage, to.label, to.mac, to.field, to.line + 1)
  BY DEF Places, Place
<1> QED BY <1>1 DEF WriteLine

\* One line, one position further, in the order of the table there is.
LEMMA WritesMoves ==
    ASSUME TypeOK, RunningInv, NEW h \in Handlers, Proper(at[h]), Writes(h)
    PROVE  \E line \in Written, to \in Places :
              /\ Moves(at[h], to, line)
              /\ PlaceIn(groups, at[h]) => Exact(groups, at[h], to, line)
              /\ file' = Put(at[h].line + 1, line)
              /\ at' = [at EXCEPT ![h] = to]
              /\ pc = "running"
              /\ UNCHANGED <<pc, groups, reader, changes, adding, job, had>>
<1> DEFINE p == at[h]
           Goes(line, to) ==
              /\ Moves(p, to, line)
              /\ PlaceIn(groups, p) => Exact(groups, p, to, line)
              /\ file' = Put(p.line + 1, line)
              /\ at' = [at EXCEPT ![h] = to]
              /\ pc = "running"
              /\ UNCHANGED <<pc, groups, reader, changes, adding, job, had>>
<1>1. /\ p \in Places /\ p.line \in Nat /\ p.field \in 0..(Fields + 1) /\ Fields \in Nat \ {0}
      /\ p.label \in Labels \cup {0, None} /\ p.mac \in Macs \cup {0, None}
      /\ Labels \subseteq Nat /\ Macs \subseteq Nat
      /\ p.label \in Int /\ p.mac \in Int /\ p.field \in Int
  BY CacheAssumption DEF Proper, Places, None
<1>2. \A l : /\ Devices(l) = Members(groups, l)
             /\ pc = "running" => Devices(l) \subseteq Macs /\ DOMAIN groups \subseteq Labels
  BY DEF Devices, Members, RunningInv, TableOK
<1>3. Following(h) = Rest(groups, p.label)
  BY DEF Following, Rest
<1>4. ASSUME GroupWritten(h)
      PROVE  /\ p.stage # "size" /\ p.field = 0
             /\ PlaceIn(groups, p) => Exhausted(groups, p)
  <2>1. p.stage # "size" /\ p.field = 0
    BY <1>4 DEF GroupWritten, Proper, Opened, Place
  <2>2. PlaceIn(groups, p) /\ p.stage = "device" => ~DeviceErased(h)
    BY <1>2 DEF DeviceErased, PlaceIn, Members
  <2> QED BY <1>2, <1>4, <2>1, <2>2 DEF GroupWritten, Exhausted
<1>5. CASE WriteGroup(h)
  <2>1. PICK l \in Following(h) :
           /\ GroupErased(h) \/ \A k \in Following(h) : l <= k
           /\ WriteLine(h, Line("label", l), [p EXCEPT !.stage = "size", !.label = l])
    BY <1>5 DEF WriteGroup
  <2>2. pc = "running" /\ l \in Labels \ {Blank} /\ l > p.label
    BY <1>2, <2>1 DEF WriteLine, Following
  <2>3. /\ p.stage # "size" /\ p.field = 0
        /\ PlaceIn(groups, p) => Exhausted(groups, p)
    BY <1>4, <1>5 DEF WriteGroup
  <2>4. /\ [p EXCEPT !.stage = "size", !.label = l] = Place("size", l, p.mac, 0, p.line)
        /\ Place("size", l, p.mac, 0, p.line) \in Places
        /\ Place("size", l, p.mac, 0, p.line + 1) \in Places
    <3>1. [p EXCEPT !.stage = "size", !.label = l] = Place("size", l, p.mac, 0, p.line)
      BY <1>1, <2>3, PlaceUpdates
    <3> QED BY <1>1, <2>2, <2>3, <3>1 DEF Places, Place
  <2>5. at' = [at EXCEPT ![h] = Place("size", l, p.mac, 0, p.line + 1)]
    BY <2>1, <2>4, WriteLineGoes DEF Place
  <2>6. Line("label", l) \in Written
    BY <2>2 DEF Written, Line
  <2>7. Moves(p, Place("size", l, p.mac, 0, p.line + 1), Line("label", l))
    BY <2>2, <2>3 DEF Moves, Place
  <2>8. PlaceIn(groups, p)
            => Exact(groups, p, Place("size", l, p.mac, 0, p.line + 1), Line("label", l))
    <3>1. PlaceIn(groups, p) => ~GroupErased(h)
      <4>1. p.stage = "group" => p.label = None
        BY DEF Proper, Opened
      <4> QED BY <4>1 DEF PlaceIn, GroupErased
    <3> QED BY <1>3, <2>1, <2>3, <3>1 DEF Exact, Place, Line
  <2>9. Goes(Line("label", l), Place("size", l, p.mac, 0, p.line + 1))
    BY <2>1, <2>2, <2>5, <2>7, <2>8 DEF WriteLine
  <2> QED BY <2>4, <2>6, <2>9
<1>6. CASE WriteSize(h)
  <2> DEFINE line == Line("count", Cardinality(Devices(p.label)))
             to == Place("device", p.label, None, 0, p.line + 1)
  <2>1. /\ p.stage = "size" /\ p.field = 0 /\ pc = "running"
        /\ WriteLine(h, line, [p EXCEPT !.stage = "device", !.mac = None, !.field = 0])
    BY <1>6 DEF WriteSize, WriteLine, Proper
  <2>2. /\ [p EXCEPT !.stage = "device", !.mac = None, !.field = 0]
              = Place("device", p.label, None, 0, p.line)
        /\ Place("device", p.label, None, 0, p.line) \in Places
        /\ to \in Places
    <3>1. [p EXCEPT !.stage = "device", !.mac = None, !.field = 0]
              = Place("device", p.label, None, 0, p.line)
      BY <1>1, PlaceUpdates
    <3> QED BY <1>1, <2>1, <3>1 DEF Places, Place
  <2>3. at' = [at EXCEPT ![h] = to]
    BY <2>1, <2>2, WriteLineGoes DEF Place
  <2>4. Cardinality(Devices(p.label)) \in Nat
    BY <1>2, <2>1, FS_Subset, FS_CardinalityType, CacheAssumption
  <2>5. line \in Written
    BY <2>4 DEF Written, Line
  <2>6. Moves(p, to, line) /\ Exact(groups, p, to, line)
    BY <1>2, <2>1 DEF Moves, Exact, Line
  <2>7. Goes(line, to)
    BY <2>1, <2>3, <2>6 DEF WriteLine
  <2> QED BY <2>2, <2>5, <2>7
<1>7. CASE WriteName(h)
  <2>1. PICK m \in Devices(p.label) :
           /\ m > p.mac
           /\ DeviceErased(h) \/ \A k \in Devices(p.label) : k > p.mac => m <= k
           /\ WriteLine(h, Line("name", m), [p EXCEPT !.mac = m, !.field = 1])
    BY <1>7 DEF WriteName
  <2>2. pc = "running" /\ m \in Macs /\ p.stage = "device" /\ p.field = 0
    BY <1>2, <1>7, <2>1 DEF WriteName, WriteLine
  <2>3. /\ [p EXCEPT !.mac = m, !.field = 1] = Place("device", p.label, m, 1, p.line)
        /\ Place("device", p.label, m, 1, p.line) \in Places
        /\ Place("device", p.label, m, 1, p.line + 1) \in Places
    <3>1. [p EXCEPT !.mac = m, !.field = 1] = Place("device", p.label, m, 1, p.line)
      BY <1>1, <2>2, PlaceUpdates
    <3> QED BY <1>1, <2>2, <3>1 DEF Places, Place
  <2>4. at' = [at EXCEPT ![h] = Place("device", p.label, m, 1, p.line + 1)]
    BY <2>1, <2>3, WriteLineGoes DEF Place
  <2>5. Line("name", m) \in Written
    BY <2>2 DEF Written, Line
  <2>6. Moves(p, Place("device", p.label, m, 1, p.line + 1), Line("name", m))
    BY <2>1, <2>2 DEF Moves, Place
  <2>7. PlaceIn(groups, p)
            => Exact(groups, p, Place("device", p.label, m, 1, p.line + 1), Line("name", m))
    <3>1. PlaceIn(groups, p) => ~DeviceErased(h)
      BY <1>2, <2>2 DEF DeviceErased, PlaceIn, Members
    <3> QED BY <1>2, <2>1, <3>1 DEF Exact, Place, Line
  <2>8. Goes(Line("name", m), Place("device", p.label, m, 1, p.line + 1))
    BY <2>1, <2>2, <2>4, <2>6, <2>7 DEF WriteLine
  <2> QED BY <2>3, <2>5, <2>8
<1>8. CASE WriteAddress(h)
  <2> DEFINE line == Line("mac", p.mac)
             to == Place("device", p.label, p.mac, 2, p.line + 1)
  <2>1. /\ p.stage = "device" /\ p.field = 1 /\ pc = "running" /\ p.mac \in Macs
        /\ WriteLine(h, line, [p EXCEPT !.field = 2])
    BY <1>8 DEF WriteAddress, WriteLine, Proper
  <2>2. /\ [p EXCEPT !.field = 2] = Place("device", p.label, p.mac, 2, p.line)
        /\ Place("device", p.label, p.mac, 2, p.line) \in Places
        /\ to \in Places
    BY <1>1, <2>1 DEF Places, Place
  <2>3. at' = [at EXCEPT ![h] = to]
    BY <2>1, <2>2, WriteLineGoes DEF Place
  <2>4. line \in Written
    BY <2>1 DEF Written, Line
  <2>5. Moves(p, to, line) /\ Exact(groups, p, to, line)
    BY <2>1 DEF Moves, Exact, Line
  <2>6. Goes(line, to)
    BY <2>1, <2>3, <2>5 DEF WriteLine
  <2> QED BY <2>2, <2>4, <2>6
<1>9. CASE WriteNumber(h)
  <2> DEFINE i == p.field - 1
             next == IF i = Fields THEN 0 ELSE p.field + 1
             to == Place("device", p.label, p.mac, next, p.line + 1)
  <2>1. PICK v \in IF p.mac \in Devices(p.label) THEN {groups[p.label][p.mac][i]} ELSE had[p.mac][i] :
           WriteLine(h, Line("number", v), [p EXCEPT !.field = IF i = Fields THEN 0 ELSE @ + 1])
    BY <1>9 DEF WriteNumber, LastField
  <2>2. /\ p.stage = "device" /\ p.field > 1 /\ pc = "running" /\ p.mac \in Macs
        /\ i \in 1..Fields /\ next \in 0..(Fields + 1)
    BY <1>1, <1>9, <2>1 DEF WriteNumber, WriteLine, Proper
  <2>3. /\ [p EXCEPT !.field = IF i = Fields THEN 0 ELSE @ + 1]
              = Place("device", p.label, p.mac, next, p.line)
        /\ Place("device", p.label, p.mac, next, p.line) \in Places
        /\ to \in Places
    <3> HIDE DEF next
    <3>1. Place("device", p.label, p.mac, next, p.line) \in Places /\ to \in Places
      BY <1>1, <2>2 DEF Places, Place
    <3>2. [p EXCEPT !.field = IF i = Fields THEN 0 ELSE @ + 1] = [p EXCEPT !.field = next]
      BY DEF next
    <3>3. [p EXCEPT !.field = next] = Place("device", p.label, p.mac, next, p.line)
      BY <1>1, <2>2 DEF Places, Place
    <3> QED BY <3>1, <3>2, <3>3
  <2>4. at' = [at EXCEPT ![h] = to]
    <3> HIDE DEF next
    <3> QED BY <2>1, <2>3, WriteLineGoes DEF Place
  <2>5. v \in had[p.mac][i]
    <3>1. CASE p.mac \in Devices(p.label)
      <4>1. p.label \in DOMAIN groups /\ p.mac \in DOMAIN groups[p.label]
        BY <3>1 DEF Devices
      <4>2. Own(groups[p.label])
        BY <2>2, <4>1 DEF RunningInv
      <4> QED BY <2>1, <2>2, <3>1, <4>1, <4>2 DEF Own
    <3>2. CASE p.mac \notin Devices(p.label)
      BY <2>1, <3>2
    <3> QED BY <3>1, <3>2
  <2>6. Line("number", v) \in Written
    <3>1. v \in Nat
      <4>1. had[p.mac] \in [1..Fields -> SUBSET Nat]
        BY <2>2 DEF TypeOK
      <4>2. had[p.mac][i] \subseteq Nat
        BY <2>2, <4>1
      <4> QED BY <2>5, <4>2
    <3> QED BY <3>1 DEF Written, Line
  <2>7. Moves(p, to, Line("number", v))
    BY <2>2, <2>5 DEF Moves, Line
  <2>8. ASSUME PlaceIn(groups, p)
        PROVE  Exact(groups, p, to, Line("number", v))
    <3>1. p.mac \in Devices(p.label)
      BY <1>1, <2>2, <2>8 DEF PlaceIn, Devices
    <3> QED BY <2>1, <3>1 DEF Exact, Line
  <2>9. Goes(Line("number", v), to)
    <3> HIDE DEF next
    <3> QED BY <2>1, <2>2, <2>4, <2>7, <2>8 DEF WriteLine
  <2> QED BY <2>3, <2>6, <2>9
<1> QED BY <1>5, <1>6, <1>7, <1>8, <1>9 DEF Writes

LEMMA PutFacts ==
    ASSUME file \in Seq(Written \cup {Hole}), NEW i \in Nat \ {0}, NEW line \in Written
    PROVE  /\ Put(i, line) \in Seq(Written \cup {Hole})
           /\ Len(Put(i, line)) = (IF i > Len(file) THEN i ELSE Len(file))
           /\ Put(i, line)[i] = line
           /\ \A k \in 1..Len(file) : k # i => Put(i, line)[k] = file[k]
           /\ \A k \in (Len(file) + 1)..(i - 1) : Put(i, line)[k] = Hole
<1> DEFINE n == IF i > Len(file) THEN i ELSE Len(file)
           f == [k \in 1..n |-> IF k = i THEN line ELSE IF k <= Len(file) THEN file[k] ELSE Hole]
<1>1. Put(i, line) = f /\ n \in Nat /\ i \in 1..n /\ Len(file) \in Nat /\ Len(file) <= n
  BY DEF Put
<1>2. f \in [1..n -> Written \cup {Hole}]
  <2> HIDE DEF n
  <2> QED BY <1>1
<1>3. f \in Seq(Written \cup {Hole}) /\ Len(f) = n
  <2> HIDE DEF n, f
  <2> QED BY <1>1, <1>2
<1>4. /\ f[i] = line
      /\ \A k \in 1..Len(file) : k # i => f[k] = file[k]
      /\ \A k \in (Len(file) + 1)..(i - 1) : f[k] = Hole
  BY <1>1
<1> HIDE DEF f
<1> QED BY <1>1, <1>3, <1>4

\* A trail speaks of the state only by the numbers a device had.
LEMMA TrailKept ==
    ASSUME NEW trail, NEW lines, Trail(trail, lines),
           \A k \in DOMAIN lines : lines[k].kind = "number" =>
               lines[k].value \in had'[trail[k].mac][trail[k].field - 1]
    PROVE  Trail(trail, lines)'
<1>1. ASSUME NEW k \in DOMAIN lines
      PROVE  Moves(trail[k], trail[k + 1], lines[k])'
  <2>1. Moves(trail[k], trail[k + 1], lines[k])
    BY DEF Trail
  <2> QED BY <2>1 DEF Moves
<1>2. /\ \A k \in DOMAIN trail : Proper(trail[k])' /\ trail[k].line = k - 1
      /\ Triples(trail)'
  BY DEF Trail, Proper, Triples
<1> QED BY <1>1, <1>2 DEF Trail

LEMMA NumberMoves ==
    ASSUME NEW p, NEW q, NEW line, Moves(p, q, line), line.kind = "number"
    PROVE  p.stage = "device" /\ p.field > 1 /\ line.value \in had[p.mac][p.field - 1]
BY DEF Moves, Line

\* The stages of the actions of a handler that has opened the file.
LEMMA WritesActive ==
    ASSUME NEW h \in Handlers, Writes(h)
    PROVE  h \in Active /\ pc = "running"
<1>1. at[h].stage \in {"group", "size", "device"} /\ pc = "running"
  BY DEF Writes, WriteGroup, WriteSize, WriteName, WriteAddress, WriteNumber, WriteLine,
         GroupWritten
<1>2. Idle.stage = "idle"
  BY DEF Idle
<1> QED BY <1>1, <1>2 DEF Active

\* Wherever somebody writes, the file is followed.
LEMMA TrackedWhileRunning ==
    ASSUME Inv, pc = "running"
    PROVE  \E trail, lines : FileInv(trail, lines)
BY DEF Inv, RunningInv, Tracked

LEMMA ActiveProper ==
    ASSUME NEW trail, NEW lines, FileInv(trail, lines), TypeOK, NEW h \in Active
    PROVE  /\ at[h] \in Places /\ at[h].line \in Nat /\ at[h].line + 1 \in DOMAIN trail
           /\ at[h] = trail[at[h].line + 1] /\ Proper(at[h])
           /\ job.whole = FALSE
<1>1. h \in Handlers /\ at[h] \in Places /\ at[h].line \in Nat
  BY DEF Active, TypeOK, Places
<1>2. at[h].line < Len(trail) /\ at[h] = trail[at[h].line + 1]
  BY DEF FileInv, Writing
<1>3. Len(trail) \in Nat /\ DOMAIN trail = 1..Len(trail)
  BY DEF FileInv, Trail
<1>4. at[h].line + 1 \in DOMAIN trail
  BY <1>1, <1>2, <1>3
<1>5. Proper(at[h])
  BY <1>2, <1>4 DEF FileInv, Trail
<1>6. job.whole \in BOOLEAN
  BY DEF TypeOK
<1> QED BY <1>1, <1>2, <1>4, <1>5, <1>6 DEF FileInv, Writing

\* The line is the next of the trail, or it makes the trail longer.
LEMMA WritesTrail ==
    ASSUME TypeOK, RunningInv, NEW trail, NEW lines, FileInv(trail, lines),
           NEW h \in Handlers, Writes(h),
           NEW line \in Written, NEW to \in Places, Moves(at[h], to, line),
           PlaceIn(groups, at[h]) => Exact(groups, at[h], to, line)
    PROVE  \E T, L :
              /\ Trail(T, L) /\ (job.steady => ExactTrail(job.table, T, L))
              /\ \A k \in DOMAIN trail : k \in DOMAIN T /\ T[k] = trail[k]
              /\ \A k \in DOMAIN lines : k \in DOMAIN L /\ L[k] = lines[k]
              /\ at[h].line + 1 \in DOMAIN L
              /\ T[at[h].line + 2] = to /\ L[at[h].line + 1] = line
              /\ job.alone => Len(L) = at[h].line + 1
<1> DEFINE e == at[h].line + 1
           n == Len(trail)
<1>1. h \in Active /\ pc = "running"
  BY WritesActive
<1>2. /\ at[h].line \in Nat /\ e \in DOMAIN trail /\ at[h] = trail[e] /\ Proper(at[h])
  BY <1>1, ActiveProper
<1>3. /\ Trail(trail, lines) /\ trail \in Seq(Places) /\ lines \in Seq(Written)
      /\ n = Len(lines) + 1 /\ n \in Nat \ {0} /\ Len(lines) \in Nat
      /\ DOMAIN trail = 1..n /\ DOMAIN lines = 1..(n - 1)
  BY DEF FileInv, Trail
<1>4. job.alone => e = n
  BY <1>1, <1>2, <1>3 DEF FileInv, Writing
<1>5. job.steady => /\ groups = job.table /\ TableOK(job.table)
                    /\ ExactTrail(job.table, trail, lines)
                    /\ Exact(job.table, at[h], to, line)
  <2> SUFFICES ASSUME job.steady
               PROVE  /\ groups = job.table /\ TableOK(job.table)
                      /\ ExactTrail(job.table, trail, lines)
                      /\ Exact(job.table, at[h], to, line)
    OBVIOUS
  <2>1. /\ groups = job.table /\ TableOK(job.table)
        /\ ExactTrail(job.table, trail, lines)
    BY <1>1 DEF RunningInv, FileInv
  <2>2. PlaceIn(job.table, at[h])
    BY <1>2, <2>1 DEF ExactTrail
  <2> QED BY <2>1, <2>2
<1>6. CASE e = n
  <2> DEFINE T == Append(trail, to)
             L == Append(lines, line)
  <2>1. Trail(T, L)
    BY <1>2, <1>3, <1>6, ExtendTrail
  <2>2. job.steady => ExactTrail(job.table, T, L)
    BY <1>2, <1>3, <1>5, <1>6, ExtendExact
  <2>3. /\ T \in Seq(Places) /\ Len(T) = n + 1 /\ DOMAIN T = 1..(n + 1)
        /\ \A k \in 1..n : T[k] = trail[k]
        /\ T[n + 1] = to
    BY <1>3, AppendAt
  <2>4. /\ L \in Seq(Written) /\ Len(L) = n /\ DOMAIN L = 1..n
        /\ \A k \in 1..(n - 1) : L[k] = lines[k]
        /\ L[n] = line
    BY <1>3, AppendAt
  <2> HIDE DEF T, L
  <2>5. e = at[h].line + 1 /\ n + 1 = at[h].line + 2 /\ e \in 1..n
    BY <1>2, <1>3, <1>6
  <2>6. /\ \A k \in DOMAIN trail : k \in DOMAIN T /\ T[k] = trail[k]
        /\ \A k \in DOMAIN lines : k \in DOMAIN L /\ L[k] = lines[k]
    BY <1>3, <2>3, <2>4
  <2>7. e \in DOMAIN L /\ T[at[h].line + 2] = to /\ L[e] = line /\ Len(L) = e
    BY <1>6, <2>3, <2>4, <2>5
  <2> QED BY <2>1, <2>2, <2>6, <2>7
<1>7. CASE e # n
  <2>1. e \in DOMAIN lines /\ ~job.alone /\ e + 1 \in DOMAIN trail /\ e + 1 = at[h].line + 2
    BY <1>2, <1>3, <1>4, <1>7
  <2>2. job.steady
    BY <1>1, <2>1 DEF RunningInv
  <2>3. /\ Moves(trail[e], trail[e + 1], lines[e])
        /\ Exact(job.table, trail[e], trail[e + 1], lines[e])
        /\ lines[e] \in Written
    BY <1>3, <1>5, <2>1, <2>2 DEF Trail, ExactTrail
  <2>4. to = trail[e + 1] /\ line = lines[e]
    BY <1>2, <1>5, <2>2, <2>3, SameStep
  <2> QED BY <1>3, <1>5, <2>1, <2>4
<1> QED BY <1>6, <1>7

LEMMA WritesFile ==
    ASSUME Inv, NEW h \in Handlers, Writes(h)
    PROVE  TypeOK' /\ RunningInv' /\ \E trail, lines : FileInv(trail, lines)'
<1>1. h \in Active /\ pc = "running" /\ TypeOK /\ RunningInv
  BY WritesActive DEF Inv
<1>2. PICK trail, lines : FileInv(trail, lines)
  BY <1>1, TrackedWhileRunning
<1> DEFINE e == at[h].line + 1
<1>3. /\ at[h].line \in Nat /\ e \in DOMAIN trail /\ at[h] = trail[e] /\ Proper(at[h])
      /\ job.whole = FALSE /\ e \in Nat \ {0}
  <2>1. /\ at[h].line \in Nat /\ e \in DOMAIN trail /\ at[h] = trail[e] /\ Proper(at[h])
        /\ job.whole = FALSE
    BY <1>1, <1>2, ActiveProper
  <2> QED BY <2>1
<1>4. PICK line \in Written, to \in Places :
          /\ Moves(at[h], to, line)
          /\ PlaceIn(groups, at[h]) => Exact(groups, at[h], to, line)
          /\ file' = Put(e, line)
          /\ at' = [at EXCEPT ![h] = to]
          /\ UNCHANGED <<pc, groups, reader, changes, adding, job, had>>
  BY <1>1, <1>3, WritesMoves
<1>5. PICK T, L :
          /\ Trail(T, L) /\ (job.steady => ExactTrail(job.table, T, L))
          /\ \A k \in DOMAIN trail : k \in DOMAIN T /\ T[k] = trail[k]
          /\ \A k \in DOMAIN lines : k \in DOMAIN L /\ L[k] = lines[k]
          /\ e \in DOMAIN L
          /\ T[e + 1] = to /\ L[e] = line
          /\ job.alone => Len(L) = e
  <2>1. e + 1 = at[h].line + 2
    BY <1>3
  <2> QED BY <1>1, <1>2, <1>4, <2>1, WritesTrail
<1>6. file \in Seq(Written \cup {Hole}) /\ at \in [Handlers -> Places]
  BY <1>1 DEF TypeOK
<1>7. /\ file' \in Seq(Written \cup {Hole})
      /\ Len(file') = (IF e > Len(file) THEN e ELSE Len(file))
      /\ file'[e] = line
      /\ \A k \in 1..Len(file) : k # e => file'[k] = file[k]
      /\ \A k \in (Len(file) + 1)..(e - 1) : file'[k] = Hole
      /\ Len(file) \in Nat /\ Len(file') \in Nat
      /\ DOMAIN file = 1..Len(file) /\ DOMAIN file' = 1..Len(file')
  <2>1. Len(file) \in Nat /\ DOMAIN file = 1..Len(file)
    BY <1>6
  <2>2. /\ file' \in Seq(Written \cup {Hole})
        /\ Len(file') = (IF e > Len(file) THEN e ELSE Len(file))
        /\ file'[e] = line
        /\ \A k \in 1..Len(file) : k # e => file'[k] = file[k]
        /\ \A k \in (Len(file) + 1)..(e - 1) : file'[k] = Hole
    <3> HIDE DEF e
    <3> QED BY <1>3, <1>4, <1>6, PutFacts
  <2>3. Len(file') \in Nat /\ DOMAIN file' = 1..Len(file')
    BY <2>2
  <2> QED BY <2>1, <2>2, <2>3
<1>8. /\ to.stage # "idle" /\ to.line = e /\ at' \in [Handlers -> Places]
      /\ at'[h] = to /\ \A g \in Handlers : g # h => at'[g] = at[g]
  BY <1>3, <1>4, <1>6, MovesProper DEF Proper
<1>9. Active' = Active
  <2>1. to # Idle
    BY <1>8 DEF Idle
  <2> QED BY <1>1, <1>8, <2>1 DEF Active
<1>10. TypeOK'
  BY <1>1, <1>4, <1>7, <1>8 DEF TypeOK, HasDevices
<1>11. RunningInv'
  BY <1>1, <1>4, <1>9 DEF RunningInv, TableOK, Own, HasDevices
<1>12. Trail(T, L)'
  <2>1. \A k \in DOMAIN L : L[k].kind = "number" => L[k].value \in had[T[k].mac][T[k].field - 1]
    BY <1>5, NumberMoves DEF Trail
  <2> QED BY <1>4, <1>5, <2>1, TrailKept
<1>13. /\ DOMAIN trail = 1..Len(trail) /\ Len(trail) \in Nat /\ DOMAIN T = 1..Len(T)
       /\ Len(T) \in Nat /\ DOMAIN L = 1..Len(L) /\ Len(L) \in Nat /\ Len(T) = Len(L) + 1
       /\ DOMAIN lines = 1..Len(lines) /\ Len(lines) \in Nat /\ L \in Seq(Written)
       /\ Len(trail) = Len(lines) + 1
  BY <1>2, <1>5 DEF FileInv, Trail
<1>14. Writing(trail, lines)
  BY <1>2 DEF FileInv
<1>15. Len(file') <= Len(L) /\ Len(trail) <= Len(T) /\ Len(lines) <= Len(L)
  <2>1. Len(file) <= Len(lines)
    BY <1>14 DEF Writing
  <2>2. Len(trail) <= Len(T) /\ Len(lines) <= Len(L)
    BY <1>5, <1>13
  <2>3. e <= Len(L)
    BY <1>5, <1>13
  <2> QED BY <1>7, <1>13, <2>1, <2>2, <2>3
<1>16. ASSUME NEW k \in DOMAIN file'
       PROVE  file'[k] \in {Hole, L[k]}
  <2>1. CASE k = e
    BY <1>5, <1>7, <2>1
  <2>2. CASE k # e /\ k <= Len(file)
    <3>1. file'[k] = file[k] /\ k \in DOMAIN file
      BY <1>7, <2>2
    <3>2. file[k] \in {Hole, lines[k]} /\ k \in DOMAIN lines
      BY <1>13, <1>14, <3>1, <1>7 DEF Writing
    <3> QED BY <1>5, <3>1, <3>2
  <2>3. CASE k # e /\ k > Len(file)
    BY <1>7, <2>3
  <2> QED BY <1>7, <2>1, <2>2, <2>3
<1>17. ASSUME job.alone
       PROVE  /\ file' = L /\ Active \subseteq {job.by}
              /\ at'[job.by].line = Len(file')
  <2>1. /\ file = lines /\ Active \subseteq {job.by} /\ h = job.by /\ at[h].line = Len(file)
    BY <1>1, <1>14, <1>17 DEF Writing
  <2>2. Len(file') = e /\ Len(L) = e /\ Len(file) = e - 1
    BY <1>3, <1>5, <1>7, <1>17, <2>1
  <2>3. \A k \in 1..Len(L) : file'[k] = L[k]
    BY <1>5, <1>7, <1>13, <2>1, <2>2
  <2>4. file' = L
    <3>1. L \in Seq(Written \cup {Hole}) /\ file' \in Seq(Written \cup {Hole})
      BY <1>7, <1>13, SeqMonotonic
    <3> QED BY <1>7, <1>13, <2>2, <2>3, <3>1, SeqEqual
  <2> QED BY <1>8, <2>1, <2>2, <2>4
<1>18. ASSUME NEW g \in Active
       PROVE  at'[g].line < Len(T) /\ at'[g] = T[at'[g].line + 1]
  <2>1. CASE g = h
    BY <1>5, <1>8, <1>13, <2>1
  <2>2. CASE g # h
    <3>1. at'[g] = at[g] /\ at[g].line \in Nat /\ at[g].line + 1 \in DOMAIN trail /\ at[g] = trail[at[g].line + 1]
      BY <1>1, <1>2, <1>8, <2>2, ActiveProper DEF Active
    <3>2. at[g] = T[at[g].line + 1] /\ at[g].line + 1 \in DOMAIN T
      BY <1>5, <3>1
    <3> QED BY <1>13, <3>1, <3>2
  <2> QED BY <2>1, <2>2
<1>19. /\ job.by \in Active /\ at'[job.by].line <= Len(file')
       /\ \A k \in 1..at'[job.by].line : file'[k] = L[k]
  <2>1. /\ job.by \in Active /\ job.by \in Handlers /\ at[job.by].line <= Len(file)
        /\ at[job.by].line \in Nat
        /\ \A k \in 1..at[job.by].line : file[k] = lines[k]
    BY <1>1, <1>2, <1>14, ActiveProper DEF Writing, Active
  <2>2. \A k \in 1..at[job.by].line : file'[k] = L[k]
    <3> TAKE k \in 1..at[job.by].line
    <3>1. k \in 1..Len(file) /\ k \in DOMAIN lines /\ file[k] = lines[k]
      BY <1>7, <1>13, <1>14, <2>1 DEF Writing
    <3>2. L[k] = lines[k]
      BY <1>5, <3>1
    <3>3. CASE k = e
      BY <1>5, <1>7, <3>3
    <3>4. CASE k # e
      BY <1>7, <3>1, <3>2, <3>4
    <3> QED BY <3>3, <3>4
  <2>3. CASE job.by = h
    <3>1. at'[job.by].line = e /\ e <= Len(file')
      BY <1>3, <1>7, <1>8, <2>3
    <3>2. \A k \in 1..e : k = e \/ k \in 1..at[job.by].line
      BY <1>3, <2>3
    <3> QED BY <1>5, <1>7, <2>1, <2>2, <3>1, <3>2
  <2>4. CASE job.by # h
    BY <1>3, <1>7, <1>8, <2>1, <2>2, <2>4
  <2> QED BY <2>1, <2>3, <2>4
<1>20. Writing(T, L)'
  BY <1>1, <1>3, <1>4, <1>9, <1>15, <1>16, <1>17, <1>18, <1>19 DEF Writing
<1>21. FileInv(T, L)'
  <2>1. job.steady => ExactTrail(job.table, T, L)
    BY <1>5
  <2> QED BY <1>1, <1>3, <1>4, <1>12, <1>20, <2>1 DEF FileInv, ExactTrail, Exact, PlaceIn,
             Members, Rest, Exhausted
<1> QED BY <1>10, <1>11, <1>21

------------------------------------------------------------------------------
(* The other steps of a handler, and the end of the process                *)

LEMMA FreshTrail ==
    /\ Trail(<<Opened>>, <<>>)
    /\ \A t : ExactTrail(t, <<Opened>>, <<>>)
<1> DEFINE T == <<Opened>>
<1>1. /\ T \in Seq(Places) /\ Len(T) = 1 /\ T[1] = Opened /\ DOMAIN T = 1..1
      /\ <<>> \in Seq(Written) /\ Len(<<>>) = 0 /\ DOMAIN <<>> = {}
  BY OpenedIsProper DEF Proper
<1> HIDE DEF T
<1>2. Triples(T)
  BY <1>1, OpenedIsProper DEF Triples
<1>3. \A t : PlaceIn(t, Opened)
  BY DEF PlaceIn, Opened
<1> QED BY <1>1, <1>2, <1>3, OpenedIsProper DEF Trail, ExactTrail, T

LEMMA OpenCacheKeeps ==
    ASSUME Inv, NEW h \in Handlers, OpenCache(h)
    PROVE  TypeOK' /\ RunningInv' /\ \E trail, lines : FileInv(trail, lines)'
<1>1. /\ pc = "running" /\ pc' = "running" /\ at[h] = Idle /\ file' = <<>>
      /\ Active = {} \/ job.steady
      /\ at' = [at EXCEPT ![h] = Opened]
      /\ job' = [table |-> groups, steady |-> TRUE, alone |-> Active = {},
                 whole |-> FALSE, by |-> h]
      /\ UNCHANGED <<pc, groups, reader, changes, adding, had>>
      /\ TypeOK /\ RunningInv
  BY DEF OpenCache, Inv, Truncated
<1>2. /\ Opened \in Places /\ Opened # Idle /\ Opened.line = 0
  BY OpenedIsProper DEF Proper, Opened, Idle
<1>3. /\ at' \in [Handlers -> Places] /\ at'[h] = Opened
      /\ \A g \in Handlers : g # h => at'[g] = at[g]
      /\ Active' = Active \cup {h} /\ h \notin Active
  BY <1>1, <1>2 DEF TypeOK, Active
<1>4. TypeOK'
  <2>1. job' \in [table : {job'.table}, steady : BOOLEAN, alone : BOOLEAN,
                  whole : BOOLEAN, by : Handlers \cup {None}]
    BY <1>1
  <2>2. file' \in Seq(Written \cup {Hole})
    BY <1>1
  <2> QED BY <1>1, <1>3, <2>1, <2>2 DEF TypeOK, HasDevices
<1>5. RunningInv'
  <2>1. TableOK(groups) /\ \A l \in DOMAIN groups : Own(groups[l])
    BY <1>1 DEF RunningInv
  <2>2. TableOK(groups)' /\ (\A l \in DOMAIN groups : Own(groups[l]))' /\ TableOK(job'.table)
    BY <1>1, <2>1 DEF TableOK, HasDevices, Own
  <2>3. Active # {} => \E f, g \in Active' : f # g
    BY <1>3
  <2>4. job'.alone <=> Active = {}
    BY <1>1
  <2>5. job'.steady /\ job'.table = groups' /\ pc' = "running" /\ TableOK(job.table)'
    BY <1>1, <2>2 DEF TableOK, HasDevices
  <2> QED BY <2>2, <2>3, <2>4, <2>5 DEF RunningInv
<1>6. Len(file') = 0 /\ DOMAIN file' = {}
  BY <1>1
<1>7. CASE Active = {}
  <2> DEFINE T == <<Opened>>
  <2>1. Len(T) = 1 /\ T[1] = Opened
    OBVIOUS
  <2>2. Trail(T, <<>>) /\ ExactTrail(groups, T, <<>>)
    BY FreshTrail
  <2> HIDE DEF T
  <2>3. Trail(T, <<>>)'
    BY <2>2, TrailKept
  <2>4. Writing(T, <<>>)'
    BY <1>1, <1>2, <1>3, <1>6, <1>7, <2>1 DEF Writing
  <2>5. ExactTrail(groups, T, <<>>)' /\ job'.table = groups'
    BY <1>1, <2>2 DEF ExactTrail, Exact, PlaceIn, Members, Rest, Exhausted
  <2>6. FileInv(T, <<>>)'
    BY <1>1, <2>3, <2>4, <2>5 DEF FileInv
  <2> QED BY <1>4, <1>5, <2>6
<1>8. CASE Active # {}
  <2>1. PICK trail, lines : FileInv(trail, lines)
    BY <1>1, TrackedWhileRunning
  <2>2. /\ Trail(trail, lines) /\ Writing(trail, lines) /\ job.steady
        /\ ExactTrail(job.table, trail, lines) /\ groups = job.table
    BY <1>1, <1>8, <2>1 DEF FileInv, RunningInv
  <2>3. Trail(trail, lines)'
    <3>1. \A k \in DOMAIN lines : lines[k].kind = "number" =>
              lines[k].value \in had[trail[k].mac][trail[k].field - 1]
      BY <2>2, NumberMoves DEF Trail
    <3> QED BY <1>1, <2>2, <3>1, TrailKept
  <2>4. /\ Len(trail) \in Nat /\ Len(lines) \in Nat /\ Len(trail) = Len(lines) + 1
        /\ trail[1] = Opened
    BY <2>2 DEF Trail
  <2>5. \A g \in Active' : at'[g].line < Len(trail) /\ at'[g] = trail[at'[g].line + 1]
    <3> TAKE g \in Active'
    <3>1. CASE g = h
      BY <1>2, <1>3, <2>4, <3>1
    <3>2. CASE g # h
      <4>1. g \in Active /\ g \in Handlers /\ at'[g] = at[g]
        BY <1>3, <3>2 DEF Active
      <4> QED BY <2>2, <4>1 DEF Writing
    <3> QED BY <3>1, <3>2
  <2>6. Writing(trail, lines)'
    <3>1. /\ ~job'.alone /\ ~job'.whole /\ job'.by = h /\ h \in Active' /\ at'[h].line = 0
      BY <1>1, <1>2, <1>3, <1>8
    <3>2. 1..at'[h].line = {} /\ at'[h].line <= Len(file') /\ Len(file') <= Len(lines)
      BY <1>6, <2>4, <3>1
    <3>3. pc' = "running"
      BY <1>1
    <3> QED BY <1>6, <2>5, <3>1, <3>2, <3>3 DEF Writing
  <2>7. ExactTrail(job'.table, trail, lines)
    BY <1>1, <2>2
  <2>8. FileInv(trail, lines)'
    BY <1>1, <2>3, <2>6, <2>7 DEF FileInv, ExactTrail, Exact, PlaceIn, Members, Rest, Exhausted
  <2> QED BY <1>4, <1>5, <2>8
<1> QED BY <1>7, <1>8

\* Where the iteration is over nothing more can be written.
LEMMA NothingFollows ==
    ASSUME NEW t, NEW p, NEW q, NEW line, Moves(p, q, line), Exact(t, p, q, line),
           TableOK(t), Proper(p), Exhausted(t, p), Rest(t, p.label) = {}
    PROVE  FALSE
<1>1. p.stage # "size" /\ p.field = 0
  BY DEF Exhausted
<1>2. line.kind # "label"
  BY DEF Exact
<1>3. line.kind = "name" /\ p.stage = "device" /\ q.mac > p.mac /\ q.mac \in Macs
  BY <1>1, <1>2 DEF Moves, Line
<1>4. q.mac \in Members(t, p.label) /\ q.mac <= p.mac
  BY <1>3 DEF Exact, Exhausted
<1>5. p.mac \in Int /\ q.mac \in Int
  BY <1>3, CacheAssumption DEF Proper, None
<1> QED BY <1>3, <1>4, <1>5

LEMMA EmptyTable ==
    /\ DOMAIN <<>> = {} /\ <<>> = [l \in DOMAIN <<>> |-> <<>>[l]]
    /\ HasDevices(<<>>) /\ Own(<<>>)
<1>1. DOMAIN <<>> = {}
  OBVIOUS
<1>2. <<>> = [l \in {} |-> <<>>[l]]
  OBVIOUS
<1>3. <<>> \in [{} -> [1..Fields -> Nat]]
  BY <1>2
<1> QED BY <1>1, <1>2, <1>3 DEF HasDevices, Own

LEMMA NobodyActive ==
    ASSUME at' = Nobody
    PROVE  Active' = {} /\ at' \in [Handlers -> Places]
<1>1. Idle \in Places
  BY CacheAssumption DEF Idle, Places
<1> QED BY <1>1 DEF Nobody, Active

LEMMA ExitKeeps ==
    ASSUME Inv, NEW h \in Handlers, Exit(h)
    PROVE  TypeOK' /\ RunningInv' /\ (Tracked' => \E trail, lines : FileInv(trail, lines)')
<1>1. /\ pc = "running" /\ pc' = "ended" /\ groups' = <<>> /\ at' = Nobody
      /\ GroupWritten(h) /\ (GroupErased(h) \/ Following(h) = {}) /\ adding' = {}
      /\ job' = [job EXCEPT !.whole = (h = job.by)]
      /\ UNCHANGED <<file, reader, changes, had>>
      /\ TypeOK /\ RunningInv
  BY DEF Exit, Inv
<1>2. h \in Active /\ h \in Handlers
  BY <1>1 DEF GroupWritten, Active, Idle
<1>3. /\ job' \in [table : {job'.table}, steady : BOOLEAN, alone : BOOLEAN,
                   whole : BOOLEAN, by : Handlers \cup {None}]
      /\ job'.table = job.table /\ job'.steady = job.steady /\ job'.alone = job.alone
      /\ job'.whole = (h = job.by) /\ job'.by = job.by
  BY <1>1 DEF TypeOK
<1>4. Active' = {} /\ at' \in [Handlers -> Places]
  BY <1>1, NobodyActive
<1>5. TypeOK'
  BY <1>1, <1>3, <1>4, EmptyTable DEF TypeOK, HasDevices
<1>6. RunningInv'
  BY <1>1, <1>3, <1>4 DEF RunningInv, TableOK, HasDevices
<1>7. PICK trail, lines : FileInv(trail, lines)
  BY <1>1, TrackedWhileRunning
<1>8. /\ Trail(trail, lines) /\ Writing(trail, lines)
      /\ trail \in Seq(Places) /\ lines \in Seq(Written) /\ file \in Seq(Written \cup {Hole})
      /\ Len(trail) = Len(lines) + 1 /\ Len(trail) \in Nat /\ Len(lines) \in Nat
      /\ Len(file) \in Nat /\ Len(file) <= Len(lines)
      /\ DOMAIN trail = 1..Len(trail) /\ DOMAIN lines = 1..Len(lines)
      /\ \A k \in DOMAIN trail : Proper(trail[k])
  BY <1>1, <1>7 DEF FileInv, Trail, Writing, TypeOK
<1>9. /\ at[h].line \in Nat /\ at[h].line + 1 \in DOMAIN trail
      /\ at[h] = trail[at[h].line + 1] /\ Proper(at[h])
  BY <1>1, <1>2, <1>7, ActiveProper
<1>10. job.steady => /\ groups = job.table /\ TableOK(job.table)
                     /\ ExactTrail(job.table, trail, lines)
                     /\ Exhausted(job.table, at[h]) /\ Rest(job.table, at[h].label) = {}
  <2> SUFFICES ASSUME job.steady
               PROVE  /\ groups = job.table /\ TableOK(job.table)
                      /\ ExactTrail(job.table, trail, lines)
                      /\ Exhausted(groups, at[h]) /\ Rest(groups, at[h].label) = {}
    OBVIOUS
  <2>1. /\ groups = job.table /\ TableOK(job.table)
        /\ ExactTrail(job.table, trail, lines)
    BY <1>1, <1>2, <1>7 DEF RunningInv, FileInv
  <2>2. PlaceIn(groups, at[h])
    BY <1>9, <2>1 DEF ExactTrail
  <2>3. ~GroupErased(h)
    BY <1>9, <2>2 DEF GroupErased, PlaceIn, Proper, Opened
  <2>4. at[h].stage = "device" => ~DeviceErased(h)
    BY <2>2 DEF DeviceErased, PlaceIn, Devices
  <2>5. Exhausted(groups, at[h])
    BY <1>1, <1>9, <2>4 DEF GroupWritten, Exhausted, Devices, Members, Proper, Opened
  <2>6. Rest(groups, at[h].label) = {}
    BY <1>1, <2>3 DEF Following, Rest
  <2> QED BY <2>1, <2>5, <2>6
<1>11. ASSUME Tracked'
       PROVE  file = lines /\ at[h].line = Len(lines)
  <2>1. CASE job.alone
    BY <1>2, <1>8, <2>1 DEF Writing
  <2>2. CASE ~job.alone
    <3>1. job.steady /\ h = job.by
      BY <1>1, <1>3, <1>11, <2>2 DEF Tracked
    <3>2. at[h].line <= Len(file) /\ \A k \in 1..at[h].line : file[k] = lines[k]
      BY <1>2, <1>8, <3>1 DEF Writing
    <3>3. at[h].line = Len(lines)
      <4> SUFFICES ASSUME at[h].line # Len(lines) PROVE FALSE
        OBVIOUS
      <4> DEFINE k == at[h].line + 1
      <4>1. k \in DOMAIN lines /\ at[h] = trail[k] /\ k \in DOMAIN trail
        BY <1>8, <1>9, <3>2
      <4>2. Moves(trail[k], trail[k + 1], lines[k])
        BY <1>8, <4>1 DEF Trail
      <4>3. Exact(job.table, trail[k], trail[k + 1], lines[k])
        BY <1>10, <3>1, <4>1 DEF ExactTrail
      <4> HIDE DEF k
      <4> QED BY <1>9, <1>10, <3>1, <4>1, <4>2, <4>3, NothingFollows
    <3>4. Len(file) = Len(lines) /\ \A k \in 1..Len(file) : file[k] = lines[k]
      BY <1>8, <1>9, <3>2, <3>3
    <3>5. lines \in Seq(Written \cup {Hole})
      BY <1>8, SeqMonotonic
    <3> QED BY <1>8, <3>3, <3>4, <3>5, SeqEqual
  <2> QED BY <2>1, <2>2
<1>12. Trail(trail, lines)'
  <2>1. \A k \in DOMAIN lines : lines[k].kind = "number" =>
            lines[k].value \in had[trail[k].mac][trail[k].field - 1]
    BY <1>8, NumberMoves DEF Trail
  <2> QED BY <1>1, <1>8, <2>1, TrailKept
<1>13. ASSUME Tracked' PROVE FileInv(trail, lines)'
  <2>1. file' = lines /\ trail[Len(trail)] = at[h]
    BY <1>1, <1>8, <1>9, <1>11, <1>13
  <2>2. \A k \in DOMAIN lines : file'[k] \in {Hole, lines[k]}
    BY <2>1
  <2>3. Writing(trail, lines)'
    BY <1>3, <1>4, <1>8, <1>10, <2>1, <2>2 DEF Writing, Exhausted, Rest, Members
  <2>4. (job.steady => ExactTrail(job.table, trail, lines))'
    BY <1>3, <1>10 DEF ExactTrail, Exact, PlaceIn, Members, Rest, Exhausted
  <2> QED BY <1>1, <1>12, <2>3, <2>4 DEF FileInv
<1> QED BY <1>5, <1>6, <1>13

LEMMA TrailUnchanged ==
    ASSUME NEW trail, NEW lines, Trail(trail, lines), had' = had
    PROVE  Trail(trail, lines)'
<1>1. \A k \in DOMAIN lines : lines[k].kind = "number" =>
          lines[k].value \in had[trail[k].mac][trail[k].field - 1]
  BY NumberMoves DEF Trail
<1> QED BY <1>1, TrailKept

LEMMA KilledKeeps ==
    ASSUME Inv, Killed
    PROVE  TypeOK' /\ RunningInv' /\ (Tracked' => \E trail, lines : FileInv(trail, lines)')
<1>1. /\ pc' = "ended" /\ groups' = <<>> /\ at' = Nobody
      /\ adding' = {} /\ UNCHANGED <<file, reader, changes, job, had>>
      /\ TypeOK /\ RunningInv
  BY DEF Killed, Inv
<1>2. Active' = {} /\ at' \in [Handlers -> Places]
  BY <1>1, NobodyActive
<1>3. TypeOK'
  BY <1>1, <1>2, EmptyTable DEF TypeOK, HasDevices
<1>4. RunningInv'
  BY <1>1, <1>2 DEF RunningInv, TableOK, HasDevices
<1>5. ASSUME Tracked'
      PROVE  \E trail, lines : FileInv(trail, lines)'
  <2>1. PICK trail, lines : FileInv(trail, lines)
    BY <1>1, <1>5 DEF Tracked, Inv
  <2>2. Trail(trail, lines)'
    BY <1>1, <2>1, TrailUnchanged DEF FileInv
  <2>3. Writing(trail, lines)'
    BY <1>1, <1>2, <2>1 DEF FileInv, Writing, Exhausted, Rest, Members
  <2>4. (job.steady => ExactTrail(job.table, trail, lines))'
    BY <1>1, <2>1 DEF FileInv, ExactTrail, Exact, PlaceIn, Members, Rest, Exhausted
  <2> QED BY <1>1, <2>2, <2>3, <2>4 DEF FileInv
<1> QED BY <1>3, <1>4, <1>5

------------------------------------------------------------------------------
(* The other threads                                                       *)

LEMMA TableStep ==
    ASSUME Inv, TableChanges, changes' \in 0..MaxChanges, adding' \subseteq Labels \X Macs,
           TableOK(groups)', (\A l \in DOMAIN groups : Own(groups[l]))',
           had' \in [Macs -> [1..Fields -> SUBSET Nat]],
           \A m \in Macs, i \in 1..Fields : had[m][i] \subseteq had'[m][i]
    PROVE  TypeOK' /\ RunningInv' /\ \E trail, lines : FileInv(trail, lines)'
<1>1. /\ pc = "running"
      /\ \A h, g \in Active : h = g
      /\ job' = [job EXCEPT !.steady = @ /\ Active = {}]
      /\ UNCHANGED <<pc, file, at, reader>>
      /\ TypeOK /\ RunningInv
  BY DEF TableChanges, Inv
<1>2. job.alone
  BY <1>1 DEF RunningInv
<1>3. /\ job' \in [table : {job'.table}, steady : BOOLEAN, alone : BOOLEAN,
                   whole : BOOLEAN, by : Handlers \cup {None}]
      /\ job'.table = job.table /\ job'.steady = (job.steady /\ Active = {})
      /\ job'.alone = job.alone /\ job'.whole = job.whole /\ job'.by = job.by
  <2>1. job.steady \in BOOLEAN /\ (job.steady /\ Active = {}) \in BOOLEAN
    BY <1>1 DEF TypeOK
  <2> QED BY <1>1, <2>1 DEF TypeOK
<1>4. Active' = Active
  BY <1>1 DEF Active
<1>6. TypeOK'
  BY <1>1, <1>3 DEF TypeOK, TableOK, HasDevices
<1>7. RunningInv'
  BY <1>1, <1>2, <1>3, <1>4 DEF RunningInv, TableOK, HasDevices
<1>8. PICK trail, lines : FileInv(trail, lines)
  BY <1>1, TrackedWhileRunning
<1>9. Trail(trail, lines)'
  <2>1. Trail(trail, lines)
    BY <1>8 DEF FileInv
  <2>2. ASSUME NEW k \in DOMAIN lines, lines[k].kind = "number"
        PROVE  lines[k].value \in had'[trail[k].mac][trail[k].field - 1]
    <3>1. /\ trail[k].field > 1 /\ lines[k].value \in had[trail[k].mac][trail[k].field - 1]
      BY <2>1, <2>2, NumberMoves DEF Trail
    <3>2. Proper(trail[k])
      BY <2>1 DEF Trail
    <3>3. trail[k].mac \in Macs /\ trail[k].field - 1 \in 1..Fields
      BY <3>1, <3>2, CacheAssumption DEF Proper, Places
    <3> QED BY <3>1, <3>3
  <2> QED BY <2>1, <2>2, TrailKept
<1>10. Writing(trail, lines)'
  <2>1. Writing(trail, lines)
    BY <1>8 DEF FileInv
  <2> QED BY <1>1, <1>3, <1>4, <2>1 DEF Writing, Exhausted, Rest, Members
<1>11. (job.steady => ExactTrail(job.table, trail, lines))'
  BY <1>3, <1>8 DEF FileInv, ExactTrail, Exact, PlaceIn, Members, Rest, Exhausted
<1>12. FileInv(trail, lines)'
  BY <1>1, <1>9, <1>10, <1>11 DEF FileInv
<1> QED BY <1>6, <1>7, <1>12

\* The numbers a device has, and one more state of it.
LEMMA HadGrows ==
    ASSUME TypeOK, NEW m \in Macs, NEW st \in States, had' = Had(m, st)
    PROVE  /\ had' \in [Macs -> [1..Fields -> SUBSET Nat]]
           /\ \A d \in Macs, i \in 1..Fields : had[d][i] \subseteq had'[d][i]
           /\ \A i \in 1..Fields : st[i] \in had'[m][i]
           /\ st \in [1..Fields -> Nat]
<1>1. st \in [1..Fields -> Nat] /\ had \in [Macs -> [1..Fields -> SUBSET Nat]]
  BY CacheAssumption DEF TypeOK
<1> DEFINE new == [i \in 1..Fields |-> had[m][i] \cup {st[i]}]
<1>2. had' = [had EXCEPT ![m] = new]
  BY DEF Had
<1>3. new \in [1..Fields -> SUBSET Nat]
  BY <1>1
<1>4. \A i \in 1..Fields : new[i] = had[m][i] \cup {st[i]}
  OBVIOUS
<1> HIDE DEF new
<1>5. had' \in [Macs -> [1..Fields -> SUBSET Nat]] /\ had'[m] = new
  BY <1>1, <1>2, <1>3
<1>6. \A d \in Macs : d # m => had'[d] = had[d]
  BY <1>1, <1>2
<1> QED BY <1>1, <1>4, <1>5, <1>6

\* A change that is let to begin is counted.
LEMMA ChangeCounted ==
    ASSUME Inv, ChangeBegins
    PROVE  /\ TableChanges /\ changes' \in 0..MaxChanges
           /\ TypeOK /\ RunningInv /\ pc = "running"
BY CacheAssumption DEF ChangeBegins, TableChanges, Inv, TypeOK

LEMMA AddGroupDeviceKeeps ==
    ASSUME Inv, NEW l \in Labels, NEW m \in Macs, AddGroupDevice(l, m)
    PROVE  TypeOK' /\ RunningInv' /\ \E trail, lines : FileInv(trail, lines)'
<1>1. /\ TableChanges /\ changes' \in 0..MaxChanges
      /\ TypeOK /\ RunningInv /\ pc = "running"
      /\ had' = had /\ adding' = {<<l, m>>}
      /\ \A k \in DOMAIN groups : Own(groups[k])
      /\ TableOK(groups)
  BY ChangeCounted DEF AddGroupDevice, RunningInv
<1>2. had' \in [Macs -> [1..Fields -> SUBSET Nat]]
  BY <1>1 DEF TypeOK
<1>3. adding' \subseteq Labels \X Macs
  BY <1>1
<1> DEFINE old(k) == [d \in Devices(k) \ {m} |-> groups[k][d]]
<1>4. groups' = [k \in DOMAIN groups \cup {l} |-> old(k)]
  BY DEF AddGroupDevice
<1>5. ASSUME NEW k, NEW d \in Devices(k)
      PROVE  /\ d \in Macs /\ groups[k][d] \in [1..Fields -> Nat]
             /\ \A i \in 1..Fields : groups[k][d][i] \in had'[d][i]
  <2>1. k \in DOMAIN groups /\ d \in DOMAIN groups[k]
    BY <1>5 DEF Devices
  <2>2. d \in Macs /\ HasDevices(groups[k]) /\ Own(groups[k])
    BY <1>1, <2>1 DEF TableOK
  <2>3. groups[k][d] \in [1..Fields -> Nat]
    BY <2>1, <2>2 DEF HasDevices
  <2>4. \A i \in 1..Fields : groups[k][d][i] \in had[d][i]
    BY <2>1, <2>2 DEF Own
  <2> QED BY <1>1, <2>2, <2>3, <2>4
<1>6. ASSUME NEW k
      PROVE  /\ HasDevices(old(k)) /\ DOMAIN old(k) \subseteq Macs
             /\ \A d \in DOMAIN old(k), i \in 1..Fields : old(k)[d][i] \in had'[d][i]
  <2>1. DOMAIN old(k) = Devices(k) \ {m}
    OBVIOUS
  <2>2. \A d \in DOMAIN old(k) : old(k)[d] = groups[k][d]
    OBVIOUS
  <2>3. old(k) = [d \in DOMAIN old(k) |-> old(k)[d]]
    OBVIOUS
  <2> HIDE DEF old
  <2>4. \A d \in DOMAIN old(k) : /\ d \in Macs /\ old(k)[d] \in [1..Fields -> Nat]
                                 /\ \A i \in 1..Fields : old(k)[d][i] \in had'[d][i]
    BY <1>5, <2>1, <2>2
  <2> QED BY <2>3, <2>4 DEF HasDevices
<1> HIDE DEF old
<1>7. /\ DOMAIN groups' \subseteq Labels /\ groups' = [k \in DOMAIN groups' |-> groups'[k]]
      /\ \A k \in DOMAIN groups' : groups'[k] = old(k)
  BY <1>1, <1>4 DEF TableOK
<1>8. \A k \in DOMAIN groups' :
         HasDevices(groups'[k]) /\ DOMAIN groups'[k] \subseteq Macs /\ Own(groups[k])'
  BY <1>6, <1>7 DEF Own
<1>9. TableOK(groups)' /\ (\A k \in DOMAIN groups : Own(groups[k]))'
  BY <1>7, <1>8 DEF TableOK, HasDevices
<1> QED BY <1>1, <1>2, <1>3, <1>9, TableStep

LEMMA AddNewDeviceKeeps ==
    ASSUME Inv, NEW l \in DOMAIN groups, NEW m \in Macs, AddNewDevice(l, m)
    PROVE  TypeOK' /\ RunningInv' /\ \E trail, lines : FileInv(trail, lines)'
<1>1. /\ TableChanges /\ changes' = changes /\ adding' = {}
      /\ TypeOK /\ RunningInv /\ pc = "running"
      /\ had' = Had(m, Zero) /\ Zero \in States
      /\ \A k \in DOMAIN groups : Own(groups[k])
      /\ TableOK(groups)
  BY CacheAssumption DEF AddNewDevice, TableChanges, Inv, RunningInv
<1>2. /\ had' \in [Macs -> [1..Fields -> SUBSET Nat]]
      /\ \A d \in Macs, i \in 1..Fields : had[d][i] \subseteq had'[d][i]
      /\ \A i \in 1..Fields : Zero[i] \in had'[m][i]
      /\ Zero \in [1..Fields -> Nat]
  BY <1>1, HadGrows
<1> DEFINE new == [d \in DOMAIN groups[l] \cup {m} |-> IF d = m THEN Zero ELSE groups[l][d]]
<1>3. /\ DOMAIN groups' = DOMAIN groups /\ groups'[l] = new
      /\ \A k \in DOMAIN groups : k # l => groups'[k] = groups[k]
      /\ groups' = [k \in DOMAIN groups' |-> groups'[k]]
  BY <1>1 DEF TableOK, AddNewDevice
<1>4. /\ groups[l] \in [DOMAIN groups[l] -> [1..Fields -> Nat]]
      /\ DOMAIN groups[l] \subseteq Macs /\ Own(groups[l])
  BY <1>1 DEF TableOK, HasDevices
<1>5. /\ DOMAIN new = DOMAIN groups[l] \cup {m} /\ new = [d \in DOMAIN new |-> new[d]]
      /\ \A d \in DOMAIN new : new[d] = IF d = m THEN Zero ELSE groups[l][d]
  OBVIOUS
<1> HIDE DEF new
<1>6. \A d \in DOMAIN new : /\ d \in Macs /\ new[d] \in [1..Fields -> Nat]
                            /\ \A i \in 1..Fields : new[d][i] \in had'[d][i]
  BY <1>2, <1>4, <1>5 DEF Own
<1>7. HasDevices(new) /\ DOMAIN new \subseteq Macs
  BY <1>5, <1>6 DEF HasDevices
<1>8. \A k \in DOMAIN groups' :
         HasDevices(groups'[k]) /\ DOMAIN groups'[k] \subseteq Macs /\ Own(groups[k])'
  <2> TAKE k \in DOMAIN groups'
  <2>1. CASE k = l
    BY <1>3, <1>6, <1>7, <2>1 DEF Own
  <2>2. CASE k # l
    <3>1. k \in DOMAIN groups /\ groups'[k] = groups[k]
      BY <1>3, <2>2
    <3>2. HasDevices(groups[k]) /\ DOMAIN groups[k] \subseteq Macs /\ Own(groups[k])
      BY <1>1, <3>1 DEF TableOK
    <3> QED BY <1>2, <3>1, <3>2 DEF Own
  <2> QED BY <2>1, <2>2
<1>9. TableOK(groups)' /\ (\A k \in DOMAIN groups : Own(groups[k]))'
  BY <1>1, <1>3, <1>8 DEF TableOK, HasDevices
<1>10. changes' \in 0..MaxChanges /\ adding' \subseteq Labels \X Macs
  BY <1>1 DEF TypeOK
<1> QED BY <1>1, <1>2, <1>9, <1>10, TableStep

LEMMA SaveStateKeeps ==
    ASSUME Inv, NEW l \in DOMAIN groups, NEW m \in Macs, NEW st \in States, SaveState(l, m, st)
    PROVE  TypeOK' /\ RunningInv' /\ \E trail, lines : FileInv(trail, lines)'
<1>1. /\ TableChanges /\ changes' \in 0..MaxChanges /\ adding' = adding
      /\ TypeOK /\ RunningInv /\ pc = "running" /\ m \in Devices(l)
      /\ had' = Had(m, st)
      /\ groups' = [groups EXCEPT ![l] = [groups[l] EXCEPT ![m] = st]]
      /\ \A k \in DOMAIN groups : Own(groups[k])
      /\ TableOK(groups)
  BY ChangeCounted DEF SaveState, RunningInv
<1>2. /\ had' \in [Macs -> [1..Fields -> SUBSET Nat]]
      /\ \A d \in Macs, i \in 1..Fields : had[d][i] \subseteq had'[d][i]
      /\ \A i \in 1..Fields : st[i] \in had'[m][i]
      /\ st \in [1..Fields -> Nat]
  BY <1>1, HadGrows
<1> DEFINE new == [groups[l] EXCEPT ![m] = st]
<1>3. /\ DOMAIN groups' = DOMAIN groups /\ groups'[l] = new
      /\ \A k \in DOMAIN groups : k # l => groups'[k] = groups[k]
      /\ groups' = [k \in DOMAIN groups' |-> groups'[k]]
  BY <1>1 DEF TableOK
<1>4. /\ groups[l] \in [DOMAIN groups[l] -> [1..Fields -> Nat]]
      /\ DOMAIN groups[l] \subseteq Macs /\ Own(groups[l]) /\ m \in DOMAIN groups[l]
  BY <1>1 DEF TableOK, HasDevices, Devices
<1>5. /\ new \in [DOMAIN groups[l] -> [1..Fields -> Nat]] /\ DOMAIN new = DOMAIN groups[l]
      /\ new[m] = st /\ \A d \in DOMAIN groups[l] : d # m => new[d] = groups[l][d]
  BY <1>2, <1>4
<1> HIDE DEF new
<1>6. HasDevices(new) /\ DOMAIN new \subseteq Macs
  BY <1>4, <1>5 DEF HasDevices
<1>7. ASSUME NEW d \in DOMAIN new, NEW i \in 1..Fields
      PROVE  d \in Macs /\ new[d][i] \in had'[d][i]
  <2>1. CASE d = m
    BY <1>2, <1>5, <2>1
  <2>2. CASE d # m
    BY <1>2, <1>4, <1>5, <2>2 DEF Own
  <2> QED BY <2>1, <2>2
<1>8. \A k \in DOMAIN groups' :
         HasDevices(groups'[k]) /\ DOMAIN groups'[k] \subseteq Macs /\ Own(groups[k])'
  <2> TAKE k \in DOMAIN groups'
  <2>1. CASE k = l
    BY <1>3, <1>6, <1>7, <2>1 DEF Own
  <2>2. CASE k # l
    <3>1. k \in DOMAIN groups /\ groups'[k] = groups[k]
      BY <1>3, <2>2
    <3>2. HasDevices(groups[k]) /\ DOMAIN groups[k] \subseteq Macs /\ Own(groups[k])
      BY <1>1, <3>1 DEF TableOK
    <3> QED BY <1>2, <3>1, <3>2 DEF Own
  <2> QED BY <2>1, <2>2
<1>9. TableOK(groups)' /\ (\A k \in DOMAIN groups : Own(groups[k]))'
  BY <1>1, <1>3, <1>8 DEF TableOK, HasDevices
<1>10. adding' \subseteq Labels \X Macs
  BY <1>1 DEF TypeOK
<1> QED BY <1>1, <1>2, <1>9, <1>10, TableStep

LEMMA PurgeKeeps ==
    ASSUME Inv, PurgeOldDevices
    PROVE  TypeOK' /\ RunningInv' /\ \E trail, lines : FileInv(trail, lines)'
<1>1. /\ TableChanges /\ changes' \in 0..MaxChanges /\ adding' = adding
      /\ TypeOK /\ RunningInv /\ pc = "running" /\ had' = had
      /\ groups' = [l \in {k \in DOMAIN groups : DOMAIN groups[k] # {}} |-> groups[l]]
      /\ \A k \in DOMAIN groups : Own(groups[k])
      /\ TableOK(groups)
  BY ChangeCounted DEF PurgeOldDevices, RunningInv
<1>2. /\ DOMAIN groups' \subseteq DOMAIN groups
      /\ \A k \in DOMAIN groups' : groups'[k] = groups[k]
      /\ groups' = [k \in DOMAIN groups' |-> groups'[k]]
  BY <1>1
<1>3. TableOK(groups)' /\ (\A k \in DOMAIN groups : Own(groups[k]))'
  BY <1>1, <1>2 DEF TableOK, HasDevices, Own
<1>4. had' \in [Macs -> [1..Fields -> SUBSET Nat]] /\ adding' \subseteq Labels \X Macs
  BY <1>1 DEF TypeOK
<1> QED BY <1>1, <1>3, <1>4, TableStep

------------------------------------------------------------------------------
(* A start                                                                 *)

\* A start does not touch the file, nor what is known of its writing.
LEMMA StartStep ==
    ASSUME TypeOK, RunningInv, pc # "running", pc' # "running", at' = at, job' = job
    PROVE  /\ RunningInv' /\ Active = {} /\ (Tracked' <=> Tracked)
           /\ Tracked => job.alone \/ (job.whole /\ job.steady)
<1>1. Active = {} /\ Active' = Active
  BY DEF RunningInv, Active
<1> QED BY <1>1 DEF RunningInv, Tracked, TableOK, HasDevices

LEMMA FileStep ==
    ASSUME NEW trail, NEW lines, FileInv(trail, lines), pc # "running", pc' # "running",
           RunningInv, UNCHANGED <<file, at, job, had>>,
           pc' \in {"reading", "started"} =>
               /\ Reading(trail, lines)'
               /\ job.steady => ReadingExact(job.table, trail)',
           job.whole /\ job.steady => pc' # "threw"
    PROVE  FileInv(trail, lines)'
<1>1. Active = {} /\ Active' = {}
  BY DEF RunningInv, Active
<1>2. Trail(trail, lines)'
  BY TrailUnchanged DEF FileInv
<1>3. Writing(trail, lines)'
  BY <1>1 DEF FileInv, Writing, Exhausted, Rest, Members
<1>4. (job.steady => ExactTrail(job.table, trail, lines))'
  BY DEF FileInv, ExactTrail, Exact, PlaceIn, Members, Rest, Exhausted
<1>5. (pc \in {"reading", "started"} /\ job.steady => ReadingExact(job.table, trail))'
  BY DEF ReadingExact, Done, InGroup, Exhausted, Members
<1> QED BY <1>2, <1>3, <1>4, <1>5 DEF FileInv

\* Between the lines that a start has read and those that follow.
LEMMA ReaderFacts ==
    ASSUME Inv, Tracked, pc = "reading", NEW trail, NEW lines, FileInv(trail, lines)
    PROVE  /\ Trail(trail, lines) /\ Reading(trail, lines)
           /\ job.steady => /\ ExactTrail(job.table, trail, lines)
                            /\ ReadingExact(job.table, trail) /\ TableOK(job.table)
           /\ job.steady /\ job.whole =>
                 /\ Exhausted(job.table, trail[Len(trail)])
                 /\ Rest(job.table, trail[Len(trail)].label) = {}
           /\ file = lines /\ file \in Seq(Written) /\ Len(file) \in Nat
           /\ DOMAIN lines = 1..Len(file) /\ DOMAIN trail = 1..(Len(file) + 1)
           /\ Len(trail) = Len(file) + 1
           /\ Done = reader.line /\ reader.line \in 0..Len(file)
           /\ \A n \in Nat \ {0} : Getline(n) = IF n <= Len(file) THEN lines[n] ELSE End
<1>1. job.alone \/ (job.whole /\ job.steady)
  BY DEF Tracked
<1>2. /\ file = lines /\ Trail(trail, lines) /\ Reading(trail, lines)
      /\ job.steady => /\ ExactTrail(job.table, trail, lines)
                       /\ ReadingExact(job.table, trail) /\ TableOK(job.table)
      /\ job.steady /\ job.whole =>
            /\ Exhausted(job.table, trail[Len(trail)])
            /\ Rest(job.table, trail[Len(trail)].label) = {}
  BY <1>1 DEF FileInv, Writing, Inv, RunningInv
<1>3. file \in Seq(Written) /\ Len(trail) = Len(file) + 1 /\ trail \in Seq(Places)
  BY <1>2 DEF Trail
<1>4. Len(file) \in Nat /\ DOMAIN lines = 1..Len(file) /\ DOMAIN trail = 1..(Len(file) + 1)
  BY <1>2, <1>3
<1>5. Done = reader.line /\ reader.line \in Nat /\ Done <= Len(file)
  BY <1>2 DEF Done, Reading, Inv, TypeOK
<1>6. \A n \in Nat \ {0} : Getline(n) = IF n <= Len(file) THEN lines[n] ELSE End
  BY <1>2, <1>3, GetlineOfWhole
<1> QED BY <1>2, <1>3, <1>4, <1>5, <1>6

LEMMA StartKeeps ==
    ASSUME Inv, Start
    PROVE  TypeOK' /\ RunningInv' /\ (Tracked' => \E trail, lines : FileInv(trail, lines)')
<1>1. /\ pc \in {"ended", "threw"} /\ pc' = "reading" /\ groups' = <<>>
      /\ reader' = AtStart /\ UNCHANGED <<file, at, changes, adding, job, had>>
      /\ TypeOK /\ RunningInv
  BY DEF Start, Inv
<1>2. /\ AtStart.line = 0 /\ AtStart.group = FALSE /\ AtStart.left = 0
      /\ AtStart.devices = <<>> /\ AtStart.label = Other
      /\ AtStart \in [line : Nat, label : Labels \cup {Other}, left : Nat,
                      devices : {<<>>}, group : BOOLEAN]
  BY DEF AtStart
<1>3. TypeOK'
  BY <1>1, <1>2, EmptyTable DEF TypeOK, HasDevices
<1>4. RunningInv' /\ (Tracked' <=> Tracked)
  BY <1>1, StartStep
<1>5. ASSUME Tracked
      PROVE  \E trail, lines : FileInv(trail, lines)'
  <2>1. PICK trail, lines : FileInv(trail, lines)
    BY <1>5 DEF Inv
  <2>2. Done' = 0 /\ ~InGroup'
    BY <1>1, <1>2 DEF Done, InGroup
  <2>3. trail[1] = Opened /\ Len(lines) \in Nat
    BY <2>1 DEF FileInv, Trail
  <2>4. Reading(trail, lines)'
    BY <1>1, <2>2, <2>3, EmptyTable DEF Reading, Opened
  <2>5. ASSUME job.steady PROVE ReadingExact(job.table, trail)'
    <3>1. DOMAIN job.table \subseteq Nat
      BY <1>1, <2>5, CacheAssumption DEF RunningInv, TableOK
    <3>2. \A k \in DOMAIN job.table : ~(k <= Opened.label)
      BY <3>1 DEF Opened, None
    <3>3. Exhausted(job.table, Opened)'
      BY DEF Exhausted, Opened
    <3> QED BY <1>1, <2>2, <2>3, <3>2, <3>3, EmptyTable DEF ReadingExact
  <2>6. FileInv(trail, lines)'
    BY <1>1, <2>1, <2>4, <2>5, FileStep
  <2> QED BY <2>6
<1> QED BY <1>3, <1>4, <1>5

LEMMA ReadEndsKeeps ==
    ASSUME Inv, ReadEnds
    PROVE  TypeOK' /\ RunningInv' /\ (Tracked' => \E trail, lines : FileInv(trail, lines)')
<1>1. /\ pc = "reading" /\ ~reader.group /\ Getline(reader.line + 1) = End
      /\ pc' = "started" /\ reader' = AtStart
      /\ UNCHANGED <<groups, file, at, changes, adding, job, had>>
      /\ TypeOK /\ RunningInv
  BY DEF ReadEnds, Inv
<1>2. /\ AtStart.devices = <<>>
      /\ AtStart \in [line : Nat, label : Labels \cup {Other}, left : Nat,
                      devices : {<<>>}, group : BOOLEAN]
  BY DEF AtStart
<1>3. TypeOK'
  BY <1>1, <1>2, EmptyTable DEF TypeOK, HasDevices
<1>4. RunningInv' /\ (Tracked' <=> Tracked)
  BY <1>1, StartStep
<1>5. ASSUME Tracked
      PROVE  \E trail, lines : FileInv(trail, lines)'
  <2>1. PICK trail, lines : FileInv(trail, lines)
    BY <1>5 DEF Inv
  <2>2. /\ file = lines /\ file \in Seq(Written) /\ Len(file) \in Nat
        /\ Done = reader.line /\ reader.line \in 0..Len(file)
        /\ \A n \in Nat \ {0} : Getline(n) = IF n <= Len(file) THEN lines[n] ELSE End
        /\ Reading(trail, lines)
        /\ job.steady => ReadingExact(job.table, trail)
    BY <1>1, <1>5, <2>1, ReaderFacts
  <2>3. Done' = Done
    <3>1. ASSUME reader.line + 1 <= Len(file) PROVE FALSE
      <4>1. file[reader.line + 1] \in Written
        BY <2>2, <3>1
      <4> QED BY <1>1, <2>2, <3>1, <4>1, WrittenKinds
    <3>2. Len(file) = reader.line
      BY <2>2, <3>1
    <3> QED BY <1>1, <2>2, <3>2 DEF Done
  <2>4. ~InGroup /\ ~InGroup' /\ \A l : ReadOf(l)' = ReadOf(l)
    BY <1>1 DEF InGroup, ReadOf
  <2>5. Reading(trail, lines)'
    BY <1>1, <2>2, <2>3, <2>4 DEF Reading, Own
  <2>6. ASSUME job.steady PROVE ReadingExact(job.table, trail)'
    BY <1>1, <2>2, <2>3, <2>4, <2>6 DEF ReadingExact, Exhausted, Members
  <2>7. FileInv(trail, lines)'
    BY <1>1, <2>1, <2>5, <2>6, FileStep
  <2> QED BY <2>7
<1> QED BY <1>3, <1>4, <1>5

LEMMA RunsKeeps ==
    ASSUME Inv, Runs
    PROVE  TypeOK' /\ RunningInv' /\ (Tracked' => \E trail, lines : FileInv(trail, lines)')
<1>1. /\ pc = "started" /\ pc' = "running" /\ job.alone
      /\ had' = [m \in Macs |-> [i \in 1..Fields |-> Numbers(m, i)]]
      /\ UNCHANGED <<groups, file, at, reader, changes, adding, job>>
      /\ TypeOK /\ RunningInv
  BY DEF Runs, Inv
<1>2. PICK trail, lines : FileInv(trail, lines)
  BY <1>1 DEF Tracked, Inv
<1>3. /\ Trail(trail, lines) /\ Reading(trail, lines) /\ file = lines
      /\ Active = {} /\ Active' = {} /\ Done = Len(lines) /\ ~InGroup
      /\ Len(lines) \in Nat /\ DOMAIN lines = 1..Len(lines)
      /\ \A l : ReadOf(l) = groups[l]
  BY <1>1, <1>2 DEF FileInv, Writing, RunningInv, Active, Done, InGroup, ReadOf, Trail
<1>4. ASSUME NEW l \in DOMAIN groups, NEW m \in DOMAIN groups[l], NEW i \in 1..Fields
      PROVE  m \in Macs /\ groups[l][m][i] \in Numbers(m, i) /\ groups[l][m][i] \in Nat
  <2>1. m \in Macs
    BY <1>3, <1>4 DEF Reading, Own
  <2>2. groups[l][m] \in [1..Fields -> Nat]
    BY <1>1 DEF TypeOK, HasDevices
  <2> QED BY <2>1, <2>2 DEF Numbers
<1>5. /\ had' \in [Macs -> [1..Fields -> SUBSET Nat]]
      /\ \A m \in Macs, i \in 1..Fields : had'[m][i] = Numbers(m, i)
  <2>1. \A m \in Macs, i \in 1..Fields : Numbers(m, i) \in SUBSET Nat
    BY <1>4 DEF Numbers
  <2> QED BY <1>1, <2>1
<1>6. TypeOK'
  BY <1>1, <1>5 DEF TypeOK, HasDevices
<1>7. TableOK(groups)' /\ \A l \in DOMAIN groups : Own(groups[l])'
  <2>1. \A l \in DOMAIN groups : DOMAIN groups[l] \subseteq Macs
    BY <1>4, CacheAssumption
  <2>2. DOMAIN groups \subseteq Labels
    BY <1>3 DEF Reading
  <2>3. \A l \in DOMAIN groups : Own(groups[l])'
    BY <1>1, <1>4, <1>5 DEF Own
  <2> QED BY <1>1, <2>1, <2>2, <2>3 DEF TableOK, TypeOK, HasDevices
<1>8. RunningInv'
  BY <1>1, <1>3, <1>7 DEF RunningInv, TableOK, HasDevices
<1>9. Trail(trail, lines)'
  <2>1. ASSUME NEW k \in DOMAIN lines, lines[k].kind = "number"
        PROVE  lines[k].value \in had'[trail[k].mac][trail[k].field - 1]
    <3>1. Proper(trail[k]) /\ trail[k].field > 1
      BY <1>3, <2>1, NumberMoves DEF Trail
    <3>2. trail[k].mac \in Macs /\ trail[k].field - 1 \in 1..Fields
      BY <3>1, CacheAssumption DEF Proper, Places
    <3>3. /\ trail[k].label \in DOMAIN groups
          /\ trail[k].mac \in DOMAIN groups[trail[k].label]
          /\ lines[k].value = groups[trail[k].label][trail[k].mac][trail[k].field - 1]
      BY <1>3, <2>1 DEF Reading
    <3> QED BY <1>4, <1>5, <3>2, <3>3
  <2> QED BY <1>3, <2>1, TrailKept
<1>10. Writing(trail, lines)'
  BY <1>1, <1>2, <1>3 DEF FileInv, Writing, Exhausted, Rest, Members
<1>11. (job.steady => ExactTrail(job.table, trail, lines))'
  BY <1>1, <1>2 DEF FileInv, ExactTrail, Exact, PlaceIn, Members, Rest, Exhausted
<1>12. FileInv(trail, lines)'
  BY <1>1, <1>9, <1>10, <1>11 DEF FileInv
<1> QED BY <1>6, <1>8, <1>12

LEMMA InitInv == Init => Inv
<1> SUFFICES ASSUME Init PROVE Inv
  OBVIOUS
<1>1. /\ groups \in Tables /\ groups = [l \in DOMAIN groups |-> groups[l]]
      /\ DOMAIN groups \subseteq Labels
      /\ \A l \in DOMAIN groups : /\ DOMAIN groups[l] \subseteq Macs
                                  /\ groups[l] \in [DOMAIN groups[l] -> States]
  BY CacheAssumption DEF Init
<1>2. ASSUME NEW l \in DOMAIN groups, NEW m \in DOMAIN groups[l]
      PROVE  m \in Macs /\ groups[l][m] \in [1..Fields -> Nat]
  BY <1>1, CacheAssumption
<1>3. \A l \in DOMAIN groups : HasDevices(groups[l])
  BY <1>1, <1>2 DEF HasDevices
<1>4. /\ had \in [Macs -> [1..Fields -> SUBSET Nat]]
      /\ \A m \in Macs, i \in 1..Fields : had[m][i] = Numbers(m, i)
  <2>1. \A m \in Macs, i \in 1..Fields : Numbers(m, i) \in SUBSET Nat
    BY <1>2 DEF Numbers
  <2> QED BY <2>1 DEF Init
<1>5. Active = {} /\ at \in [Handlers -> Places]
  <2>1. Idle \in Places
    BY CacheAssumption DEF Idle, Places
  <2> QED BY <2>1 DEF Init, Nobody, Active
<1>6. /\ job \in [table : {job.table}, steady : BOOLEAN, alone : BOOLEAN,
                  whole : BOOLEAN, by : Handlers \cup {None}]
      /\ job.alone /\ ~job.steady /\ ~job.whole
  BY DEF Init
<1>7. /\ reader \in [line : Nat, label : Labels \cup {Other}, left : Nat,
                     devices : {reader.devices}, group : BOOLEAN]
      /\ reader.devices = <<>>
  BY DEF Init, AtStart
<1>8. changes \in 0..MaxChanges /\ pc = "running" /\ file = <<>> /\ adding = {}
  BY CacheAssumption DEF Init
<1>9. TypeOK
  BY <1>1, <1>3, <1>4, <1>5, <1>6, <1>7, <1>8, EmptyTable DEF TypeOK
<1>10. \A l \in DOMAIN groups : Own(groups[l])
  BY <1>2, <1>4 DEF Own, Numbers
<1>11. RunningInv
  BY <1>1, <1>3, <1>5, <1>6, <1>10 DEF RunningInv, TableOK
<1>12. FileInv(<<Opened>>, <<>>)
  <2> DEFINE T == <<Opened>>
             L == <<>>
  <2>1. Trail(T, L)
    BY FreshTrail
  <2>2. Writing(T, L)
    <3>1. file = L /\ Len(L) = 0 /\ DOMAIN L = {}
      BY <1>8
    <3> HIDE DEF T, L
    <3> QED BY <1>5, <1>6, <3>1 DEF Writing
  <2> QED BY <1>6, <1>8, <2>1, <2>2 DEF FileInv
<1> QED BY <1>9, <1>11, <1>12 DEF Inv

LEMMA AddGroupKeeps ==
    ASSUME Inv, AddGroup
    PROVE  TypeOK' /\ RunningInv' /\ (Tracked' => \E trail, lines : FileInv(trail, lines)')
<1> DEFINE name == reader.label
<1>1. /\ pc = "reading" /\ pc' = "reading" /\ reader.group /\ ~(reader.left > 0)
      /\ groups' = [l \in DOMAIN groups \cup {name} |->
                       IF l \in DOMAIN groups THEN groups[l] ELSE reader.devices]
      /\ reader' = [reader EXCEPT !.group = FALSE]
      /\ UNCHANGED <<pc, file, at, changes, adding, job, had>>
      /\ TypeOK /\ RunningInv
  BY DEF AddGroup, MoreDevices, Inv
<1>2. /\ reader'.line = reader.line /\ reader'.label = reader.label
      /\ reader'.devices = reader.devices /\ reader'.group = FALSE
      /\ reader' \in [line : Nat, label : Labels \cup {Other}, left : Nat,
                      devices : {reader'.devices}, group : BOOLEAN]
      /\ name \in Labels \cup {Other} /\ reader.left = 0
  <2>1. reader \in [line : Nat, label : Labels \cup {Other}, left : Nat,
                    devices : {reader.devices}, group : BOOLEAN]
    BY <1>1 DEF TypeOK
  <2>2. /\ reader'.line = reader.line /\ reader'.label = reader.label
        /\ reader'.devices = reader.devices /\ reader'.group = FALSE
        /\ reader'.left = reader.left
    BY <1>1, <2>1
  <2>3. reader' \in [line : Nat, label : Labels \cup {Other}, left : Nat,
                     devices : {reader.devices}, group : BOOLEAN]
    BY <1>1, <2>1
  <2> QED BY <1>1, <2>1, <2>2, <2>3
<1>3. /\ DOMAIN groups' = DOMAIN groups \cup {name}
      /\ \A l \in DOMAIN groups : groups'[l] = groups[l]
      /\ name \notin DOMAIN groups => groups'[name] = reader.devices
      /\ groups' = [l \in DOMAIN groups' |-> groups'[l]]
  BY <1>1
<1>4. TypeOK'
  <2>1. DOMAIN groups' \subseteq Labels \cup {Other}
    BY <1>1, <1>2, <1>3 DEF TypeOK
  <2>2. \A l \in DOMAIN groups' : HasDevices(groups'[l])
    BY <1>1, <1>3 DEF TypeOK
  <2> QED BY <1>1, <1>2, <1>3, <2>1, <2>2 DEF TypeOK, HasDevices
<1>5. RunningInv' /\ (Tracked' <=> Tracked)
  BY <1>1, StartStep
<1>6. ASSUME Tracked
      PROVE  \E trail, lines : FileInv(trail, lines)'
  <2>1. PICK trail, lines : FileInv(trail, lines)
    BY <1>6 DEF Inv
  <2> DEFINE p == trail[Done + 1]
  <2>2. /\ Trail(trail, lines) /\ Reading(trail, lines)
        /\ job.steady => /\ ExactTrail(job.table, trail, lines)
                         /\ ReadingExact(job.table, trail) /\ TableOK(job.table)
        /\ Done + 1 \in DOMAIN trail /\ Done \in Nat
    BY <1>1, <1>6, <2>1, ReaderFacts
  <2>3. InGroup /\ ~InGroup' /\ Done' = Done
    BY <1>1, <1>2 DEF InGroup, Done
  <2>4. /\ p.stage = "device" /\ p.field = 0 /\ name = p.label /\ name \notin DOMAIN groups
        /\ Proper(p) /\ name \in Labels \ {Blank} /\ name \in Nat
    BY <2>2, <2>3, CacheAssumption DEF Reading, Trail, Proper
  <2>5. \A l \in DOMAIN groups \cup {name} : ReadOf(l)' = ReadOf(l)
    BY <1>3, <2>3, <2>4 DEF ReadOf
  <2>6. Reading(trail, lines)'
    <3>1. \A l \in DOMAIN groups' : l \in Labels /\ l <= p.label /\ Own(groups[l])'
      <4> TAKE l \in DOMAIN groups'
      <4>1. CASE l \in DOMAIN groups
        BY <1>1, <1>3, <2>2, <4>1 DEF Reading, Own
      <4>2. CASE l = name
        BY <1>1, <1>3, <2>2, <2>3, <2>4, <4>2 DEF Reading, Own
      <4> QED BY <1>3, <4>1, <4>2
    <3>2. ASSUME NEW k \in 1..Done, lines[k].kind = "number"
          PROVE  /\ trail[k].label \in DOMAIN groups'
                 /\ trail[k].mac \in DOMAIN ReadOf(trail[k].label)'
                 /\ lines[k].value = ReadOf(trail[k].label)'[trail[k].mac][trail[k].field - 1]
      <4>1. /\ trail[k].label \in DOMAIN groups \cup {name}
            /\ trail[k].mac \in DOMAIN ReadOf(trail[k].label)
            /\ lines[k].value = ReadOf(trail[k].label)[trail[k].mac][trail[k].field - 1]
        BY <2>2, <2>3, <3>2 DEF Reading
      <4> QED BY <1>3, <2>5, <4>1
    <3>3. /\ Done <= Len(lines) /\ p.stage # "size" /\ p.field = 0
          /\ \A k \in 1..Done : trail[k].label <= p.label
      BY <2>2 DEF Reading
    <3> QED BY <2>3, <3>1, <3>2, <3>3 DEF Reading
  <2>7. ASSUME job.steady
        PROVE  ReadingExact(job.table, trail)'
    <3> DEFINE t == job.table
               read == {n \in DOMAIN t[name] : n <= p.mac}
    <3>1. /\ reader.devices = [m \in read |-> t[name][m]]
          /\ reader.left + Cardinality(DOMAIN reader.devices) = Cardinality(DOMAIN t[name])
          /\ \A k \in DOMAIN groups : k \in DOMAIN t \ {Blank} /\ groups[k] = t[k]
          /\ \A k \in DOMAIN t \ {Blank} : k <= name => k \in DOMAIN groups \/ k = name
      BY <2>2, <2>3, <2>4, <2>7 DEF ReadingExact
    <3>2. name \in DOMAIN t
      BY <2>2, <2>4, <2>7 DEF ExactTrail, PlaceIn
    <3>3. t[name] = [m \in DOMAIN t[name] |-> t[name][m]] /\ DOMAIN t[name] \subseteq Macs
      BY <2>2, <2>7, <3>2 DEF TableOK, HasDevices
    <3>4. IsFiniteSet(DOMAIN t[name])
      BY <3>3, FS_Subset, CacheAssumption
    <3>5. DOMAIN reader.devices = read /\ read \in SUBSET DOMAIN t[name]
      BY <3>1
    <3>6. Cardinality(DOMAIN t[name]) \in Nat /\ Cardinality(read) \in Nat
      BY <3>4, <3>5, FS_Subset, FS_CardinalityType
    <3>7. read = DOMAIN t[name]
      <4>1. Cardinality(read) = Cardinality(DOMAIN t[name])
        BY <1>2, <3>1, <3>5, <3>6
      <4> HIDE DEF read
      <4> QED BY <3>4, <3>5, <4>1, FS_Subset
    <3>8. reader.devices = t[name]
      BY <3>1, <3>3, <3>7
    <3>9. Exhausted(t, p)
      BY <2>4, <3>2, <3>7 DEF Exhausted, Members
    <3>10. \A k \in DOMAIN groups' : k \in DOMAIN t \ {Blank} /\ groups'[k] = t[k]
      BY <1>3, <2>4, <3>1, <3>2, <3>8
    <3>11. \A k \in DOMAIN t \ {Blank} : k <= name => k \in DOMAIN groups'
      BY <1>3, <3>1
    <3> HIDE DEF read
    <3> QED BY <1>1, <2>3, <2>4, <3>9, <3>10, <3>11 DEF ReadingExact, Exhausted, Members
  <2>8. FileInv(trail, lines)'
    BY <1>1, <2>1, <2>6, <2>7, FileStep
  <2> QED BY <2>8
<1> QED BY <1>4, <1>5, <1>6

------------------------------------------------------------------------------
(* The lines of a group and of a device                                    *)

LEMMA TrailTypes ==
    ASSUME NEW trail, NEW lines, Trail(trail, lines)
    PROVE  /\ Len(lines) \in Nat /\ DOMAIN lines = 1..Len(lines)
           /\ DOMAIN trail = 1..(Len(lines) + 1) /\ Len(trail) = Len(lines) + 1
           /\ \A k \in DOMAIN lines : lines[k] \in Written
           /\ \A k \in DOMAIN trail : /\ Proper(trail[k]) /\ trail[k].line = k - 1
                                      /\ trail[k].label \in Int
           /\ \A k \in DOMAIN lines : Moves(trail[k], trail[k + 1], lines[k])
<1>1. /\ Len(lines) \in Nat /\ DOMAIN lines = 1..Len(lines)
      /\ DOMAIN trail = 1..(Len(lines) + 1) /\ Len(trail) = Len(lines) + 1
      /\ \A k \in DOMAIN lines : lines[k] \in Written
      /\ \A k \in DOMAIN lines : Moves(trail[k], trail[k + 1], lines[k])
      /\ \A k \in DOMAIN trail : Proper(trail[k]) /\ trail[k].line = k - 1
  BY DEF Trail
<1>2. \A k \in DOMAIN trail : trail[k].label \in Int
  BY <1>1, CacheAssumption DEF Proper, Places, None
<1> QED BY <1>1, <1>2

\* A handler begins a group or a device, or goes on with the one it is in.
LEMMA NextKind ==
    ASSUME NEW p, NEW q, NEW line, Moves(p, q, line)
    PROVE  /\ p.stage # "size" /\ p.field = 0 =>
                 \/ line.kind = "label"
                 \/ line.kind = "name" /\ p.stage = "device"
           /\ p.stage = "size" /\ p.field = 0 => line.kind = "count"
           /\ p.field = 1 => line.kind \in {"mac", "count"}
           /\ p.stage = "device" /\ p.field > 1 /\ p.field \in Int => line.kind = "number"
<1>1. CASE line = Line("label", q.label) /\ p.stage # "size" /\ p.field = 0
  BY <1>1 DEF Line
<1>2. CASE line.kind = "count" /\ p.stage = "size"
  BY <1>2
<1>3. CASE line = Line("name", q.mac) /\ p.stage = "device" /\ p.field = 0
  BY <1>3 DEF Line
<1>4. CASE line = Line("mac", p.mac) /\ p.stage = "device" /\ p.field = 1
  BY <1>4 DEF Line
<1>5. CASE line.kind = "number" /\ p.stage = "device" /\ p.field > 1
  BY <1>5
<1> QED BY <1>1, <1>2, <1>3, <1>4, <1>5 DEF Moves

LEMMA GroupLines ==
    ASSUME NEW trail, NEW lines, Trail(trail, lines), NEW k \in DOMAIN lines,
           lines[k].kind = "label"
    PROVE  LET l == lines[k].value
           IN  /\ l \in Labels \ {Blank} /\ l > trail[k].label
               /\ trail[k + 1].label = l /\ trail[k + 1].stage = "size"
               /\ trail[k + 1].field = 0
               /\ k + 1 \in DOMAIN lines =>
                     /\ lines[k + 1].kind = "count"
                     /\ trail[k + 2] = Place("device", l, None, 0, k + 1)
               /\ k + 2 \in DOMAIN lines => lines[k + 2].kind \in {"label", "name"}
<1> DEFINE p == trail[k]
           q == trail[k + 1]
           l == lines[k].value
<1>1. Moves(p, q, lines[k]) /\ k \in Nat \ {0} /\ k + 1 \in DOMAIN trail /\ k + 1 + 1 = k + 2
  BY TrailTypes
<1>2. /\ lines[k] = Line("label", q.label) /\ q.label \in Labels \ {Blank}
      /\ q.label > p.label /\ q = Place("size", q.label, p.mac, 0, p.line + 1)
  BY <1>1 DEF Moves, Line
<1>3. l = q.label /\ q.stage = "size" /\ q.field = 0
  BY <1>2 DEF Line, Place
<1>4. ASSUME k + 1 \in DOMAIN lines
      PROVE  lines[k + 1].kind = "count" /\ trail[k + 2] = Place("device", l, None, 0, k + 1)
  <2>1. Moves(q, trail[k + 2], lines[k + 1]) /\ q.line = k
    BY <1>1, <1>4, TrailTypes
  <2>2. lines[k + 1].kind = "count"
    BY <1>3, <2>1, NextKind
  <2>3. trail[k + 2] = Place("device", q.label, None, 0, q.line + 1)
    BY <1>3, <2>1, <2>2 DEF Moves, Line
  <2> QED BY <1>3, <2>1, <2>2, <2>3
<1>5. ASSUME k + 2 \in DOMAIN lines
      PROVE  lines[k + 2].kind \in {"label", "name"}
  <2>1. k + 1 \in DOMAIN lines
    BY <1>1, <1>5, TrailTypes
  <2>2. trail[k + 2].stage = "device" /\ trail[k + 2].field = 0
    BY <1>4, <2>1 DEF Place
  <2>3. Moves(trail[k + 2], trail[(k + 2) + 1], lines[k + 2])
    BY <1>5, TrailTypes
  <2> QED BY <2>2, <2>3, NextKind
<1> QED BY <1>2, <1>3, <1>4, <1>5

LEMMA DeviceLines ==
    ASSUME NEW trail, NEW lines, Trail(trail, lines), NEW k \in DOMAIN lines,
           lines[k].kind = "name"
    PROVE  LET l == trail[k].label
               m == lines[k].value
           IN  /\ m \in Macs /\ m > trail[k].mac /\ trail[k + 1].mac = m
               /\ trail[k].stage = "device"
               /\ \A j \in 0..Fields : k + 1 + j \in DOMAIN trail =>
                     trail[k + 1 + j] = Place("device", l, m, j + 1, k + j)
               /\ k + 1 \in DOMAIN lines => lines[k + 1] = Line("mac", m)
               /\ \A i \in 1..Fields : k + 1 + i \in DOMAIN lines =>
                     /\ lines[k + 1 + i].kind = "number"
                     /\ lines[k + 1 + i].value \in had[m][i]
               /\ k + 1 + Fields \in DOMAIN lines =>
                     trail[k + 2 + Fields] = Place("device", l, m, 0, k + 1 + Fields)
<1> DEFINE p == trail[k]
           q == trail[k + 1]
           l == p.label
           m == lines[k].value
<1>0. Fields \in Nat \ {0} /\ k \in Nat \ {0}
  BY TrailTypes, CacheAssumption
<1>1. Moves(p, q, lines[k]) /\ k + 1 \in DOMAIN trail /\ p.line = k - 1
  BY TrailTypes
<1>2. /\ lines[k] = Line("name", q.mac) /\ q.mac \in Macs /\ q.mac > p.mac
      /\ q = Place("device", p.label, q.mac, 1, p.line + 1) /\ p.stage = "device"
  BY <1>1 DEF Moves, Line
<1>3. m = q.mac /\ q.field = 1 /\ q.label = l
  BY <1>2 DEF Line, Place
<1>4. ASSUME NEW j \in 0..Fields, k + 1 + j \in DOMAIN trail
      PROVE  trail[k + 1 + j] = Place("device", l, m, j + 1, k + j)
  <2>1. trail[(k + 1) + j] = Place("device", q.label, q.mac, j + 1, (k + 1) + j - 1)
    BY <1>1, <1>3, <1>4 DEF Trail, Triples
  <2>2. (k + 1) + j = k + 1 + j /\ (k + 1) + j - 1 = k + j
    BY <1>0
  <2> QED BY <1>3, <2>1, <2>2
<1>5. ASSUME k + 1 \in DOMAIN lines PROVE lines[k + 1] = Line("mac", m)
  <2>1. Moves(q, trail[(k + 1) + 1], lines[k + 1])
    BY <1>5, TrailTypes
  <2>2. lines[k + 1].kind \in {"mac", "count"} /\ q.stage = "device"
    BY <1>2, <1>3, <2>1, NextKind DEF Place
  <2> QED BY <1>3, <2>1, <2>2 DEF Moves, Line
<1>6. ASSUME NEW i \in 1..Fields, k + 1 + i \in DOMAIN lines
      PROVE  /\ lines[k + 1 + i].kind = "number"
             /\ lines[k + 1 + i].value \in had[m][i]
             /\ i = Fields => trail[k + 2 + Fields] = Place("device", l, m, 0, k + 1 + Fields)
  <2> DEFINE r == trail[k + 1 + i]
             s == trail[k + 1 + i + 1]
  <2>1. k + 1 + i \in DOMAIN trail /\ i \in 0..Fields /\ i \in Nat \ {0}
    BY <1>0, <1>6, TrailTypes
  <2>2. r = Place("device", l, m, i + 1, k + i)
    BY <1>4, <2>1
  <2>3. Moves(r, s, lines[k + 1 + i])
    BY <1>6, TrailTypes
  <2>4. r.stage = "device" /\ r.field = i + 1 /\ r.mac = m /\ r.label = l /\ r.line = k + i
    BY <2>2 DEF Place
  <2> HIDE DEF r, s
  <2>5. lines[k + 1 + i].kind = "number"
    BY <2>1, <2>3, <2>4, NextKind
  <2>6. /\ lines[k + 1 + i].value \in had[r.mac][r.field - 1]
        /\ s = Place("device", r.label, r.mac,
                     IF r.field - 1 = Fields THEN 0 ELSE r.field + 1, r.line + 1)
    BY <2>3, <2>5 DEF Moves, Line
  <2>7. r.field - 1 = i /\ r.line + 1 = k + 1 + i /\ (i = Fields => k + 1 + i + 1 = k + 2 + Fields)
    BY <1>0, <2>1, <2>4
  <2> QED BY <2>4, <2>5, <2>6, <2>7 DEF s
<1>7. Fields \in 1..Fields
  BY <1>0
<1> QED BY <1>2, <1>3, <1>4, <1>5, <1>6, <1>7

------------------------------------------------------------------------------
(* What a start reads                                                      *)

\* A group has been read: what was read stands, and nothing of it yet.
LEMMA GroupRead ==
    ASSUME Inv, Tracked, ReadGroup, pc' = "reading",
           NEW trail, NEW lines, FileInv(trail, lines)
    PROVE  /\ Reading(trail, lines)'
           /\ job.steady => ReadingExact(job.table, trail)'
<1> DEFINE n == reader.line
           p == trail[n + 1]
           r == trail[n + 3]
           name == lines[n + 1].value
<1>1. /\ pc = "reading" /\ ~reader.group /\ Getline(n + 1) # End
      /\ UNCHANGED <<groups, file, at, changes, adding, job, had>>
      /\ TypeOK /\ RunningInv
  BY DEF ReadGroup, Inv
<1>2. /\ StoiAccepts(Getline(n + 2))
      /\ reader' = [line |-> n + 2, label |-> LabelOf(Getline(n + 1)),
                    left |-> Getline(n + 2).value, devices |-> <<>>, group |-> TRUE]
  BY <1>1 DEF ReadGroup
<1>3. /\ Trail(trail, lines) /\ Reading(trail, lines)
      /\ job.steady => /\ ExactTrail(job.table, trail, lines)
                       /\ ReadingExact(job.table, trail) /\ TableOK(job.table)
      /\ Len(file) \in Nat /\ DOMAIN lines = 1..Len(file) /\ Len(lines) = Len(file)
      /\ DOMAIN trail = 1..(Len(file) + 1)
      /\ Done = n /\ n \in 0..Len(file)
      /\ \A i \in Nat \ {0} : Getline(i) = IF i <= Len(file) THEN lines[i] ELSE End
  BY <1>1, ReaderFacts
<1>4. /\ n + 1 \in DOMAIN lines /\ n + 2 \in DOMAIN lines
      /\ Getline(n + 1) = lines[n + 1] /\ Getline(n + 2) = lines[n + 2]
      /\ lines[n + 2].kind \in {"count", "number"}
      /\ n + 1 \in DOMAIN trail /\ n + 2 \in DOMAIN trail /\ n + 3 \in DOMAIN trail
      /\ n \in Nat
  BY <1>1, <1>2, <1>3, WrittenKinds DEF StoiAccepts
<1>5. p.stage # "size" /\ p.field = 0 /\ ~InGroup /\ \A l : ReadOf(l) = groups[l]
  BY <1>1, <1>3 DEF Reading, InGroup, ReadOf
<1>6. lines[n + 1].kind = "label"
  <2>1. Moves(p, trail[(n + 1) + 1], lines[n + 1])
    BY <1>3, <1>4, TrailTypes
  <2>2. lines[n + 1].kind # "name"
    <3> SUFFICES ASSUME lines[n + 1].kind = "name" PROVE FALSE
      OBVIOUS
    <3>1. (n + 1) + 1 \in DOMAIN lines => lines[(n + 1) + 1] = Line("mac", lines[n + 1].value)
      BY <1>3, <1>4, DeviceLines
    <3>2. (n + 1) + 1 = n + 2
      BY <1>4
    <3> QED BY <1>4, <3>1, <3>2 DEF Line
  <2> QED BY <1>5, <2>1, <2>2, NextKind
<1>7. /\ name \in Labels \ {Blank} /\ name > p.label
      /\ trail[n + 2].label = name /\ lines[n + 2].kind = "count"
      /\ r = Place("device", name, None, 0, n + 2)
  <2>1. /\ name \in Labels \ {Blank} /\ name > p.label
        /\ trail[(n + 1) + 1].label = name
        /\ (n + 1) + 1 \in DOMAIN lines =>
              /\ lines[(n + 1) + 1].kind = "count"
              /\ trail[(n + 1) + 2] = Place("device", name, None, 0, (n + 1) + 1)
    <3>1. Trail(trail, lines) /\ n + 1 \in DOMAIN lines /\ lines[n + 1].kind = "label"
      BY <1>3, <1>4, <1>6
    <3> QED BY <3>1, GroupLines
  <2>2. (n + 1) + 1 = n + 2 /\ (n + 1) + 2 = n + 3
    BY <1>4
  <2> HIDE DEF p, r, name
  <2>3. r = trail[n + 3]
    BY DEF r
  <2> QED BY <1>4, <2>1, <2>2, <2>3
<1>8. /\ r.stage = "device" /\ r.label = name /\ r.mac = None /\ r.field = 0
      /\ reader'.line = n + 2 /\ reader'.label = name /\ reader'.left = lines[n + 2].value
      /\ reader'.devices = <<>> /\ reader'.group
      /\ Done' = n + 2 /\ InGroup'
  BY <1>2, <1>4, <1>6, <1>7 DEF LabelOf, Place, Done, InGroup
<1>9. /\ \A l \in DOMAIN groups : l \in Labels /\ l <= p.label /\ Own(groups[l])
      /\ \A k \in 1..n : trail[k].label <= p.label
      /\ \A k \in 1..n : lines[k].kind = "number" =>
              /\ trail[k].label \in DOMAIN groups
              /\ trail[k].mac \in DOMAIN groups[trail[k].label]
              /\ lines[k].value = groups[trail[k].label][trail[k].mac][trail[k].field - 1]
  BY <1>3, <1>5 DEF Reading
<1>10. /\ p.label \in Int /\ name \in Nat /\ (n + 2) + 1 = n + 3
       /\ \A l \in DOMAIN groups : l \in Nat /\ l < name
       /\ \A k \in DOMAIN trail : trail[k].label \in Int
  <2>1. \A k \in DOMAIN trail : trail[k].label \in Int
    BY <1>3, TrailTypes
  <2>2. p.label \in Int /\ name \in Nat /\ (n + 2) + 1 = n + 3
    BY <1>4, <1>7, <2>1, CacheAssumption
  <2>3. \A l \in DOMAIN groups : l \in Nat /\ l <= p.label
    BY <1>9, CacheAssumption
  <2> HIDE DEF p, r, name
  <2> QED BY <1>7, <2>1, <2>2, <2>3
<1> HIDE DEF p, r, name
<1>11. Reading(trail, lines)'
  <2>1. \A k \in 1..(n + 2) : trail[k].label <= name
    <3> TAKE k \in 1..(n + 2)
    <3>1. CASE k <= n
      <4>1. k \in 1..n /\ k \in DOMAIN trail
        BY <1>3, <1>4, <3>1
      <4>2. trail[k].label <= p.label /\ trail[k].label \in Int
        BY <1>9, <1>10, <4>1
      <4> QED BY <1>7, <1>10, <4>2
    <3>2. CASE k = n + 1
      BY <1>7, <1>10, <3>2 DEF p
    <3>3. CASE k = n + 2
      BY <1>7, <1>10, <3>3
    <3> QED BY <1>4, <3>1, <3>2, <3>3
  <2>2. \A l \in DOMAIN groups' : l \in Labels /\ l <= name /\ Own(groups[l])'
    BY <1>1, <1>9, <1>10 DEF Own
  <2>3. Own(reader.devices)'
    BY <1>8, EmptyTable DEF Own
  <2>4. name \notin DOMAIN groups
    BY <1>10
  <2>5. \A m \in DOMAIN reader'.devices : m <= r.mac
    BY <1>8, EmptyTable
  <2>6. \A l \in DOMAIN groups : ReadOf(l)' = groups[l]
    BY <1>1, <1>8, <2>4 DEF ReadOf
  <2>7. ASSUME NEW k \in 1..(n + 2), lines[k].kind = "number"
        PROVE  /\ trail[k].label \in DOMAIN groups
               /\ trail[k].mac \in DOMAIN ReadOf(trail[k].label)'
               /\ lines[k].value = ReadOf(trail[k].label)'[trail[k].mac][trail[k].field - 1]
    <3>1. k \in 1..n
      BY <1>4, <1>6, <1>7, <2>7
    <3> QED BY <1>9, <2>6, <2>7, <3>1
  <2>8. n + 2 <= Len(lines) /\ r = trail[n + 3]
    BY <1>3, <1>4 DEF r
  <2> QED BY <1>1, <1>8, <1>10, <2>1, <2>2, <2>3, <2>4, <2>5, <2>7, <2>8 DEF Reading
<1>12. ASSUME job.steady
       PROVE  ReadingExact(job.table, trail)'
  <2> DEFINE t == job.table
  <2>1. /\ Exhausted(t, p)
        /\ \A k \in DOMAIN groups : k \in DOMAIN t \ {Blank} /\ groups[k] = t[k]
        /\ \A k \in DOMAIN t \ {Blank} : k <= p.label => k \in DOMAIN groups
    BY <1>3, <1>5, <1>12 DEF ReadingExact, p
  <2>2. \A l \in Rest(t, p.label) : name <= l
    <3>1. Exact(t, trail[n + 1], trail[(n + 1) + 1], lines[n + 1])
      BY <1>3, <1>4, <1>12 DEF ExactTrail
    <3>2. (n + 1) + 1 = n + 2
      BY <1>4
    <3> QED BY <1>6, <1>7, <3>1, <3>2 DEF Exact, p
  <2>3. /\ name \in DOMAIN t /\ t = job'.table
        /\ lines[n + 2].value = Cardinality(DOMAIN t[name])
    <3>1. Exact(t, trail[n + 2], trail[(n + 2) + 1], lines[n + 2]) /\ PlaceIn(t, trail[n + 3])
      BY <1>3, <1>4, <1>12 DEF ExactTrail
    <3>2. name \in DOMAIN t
      BY <1>8, <3>1 DEF PlaceIn, r
    <3> QED BY <1>1, <1>7, <3>1, <3>2 DEF Exact, Members
  <2>4. DOMAIN t[name] \subseteq Nat /\ DOMAIN t \subseteq Nat
        /\ Cardinality(DOMAIN t[name]) \in Nat
    <3>1. DOMAIN t[name] \subseteq Macs /\ DOMAIN t \subseteq Labels
      BY <1>3, <1>12, <2>3 DEF TableOK
    <3> QED BY <3>1, FS_Subset, FS_CardinalityType, CacheAssumption
  <2>5. \A k \in DOMAIN t \ {Blank} : k <= name => k \in DOMAIN groups \/ k = name
    BY <1>10, <2>1, <2>2, <2>4 DEF Rest
  <2>6. {m \in DOMAIN t[name] : m <= None} = {}
    BY <2>4 DEF None
  <2>7. reader'.devices = [m \in {d \in DOMAIN job'.table[r.label] : d <= r.mac} |->
                              job'.table[r.label][m]]
    <3>1. \A f : <<>> = [m \in {} |-> f[m]]
      OBVIOUS
    <3>2. {d \in DOMAIN job'.table[r.label] : d <= r.mac} = {}
      BY <1>8, <2>3, <2>6
    <3> QED BY <1>8, <3>1, <3>2
  <2>8. reader'.left + Cardinality(DOMAIN reader'.devices) = Cardinality(DOMAIN t[name])
    BY <1>8, <2>3, <2>4, EmptyTable, FS_EmptySet
  <2>9. trail[Done' + 1] = r
    BY <1>8, <1>10 DEF r
  <2>10. \A k \in DOMAIN groups' : k \in DOMAIN t \ {Blank} /\ groups'[k] = t[k]
    BY <1>1, <2>1
  <2>11. \A k \in DOMAIN t \ {Blank} : k <= name => k \in DOMAIN groups' \/ k = name
    BY <1>1, <2>5
  <2>12. reader'.left + Cardinality(DOMAIN reader'.devices) = Cardinality(DOMAIN job'.table[r.label])
    BY <1>8, <2>3, <2>8
  <2>13. t = job'.table /\ r.label = name /\ InGroup'
    BY <1>8, <2>3
  <2> HIDE DEF t
  <2> QED BY <2>7, <2>9, <2>10, <2>11, <2>12, <2>13 DEF ReadingExact
<1> QED BY <1>11, <1>12

\* A file that was finished does not end behind the name of a group.
LEMMA GroupAccepted ==
    ASSUME Inv, ReadGroup, job.steady, job.whole, NEW trail, NEW lines, FileInv(trail, lines)
    PROVE  pc' = "reading"
<1> DEFINE n == reader.line
           p == trail[n + 1]
<1>1. /\ pc = "reading" /\ ~reader.group /\ Getline(n + 1) # End /\ Tracked
      /\ StoiAccepts(Getline(n + 2)) => pc' = "reading"
  BY DEF ReadGroup, Tracked
<1>2. /\ Trail(trail, lines) /\ Reading(trail, lines)
      /\ ExactTrail(job.table, trail, lines)
      /\ ReadingExact(job.table, trail) /\ TableOK(job.table)
      /\ Exhausted(job.table, trail[Len(trail)]) /\ Len(trail) = Len(file) + 1
      /\ Len(file) \in Nat /\ DOMAIN lines = 1..Len(file)
      /\ DOMAIN trail = 1..(Len(file) + 1)
      /\ Done = n /\ n \in 0..Len(file)
      /\ \A i \in Nat \ {0} : Getline(i) = IF i <= Len(file) THEN lines[i] ELSE End
  BY <1>1, ReaderFacts
<1>3. n + 1 \in DOMAIN lines /\ n \in Nat /\ n + 1 \in DOMAIN trail /\ (n + 1) + 1 = n + 2
  BY <1>1, <1>2
<1>4. p.stage # "size" /\ p.field = 0 /\ Exhausted(job.table, p)
  BY <1>1, <1>2 DEF Reading, ReadingExact, InGroup
<1>5. lines[n + 1].kind = "label"
  <2>1. Moves(p, trail[n + 2], lines[n + 1])
    BY <1>2, <1>3, TrailTypes
  <2>2. Exact(job.table, p, trail[n + 2], lines[n + 1])
    BY <1>2, <1>3 DEF ExactTrail
  <2>3. lines[n + 1].kind # "name"
    <3> SUFFICES ASSUME lines[n + 1].kind = "name" PROVE FALSE
      OBVIOUS
    <3>1. /\ trail[n + 2].mac \in Members(job.table, p.label)
          /\ trail[n + 2].mac = lines[n + 1].value
          /\ lines[n + 1].value \in Macs /\ lines[n + 1].value > p.mac /\ p.stage = "device"
      BY <1>2, <1>3, <2>2, DeviceLines DEF Exact
    <3>2. trail[n + 2].mac <= p.mac
      BY <1>4, <3>1 DEF Exhausted
    <3>3. p.mac \in Int
      <4>1. Proper(p)
        BY <1>2, <1>3, TrailTypes
      <4> QED BY <3>1, <4>1, CacheAssumption DEF Proper, None
    <3>4. trail[n + 2].mac \in Int
      BY <3>1, CacheAssumption
    <3> QED BY <3>1, <3>2, <3>3, <3>4
  <2> QED BY <1>4, <2>1, <2>3, NextKind
<1>6. trail[n + 2].stage = "size"
  BY <1>2, <1>3, <1>5, GroupLines
<1>7. n + 2 # Len(trail)
  BY <1>2, <1>6 DEF Exhausted
<1>8. n + 2 \in DOMAIN lines
  BY <1>2, <1>3, <1>7
<1>9. lines[n + 2].kind = "count"
  BY <1>2, <1>3, <1>5, <1>8, GroupLines
<1> QED BY <1>1, <1>2, <1>8, <1>9 DEF StoiAccepts

LEMMA ReadGroupKeeps ==
    ASSUME Inv, ReadGroup
    PROVE  TypeOK' /\ RunningInv' /\ (Tracked' => \E trail, lines : FileInv(trail, lines)')
<1> DEFINE label == Getline(reader.line + 1)
           size == Getline(reader.line + 2)
<1>1. /\ pc = "reading"
      /\ \/ /\ StoiAccepts(size) /\ pc' = "reading"
            /\ reader' = [line |-> reader.line + 2, label |-> LabelOf(label),
                          left |-> size.value, devices |-> <<>>, group |-> TRUE]
         \/ pc' = "threw" /\ reader' = reader
      /\ UNCHANGED <<groups, file, at, changes, adding, job, had>>
      /\ TypeOK /\ RunningInv
  BY DEF ReadGroup, Inv
<1>2. /\ reader' \in [line : Nat, label : Labels \cup {Other}, left : Nat,
                      devices : {reader'.devices}, group : BOOLEAN]
      /\ HasDevices(reader'.devices)
  <2>1. CASE pc' = "threw" /\ reader' = reader
    BY <1>1, <2>1 DEF TypeOK
  <2>2. CASE /\ StoiAccepts(size)
             /\ reader' = [line |-> reader.line + 2, label |-> LabelOf(label),
                           left |-> size.value, devices |-> <<>>, group |-> TRUE]
    <3>1. /\ StoiAccepts(size) => size.value \in Nat
          /\ label.kind = "label" => label.value \in Labels
      BY <1>1, GetlineType DEF TypeOK
    <3>2. reader.line + 2 \in Nat
      BY <1>1 DEF TypeOK
    <3>3. LabelOf(label) \in Labels \cup {Other}
      BY <3>1 DEF LabelOf
    <3> QED BY <2>2, <3>1, <3>2, <3>3, EmptyTable
  <2> QED BY <1>1, <2>1, <2>2
<1>3. TypeOK'
  BY <1>1, <1>2 DEF TypeOK, HasDevices
<1>4. RunningInv' /\ (Tracked' <=> Tracked)
  BY <1>1, StartStep
<1>5. ASSUME Tracked
      PROVE  \E trail, lines : FileInv(trail, lines)'
  <2>1. PICK trail, lines : FileInv(trail, lines)
    BY <1>5 DEF Inv
  <2>2. job.whole /\ job.steady => pc' # "threw"
    BY <2>1, GroupAccepted
  <2>3. pc' \in {"reading", "started"} =>
            /\ Reading(trail, lines)'
            /\ job.steady => ReadingExact(job.table, trail)'
    BY <1>1, <1>5, <2>1, GroupRead
  <2>4. FileInv(trail, lines)'
    BY <1>1, <2>1, <2>2, <2>3, FileStep
  <2> QED BY <2>4
<1> QED BY <1>3, <1>4, <1>5

LEMMA AddDeviceFacts ==
    ASSUME NEW devices, HasDevices(devices), NEW m \in Macs \cup {Other},
           NEW st \in [1..Fields -> Nat]
    PROVE  /\ HasDevices(AddDevice(devices, m, st))
           /\ DOMAIN AddDevice(devices, m, st) = DOMAIN devices \cup {m}
<1> DEFINE new == [d \in DOMAIN devices \cup {m} |-> IF d = m THEN st ELSE devices[d]]
<1>1. CASE m \in DOMAIN devices
  <2>1. DOMAIN devices = DOMAIN devices \cup {m}
    BY <1>1
  <2> QED BY <1>1, <2>1 DEF AddDevice
<1>2. CASE m \notin DOMAIN devices
  <2>1. AddDevice(devices, m, st) = new
    BY <1>2 DEF AddDevice
  <2>2. /\ DOMAIN new = DOMAIN devices \cup {m} /\ new = [d \in DOMAIN new |-> new[d]]
        /\ \A d \in DOMAIN new : new[d] = IF d = m THEN st ELSE devices[d]
    OBVIOUS
  <2> HIDE DEF new
  <2>3. HasDevices(new)
    BY <2>2 DEF HasDevices
  <2> QED BY <2>1, <2>2, <2>3 DEF new
<1> QED BY <1>1, <1>2

\* The device m with the state st is in the lines that follow position p, and
\* the reader goes beyond them with it.
DeviceIs(trail, lines, n, p, m, st) ==
    /\ n + 1 \in DOMAIN lines /\ n + 2 + Fields \in DOMAIN lines
    /\ lines[n + 1].kind = "name" /\ lines[n + 2].kind = "mac"
    /\ \A i \in 1..Fields : /\ lines[n + 2 + i].kind = "number"
                            /\ lines[n + 2 + i].value = st[i]
                            /\ st[i] \in had[m][i]
    /\ m > p.mac /\ trail[n + 2].mac = m
    /\ \A j \in 0..Fields :
          trail[n + 2 + j] = Place("device", p.label, m, j + 1, n + 1 + j)
    /\ trail[n + 3 + Fields] = Place("device", p.label, m, 0, n + 2 + Fields)
    /\ reader' = [reader EXCEPT !.line = n + 2 + Fields, !.left = reader.left - 1,
                                !.devices = AddDevice(reader.devices, m, st)]

\* The lines of the next device are those of one device, and the reader knows them
\* by the numbers it finds: what is accepted is a name, an address and its numbers.
LEMMA DeviceFound ==
    ASSUME Inv, Tracked, ReadDevice, pc' = "reading",
           NEW trail, NEW lines, FileInv(trail, lines),
           NEW n, n = reader.line, NEW p, p = trail[n + 1]
    PROVE  \E m \in Macs, st \in [1..Fields -> Nat] :
               DeviceIs(trail, lines, n, p, m, st)
<1> DEFINE m == lines[n + 1].value
           st == [i \in 1..Fields |-> lines[n + 2 + i].value]
<1>1. /\ pc = "reading" /\ reader.group
      /\ \A i \in 1..Fields : StoiAccepts(Getline(n + 2 + i))
      /\ \E d \in FromString(Getline(n + 2)) :
            reader' = [reader EXCEPT !.line = n + 2 + Fields, !.left = reader.left - 1,
                           !.devices = AddDevice(reader.devices, d,
                               [i \in 1..Fields |-> Getline(n + 2 + i).value])]
  BY DEF ReadDevice, Inv
<1>2. /\ Trail(trail, lines) /\ Reading(trail, lines)
      /\ Len(file) \in Nat /\ DOMAIN lines = 1..Len(file)
      /\ DOMAIN trail = 1..(Len(file) + 1)
      /\ Done = n /\ n \in 0..Len(file)
      /\ \A i \in Nat \ {0} : Getline(i) = IF i <= Len(file) THEN lines[i] ELSE End
  BY <1>1, ReaderFacts
<1>3. Fields \in Nat \ {0} /\ n \in Nat
  BY <1>2, CacheAssumption
<1>4. ASSUME NEW i \in 1..Fields
      PROVE  n + 2 + i \in DOMAIN lines /\ Getline(n + 2 + i) = lines[n + 2 + i]
  <2>1. n + 2 + i \in Nat \ {0}
    BY <1>3
  <2>2. Getline(n + 2 + i) # End
    BY <1>1, WrittenKinds
  <2> QED BY <1>2, <2>1, <2>2
<1>5. n + 2 + Fields \in DOMAIN lines
  <2>1. Fields \in 1..Fields
    BY <1>3
  <2> QED BY <1>4, <2>1
<1>6. /\ n + 1 \in DOMAIN lines /\ n + 2 \in DOMAIN lines /\ n + 3 \in DOMAIN lines
      /\ n + 1 \in DOMAIN trail /\ Getline(n + 2) = lines[n + 2]
  <2>1. n + 2 + Fields <= Len(file) /\ n + 3 <= n + 2 + Fields
    BY <1>2, <1>3, <1>5
  <2>2. n + 3 <= Len(file) /\ n + 2 \in Nat \ {0}
    BY <1>2, <1>3, <2>1
  <2>3. Getline(n + 2) = IF n + 2 <= Len(file) THEN lines[n + 2] ELSE End
    BY <1>2, <2>2
  <2> QED BY <1>2, <1>3, <2>2, <2>3
<1>7. p.stage = "device" /\ p.field = 0
  BY <1>1, <1>2 DEF Reading, InGroup
<1>8. lines[n + 1].kind = "name"
  <2>1. Moves(p, trail[(n + 1) + 1], lines[n + 1])
    BY <1>2, <1>6, TrailTypes
  <2>2. lines[n + 1].kind # "label"
    <3> SUFFICES ASSUME lines[n + 1].kind = "label" PROVE FALSE
      OBVIOUS
    <3>1. lines[(n + 1) + 2].kind \in {"label", "name"}
      <4>1. (n + 1) + 2 \in DOMAIN lines
        BY <1>2, <1>3, <1>6
      <4> QED BY <1>2, <1>6, <4>1, GroupLines
    <3>2. (n + 1) + 2 = n + 2 + 1 /\ 1 \in 1..Fields
      BY <1>3
    <3>3. StoiAccepts(lines[n + 2 + 1])
      BY <1>1, <1>4, <3>2
    <3> QED BY <3>1, <3>2, <3>3 DEF StoiAccepts
  <2> QED BY <1>7, <2>1, <2>2, NextKind
<1>9. /\ m \in Macs /\ m > p.mac /\ trail[(n + 1) + 1].mac = m
      /\ \A j \in 0..Fields : (n + 1) + 1 + j \in DOMAIN trail =>
            trail[(n + 1) + 1 + j] = Place("device", p.label, m, j + 1, (n + 1) + j)
      /\ (n + 1) + 1 \in DOMAIN lines => lines[(n + 1) + 1] = Line("mac", m)
      /\ \A i \in 1..Fields : (n + 1) + 1 + i \in DOMAIN lines =>
            /\ lines[(n + 1) + 1 + i].kind = "number"
            /\ lines[(n + 1) + 1 + i].value \in had[m][i]
      /\ (n + 1) + 1 + Fields \in DOMAIN lines =>
            trail[(n + 1) + 2 + Fields] = Place("device", p.label, m, 0, (n + 1) + 1 + Fields)
  <2>1. Trail(trail, lines) /\ n + 1 \in DOMAIN lines
    BY <1>2, <1>6
  <2> QED BY <1>8, <2>1, DeviceLines
<1>10. /\ (n + 1) + 1 = n + 2 /\ (n + 1) + 1 + Fields = n + 2 + Fields
       /\ (n + 1) + 2 + Fields = n + 3 + Fields
  BY <1>3
<1>11. trail[n + 2].mac = m /\ lines[n + 2] = Line("mac", m)
  BY <1>6, <1>9, <1>10
<1>12. trail[n + 3 + Fields] = Place("device", p.label, m, 0, n + 2 + Fields)
  BY <1>5, <1>9, <1>10
<1>13. ASSUME NEW j \in 0..Fields
       PROVE  trail[n + 2 + j] = Place("device", p.label, m, j + 1, n + 1 + j)
  <2>1. (n + 1) + 1 + j = n + 2 + j /\ (n + 1) + j = n + 1 + j /\ n + 2 + j \in DOMAIN trail
    BY <1>2, <1>3, <1>5
  <2> QED BY <1>9, <2>1
<1>14. ASSUME NEW i \in 1..Fields
       PROVE  /\ lines[n + 2 + i].kind = "number" /\ lines[n + 2 + i].value \in had[m][i]
              /\ lines[n + 2 + i].value \in Nat
  <2>1. (n + 1) + 1 + i = n + 2 + i
    BY <1>3
  <2>2. lines[n + 2 + i].kind = "number" /\ lines[n + 2 + i].value \in had[m][i]
    BY <1>4, <1>9, <2>1
  <2>3. lines[n + 2 + i] \in Written
    BY <1>2, <1>4, TrailTypes
  <2> QED BY <2>2, <2>3, WrittenKinds
<1>15. st = [i \in 1..Fields |-> Getline(n + 2 + i).value]
  BY <1>4
<1>16. FromString(Getline(n + 2)) = {m}
  BY <1>6, <1>11 DEF FromString, Line
<1>17. reader' = [reader EXCEPT !.line = n + 2 + Fields, !.left = reader.left - 1,
                                !.devices = AddDevice(reader.devices, m, st)]
  BY <1>1, <1>15, <1>16
<1>18. st \in [1..Fields -> Nat] /\ \A i \in 1..Fields : st[i] \in had[m][i]
  BY <1>14
<1>19. lines[n + 2].kind = "mac"
  BY <1>11 DEF Line
<1>20. \A i \in 1..Fields : lines[n + 2 + i].value = st[i]
  OBVIOUS
<1> HIDE DEF m, st
<1> QED BY <1>5, <1>6, <1>8, <1>9, <1>11, <1>12, <1>13, <1>14, <1>17, <1>18, <1>19, <1>20
       DEF DeviceIs

\* One device more has been read of the group the reader is in.
LEMMA DeviceRead ==
    ASSUME Inv, Tracked, ReadDevice, pc' = "reading",
           NEW trail, NEW lines, FileInv(trail, lines)
    PROVE  /\ Reading(trail, lines)'
           /\ job.steady => ReadingExact(job.table, trail)'
<1>1. /\ pc = "reading" /\ reader.group /\ MoreDevices
      /\ UNCHANGED <<groups, file, at, changes, adding, job, had>>
      /\ TypeOK /\ RunningInv
  BY DEF ReadDevice, Inv
<1>2. PICK n, p, l, old :
          n = reader.line /\ p = trail[n + 1] /\ l = p.label /\ old = reader.devices
  OBVIOUS
<1>3. /\ Trail(trail, lines) /\ Reading(trail, lines)
      /\ job.steady => /\ ExactTrail(job.table, trail, lines)
                       /\ ReadingExact(job.table, trail) /\ TableOK(job.table)
      /\ Len(file) \in Nat /\ DOMAIN lines = 1..Len(file) /\ Len(lines) = Len(file)
      /\ DOMAIN trail = 1..(Len(file) + 1)
      /\ Done = n /\ n \in 0..Len(file)
  BY <1>1, <1>2, ReaderFacts
<1>4. Fields \in Nat \ {0} /\ n \in Nat /\ Macs \subseteq Nat
  BY <1>3, CacheAssumption
<1>5. PICK m \in Macs, st \in [1..Fields -> Nat] : DeviceIs(trail, lines, n, p, m, st)
  BY <1>2, DeviceFound
<1> USE DEF DeviceIs
<1>6. PICK last, r, new :
          last = n + 2 + Fields /\ r = trail[last + 1] /\ new = AddDevice(old, m, st)
  OBVIOUS
<1>7. /\ reader'.line = last /\ reader'.left = reader.left - 1 /\ reader'.devices = new
      /\ reader'.group /\ reader'.label = reader.label
      /\ HasDevices(old) /\ reader.left \in Nat
  BY <1>1, <1>2, <1>5, <1>6 DEF TypeOK
<1>8. /\ last + 1 = n + 3 + Fields /\ last \in DOMAIN lines
      /\ last \in Nat /\ n + 1 <= last
  BY <1>4, <1>5, <1>6
<1>9. /\ r = Place("device", l, m, 0, last)
      /\ r.stage = "device" /\ r.field = 0 /\ r.label = l /\ r.mac = m
  BY <1>2, <1>5, <1>6, <1>8 DEF Place
<1>10. InGroup /\ InGroup' /\ Done' = last
  BY <1>1, <1>5, <1>7 DEF InGroup, Done
<1>11. /\ p.stage = "device" /\ p.field = 0 /\ reader.label = l /\ l \notin DOMAIN groups
       /\ Own(old) /\ \A d \in DOMAIN old : d <= p.mac
       /\ \A k \in DOMAIN groups : k \in Labels /\ k <= l /\ Own(groups[k])
       /\ \A k \in 1..n : trail[k].label <= l
       /\ \A k \in 1..n : lines[k].kind = "number" =>
               /\ trail[k].label \in DOMAIN groups \cup {l}
               /\ trail[k].mac \in DOMAIN ReadOf(trail[k].label)
               /\ lines[k].value = ReadOf(trail[k].label)[trail[k].mac][trail[k].field - 1]
  BY <1>2, <1>3, <1>10 DEF Reading
<1>12. p.mac \in Int /\ l \in Int /\ m \in Int /\ \A d \in DOMAIN old : d \in Macs
  <2>1. Proper(p) /\ l \in Int
    BY <1>2, <1>3, <1>5, TrailTypes
  <2>2. p.mac \in Macs \cup {None}
    BY <1>11, <2>1 DEF Proper
  <2>3. \A d \in DOMAIN old : d \in Macs
    BY <1>4, <1>11 DEF Own
  <2>4. m \in Int
    BY <1>4
  <2>5. p.mac \in Int
    <3>1. \A x \in Macs \cup {None} : x \in Int
      BY <1>4 DEF None
    <3> QED BY <2>2, <3>1, Zenon
  <2> QED BY <2>1, <2>3, <2>4, <2>5
<1>13. m \notin DOMAIN old
  BY <1>5, <1>11, <1>12
<1>14. /\ DOMAIN new = DOMAIN old \cup {m} /\ HasDevices(new)
       /\ new = [d \in DOMAIN old \cup {m} |-> IF d = m THEN st ELSE old[d]]
  <2>1. m \in Macs \cup {Other} /\ HasDevices(old)
    BY <1>7
  <2>2. /\ HasDevices(AddDevice(old, m, st))
        /\ DOMAIN AddDevice(old, m, st) = DOMAIN old \cup {m}
    BY <2>1, AddDeviceFacts, Zenon
  <2>3. new = [d \in DOMAIN old \cup {m} |-> IF d = m THEN st ELSE old[d]]
    BY <1>6, <1>13 DEF AddDevice
  <2> QED BY <1>6, <2>2, <2>3
<1>15. new[m] = st /\ \A d \in DOMAIN old : new[d] = old[d]
  BY <1>13, <1>14
<1>16. ASSUME NEW k \in 1..last
       PROVE  k \in 1..n \/ k = n + 1 \/ \E j \in 0..Fields : k = n + 2 + j
  <2>1. k > n + 1 => k - (n + 2) \in 0..Fields /\ k = n + 2 + (k - (n + 2))
    BY <1>4, <1>6
  <2> QED BY <1>4, <1>6, <2>1
<1>17. \A k \in 1..last : trail[k].label <= l
  <2> TAKE k \in 1..last
  <2>1. CASE k = n + 1
    BY <1>2, <1>12, <2>1
  <2>2. CASE \E j \in 0..Fields : k = n + 2 + j
    <3>1. PICK j \in 0..Fields : k = n + 2 + j
      BY <2>2
    <3>2. trail[k] = Place("device", l, m, j + 1, n + 1 + j)
      BY <1>2, <1>5, <3>1
    <3> QED BY <1>12, <3>2 DEF Place
  <2> QED BY <1>11, <1>16, <2>1, <2>2
<1>18. Own(reader.devices)' /\ \A d \in DOMAIN new : d <= m
  <2>1. \A d \in DOMAIN new, i \in 1..Fields : d \in Macs /\ new[d][i] \in had[d][i]
    BY <1>5, <1>11, <1>12, <1>14, <1>15 DEF Own
  <2>2. \A d \in DOMAIN new : d <= m
    BY <1>4, <1>5, <1>11, <1>12, <1>14
  <2> QED BY <1>1, <1>7, <2>1, <2>2 DEF Own
<1>19. /\ ReadOf(l) = old /\ ReadOf(l)' = new
       /\ \A k \in DOMAIN groups : ReadOf(k) = groups[k] /\ ReadOf(k)' = groups[k]
  BY <1>1, <1>2, <1>7, <1>10, <1>11 DEF ReadOf
<1>20. ASSUME NEW k \in 1..last, lines[k].kind = "number"
       PROVE  /\ trail[k].label \in DOMAIN groups \cup {l}
              /\ trail[k].mac \in DOMAIN ReadOf(trail[k].label)'
              /\ lines[k].value = ReadOf(trail[k].label)'[trail[k].mac][trail[k].field - 1]
  <2>1. CASE k \in 1..n
    <3>1. /\ trail[k].label \in DOMAIN groups \cup {l}
          /\ trail[k].mac \in DOMAIN ReadOf(trail[k].label)
          /\ lines[k].value = ReadOf(trail[k].label)[trail[k].mac][trail[k].field - 1]
      BY <1>11, <1>20, <2>1
    <3>2. CASE trail[k].label = l
      BY <1>14, <1>15, <1>19, <3>1, <3>2
    <3>3. CASE trail[k].label \in DOMAIN groups
      BY <1>19, <3>1, <3>3
    <3> QED BY <3>1, <3>2, <3>3
  <2>2. CASE k = n + 1
    BY <1>5, <1>20, <2>2
  <2>3. CASE \E j \in 0..Fields : k = n + 2 + j
    <3>1. PICK j \in 0..Fields : k = n + 2 + j
      BY <2>3
    <3>2. j # 0
      BY <1>4, <1>5, <1>20, <3>1
    <3>3. j \in 1..Fields /\ (j + 1) - 1 = j
      BY <1>4, <3>1, <3>2
    <3>4. trail[k] = Place("device", l, m, j + 1, n + 1 + j)
      BY <1>2, <1>5, <3>1
    <3>5. trail[k].label = l /\ trail[k].mac = m /\ trail[k].field - 1 = j
      BY <3>3, <3>4 DEF Place
    <3>6. lines[k].value = st[j]
      BY <1>5, <3>1, <3>3
    <3> QED BY <1>14, <1>15, <1>19, <3>5, <3>6
  <2> QED BY <1>16, <2>1, <2>2, <2>3
<1>21. Reading(trail, lines)'
  <2>1. last <= Len(lines) /\ trail[Done' + 1] = r
    BY <1>3, <1>6, <1>8, <1>10
  <2>2. \A k \in DOMAIN groups' : k \in Labels /\ k <= l /\ Own(groups[k])'
    BY <1>1, <1>11 DEF Own
  <2> QED BY <1>1, <1>7, <1>9, <1>10, <1>11, <1>17, <1>18, <1>20, <2>1, <2>2 DEF Reading
<1>22. ASSUME job.steady
       PROVE  ReadingExact(job.table, trail)'
  <2>1. PICK t : t = job.table
    OBVIOUS
  <2>2. /\ \A k \in DOMAIN groups : k \in DOMAIN t \ {Blank} /\ groups[k] = t[k]
        /\ \A k \in DOMAIN t \ {Blank} : k <= l => k \in DOMAIN groups \/ k = l
        /\ old = [d \in {x \in DOMAIN t[l] : x <= p.mac} |-> t[l][d]]
        /\ reader.left + Cardinality(DOMAIN old) = Cardinality(DOMAIN t[l])
    BY <1>2, <1>3, <1>10, <1>22, <2>1 DEF ReadingExact
  <2>3. /\ m \in DOMAIN t[l] /\ \A d \in DOMAIN t[l] : d > p.mac => m <= d
        /\ l \in DOMAIN t
    <3>1. Exact(t, p, trail[(n + 1) + 1], lines[n + 1])
      BY <1>2, <1>3, <1>5, <1>22, <2>1 DEF ExactTrail
    <3>2. PlaceIn(t, p)
      BY <1>2, <1>3, <1>5, <1>22, <2>1 DEF ExactTrail
    <3>3. (n + 1) + 1 = n + 2
      BY <1>4
    <3> QED BY <1>2, <1>5, <1>11, <3>1, <3>2, <3>3 DEF Exact, PlaceIn, Members
  <2>4. /\ DOMAIN t[l] \subseteq Macs /\ t[l] \in [DOMAIN t[l] -> [1..Fields -> Nat]]
        /\ IsFiniteSet(DOMAIN t[l])
    <3>1. DOMAIN t[l] \subseteq Macs /\ HasDevices(t[l])
      BY <1>3, <1>22, <2>1, <2>3 DEF TableOK
    <3> QED BY <3>1, FS_Subset, CacheAssumption DEF HasDevices
  <2>5. st = t[l][m]
    <3>1. ASSUME NEW i \in 1..Fields PROVE st[i] = t[l][m][i]
      <4>1. n + 2 + i \in DOMAIN lines /\ i \in 0..Fields
        BY <1>3, <1>4, <1>5
      <4>2. trail[n + 2 + i] = Place("device", l, m, i + 1, n + 1 + i)
        BY <1>2, <1>5, <4>1
      <4>3. /\ trail[n + 2 + i].label = l /\ trail[n + 2 + i].mac = m
            /\ trail[n + 2 + i].field - 1 = i
        BY <4>2 DEF Place
      <4>4. Exact(t, trail[n + 2 + i], trail[(n + 2 + i) + 1], lines[n + 2 + i])
        BY <1>3, <1>22, <2>1, <4>1 DEF ExactTrail
      <4>5. lines[n + 2 + i].kind = "number" /\ lines[n + 2 + i].value = st[i]
        BY <1>5
      <4> QED BY <4>3, <4>4, <4>5 DEF Exact
    <3>2. t[l][m] \in [1..Fields -> Nat]
      BY <2>3, <2>4
    <3> QED BY <1>4, <3>1, <3>2
  <2>6. {x \in DOMAIN t[l] : x <= m} = {x \in DOMAIN t[l] : x <= p.mac} \cup {m}
    <3>1. \A x \in DOMAIN t[l] : x \in Int
      <4>1. Macs \subseteq Nat /\ DOMAIN t[l] \subseteq Macs
        BY <1>4, <2>4
      <4>2. \A x \in Macs : x \in Int
        BY <4>1
      <4> QED BY <4>1, <4>2, Zenon
    <3> QED BY <1>5, <1>12, <2>3, <3>1
  <2>7. DOMAIN old = {x \in DOMAIN t[l] : x <= p.mac}
    BY <2>2
  <2>8. new = [d \in {x \in DOMAIN t[l] : x <= m} |-> t[l][d]]
    <3>1. DOMAIN new = {x \in DOMAIN t[l] : x <= m}
      BY <1>14, <2>6, <2>7
    <3>2. \A d \in DOMAIN new : new[d] = t[l][d]
      BY <1>14, <1>15, <2>2, <2>5, <2>7
    <3>3. new = [d \in DOMAIN new |-> new[d]]
      BY <1>14
    <3> QED BY <3>1, <3>2, <3>3
  <2>9. (reader.left - 1) + Cardinality(DOMAIN new) = Cardinality(DOMAIN t[l])
    <3>1. IsFiniteSet(DOMAIN old)
      BY <2>4, <2>7, FS_Subset
    <3>2. Cardinality(DOMAIN old) \in Nat /\ Cardinality(DOMAIN t[l]) \in Nat
      BY <2>4, <3>1, FS_CardinalityType
    <3>3. Cardinality(DOMAIN new) = Cardinality(DOMAIN old) + 1
      BY <1>13, <1>14, <3>1, FS_AddElement
    <3> QED BY <1>7, <2>2, <3>2, <3>3
  <2>10. trail[Done' + 1] = r /\ t = job'.table /\ groups' = groups
    BY <1>1, <1>6, <1>10, <2>1
  <2> QED BY <1>7, <1>9, <1>10, <2>2, <2>8, <2>9, <2>10 DEF ReadingExact
<1> QED BY <1>21, <1>22

\* A file that was finished has all the lines of every device.
LEMMA DeviceAccepted ==
    ASSUME Inv, ReadDevice, job.steady, job.whole, NEW trail, NEW lines, FileInv(trail, lines)
    PROVE  pc' = "reading"
<1>1. /\ pc = "reading" /\ reader.group /\ MoreDevices /\ Tracked /\ InGroup
      /\ TypeOK /\ RunningInv
      /\ (\A i \in 1..Fields : StoiAccepts(Getline(reader.line + 2 + i))) => pc' = "reading"
  BY DEF ReadDevice, Tracked, InGroup, Inv
<1>2. PICK n, p, t, old :
          n = reader.line /\ p = trail[n + 1] /\ t = job.table /\ old = reader.devices
  OBVIOUS
<1>3. /\ Trail(trail, lines) /\ Reading(trail, lines) /\ ExactTrail(t, trail, lines)
      /\ ReadingExact(t, trail) /\ TableOK(t)
      /\ Exhausted(t, trail[Len(trail)]) /\ Len(trail) = Len(file) + 1
      /\ Len(file) \in Nat /\ DOMAIN lines = 1..Len(file)
      /\ DOMAIN trail = 1..(Len(file) + 1)
      /\ Done = n /\ n \in 0..Len(file)
      /\ \A i \in Nat \ {0} : Getline(i) = IF i <= Len(file) THEN lines[i] ELSE End
  BY <1>1, <1>2, ReaderFacts
<1>4. Fields \in Nat \ {0} /\ n \in Nat /\ n + 1 \in DOMAIN trail
  BY <1>3, CacheAssumption
<1>5. p.stage = "device" /\ p.field = 0 /\ p.label \in DOMAIN t
  <2>1. p.stage = "device" /\ p.field = 0
    BY <1>1, <1>2, <1>3 DEF Reading
  <2>2. PlaceIn(t, p)
    BY <1>2, <1>3, <1>4 DEF ExactTrail
  <2> QED BY <2>1, <2>2 DEF PlaceIn
<1>6. ~Exhausted(t, p)
  <2> SUFFICES ASSUME Exhausted(t, p) PROVE FALSE
    OBVIOUS
  <2>1. /\ old = [d \in {x \in DOMAIN t[p.label] : x <= p.mac} |-> t[p.label][d]]
        /\ reader.left + Cardinality(DOMAIN old) = Cardinality(DOMAIN t[p.label])
    BY <1>1, <1>2, <1>3 DEF ReadingExact
  <2>2. \A d \in DOMAIN t[p.label] : d <= p.mac
    BY <1>5 DEF Exhausted, Members
  <2>3. DOMAIN old = DOMAIN t[p.label]
    BY <2>1, <2>2
  <2>4. Cardinality(DOMAIN t[p.label]) \in Nat
    BY <1>3, <1>5, FS_Subset, FS_CardinalityType, CacheAssumption DEF TableOK
  <2>5. reader.left \in Nat /\ reader.left > 0
    BY <1>1 DEF TypeOK, MoreDevices
  <2> QED BY <2>1, <2>3, <2>4, <2>5
<1>7. n + 1 \in DOMAIN lines
  <2>1. n + 1 # Len(trail)
    BY <1>2, <1>3, <1>6
  <2> QED BY <1>3, <1>4, <2>1
<1>8. lines[n + 1].kind = "name"
  <2>1. Moves(p, trail[(n + 1) + 1], lines[n + 1])
    BY <1>2, <1>3, <1>7, TrailTypes
  <2>2. Exact(t, p, trail[(n + 1) + 1], lines[n + 1])
    BY <1>2, <1>3, <1>7 DEF ExactTrail
  <2>3. lines[n + 1].kind # "label"
    BY <1>6, <2>2 DEF Exact
  <2> QED BY <1>5, <2>1, <2>3, NextKind
<1>9. /\ \A j \in 0..Fields : (n + 1) + 1 + j \in DOMAIN trail =>
            trail[(n + 1) + 1 + j] =
                Place("device", trail[n + 1].label, lines[n + 1].value, j + 1, (n + 1) + j)
      /\ \A i \in 1..Fields : (n + 1) + 1 + i \in DOMAIN lines =>
            lines[(n + 1) + 1 + i].kind = "number"
  <2>1. Trail(trail, lines)
    BY <1>3
  <2> QED BY <1>7, <1>8, <2>1, DeviceLines
<1>10. n + 2 + Fields <= Len(file)
  <2> SUFFICES ASSUME ~(n + 2 + Fields <= Len(file)) PROVE FALSE
    OBVIOUS
  <2>1. PICK j \in 0..Fields : (n + 1) + 1 + j = Len(trail)
    <3>1. Len(trail) - (n + 2) \in 0..Fields
      BY <1>3, <1>4, <1>7
    <3>2. (n + 1) + 1 + (Len(trail) - (n + 2)) = Len(trail)
      BY <1>3, <1>4
    <3> QED BY <3>1, <3>2
  <2>2. trail[Len(trail)].field = j + 1
    <3>1. (n + 1) + 1 + j \in DOMAIN trail
      BY <1>3, <2>1
    <3>2. trail[(n + 1) + 1 + j] =
              Place("device", trail[n + 1].label, lines[n + 1].value, j + 1, (n + 1) + j)
      BY <1>9, <3>1
    <3>3. trail[(n + 1) + 1 + j].field = j + 1
      BY <3>2 DEF Place
    <3> QED BY <2>1, <3>3
  <2>3. j + 1 # 0
    BY <1>4, <2>1
  <2> QED BY <1>3, <2>2, <2>3 DEF Exhausted
<1>11. ASSUME NEW i \in 1..Fields
       PROVE  StoiAccepts(Getline(n + 2 + i))
  <2>1. /\ (n + 1) + 1 + i = n + 2 + i /\ n + 2 + i \in Nat \ {0} /\ n + 2 + i <= Len(file)
        /\ n + 2 + i \in DOMAIN lines
    BY <1>3, <1>4, <1>10
  <2>2. Getline(n + 2 + i) = lines[n + 2 + i]
    BY <1>3, <2>1
  <2>3. lines[n + 2 + i].kind = "number"
    BY <1>9, <2>1
  <2> QED BY <2>2, <2>3 DEF StoiAccepts
<1> QED BY <1>1, <1>2, <1>11

LEMMA ReadDeviceKeeps ==
    ASSUME Inv, ReadDevice
    PROVE  TypeOK' /\ RunningInv' /\ (Tracked' => \E trail, lines : FileInv(trail, lines)')
<1> DEFINE field(i) == Getline(reader.line + 2 + i)
           st == [i \in 1..Fields |-> field(i).value]
<1>1. /\ pc = "reading" /\ reader.group /\ reader.left > 0
      /\ UNCHANGED <<groups, file, at, changes, adding, job, had>>
      /\ TypeOK /\ RunningInv
      /\ \/ /\ \A i \in 1..Fields : StoiAccepts(field(i))
            /\ \E m \in FromString(Getline(reader.line + 2)) :
                  reader' = [reader EXCEPT !.line = @ + 2 + Fields, !.left = @ - 1,
                                           !.devices = AddDevice(@, m, st)]
            /\ pc' = "reading"
         \/ pc' = "threw" /\ reader' = reader
  BY DEF ReadDevice, MoreDevices, Inv
<1>2. /\ reader' \in [line : Nat, label : Labels \cup {Other}, left : Nat,
                      devices : {reader'.devices}, group : BOOLEAN]
      /\ HasDevices(reader'.devices)
  <2>1. CASE pc' = "threw" /\ reader' = reader
    BY <1>1, <2>1 DEF TypeOK
  <2>2. CASE /\ \A i \in 1..Fields : StoiAccepts(field(i))
             /\ \E m \in FromString(Getline(reader.line + 2)) :
                  reader' = [reader EXCEPT !.line = @ + 2 + Fields, !.left = @ - 1,
                                           !.devices = AddDevice(@, m, st)]
    <3>1. PICK m \in FromString(Getline(reader.line + 2)) :
              reader' = [reader EXCEPT !.line = @ + 2 + Fields, !.left = @ - 1,
                                       !.devices = AddDevice(@, m, st)]
      BY <2>2
    <3>2. m \in Macs \cup {Other}
      <4>1. Getline(reader.line + 2).kind = "mac" => Getline(reader.line + 2).value \in Macs
        BY <1>1, GetlineType DEF TypeOK
      <4> QED BY <4>1 DEF FromString
    <3>3. st \in [1..Fields -> Nat]
      <4>1. \A i \in 1..Fields : field(i).value \in Nat
        BY <1>1, <2>2, GetlineType DEF TypeOK
      <4> QED BY <4>1
    <3> HIDE DEF st
    <3>4. HasDevices(AddDevice(reader.devices, m, st))
      BY <1>1, <3>2, <3>3, AddDeviceFacts DEF TypeOK
    <3>5. /\ reader.line + 2 + Fields \in Nat /\ reader.left - 1 \in Nat
          /\ reader.label \in Labels \cup {Other} /\ reader.group \in BOOLEAN
      <4>1. /\ reader.line \in Nat /\ reader.left \in Nat
            /\ reader.label \in Labels \cup {Other} /\ reader.group \in BOOLEAN
        BY <1>1 DEF TypeOK
      <4>2. reader.left > 0 /\ Fields \in Nat
        BY <1>1, CacheAssumption
      <4> QED BY <4>1, <4>2
    <3>6. ASSUME NEW new, new = AddDevice(reader.devices, m, st)
          PROVE  /\ reader' \in [line : Nat, label : Labels \cup {Other}, left : Nat,
                                 devices : {new}, group : BOOLEAN]
                 /\ reader'.devices = new
      <4>1. reader' = [reader EXCEPT !.line = reader.line + 2 + Fields,
                                     !.left = reader.left - 1, !.devices = new]
        BY <3>1, <3>6
      <4>2. reader \in [line : Nat, label : Labels \cup {Other}, left : Nat,
                        devices : {reader.devices}, group : BOOLEAN]
        BY <1>1 DEF TypeOK
      <4> QED BY <3>5, <4>1, <4>2
    <3> QED BY <3>4, <3>6
  <2> QED BY <1>1, <2>1, <2>2
<1>3. TypeOK'
  <2>1. /\ pc' \in {"reading", "threw"} /\ TypeOK
        /\ UNCHANGED <<groups, file, at, changes, adding, job, had>>
    BY <1>1
  <2> QED BY <1>2, <2>1 DEF TypeOK, HasDevices
<1>4. RunningInv' /\ (Tracked' <=> Tracked)
  <2>1. /\ pc = "reading" /\ pc' # "running" /\ at' = at /\ job' = job
        /\ TypeOK /\ RunningInv
    BY <1>1
  <2> QED BY <2>1, StartStep
<1>5. ASSUME Tracked
      PROVE  \E trail, lines : FileInv(trail, lines)'
  <2>1. PICK trail, lines : FileInv(trail, lines)
    BY <1>5 DEF Inv
  <2>2. job.whole /\ job.steady => pc' # "threw"
    BY <2>1, DeviceAccepted
  <2>3. pc' \in {"reading", "started"} =>
            /\ Reading(trail, lines)'
            /\ job.steady => ReadingExact(job.table, trail)'
    BY <1>1, <1>5, <2>1, DeviceRead
  <2>4. FileInv(trail, lines)'
    BY <1>1, <2>1, <2>2, <2>3, FileStep
  <2> QED BY <2>4
<1> QED BY <1>3, <1>4, <1>5

------------------------------------------------------------------------------
(* The theorems                                                            *)

LEMMA Stutters == Inv /\ UNCHANGED vars => Inv'
<1> SUFFICES ASSUME Inv, UNCHANGED vars PROVE Inv'
  OBVIOUS
<1>1. /\ UNCHANGED <<pc, groups, file, at, reader, changes, adding, job, had>>
      /\ TypeOK /\ RunningInv /\ Active' = Active /\ (Tracked' <=> Tracked)
  BY DEF vars, Inv, Active, Tracked
<1>2. TypeOK' /\ RunningInv'
  BY <1>1 DEF TypeOK, RunningInv, TableOK, Own, HasDevices
<1>3. ASSUME Tracked
      PROVE  \E trail, lines : FileInv(trail, lines)'
  <2>1. PICK trail, lines : FileInv(trail, lines)
    BY <1>3 DEF Inv
  <2>2. Trail(trail, lines)'
    BY <1>1, <2>1, TrailUnchanged DEF FileInv
  <2>3. Writing(trail, lines)'
    BY <1>1, <2>1 DEF FileInv, Writing, Exhausted, Rest, Members
  <2>4. (job.steady => ExactTrail(job.table, trail, lines))'
    BY <1>1, <2>1 DEF FileInv, ExactTrail, Exact, PlaceIn, Members, Rest, Exhausted
  <2>5. (pc \in {"reading", "started"} => Reading(trail, lines))'
    BY <1>1, <2>1 DEF FileInv, Reading, Done, InGroup, ReadOf, Own
  <2>6. (pc \in {"reading", "started"} /\ job.steady => ReadingExact(job.table, trail))'
    BY <1>1, <2>1 DEF FileInv, ReadingExact, Done, InGroup, Exhausted, Members
  <2> QED BY <1>1, <2>1, <2>2, <2>3, <2>4, <2>5, <2>6 DEF FileInv
<1> QED BY <1>1, <1>2, <1>3 DEF Inv

LEMMA NextKeeps == Inv /\ Next => Inv'
<1> SUFFICES ASSUME Inv, Next
             PROVE  TypeOK' /\ RunningInv' /\ (Tracked' => \E trail, lines : FileInv(trail, lines)')
  BY DEF Inv
<1>1. ASSUME NEW h \in Handlers, OpenCache(h) PROVE Inv'
  BY <1>1, OpenCacheKeeps DEF Inv
<1>2. ASSUME NEW h \in Handlers, Writes(h) PROVE Inv'
  BY <1>2, WritesFile DEF Inv
<1>3. ASSUME NEW h \in Handlers, Exit(h) PROVE Inv'
  BY <1>3, ExitKeeps DEF Inv
<1>4. CASE Killed
  BY <1>4, KilledKeeps
<1>5. ASSUME NEW l \in Labels, NEW m \in Macs, AddGroupDevice(l, m) PROVE Inv'
  BY <1>5, AddGroupDeviceKeeps DEF Inv
<1>14. ASSUME NEW l \in DOMAIN groups, NEW m \in Macs, AddNewDevice(l, m) PROVE Inv'
  BY <1>14, AddNewDeviceKeeps DEF Inv
<1>6. ASSUME NEW l \in DOMAIN groups, NEW m \in Macs, NEW st \in States, SaveState(l, m, st)
      PROVE  Inv'
  BY <1>6, SaveStateKeeps DEF Inv
<1>7. CASE PurgeOldDevices
  BY <1>7, PurgeKeeps
<1>8. CASE Start
  BY <1>8, StartKeeps
<1>9. CASE ReadGroup
  BY <1>9, ReadGroupKeeps
<1>10. CASE ReadDevice
  BY <1>10, ReadDeviceKeeps
<1>11. CASE AddGroup
  BY <1>11, AddGroupKeeps
<1>12. CASE ReadEnds
  BY <1>12, ReadEndsKeeps
<1>13. CASE Runs
  BY <1>13, RunsKeeps
<1> QED BY <1>1, <1>2, <1>3, <1>4, <1>5, <1>6, <1>7, <1>8, <1>9, <1>10, <1>11, <1>12, <1>13, <1>14
        DEF Next, Writes, Inv

LEMMA InvAlways == Spec => []Inv
<1>1. Init => Inv
  BY InitInv
<1>2. Inv /\ [Next]_vars => Inv'
  BY NextKeeps, Stutters
<1> QED BY <1>1, <1>2, PTL DEF Spec

\* Where a start is done, nothing is left of the file: what it has read is what
\* Reading and ReadingExact say at the end of the trail.
LEMMA InvImplies == Inv => TypeOK /\ NumbersAreOwn /\ CutIsPrefix /\ ReadBack
<1> SUFFICES ASSUME Inv PROVE TypeOK /\ NumbersAreOwn /\ CutIsPrefix /\ ReadBack
  OBVIOUS
<1>1. TypeOK /\ RunningInv
  BY DEF Inv
<1>2. NumbersAreOwn
  <2> SUFFICES ASSUME job.alone, pc = "started"
               PROVE  \A l \in DOMAIN groups : Own(groups[l])
    BY CacheAssumption DEF NumbersAreOwn, Own
  <2>1. PICK trail, lines : FileInv(trail, lines)
    BY DEF Inv, Tracked
  <2> QED BY <2>1 DEF FileInv, Reading
<1>3. ASSUME Tracked, job.steady, pc = "started"
      PROVE  /\ \A k \in DOMAIN groups : k \in DOMAIN job.table \ {Blank} /\ groups[k] = job.table[k]
             /\ \A k \in DOMAIN groups, l \in DOMAIN job.table \ {Blank} : l <= k => l \in DOMAIN groups
             /\ job.whole => DOMAIN groups = DOMAIN job.table \ {Blank}
  <2>1. PICK trail, lines : FileInv(trail, lines)
    BY <1>3 DEF Inv
  <2>2. PICK p : p = trail[Done + 1]
    OBVIOUS
  <2>3. /\ Done = Len(file) /\ ~InGroup
        /\ \A k \in DOMAIN groups : k \in DOMAIN job.table \ {Blank} /\ groups[k] = job.table[k]
        /\ \A k \in DOMAIN job.table \ {Blank} : k <= p.label => k \in DOMAIN groups
        /\ \A k \in DOMAIN groups : k <= p.label
        /\ p.label \in Int /\ DOMAIN job.table \subseteq Nat
    <3>1. Done = Len(file) /\ ~InGroup
      BY <1>3 DEF Done, InGroup
    <3>2. ReadingExact(job.table, trail) /\ Reading(trail, lines) /\ Trail(trail, lines)
      BY <1>3, <2>1 DEF FileInv
    <3>3. Done + 1 \in DOMAIN trail
      <4>1. Done <= Len(lines)
        BY <3>2 DEF Reading
      <4>2. Len(file) \in Nat
        BY <1>1 DEF TypeOK
      <4> QED BY <3>1, <3>2, <4>1, <4>2, TrailTypes
    <3>4. p.label \in Int
      BY <2>2, <3>2, <3>3, TrailTypes
    <3>5. DOMAIN job.table \subseteq Nat
      BY <1>1, <1>3, CacheAssumption DEF RunningInv, TableOK
    <3> QED BY <2>2, <3>1, <3>2, <3>4, <3>5 DEF ReadingExact, Reading
  <2>4. ASSUME NEW k \in DOMAIN groups, NEW l \in DOMAIN job.table \ {Blank}, l <= k
        PROVE  l \in DOMAIN groups
    <3>1. k \in Nat /\ l \in Nat /\ k <= p.label
      BY <2>3
    <3>2. l <= p.label
      BY <2>3, <2>4, <3>1
    <3> QED BY <2>3, <3>2
  <2>5. ASSUME job.whole, NEW k \in DOMAIN job.table \ {Blank}
        PROVE  k \in DOMAIN groups
    <3>1. Rest(job.table, p.label) = {}
      <4>1. /\ Rest(job.table, trail[Len(trail)].label) = {} /\ file = lines
            /\ Len(trail) = Len(lines) + 1
        BY <1>3, <2>1, <2>5 DEF FileInv, Writing, Trail
      <4> QED BY <2>2, <2>3, <4>1
    <3>2. ~(k > p.label)
      BY <3>1 DEF Rest
    <3>3. k <= p.label
      BY <2>3, <3>2
    <3> QED BY <2>3, <3>3
  <2> QED BY <2>3, <2>4, <2>5
<1>4. CutIsPrefix
  <2> SUFFICES ASSUME job.alone, job.steady, pc = "started"
               PROVE  /\ \A l \in DOMAIN groups : l \in DOMAIN job.table /\ groups[l] = job.table[l]
                      /\ \A l \in DOMAIN groups, k \in DOMAIN job.table \ {Blank} :
                             k < l => k \in DOMAIN groups
    BY DEF CutIsPrefix
  <2>1. Tracked
    BY DEF Tracked
  <2>2. DOMAIN job.table \subseteq Nat
    BY <1>1, CacheAssumption DEF RunningInv, TableOK
  <2>3. \A l \in DOMAIN groups : l \in Nat
    BY <1>3, <2>1, <2>2
  <2>4. \A l \in DOMAIN groups, k \in DOMAIN job.table \ {Blank} : k < l => k <= l
    BY <2>2, <2>3
  <2> QED BY <1>3, <2>1, <2>4
<1>5. ReadBack
  <2> SUFFICES ASSUME job.whole, job.steady
               PROVE  /\ pc # "threw"
                      /\ pc = "started" =>
                            groups = [l \in DOMAIN job.table \ {Blank} |-> job.table[l]]
    BY DEF ReadBack
  <2>1. Tracked
    BY DEF Tracked
  <2>2. pc # "threw"
    BY <2>1 DEF Inv, FileInv
  <2>3. ASSUME pc = "started"
        PROVE  groups = [l \in DOMAIN job.table \ {Blank} |-> job.table[l]]
    <3>1. DOMAIN groups = DOMAIN job.table \ {Blank}
      BY <1>3, <2>1, <2>3
    <3>2. \A l \in DOMAIN groups : groups[l] = job.table[l]
      BY <1>3, <2>1, <2>3
    <3>3. groups = [l \in DOMAIN groups |-> groups[l]]
      BY <1>1 DEF TypeOK
    <3> QED BY <3>1, <3>2, <3>3
  <2> QED BY <2>2, <2>3
<1> QED BY <1>1, <1>2, <1>4, <1>5

\* The variables have their types: nothing that handlers leave in the file and
\* that ReadDevices accepts makes a table of anything but devices and numbers.
THEOREM TypeCorrect == Spec => []TypeOK
BY InvAlways, InvImplies, PTL

\* Whatever ReadDevices reads of a file one handler wrote, finished or not, no
\* device gets a number that was never its own.
THEOREM NumbersOwn == Spec => []NumbersAreOwn
BY InvAlways, InvImplies, PTL

\* ReadDevices reads the first groups of a file that WriteDevices did not
\* finish, each with all its devices, or it throws.
THEOREM CutPrefix == Spec => []CutIsPrefix
BY InvAlways, InvImplies, PTL

\* ReadDevices reads what WriteDevices wrote, if the handler that opened the
\* file last has finished, even when others were still writing their lines.
THEOREM ReadsBack == Spec => []ReadBack
BY InvAlways, InvImplies, PTL
==============================================================================
