---------------------------- MODULE ConfigFile_proofs ----------------------------
(***************************************************************************)
(* The configuration file, for every size of the table and every file.     *)
(***************************************************************************)
EXTENDS ConfigFile, Base64_proofs, FiniteSetTheorems, SequenceTheorems,
        WellFoundedInduction, TLAPS

------------------------------------------------------------------------------
(* Types.                                                                  *)

\* The lines that have been handled grow by one line, which is handled.
Handles(line) ==
    /\ phase = "reading"
    /\ line \in Lines
    /\ \/ /\ again' = again /\ lines' = Append(lines, line)
          /\ Handle(line, "reading")
       \/ /\ again' = TRUE /\ lines' = lines /\ lines # <<>> /\ line = lines[Len(lines)]
          /\ Handle(line, "read")
    /\ authorization' = authorization

LEMMA LineType ==
    ASSUME NEW line \in Lines
    PROVE  /\ line.key \in TextKeys \cup NumberKeys \cup {"#"}
           /\ line.text \in Seq(Byte)
           /\ line.short \in BOOLEAN /\ line.junk \in BOOLEAN
           /\ line.number \in Int
BY ConfigFileAssumption

LEMMA StripType ==
    ASSUME NEW text \in Seq(Byte)
    PROVE  StripNewline(text) \in Seq(Byte)
<1>1. CASE text # <<>> /\ text[Len(text)] \in {CR, NL}
  <2>1. Len(text) \in Nat \ {0}
    BY <1>1
  <2>2. SubSeq(text, 1, Len(text) - 1) \in Seq(Byte)
    BY <2>1, SubSeqProperties
  <2> QED BY <1>1, <2>2 DEF StripNewline
<1>2. CASE ~(text # <<>> /\ text[Len(text)] \in {CR, NL})
  BY <1>2 DEF StripNewline
<1> QED BY <1>1, <1>2

LEMMA NewConfigType ==
    ASSUME NEW name \in Seq(Byte)
    PROVE  NewConfig(name) \in Config
BY DEF NewConfig, Config

LEMMA ModuloWidth ==
    ASSUME NEW key, NEW n \in Int
    PROVE  Width(key) \in Nat /\ n % Width(key) \in 0..(Width(key) - 1)
BY ConfigFileAssumption DEF Width

\* Every step handles a line, or ends the file, or finishes reading.
LEMMA StepsHandle ==
    ASSUME TypeOK, Next
    PROVE  (\E line \in Lines : Handles(line)) \/ EndOfFile \/ Finish
<1>1. ASSUME NEW line \in Lines, ReadLine(line) PROVE Handles(line)
  BY <1>1 DEF ReadLine, Handles, TypeOK
<1>2. ASSUME LastLineAgain PROVE Handles(lines[Len(lines)])
  <2>1. lines \in Seq(Lines) /\ lines # <<>>
    BY <1>2 DEF LastLineAgain, TypeOK
  <2>2. lines[Len(lines)] \in Lines
    BY <2>1
  <2> QED BY <1>2, <2>2 DEF LastLineAgain, Handles
<1> QED BY <1>1, <1>2 DEF Next, Handles

\* The conjuncts of TypeOK that a line can change.
TableOK ==
    /\ num_configs \in 1..MAX_CONFIGS
    /\ config \in 0..(num_configs - 1)
    /\ configs \in Seq(Config) /\ Len(configs) = num_configs - 1
    /\ \A c \in DOMAIN configs, key \in Numbers :
          configs[c].numbers[key] \in 0..(Width(key) - 1)
TextsOK ==
    /\ activeConfigNum \in Int
    /\ settings \in [{"I", "G", "VU", "VP"} -> Seq(Byte)]
    /\ lightsStartOn \in Int

LEMMA NameLineTypes ==
    ASSUME TableOK, TextsOK, NEW line \in Lines, Handled(line), NameLine(line)
    PROVE  TableOK' /\ TextsOK'
<1> DEFINE new == NewConfig(StripNewline(line.text))
<1>1. new \in Config
  BY LineType, StripType, NewConfigType
<1>2. configs' = Append(configs, new) /\ num_configs' = num_configs + 1 /\ config' = num_configs
  BY DEF NameLine
<1>3. num_configs < MAX_CONFIGS
  BY DEF Handled, NameLine, ConfigKeys
<1>4. \A key \in Numbers : new.numbers[key] \in 0..(Width(key) - 1)
  BY ConfigFileAssumption DEF NewConfig, Width
<1> HIDE DEF new
<1>5. configs' \in Seq(Config) /\ Len(configs') = Len(configs) + 1
  BY <1>1, <1>2 DEF TableOK
<1>6. \A c \in DOMAIN configs', key \in Numbers :
          configs'[c].numbers[key] \in 0..(Width(key) - 1)
  BY <1>1, <1>2, <1>4 DEF TableOK
<1>7. num_configs' \in 1..MAX_CONFIGS /\ config' \in 0..(num_configs' - 1)
  BY <1>2, <1>3, ConfigFileAssumption DEF TableOK
<1>8. TextsOK'
  BY DEF NameLine, TextsOK
<1> QED BY <1>2, <1>5, <1>6, <1>7, <1>8 DEF TableOK

LEMMA NumberLineTypes ==
    ASSUME TableOK, TextsOK, NEW line \in Lines, ~WritesAnywhere(line), Handled(line),
           NumberLine(line)
    PROVE  TableOK' /\ TextsOK'
<1> DEFINE n == line.number % Width(line.key)
<1>1. n \in 0..(Width(line.key) - 1) /\ Width(line.key) \in Nat
  BY LineType, ModuloWidth
<1>2. line.key \in Numbers /\ config # 0
  BY DEF NumberLine, WritesAnywhere
<1>3. configs' = [configs EXCEPT ![config].numbers[line.key] = n]
  BY DEF NumberLine
<1> HIDE DEF n
<1>4. config \in DOMAIN configs /\ configs[config] \in Config
  BY <1>2, ElementOfSeq DEF TableOK
<1> DEFINE changed == [configs[config] EXCEPT !.numbers[line.key] = n]
<1>5. changed \in Config /\ changed.numbers = [configs[config].numbers EXCEPT ![line.key] = n]
  BY <1>1, <1>2, <1>4 DEF Config
<1>6. configs' = [configs EXCEPT ![config] = changed]
  BY <1>3
<1>7. \A key \in Numbers : changed.numbers[key] \in 0..(Width(key) - 1)
  BY <1>1, <1>2, <1>4, <1>5 DEF TableOK, Config
<1> HIDE DEF changed
<1>8. configs' \in Seq(Config) /\ Len(configs') = Len(configs)
  BY <1>4, <1>5, <1>6, ExceptSeq DEF TableOK
<1>9. \A c \in DOMAIN configs', key \in Numbers :
          configs'[c].numbers[key] \in 0..(Width(key) - 1)
  BY <1>4, <1>6, <1>7 DEF TableOK
<1>10. UNCHANGED <<config, num_configs>> /\ TextsOK'
  BY DEF NumberLine, TextsOK
<1> QED BY <1>8, <1>9, <1>10 DEF TableOK

LEMMA HandleTypes ==
    ASSUME TableOK, TextsOK, NEW line \in Lines, NEW next, Handle(line, next)
    PROVE  TableOK' /\ TextsOK' /\ phase' \in {next, "terminated", "undefined"}
<1>1. phase' \in {next, "terminated", "undefined"}
  BY DEF Handle
<1>2. CASE UNCHANGED <<config, configs, num_configs, activeConfigNum, settings, lightsStartOn>>
  BY <1>1, <1>2 DEF TableOK, TextsOK
<1>3. CASE Handled(line) /\ NameLine(line)
  BY <1>1, <1>3, NameLineTypes
<1>4. CASE ~WritesAnywhere(line) /\ Handled(line) /\ NumberLine(line)
  BY <1>1, <1>4, NumberLineTypes
<1>5. CASE SettingLine(line)
  <2>1. StripNewline(line.text) \in Seq(Byte)
    BY LineType, StripType
  <2> QED BY <1>1, <1>5, <2>1 DEF SettingLine, TableOK, TextsOK
<1>6. CASE ActiveLine(line) \/ StartLine(line)
  BY <1>1, <1>6, LineType DEF ActiveLine, StartLine, TableOK, TextsOK
<1> QED BY <1>2, <1>3, <1>4, <1>5, <1>6 DEF Handle, IgnoredLine

LEMMA TypeInit == Init => TypeOK
<1> SUFFICES ASSUME Init PROVE TypeOK
  OBVIOUS
<1>1. configs \in Seq(Config) /\ Len(configs) = 0 /\ lines \in Seq(Lines)
  BY EmptySeq DEF Init
<1>2. WellFormed(authorization)
  BY DEF Init, WellFormed
<1>3. settings \in [{"I", "G", "VU", "VP"} -> Seq(Byte)]
  BY DEF Init
<1>4. num_configs \in 1..MAX_CONFIGS /\ num_configs = 1 /\ config = 0
  BY ConfigFileAssumption DEF Init
<1>5. DOMAIN configs = {}
  BY <1>1
<1>6. again = FALSE /\ activeConfigNum = 0 /\ lightsStartOn = 0 /\ phase = "reading"
  BY DEF Init
<1>7. TableOK
  BY <1>1, <1>4, <1>5 DEF TableOK
<1>8. TextsOK
  BY <1>3, <1>6 DEF TextsOK
<1>9. phase \in {"reading", "read", "done", "terminated", "undefined"}
  BY <1>6
<1> QED BY <1>1, <1>2, <1>6, <1>7, <1>8, <1>9 DEF TypeOK, TableOK, TextsOK

LEMMA TypeStep == TypeOK /\ [Next]_vars => TypeOK'
<1> SUFFICES ASSUME TypeOK, [Next]_vars PROVE TypeOK'
  OBVIOUS
<1>1. TableOK /\ TextsOK
  BY DEF TypeOK, TableOK, TextsOK
<1>2. ASSUME NEW line \in Lines, Handles(line) PROVE TypeOK'
  <2>1. TableOK' /\ TextsOK' /\ phase' \in {"reading", "read", "terminated", "undefined"}
    BY <1>1, <1>2, HandleTypes DEF Handles
  <2>2. lines' \in Seq(Lines) /\ again' \in BOOLEAN
    <3>1. lines \in Seq(Lines) /\ again \in BOOLEAN
      BY DEF TypeOK
    <3>2. CASE again' = again /\ lines' = Append(lines, line)
      BY <3>1, <3>2, AppendProperties
    <3>3. CASE again' = TRUE /\ lines' = lines
      BY <3>1, <3>3
    <3> QED BY <1>2, <3>2, <3>3 DEF Handles
  <2>3. authorization' = authorization
    BY <1>2 DEF Handles
  <2>4. WellFormed(authorization)'
    BY <2>3 DEF TypeOK, WellFormed
  <2> QED BY <2>1, <2>2, <2>4 DEF TypeOK, TableOK, TextsOK
<1>3. CASE EndOfFile
  BY <1>3 DEF EndOfFile, TypeOK, WellFormed
<1>4. CASE Finish
  <2> DEFINE login == settings["VU"] \o <<58>> \o settings["VP"]
  <2>1. settings["VU"] \in Seq(Byte) /\ settings["VP"] \in Seq(Byte)
    BY DEF TypeOK
  <2>2. <<58>> \in Seq(Byte)
    BY DEF Byte
  <2>3. login \in Seq(Byte)
    BY <2>1, <2>2, ConcatProperties
  <2>4. authorization' = Encode(login)
    BY <1>4 DEF Finish
  <2> HIDE DEF login
  <2>5. WellFormed(authorization')
    BY <2>3, <2>4, EncodeIsWellFormed
  <2>6. activeConfigNum' \in Int
    BY <1>4 DEF Finish, Overridden, TypeOK
  <2> QED BY <1>4, <2>5, <2>6 DEF Finish, TypeOK, WellFormed
<1>5. CASE UNCHANGED vars
  BY <1>5 DEF vars, TypeOK, WellFormed
<1> QED BY <1>2, <1>3, <1>4, <1>5, StepsHandle

\* Every state of the program has its types: the table never has more
\* configurations than places, and what VLC gets for a login is well-formed.
THEOREM TypeCorrect == Spec => []TypeOK
BY TypeInit, TypeStep, PTL DEF Spec

------------------------------------------------------------------------------
(* Names and lines.                                                        *)

LEMMA NamesType ==
    ASSUME NEW w, NEW i \in Nat
    PROVE  /\ IsFiniteSet({j \in 1..i : w[j].key = "N"})
           /\ NamesIn(w, i) \in Nat
<1>1. IsFiniteSet(1..i)
  BY FS_Interval
<1>2. IsFiniteSet({j \in 1..i : w[j].key = "N"})
  BY <1>1, FS_Subset
<1> QED BY <1>2, FS_CardinalityType DEF NamesIn

LEMMA NamesMonotone ==
    ASSUME NEW w, NEW i \in Nat, NEW n \in Nat, i <= n
    PROVE  NamesIn(w, i) <= NamesIn(w, n)
<1>1. {j \in 1..i : w[j].key = "N"} \subseteq {j \in 1..n : w[j].key = "N"}
  OBVIOUS
<1> QED BY <1>1, NamesType, FS_Subset DEF NamesIn

\* One more line changes the count at its end alone.
LEMMA NamesAppend ==
    ASSUME NEW w \in Seq(Lines), NEW line \in Lines
    PROVE  /\ \A i \in 0..Len(w) : NamesIn(Append(w, line), i) = NamesIn(w, i)
           /\ NamesIn(Append(w, line), Len(w) + 1) =
                  IF line.key = "N" THEN NamesIn(w, Len(w)) + 1 ELSE NamesIn(w, Len(w))
<1> DEFINE v == Append(w, line)
           n == Len(w)
           names(u, i) == {j \in 1..i : u[j].key = "N"}
<1>1. n \in Nat /\ v[n + 1] = line /\ \A j \in 1..n : v[j] = w[j]
  BY AppendProperties
<1> HIDE DEF v, n
<1>2. \A i \in 0..n : names(v, i) = names(w, i)
  BY <1>1
<1>3. CASE line.key = "N"
  <2>1. names(v, n + 1) = names(w, n) \cup {n + 1}
    BY <1>1, <1>3
  <2>2. n + 1 \notin names(w, n)
    BY <1>1
  <2>3. IsFiniteSet(names(w, n))
    BY <1>1, NamesType
  <2>4. Cardinality(names(v, n + 1)) = Cardinality(names(w, n)) + 1
    <3> HIDE DEF names
    <3> QED BY <2>1, <2>2, <2>3, FS_AddElement
  <2> QED BY <1>1, <1>2, <1>3, <2>4 DEF NamesIn, v, n
<1>4. CASE line.key # "N"
  <2>1. names(v, n + 1) = names(w, n)
    BY <1>1, <1>4
  <2> QED BY <1>1, <1>2, <1>4, <2>1 DEF NamesIn, v, n
<1> QED BY <1>3, <1>4

\* One more line belongs to a configuration if it has the key and the count.
LEMMA OwnAppend ==
    ASSUME NEW w \in Seq(Lines), NEW line \in Lines, NEW c, NEW key
    PROVE  Own(Append(w, line), c, key) =
               IF line.key = key /\ NamesIn(Append(w, line), Len(w) + 1) = c
               THEN Own(w, c, key) \cup {Len(w) + 1} ELSE Own(w, c, key)
<1> DEFINE v == Append(w, line)
           n == Len(w)
<1>1. n \in Nat /\ v[n + 1] = line /\ \A j \in 1..n : v[j] = w[j]
  BY AppendProperties
<1>2. DOMAIN w = 1..n /\ DOMAIN v = 1..(n + 1)
  BY AppendProperties, LenProperties
<1>3. \A i \in 1..n : NamesIn(v, i) = NamesIn(w, i)
  BY <1>1, NamesAppend
<1> HIDE DEF v, n
<1>4. Own(v, c, key) = IF line.key = key /\ NamesIn(v, n + 1) = c
                       THEN Own(w, c, key) \cup {n + 1} ELSE Own(w, c, key)
  BY <1>1, <1>2, <1>3 DEF Own
<1> QED BY <1>4 DEF v, n

------------------------------------------------------------------------------
(* The table and the lines.                                                *)

\* While the program goes on, the table has a place for every name up to its
\* size, and the pointer is at the last one.
Running == {"reading", "read", "done"}
TableFor(w) ==
    /\ config = num_configs - 1
    /\ num_configs = IF NamesIn(w, Len(w)) < MAX_CONFIGS - 1 THEN NamesIn(w, Len(w)) + 1
                     ELSE MAX_CONFIGS
Counted ==
    /\ phase \in Running => TableFor(Written)
    /\ phase = "reading" => ~again

LEMMA WrittenGrows ==
    ASSUME TypeOK, Counted, NEW line \in Lines, Handles(line)
    PROVE  /\ Written \in Seq(Lines) /\ Written' = Append(Written, line)
           /\ phase = "reading"
<1>1. lines \in Seq(Lines) /\ ~again /\ phase = "reading"
  BY DEF TypeOK, Counted, Handles
<1>2. Written = lines
  BY <1>1 DEF Written
<1>3. CASE again' = again /\ lines' = Append(lines, line)
  BY <1>1, <1>2, <1>3 DEF Written
<1>4. CASE again' = TRUE /\ lines' = lines /\ line = lines[Len(lines)]
  BY <1>1, <1>2, <1>4 DEF Written
<1> QED BY <1>1, <1>2, <1>3, <1>4 DEF Handles

\* The places of the table after a line.
LEMMA HandleCounts ==
    ASSUME TypeOK, NEW w \in Seq(Lines), TableFor(w), NEW line \in Lines, NEW next,
           Handle(line, next), ~Throws(line), ~WritesAnywhere(line)
    PROVE  TableFor(Append(w, line))'
<1> DEFINE v == Append(w, line)
<1>1. /\ Len(v) = Len(w) + 1 /\ Len(w) \in Nat
      /\ NamesIn(v, Len(v)) = IF line.key = "N" THEN NamesIn(w, Len(w)) + 1
                              ELSE NamesIn(w, Len(w))
  BY NamesAppend, AppendProperties
<1>2. NamesIn(w, Len(w)) \in Nat /\ MAX_CONFIGS \in Nat \ {0}
  BY <1>1, NamesType, ConfigFileAssumption
<1>3. CASE Handled(line) /\ NameLine(line)
  <2>1. num_configs < MAX_CONFIGS /\ line.key = "N"
    BY <1>3 DEF Handled, NameLine, ConfigKeys
  <2>2. config' = num_configs /\ num_configs' = num_configs + 1
    BY <1>3 DEF NameLine
  <2> HIDE DEF v
  <2>3. TableFor(v)'
    BY <1>1, <1>2, <2>1, <2>2 DEF TableFor
  <2> QED BY <2>3 DEF v
<1>4. CASE ~(Handled(line) /\ NameLine(line))
  <2>1. config' = config /\ num_configs' = num_configs
    BY <1>4 DEF Handle, NumberLine, SettingLine, ActiveLine, StartLine, IgnoredLine
  <2>2. line.key = "N" => num_configs = MAX_CONFIGS
    <3> SUFFICES ASSUME line.key = "N" PROVE ~Handled(line)
      BY ConfigFileAssumption DEF Handled, TypeOK
    <3> QED BY <1>4 DEF Handle, NumberLine, SettingLine, ActiveLine, StartLine, IgnoredLine,
                        Numbers
  <2> HIDE DEF v
  <2>3. TableFor(v)'
    BY <1>1, <1>2, <2>1, <2>2 DEF TableFor
  <2> QED BY <2>3 DEF v
<1> QED BY <1>3, <1>4

LEMMA CountedStep ==
    ASSUME TypeOK, Counted, [Next]_vars
    PROVE  Counted'
<1>1. ASSUME NEW line \in Lines, Handles(line) PROVE Counted'
  <2>1. Written \in Seq(Lines) /\ Written' = Append(Written, line) /\ phase = "reading"
    BY <1>1, WrittenGrows
  <2>2. TableFor(Written)
    BY <2>1 DEF Counted, Running
  <2>3. PICK w \in Seq(Lines) : w = Written
    BY <2>1
  <2>4. ASSUME NEW next, Handle(line, next), phase' \in Running
        PROVE  TableFor(Written)'
    <3>1. ~Throws(line) /\ ~WritesAnywhere(line)
      BY <2>4 DEF Handle, Running
    <3>2. TableFor(w)
      BY <2>2, <2>3
    <3>3. TableFor(Append(w, line))'
      BY <2>4, <3>1, <3>2, HandleCounts
    <3>4. Written' = Append(w, line)
      BY <2>1, <2>3
    <3> QED BY <3>3, <3>4 DEF TableFor
  <2>5. phase' = "reading" => ~again'
    BY <1>1, <2>1 DEF Counted, Handles, Handle
  <2> QED BY <1>1, <2>4, <2>5 DEF Counted, Handles
<1>2. CASE EndOfFile \/ Finish \/ UNCHANGED vars
  <2>1. UNCHANGED <<lines, again, config, num_configs>>
    BY <1>2 DEF EndOfFile, Finish, vars
  <2>2. Written' = Written
    BY <2>1 DEF Written
  <2>3. phase' \in Running => phase \in Running
    BY <1>2 DEF EndOfFile, Finish, vars, Running
  <2>4. phase' = "reading" => phase = "reading"
    BY <1>2 DEF EndOfFile, Finish, vars
  <2> QED BY <2>1, <2>2, <2>3, <2>4 DEF Counted, TableFor
<1> QED BY <1>1, <1>2, StepsHandle

------------------------------------------------------------------------------
(* What the configurations hold.                                           *)

AgreesAll(w) ==
    \A c \in 1..(num_configs - 1) \ {MAX_CONFIGS - 1}, key \in Numbers : Agrees(w, c, key)

\* A line that is not the configuration's leaves the agreement as it is.
LEMMA AgreesKept ==
    ASSUME NEW w \in Seq(Lines), NEW line \in Lines, NEW c, NEW key, Agrees(w, c, key),
           Own(Append(w, line), c, key) = Own(w, c, key),
           configs'[c].numbers[key] = configs[c].numbers[key]
    PROVE  Agrees(Append(w, line), c, key)'
<1> DEFINE v == Append(w, line)
<1>1. \A i \in Own(w, c, key) : v[i] = w[i]
  BY AppendProperties, LenProperties DEF Own
<1>2. Own(v, c, key) = Own(w, c, key)
  OBVIOUS
<1> HIDE DEF v
<1>3. Agrees(v, c, key)'
  BY <1>1, <1>2 DEF Agrees
<1> QED BY <1>3 DEF v

\* A line of the configuration is its last one.
LEMMA AgreesNow ==
    ASSUME NEW w \in Seq(Lines), NEW line \in Lines, NEW c, NEW key,
           Own(Append(w, line), c, key) = Own(w, c, key) \cup {Len(w) + 1},
           configs'[c].numbers[key] = line.number % Width(key)
    PROVE  Agrees(Append(w, line), c, key)'
<1> DEFINE v == Append(w, line)
           n == Len(w)
<1>1. v[n + 1] = line /\ n \in Nat
  BY AppendProperties
<1>2. Own(v, c, key) = Own(w, c, key) \cup {n + 1}
  OBVIOUS
<1>3. \A i \in Own(w, c, key) : i \in 1..n
  BY LenProperties DEF Own
<1> HIDE DEF v, n
<1>4. ASSUME NEW i \in Own(v, c, key), \A j \in Own(v, c, key) : j <= i
      PROVE  configs'[c].numbers[key] = v[i].number % Width(key)
  <2>1. n + 1 <= i
    BY <1>2, <1>4
  <2>2. i = n + 1
    BY <1>1, <1>2, <1>3, <2>1
  <2> QED BY <1>1, <2>2
<1>5. Own(v, c, key) # {}
  BY <1>2
<1>6. Agrees(v, c, key)'
  BY <1>4, <1>5 DEF Agrees
<1> QED BY <1>6 DEF v

\* One line that the program handles and goes on after.
LEMMA HandleAgrees ==
    ASSUME TypeOK, NEW w \in Seq(Lines), TableFor(w), AgreesAll(w), NEW line \in Lines,
           NEW next, Handle(line, next), ~Throws(line), ~WritesAnywhere(line)
    PROVE  AgreesAll(Append(w, line))'
<1> DEFINE v == Append(w, line)
<1> SUFFICES ASSUME NEW c \in 1..(num_configs' - 1) \ {MAX_CONFIGS - 1}, NEW key \in Numbers
             PROVE  Agrees(v, c, key)'
  BY DEF AgreesAll
<1>1. NamesIn(w, Len(w)) \in Nat /\ MAX_CONFIGS \in Nat \ {0} /\ Len(w) \in Nat
  <2>1. Len(w) \in Nat
    BY LenProperties
  <2> QED BY <2>1, NamesType, ConfigFileAssumption
<1>2. NamesIn(v, Len(w) + 1) = IF line.key = "N" THEN NamesIn(w, Len(w)) + 1
                               ELSE NamesIn(w, Len(w))
  BY NamesAppend
<1>3. Own(v, c, key) = IF line.key = key /\ NamesIn(v, Len(w) + 1) = c
                       THEN Own(w, c, key) \cup {Len(w) + 1} ELSE Own(w, c, key)
  BY OwnAppend
<1>4. configs \in Seq(Config) /\ Len(configs) = num_configs - 1 /\ num_configs \in 1..MAX_CONFIGS
  BY DEF TypeOK
<1>5. key # "N"
  BY DEF Numbers
<1>6. CASE Handled(line) /\ NameLine(line)
  <2> DEFINE new == NewConfig(StripNewline(line.text))
  <2>1. line.key = "N" /\ configs' = Append(configs, new) /\ num_configs' = num_configs + 1
    BY <1>6 DEF NameLine
  <2>2. num_configs < MAX_CONFIGS
    BY <1>6, <2>1 DEF Handled, ConfigKeys
  <2>3. Own(v, c, key) = Own(w, c, key)
    BY <1>3, <1>5, <2>1
  <2>4. CASE c = num_configs
    <3>1. new.numbers[key] = 0
      BY DEF NewConfig
    <3> HIDE DEF new
    <3>2. configs'[c].numbers[key] = 0
      BY <1>4, <2>1, <2>4, <3>1
    <3>3. Own(w, c, key) = {}
      <4> SUFFICES ASSUME NEW i \in DOMAIN w, NamesIn(w, i) = c PROVE FALSE
        BY DEF Own
      <4>1. i \in Nat /\ i <= Len(w)
        BY LenProperties
      <4>2. NamesIn(w, i) <= NamesIn(w, Len(w)) /\ NamesIn(w, Len(w)) = num_configs - 1
        BY <1>1, <2>2, <4>1, NamesMonotone DEF TableFor
      <4> QED BY <1>1, <1>4, <2>4, <4>2
    <3> QED BY <2>3, <3>2, <3>3 DEF Agrees
  <2>5. CASE c # num_configs
    <3> HIDE DEF new
    <3>1. c \in 1..(num_configs - 1) \ {MAX_CONFIGS - 1}
      BY <1>4, <2>1, <2>5
    <3>2. configs'[c] = configs[c]
      BY <1>4, <2>1, <3>1
    <3> QED BY <2>3, <3>1, <3>2, AgreesKept DEF AgreesAll
  <2> QED BY <2>4, <2>5
<1>7. CASE Handled(line) /\ NumberLine(line)
  <2>1. /\ line.key \in Numbers /\ config # 0 /\ num_configs' = num_configs
        /\ configs' = [configs EXCEPT ![config].numbers[line.key] = line.number % Width(line.key)]
    BY <1>7 DEF NumberLine, WritesAnywhere
  <2>2. num_configs < MAX_CONFIGS
    BY <1>7, <2>1 DEF Handled, ConfigKeys, Numbers
  <2>3. NamesIn(v, Len(w) + 1) = config /\ config = num_configs - 1
    BY <1>1, <1>2, <1>4, <2>1, <2>2 DEF TableFor, Numbers
  <2>4. c \in 1..(num_configs - 1) \ {MAX_CONFIGS - 1} /\ c \in DOMAIN configs
    BY <1>4, <2>1
  <2>5. configs[c] \in Config /\ DOMAIN configs[c].numbers = Numbers
    <3>1. configs[c] \in Config
      BY <1>4, <2>4, ElementOfSeq
    <3> QED BY <3>1 DEF Config
  <2>6. CASE c = config /\ key = line.key
    <3>1. configs'[c].numbers[key] = line.number % Width(key)
      <4> DEFINE n == line.number % Width(line.key)
      <4>1. configs' = [configs EXCEPT ![config].numbers[line.key] = n]
        BY <2>1
      <4> HIDE DEF n
      <4>2. configs'[c].numbers[key] = n
        BY <4>1, <2>4, <2>5, <2>6 DEF Config
      <4> QED BY <4>2, <2>6 DEF n
    <3>2. Own(v, c, key) = Own(w, c, key) \cup {Len(w) + 1}
      BY <1>3, <2>3, <2>6
    <3> QED BY <3>1, <3>2, AgreesNow
  <2>7. CASE ~(c = config /\ key = line.key)
    <3>1. configs'[c].numbers[key] = configs[c].numbers[key]
      BY <2>1, <2>4, <2>5, <2>7
    <3>2. Own(v, c, key) = Own(w, c, key)
      BY <1>3, <2>3, <2>7
    <3> QED BY <2>4, <3>1, <3>2, AgreesKept DEF AgreesAll
  <2> QED BY <2>6, <2>7
<1>8. CASE SettingLine(line) \/ ActiveLine(line) \/ StartLine(line) \/ IgnoredLine(line)
  <2>1. configs' = configs /\ num_configs' = num_configs
    BY <1>8 DEF SettingLine, ActiveLine, StartLine, IgnoredLine
  <2>2. Own(v, c, key) = Own(w, c, key)
    <3>1. CASE line.key \in Numbers
      <4>1. num_configs = MAX_CONFIGS
        BY <1>4, <1>8, <3>1, ConfigFileAssumption
           DEF SettingLine, ActiveLine, StartLine, IgnoredLine, Handled, Numbers
      <4>2. NamesIn(w, Len(w)) >= MAX_CONFIGS - 1
        BY <1>1, <4>1 DEF TableFor
      <4>3. NamesIn(v, Len(w) + 1) # c
        BY <1>1, <1>2, <2>1, <4>1, <4>2
      <4> QED BY <1>3, <4>3
    <3>2. CASE line.key \notin Numbers
      BY <1>3, <3>2
    <3> QED BY <3>1, <3>2
  <2> QED BY <2>1, <2>2, AgreesKept DEF AgreesAll
<1> QED BY <1>6, <1>7, <1>8 DEF Handle

LEMMA AsWrittenStep ==
    ASSUME TypeOK, Counted, AsWritten, [Next]_vars
    PROVE  AsWritten'
<1>1. ASSUME NEW line \in Lines, Handles(line), phase' \in Running PROVE AsWritten'
  <2>1. Written \in Seq(Lines) /\ Written' = Append(Written, line) /\ phase = "reading"
    BY <1>1, WrittenGrows
  <2>2. TableFor(Written) /\ AgreesAll(Written)
    BY <2>1 DEF Counted, Running, AsWritten, AgreesAll
  <2>3. PICK w \in Seq(Lines) : w = Written
    BY <2>1
  <2>4. TableFor(w) /\ AgreesAll(w)
    BY <2>2, <2>3
  <2>5. PICK next : Handle(line, next)
    BY <1>1 DEF Handles
  <2>6. ~Throws(line) /\ ~WritesAnywhere(line)
    BY <1>1, <2>5 DEF Handle, Running
  <2>7. AgreesAll(Append(w, line))'
    BY <2>4, <2>5, <2>6, HandleAgrees
  <2>8. Written' = Append(w, line)
    BY <2>1, <2>3
  <2> QED BY <2>7, <2>8 DEF AsWritten, AgreesAll, Agrees
<1>2. CASE EndOfFile \/ Finish \/ UNCHANGED vars
  <2>1. UNCHANGED <<lines, again, configs, num_configs>>
    BY <1>2 DEF EndOfFile, Finish, vars
  <2>2. Written' = Written
    BY <2>1 DEF Written
  <2>3. phase' \in Running => phase \in Running
    BY <1>2 DEF EndOfFile, Finish, vars, Running
  <2> QED BY <2>1, <2>2, <2>3 DEF AsWritten, Agrees, Running
<1>3. CASE phase' \notin Running
  BY <1>3 DEF AsWritten, Running
<1> QED BY <1>1, <1>2, <1>3, StepsHandle

LEMMA LastIsDarkStep ==
    ASSUME TypeOK, LastIsDark, [Next]_vars
    PROVE  LastIsDark'
<1>1. /\ configs \in Seq(Config) /\ Len(configs) = num_configs - 1
      /\ num_configs \in 1..MAX_CONFIGS /\ MAX_CONFIGS \in Nat \ {0}
  BY ConfigFileAssumption DEF TypeOK
<1>2. ASSUME NEW line \in Lines, Handled(line), NameLine(line) PROVE LastIsDark'
  <2> DEFINE new == NewConfig(StripNewline(line.text))
  <2>1. configs' = Append(configs, new) /\ num_configs' = num_configs + 1
    BY <1>2 DEF NameLine
  <2>2. \A key \in Numbers : new.numbers[key] = 0
    BY DEF NewConfig
  <2> HIDE DEF new
  <2>3. configs'[num_configs] = new
    BY <1>1, <2>1
  <2> QED BY <1>1, <2>1, <2>2, <2>3 DEF LastIsDark
<1>3. ASSUME NEW line \in Lines, Handled(line), NumberLine(line) PROVE LastIsDark'
  <2>1. num_configs < MAX_CONFIGS /\ num_configs' = num_configs
    BY <1>3 DEF Handled, NumberLine, Numbers, ConfigKeys
  <2> QED BY <1>1, <2>1 DEF LastIsDark
<1>4. CASE UNCHANGED <<configs, num_configs>>
  BY <1>4 DEF LastIsDark
<1>5. ASSUME NEW line \in Lines, Handles(line) PROVE LastIsDark'
  BY <1>2, <1>3, <1>4, <1>5
     DEF Handles, Handle, SettingLine, ActiveLine, StartLine, IgnoredLine
<1>6. CASE EndOfFile \/ Finish \/ UNCHANGED vars
  BY <1>4, <1>6 DEF EndOfFile, Finish, vars
<1> QED BY <1>5, <1>6, StepsHandle

LEMMA ReadableStep ==
    ASSUME TypeOK, Counted, ReadIfReadable, [Next]_vars
    PROVE  ReadIfReadable'
<1>1. ASSUME NEW line \in Lines, Handles(line), phase' \in {"terminated", "undefined"}
      PROVE  ReadIfReadable'
  <2>1. Written \in Seq(Lines) /\ Written' = Append(Written, line) /\ phase = "reading"
    BY <1>1, WrittenGrows
  <2> DEFINE n == Len(Written)
  <2>2. n \in Nat /\ n + 1 \in DOMAIN Written' /\ Written'[n + 1] = line
    BY <2>1, LenProperties, AppendProperties
  <2>3. /\ NamesIn(Written', n) = NamesIn(Written, n)
        /\ NamesIn(Written', n + 1) = IF line.key = "N" THEN NamesIn(Written, n) + 1
                                      ELSE NamesIn(Written, n)
    BY <2>1, <2>2, NamesAppend
  <2>4. NamesIn(Written, n) \in Nat /\ MAX_CONFIGS \in Nat \ {0}
    BY <2>2, NamesType, ConfigFileAssumption
  <2>5. TableFor(Written)
    BY <2>1 DEF Counted, Running
  <2>6. Throws(line) \/ WritesAnywhere(line)
    BY <1>1 DEF Handles, Handle
  <2>7. line.key \in ConfigKeys => NamesIn(Written, n) < MAX_CONFIGS - 1
    BY <2>4, <2>5, <2>6 DEF TableFor, Throws, WritesAnywhere, Handled
  <2> HIDE DEF n
  <2>8. CASE Throws(line)
    <3>1. line.short \/ (line.key \in NumberKeys /\ line.junk)
      BY <2>8 DEF Throws
    <3>2. n + 1 - 1 = n
      BY <2>2
    <3> QED BY <2>2, <2>3, <2>7, <3>1, <3>2 DEF ReadIfReadable
  <2>9. CASE WritesAnywhere(line)
    <3>1. line.key \in Numbers /\ config = 0
      BY <2>9 DEF WritesAnywhere
    <3>2. NamesIn(Written, n) = 0
      BY <2>4, <2>5, <2>7, <3>1 DEF TableFor, Numbers, ConfigKeys, n
    <3>3. NamesIn(Written', n + 1) = 0
      BY <2>3, <3>1, <3>2 DEF Numbers
    <3> QED BY <2>2, <3>1, <3>3 DEF ReadIfReadable
  <2> QED BY <2>6, <2>8, <2>9
<1>2. CASE UNCHANGED vars
  <2>1. Written' = Written /\ phase' = phase
    BY <1>2 DEF vars, Written
  <2> QED BY <2>1 DEF ReadIfReadable
<1>3. CASE phase' \notin {"terminated", "undefined"}
  BY <1>3 DEF ReadIfReadable
<1>4. CASE EndOfFile \/ Finish
  BY <1>3, <1>4 DEF EndOfFile, Finish
<1> QED BY <1>1, <1>2, <1>3, <1>4, StepsHandle

------------------------------------------------------------------------------
(* The settings and the login.                                             *)

Settings == {"I", "G", "VU", "VP"}
SettingsFor(w) == \A key \in Settings : settings[key] = StripNewline(LastText(w, key))
SettingsAsWritten ==
    /\ Written \in Seq(Lines)
    /\ phase \in Running => SettingsFor(Written)

\* The property strips the line end as the program does.
LEMMA LoginStrips ==
    ASSUME NEW text \in Seq(Byte)
    PROVE  Login(text) = StripNewline(text)
<1>1. SubSeq(text, 1, Len(text)) = text
  OBVIOUS
<1>2. Len(text) - 0 = Len(text)
  OBVIOUS
<1> QED BY <1>1, <1>2 DEF Login, StripNewline

\* A set of positions has a last one: the least distance from the end is one
\* that the order of the numbers makes well-founded.
LEMMA HasGreatest ==
    ASSUME NEW n \in Nat, NEW S \in SUBSET (1..n), S # {}
    PROVE  \E x \in S : \A y \in S : x >= y
<1> DEFINE T == {n - x : x \in S}
           R == OpToRel(<, Nat)
<1>1. IsWellFoundedOn(R, Nat)
  BY NatLessThanWellFounded
<1>2. \A x, y \in Nat : x < y => <<x, y>> \in R
  BY DEF OpToRel
<1>3. T \subseteq Nat /\ T # {}
  <2>1. PICK x \in S : TRUE
    OBVIOUS
  <2>2. n - x \in T
    BY <2>1
  <2> QED BY <2>2
<1> HIDE DEF R
<1>4. \E m \in T : \A k \in T : ~(<<k, m>> \in R)
  <2> HIDE DEF T
  <2> QED BY <1>1, <1>3, WFMin
<1>5. PICK m \in T : \A k \in T : ~(k < m)
  <2> HIDE DEF T
  <2> QED BY <1>2, <1>3, <1>4
<1>6. PICK x \in S : m = n - x
  OBVIOUS
<1>7. \A y \in S : x >= y
  BY <1>5, <1>6
<1> QED BY <1>7

LEMMA GreatestIsMax ==
    ASSUME NEW n \in Nat, NEW S \in SUBSET (1..n), S # {}
    PROVE  Max(S) \in S
BY HasGreatest DEF Max

\* One more line is the last one of its key.
LEMMA LastTextAppend ==
    ASSUME NEW w \in Seq(Lines), NEW line \in Lines, NEW key
    PROVE  LastText(Append(w, line), key) =
               IF line.key = key THEN line.text ELSE LastText(w, key)
<1> DEFINE v == Append(w, line)
           n == Len(w)
           has(u) == {i \in DOMAIN u : u[i].key = key}
<1>1. n \in Nat /\ v[n + 1] = line /\ \A i \in 1..n : v[i] = w[i]
  BY AppendProperties
<1>2. DOMAIN w = 1..n /\ DOMAIN v = 1..(n + 1)
  BY AppendProperties, LenProperties
<1> HIDE DEF v, n
<1>3. CASE line.key = key
  <2>1. n + 1 \in has(v) /\ \A i \in has(v) : n + 1 >= i
    BY <1>1, <1>2, <1>3
  <2>2. \A x \in has(v) : (\A i \in has(v) : x >= i) => x = n + 1
    BY <1>1, <1>2, <2>1
  <2>3. Max(has(v)) = n + 1
    <3> HIDE DEF has
    <3> QED BY <2>1, <2>2 DEF Max
  <2>4. LastText(v, key) = line.text
    BY <1>1, <2>1, <2>3 DEF LastText
  <2> QED BY <1>3, <2>4 DEF v
<1>4. CASE line.key # key
  <2>1. has(v) = has(w)
    BY <1>1, <1>2, <1>4
  <2>2. LastText(w, key) = IF has(w) = {} THEN <<>> ELSE w[Max(has(w))].text
    BY DEF LastText
  <2>3. LastText(v, key) = IF has(w) = {} THEN <<>> ELSE v[Max(has(w))].text
    BY <2>1 DEF LastText
  <2>4. ASSUME has(w) # {} PROVE Max(has(w)) \in 1..n
    <3>1. has(w) \subseteq 1..n
      BY <1>2
    <3> HIDE DEF has
    <3> QED BY <1>1, <2>4, <3>1, GreatestIsMax
  <2> HIDE DEF has
  <2>5. LastText(v, key) = LastText(w, key)
    BY <1>1, <2>2, <2>3, <2>4
  <2> QED BY <1>4, <2>5 DEF v
<1> QED BY <1>3, <1>4

\* The texts are texts.
LEMMA LastTextType ==
    ASSUME NEW w \in Seq(Lines), NEW key
    PROVE  LastText(w, key) \in Seq(Byte)
<1> DEFINE has == {i \in DOMAIN w : w[i].key = key}
<1>1. CASE has = {}
  BY <1>1 DEF LastText
<1>2. CASE has # {}
  <2>1. Max(has) \in has /\ has \subseteq 1..Len(w)
    <3>1. has \subseteq 1..Len(w) /\ Len(w) \in Nat
      BY LenProperties
    <3> HIDE DEF has
    <3> QED BY <1>2, <3>1, GreatestIsMax
  <2>2. w[Max(has)] \in Lines
    <3> HIDE DEF has
    <3> QED BY <2>1, ElementOfSeq
  <2>3. LastText(w, key) = w[Max(has)].text
    BY <1>2 DEF LastText
  <2> HIDE DEF has
  <2> QED BY <2>2, <2>3, LineType
<1> QED BY <1>1, <1>2

LEMMA SettingsStep ==
    ASSUME TypeOK, Counted, SettingsAsWritten, [Next]_vars
    PROVE  SettingsAsWritten'
<1>1. ASSUME NEW line \in Lines, Handles(line)
      PROVE  SettingsAsWritten'
  <2>1. Written \in Seq(Lines) /\ Written' = Append(Written, line) /\ phase = "reading"
    BY <1>1, WrittenGrows
  <2>2. SettingsFor(Written)
    BY <2>1 DEF SettingsAsWritten, Running
  <2>3. PICK w \in Seq(Lines) : w = Written
    BY <2>1
  <2>4. PICK next : Handle(line, next)
    BY <1>1 DEF Handles
  <2>5. ASSUME phase' \in Running
        PROVE  settings' = IF line.key \in Settings
                           THEN [settings EXCEPT ![line.key] = StripNewline(line.text)]
                           ELSE settings
    <3>1. phase' \notin {"terminated", "undefined"}
      BY <2>5 DEF Running
    <3> QED BY <2>4, <3>1 DEF Handle, NameLine, NumberLine, SettingLine, ActiveLine,
               StartLine, IgnoredLine, Handled, ConfigKeys, Numbers, Settings
  <2>6. \A key \in Settings : LastText(Append(w, line), key) =
            IF line.key = key THEN line.text ELSE LastText(w, key)
    BY LastTextAppend
  <2>7. settings \in [Settings -> Seq(Byte)]
    BY DEF TypeOK, Settings
  <2>8. ASSUME phase' \in Running
        PROVE  \A key \in Settings :
                   settings'[key] = StripNewline(LastText(Append(w, line), key))
    BY <2>2, <2>3, <2>5, <2>6, <2>7, <2>8 DEF SettingsFor
  <2>9. Written' = Append(w, line)
    BY <2>1, <2>3
  <2>10. Append(w, line) \in Seq(Lines)
    BY AppendProperties
  <2> QED BY <2>8, <2>9, <2>10 DEF SettingsAsWritten, SettingsFor
<1>2. CASE EndOfFile \/ Finish \/ UNCHANGED vars
  <2>1. UNCHANGED <<lines, again, settings>> /\ (phase' \in Running => phase \in Running)
    BY <1>2 DEF EndOfFile, Finish, vars, Running
  <2>2. Written' = Written
    BY <2>1 DEF Written
  <2> QED BY <2>1, <2>2 DEF SettingsAsWritten, SettingsFor
<1> QED BY <1>1, <1>2, StepsHandle

LEMMA LoginStep ==
    ASSUME TypeOK, SettingsAsWritten, VlcDecodesLogin, [Next]_vars
    PROVE  VlcDecodesLogin'
<1>1. CASE Finish
  <2> DEFINE user == settings["VU"]
             pass == settings["VP"]
             login == user \o <<58>> \o pass
  <2>1. user \in Seq(Byte) /\ pass \in Seq(Byte)
    BY DEF TypeOK
  <2>2. <<58>> \in Seq(Byte)
    BY DEF Byte
  <2>3. login \in Seq(Byte)
    BY <2>1, <2>2, ConcatProperties
  <2>4. Decode(authorization') = login
    <3>1. authorization' = Encode(login)
      BY <1>1 DEF Finish
    <3> HIDE DEF login
    <3> QED BY <2>3, <3>1, DecodesWhatWasEncoded
  <2>5. Written' = Written /\ Written \in Seq(Lines)
    <3>1. UNCHANGED <<lines, again>> /\ phase = "read"
      BY <1>1 DEF Finish
    <3>2. Written \in Seq(Lines)
      BY DEF SettingsAsWritten
    <3> QED BY <3>1, <3>2 DEF Written
  <2>6. /\ user = StripNewline(LastText(Written, "VU"))
        /\ pass = StripNewline(LastText(Written, "VP"))
    BY <1>1 DEF Finish, SettingsAsWritten, SettingsFor, Settings, Running
  <2>7. /\ user = Login(LastText(Written, "VU"))
        /\ pass = Login(LastText(Written, "VP"))
    BY <2>5, <2>6, LastTextType, LoginStrips
  <2> QED BY <2>4, <2>5, <2>7 DEF VlcDecodesLogin
<1>2. CASE phase' # "done"
  BY <1>2 DEF VlcDecodesLogin
<1>3. CASE UNCHANGED vars
  BY <1>3 DEF vars, VlcDecodesLogin, Written
<1>4. ASSUME NEW line \in Lines, Handles(line) PROVE phase' # "done"
  BY <1>4 DEF Handles, Handle
<1>5. CASE EndOfFile
  BY <1>2, <1>5 DEF EndOfFile
<1> QED BY <1>1, <1>2, <1>3, <1>4, <1>5, StepsHandle

------------------------------------------------------------------------------
Inv == /\ TypeOK /\ Counted /\ AsWritten /\ LastIsDark /\ ReadIfReadable
       /\ SettingsAsWritten /\ VlcDecodesLogin

LEMMA InvInit == Init => Inv
<1> SUFFICES ASSUME Init PROVE Inv
  OBVIOUS
<1>1. TypeOK
  BY TypeInit
<1>2. Written = <<>> /\ Len(Written) = 0 /\ phase = "reading" /\ ~again
  BY DEF Init, Written
<1>3. NamesIn(Written, 0) = 0
  <2>1. {j \in 1..0 : Written[j].key = "N"} = {}
    OBVIOUS
  <2> QED BY <2>1, FS_EmptySet DEF NamesIn
<1>4. config = 0 /\ num_configs = 1 /\ MAX_CONFIGS \in Nat \ {0}
  BY ConfigFileAssumption DEF Init
<1>5. Counted
  BY <1>2, <1>3, <1>4 DEF Counted, TableFor
<1>6. AsWritten
  BY <1>4 DEF AsWritten
<1>7. LastIsDark
  BY <1>4 DEF LastIsDark
<1>8. ReadIfReadable
  BY <1>2 DEF ReadIfReadable
<1>9. SettingsAsWritten
  BY <1>2, LenProperties DEF Init, SettingsAsWritten, SettingsFor, Settings, LastText, StripNewline
<1>10. VlcDecodesLogin
  BY <1>2 DEF VlcDecodesLogin
<1> QED BY <1>1, <1>5, <1>6, <1>7, <1>8, <1>9, <1>10 DEF Inv

LEMMA Invariance == Spec => []Inv
<1>1. Inv /\ [Next]_vars => Inv'
  BY TypeStep, CountedStep, AsWrittenStep, LastIsDarkStep, ReadableStep, SettingsStep,
     LoginStep DEF Inv
<1> QED BY <1>1, InvInit, PTL DEF Spec

\* For every file and every size of the table, each configuration but the one
\* that fills the table has exactly the numbers of its own lines.
THEOREM NumbersAreAsWritten == Spec => []AsWritten
<1>1. Inv => AsWritten
  BY DEF Inv
<1> QED BY <1>1, Invariance, PTL

\* The configuration that fills the table has no number but zero.
THEOREM LastConfigurationIsDark == Spec => []LastIsDark
<1>1. Inv => LastIsDark
  BY DEF Inv
<1> QED BY <1>1, Invariance, PTL

\* Only a line that counts and cannot be read, or a number before the first
\* name, keeps ReadConfig from reading the file through.
THEOREM ReadableFilesAreRead == Spec => []ReadIfReadable
<1>1. Inv => ReadIfReadable
  BY DEF Inv
<1> QED BY <1>1, Invariance, PTL

\* Whatever the lines of the login hold, however often they come and whether
\* the table is full by then or not, VLC decodes the last user name and the
\* last password without their line ends.
THEOREM LoginIsDecoded == Spec => []VlcDecodesLogin
<1>1. Inv => VlcDecodesLogin
  BY DEF Inv
<1> QED BY <1>1, Invariance, PTL

==============================================================================
