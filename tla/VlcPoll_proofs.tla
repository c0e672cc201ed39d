------------------------------ MODULE VlcPoll_proofs ------------------------------
(***************************************************************************)
(* What a poll of VLC may report, for every size of the buffer, every      *)
(* number of attempts and every network.                                   *)
(***************************************************************************)
EXTENDS VlcPoll, SequenceTheorems, TLAPS

------------------------------------------------------------------------------
(* The stream, seen from its end: whatever has been read or torn off at    *)
(* the front, what is left are whole answers, the last one sent is the     *)
(* last, and each is one number above the one before.                      *)

Pieces == [tag : Tags, text : {"", "true", "false", "playing", "paused"}, number : 0..(Numbers - 1)]

TagAt(j) ==
    IF j % 4 = 0 THEN "</state>" ELSE
    IF j % 4 = 1 THEN "<state>" ELSE
    IF j % 4 = 2 THEN "</fullscreen>" ELSE "<fullscreen>"

\* j pieces follow this one; n is the number of the next answer.
Fits(piece, j, n) == piece.tag = TagAt(j) /\ piece.number = (n - 1 - (j \div 4)) % Numbers

StreamInv ==
    /\ stream \in Seq(Pieces)
    /\ \A i \in 1..Len(stream) : Fits(stream[i], Len(stream) - i, number)

\* A report's two parts have such numbers.
Texts == [text : {"", "true", "false", "playing", "paused"}, number : 0..(Numbers - 1)]

ReportInv ==
    /\ report \in [success : BOOLEAN, state : Texts, fullscreen : Texts]
    /\ MixesNeighbours

\* While the poll goes on, an attempt is left.
AttemptsInv == pc = "receive" => attempts < MaxAttempts

Inv == TypeOK /\ StreamInv /\ ReportInv /\ AttemptsInv

------------------------------------------------------------------------------
(* What Find finds.                                                        *)

\* A tag that is found is there, and there is none before it.
LEMMA FindFirst ==
    ASSUME NEW chunk \in Seq(Pieces), NEW tag, NEW m \in 1..Len(chunk),
           chunk[m].tag = tag, \A i \in 1..(m - 1) : chunk[i].tag # tag
    PROVE  Find(chunk, tag) = m
<1> DEFINE I == {i \in 1..Len(chunk) : chunk[i].tag = tag}
<1>1. m \in I /\ \A i \in I : m <= i
  OBVIOUS
<1>2. \A x \in I : (\A y \in I : x <= y) => x = m
  BY <1>1
<1>3. Find(chunk, tag) = IF I # {} THEN Min(I) ELSE 0
  BY DEF Find, SelectInSeq
<1> HIDE DEF I
<1> QED BY <1>1, <1>2, <1>3 DEF Min

LEMMA FindNothing ==
    ASSUME NEW chunk \in Seq(Pieces), NEW tag, \A i \in 1..Len(chunk) : chunk[i].tag # tag
    PROVE  Find(chunk, tag) = 0
BY DEF Find, SelectInSeq

------------------------------------------------------------------------------
(* A chunk is the beginning of what is left of the stream.                 *)

\* length pieces were in the stream when the chunk was cut from its beginning.
Chunk(chunk, length, n) ==
    /\ chunk \in Seq(Pieces)
    /\ Len(chunk) <= length
    /\ \A i \in 1..Len(chunk) : Fits(chunk[i], length - i, n)

\* Of every four pieces in a row one has the tag: it is found among the first
\* four, or not at all.
LEMMA FindNear ==
    ASSUME NEW chunk, NEW length \in Nat, NEW n \in 0..(Numbers - 1), Chunk(chunk, length, n),
           NEW rest \in 0..3
    PROVE  LET m == Find(chunk, TagAt(rest))
           IN  m = 0 \/ (m \in 1..4 /\ m <= Len(chunk) /\ (length - m) % 4 = rest)
<1> DEFINE tag == TagAt(rest)
<1>1. PICK m \in 1..4 : (length - m) % 4 = rest
  <2> DEFINE d == (length - rest) % 4
  <2>1. d \in 0..3 /\ (length - d - rest) % 4 = 0
    OBVIOUS
  <2>2. CASE d = 0
    <3>1. (length - 4) % 4 = rest
      BY <2>1, <2>2
    <3> QED BY <3>1
  <2>3. CASE d # 0
    <3>1. (length - d) % 4 = rest
      BY <2>1, <2>3
    <3> QED BY <3>1, <2>1, <2>3
  <2> QED BY <2>2, <2>3
<1>2. \A i \in 1..(m - 1) : (length - i) % 4 # rest
  BY <1>1
<1>3. Len(chunk) \in Nat /\ Len(chunk) <= length /\ chunk \in Seq(Pieces)
  BY DEF Chunk
<1>4. \A j \in Nat : TagAt(j) = tag <=> j % 4 = rest
  BY DEF TagAt
<1>5. \A i \in 1..Len(chunk) : chunk[i].tag = tag <=> (length - i) % 4 = rest
  <2> TAKE i \in 1..Len(chunk)
  <2>1. length - i \in Nat /\ chunk[i].tag = TagAt(length - i)
    BY <1>3 DEF Chunk, Fits
  <2> QED BY <2>1, <1>4
<1>6. CASE m <= Len(chunk)
  <2>1. chunk[m].tag = tag /\ \A i \in 1..(m - 1) : chunk[i].tag # tag
    BY <1>1, <1>2, <1>3, <1>5, <1>6
  <2>2. Find(chunk, tag) = m
    BY <2>1, <1>3, <1>6, FindFirst
  <2> QED BY <2>2, <1>1, <1>6
<1>7. CASE m > Len(chunk)
  <2>1. \A i \in 1..Len(chunk) : i \in 1..(m - 1)
    BY <1>1, <1>3, <1>7
  <2>2. \A i \in 1..Len(chunk) : chunk[i].tag # tag
    BY <2>1, <1>2, <1>5
  <2>3. Find(chunk, tag) = 0
    BY <2>2, <1>3, FindNothing
  <2> QED BY <2>3
<1> QED BY <1>1, <1>3, <1>6, <1>7

\* What Text returns is of a piece that Find finds, or is Other.
LEMMA TextOfPiece ==
    ASSUME NEW chunk, NEW length \in Nat, NEW n \in 0..(Numbers - 1), Chunk(chunk, length, n),
           NEW rest \in 0..3, NEW close
    PROVE  LET text == Text(chunk, TagAt(rest), close)
           IN  /\ text \in Texts
               /\ text # Other => \E j \in Nat : /\ j < length /\ length - 4 <= j
                                                 /\ j % 4 = rest
                                                 /\ text.number = (n - 1 - (j \div 4)) % Numbers
<1> DEFINE m == Find(chunk, TagAt(rest))
           text == Text(chunk, TagAt(rest), close)
<1>1. m = 0 \/ (m \in 1..4 /\ m <= Len(chunk) /\ (length - m) % 4 = rest)
  BY FindNear
<1>2. Other \in Texts
  BY DEF Other, Texts, Numbers
<1>3. CASE text = Other
  BY <1>2, <1>3
<1>4. CASE text # Other
  <2>1. m > 0 /\ text = [text |-> chunk[m].text, number |-> chunk[m].number]
    BY <1>4 DEF Text
  <2>2. m \in 1..4 /\ m \in 1..Len(chunk) /\ Len(chunk) <= length /\ length - m \in Nat
    BY <1>1, <2>1 DEF Chunk
  <2>3. chunk[m] \in Pieces /\ Fits(chunk[m], length - m, n)
    BY <2>2 DEF Chunk
  <2> HIDE DEF m, text
  <2>4. text \in Texts
    BY <2>1, <2>3 DEF Pieces, Texts
  <2>5. /\ length - m < length /\ length - 4 <= length - m
        /\ (length - m) % 4 = rest
        /\ text.number = (n - 1 - ((length - m) \div 4)) % Numbers
    BY <1>1, <2>1, <2>2, <2>3 DEF Fits
  <2>6. \E j \in Nat : /\ j < length /\ length - 4 <= j
                      /\ j % 4 = rest
                      /\ text.number = (n - 1 - (j \div 4)) % Numbers
    BY <2>2, <2>5
  <2> QED BY <2>4, <2>6 DEF text
<1> QED BY <1>3, <1>4

\* Two pieces of a chunk that are found are two apart, because one is the
\* beginning of a state and one of a full screen flag.
LEMMA TwoApart ==
    ASSUME NEW length \in Nat, NEW n \in 0..3, NEW j \in Nat, NEW k \in Nat,
           j < length, length - 4 <= j, j % 4 = 1,
           k < length, length - 4 <= k, k % 4 = 3
    PROVE  (((n - 1 - (k \div 4)) % 4) - ((n - 1 - (j \div 4)) % 4)) % 4 \in {0, 1}
<1>1. k = j + 2 \/ j = k + 2
  OBVIOUS
<1>2. CASE k = j + 2
  <2>1. k \div 4 = j \div 4
    BY <1>2
  <2> QED BY <2>1
<1>3. CASE j = k + 2
  <2>1. k \div 4 = (j \div 4) - 1
    BY <1>3
  <2>2. \A a \in Int : (n - 1 - (a - 1)) % 4 = (((n - 1 - a) % 4) + 1) % 4
    OBVIOUS
  <2>3. \A b \in 0..3 : (((b + 1) % 4) - b) % 4 = 1
    OBVIOUS
  <2>4. j \div 4 \in Int /\ (n - 1 - (j \div 4)) % 4 \in 0..3
    OBVIOUS
  <2> QED BY <2>1, <2>2, <2>3, <2>4
<1> QED BY <1>1, <1>2, <1>3

\* Every report made of a chunk of the stream keeps the claim.
LEMMA ReportMixesNeighbours ==
    ASSUME NEW chunk, NEW length \in Nat, NEW n \in 0..(Numbers - 1), Chunk(chunk, length, n)
    PROVE  LET r == Report(chunk)
           IN  /\ r \in [success : BOOLEAN, state : Texts, fullscreen : Texts]
               /\ (r.state # Other /\ r.fullscreen # Other) =>
                      (r.fullscreen.number - r.state.number) % Numbers \in {0, 1}
<1> DEFINE s == Text(chunk, "<state>", "</state>")
           f == Text(chunk, "<fullscreen>", "</fullscreen>")
<1>1. TagAt(1) = "<state>" /\ TagAt(3) = "<fullscreen>"
  BY DEF TagAt
<1>2. /\ s \in Texts
      /\ s # Other => \E j \in Nat : /\ j < length /\ length - 4 <= j
                                     /\ j % 4 = 1
                                     /\ s.number = (n - 1 - (j \div 4)) % 4
  BY <1>1, TextOfPiece DEF Numbers
<1>3. /\ f \in Texts
      /\ f # Other => \E k \in Nat : /\ k < length /\ length - 4 <= k
                                     /\ k % 4 = 3
                                     /\ f.number = (n - 1 - (k \div 4)) % 4
  BY <1>1, TextOfPiece DEF Numbers
<1>4. Report(chunk) = [success |-> TRUE, state |-> s, fullscreen |-> f]
  BY DEF Report
<1>5. s # Other /\ f # Other => (f.number - s.number) % 4 \in {0, 1}
  BY <1>2, <1>3, TwoApart DEF Numbers
<1> HIDE DEF s, f
<1> QED BY <1>2, <1>3, <1>4, <1>5 DEF Numbers

------------------------------------------------------------------------------
(* The invariant                                                           *)

LEMMA InitEstablishes == Init => Inv
<1> SUFFICES ASSUME Init PROVE Inv
  OBVIOUS
<1> USE PollAssumption
<1>1. Len(stream) = 0 /\ stream \in Seq(Pieces)
  BY DEF Init
<1>2. TypeOK
  BY <1>1 DEF Init, TypeOK, CreateStream, Failure, Numbers
<1>3. StreamInv
  BY <1>1 DEF StreamInv
<1>4. ReportInv
  <2>1. Other \in Texts
    BY DEF Other, Texts, Numbers
  <2>2. report = Failure
    BY DEF Init
  <2>3. report \in [success : BOOLEAN, state : Texts, fullscreen : Texts]
    BY <2>1, <2>2 DEF Failure
  <2>4. report.state = Other
    BY <2>2 DEF Failure
  <2> QED BY <2>3, <2>4 DEF ReportInv, MixesNeighbours
<1>5. AttemptsInv
  BY DEF Init, AttemptsInv
<1> QED BY <1>2, <1>3, <1>4, <1>5 DEF Inv

\* What an attempt leaves of the poll and its report.
LEMMA AttemptKeeps ==
    ASSUME Inv, pc = "receive", NEW chunk, NEW length \in Nat, Chunk(chunk, length, number),
           NEW flush, Attempted(chunk, flush)
    PROVE  /\ pc' \in {"sleep", "receive"} /\ attempts' \in 0..MaxAttempts
           /\ report'.success \in BOOLEAN /\ ReportInv' /\ AttemptsInv'
<1> USE PollAssumption
<1>1. number \in 0..(Numbers - 1) /\ attempts \in 0..MaxAttempts /\ attempts < MaxAttempts
  BY DEF Inv, TypeOK, AttemptsInv
<1>2. CASE Shows(chunk, flush)
  <2>1. pc' = "sleep" /\ report' = Report(chunk) /\ attempts' = attempts
    BY <1>2 DEF Attempted
  <2>2. ReportInv'
    BY <1>1, <2>1, ReportMixesNeighbours DEF ReportInv, MixesNeighbours
  <2> QED BY <1>1, <2>1, <2>2 DEF ReportInv, AttemptsInv
<1>3. CASE ~Shows(chunk, flush)
  <2>1. /\ attempts' = attempts + 1 /\ report' = report
        /\ pc' = IF attempts' = MaxAttempts THEN "sleep" ELSE "receive"
    BY <1>3 DEF Attempted
  <2>2. ReportInv'
    BY <2>1 DEF Inv, ReportInv, MixesNeighbours
  <2> QED BY <1>1, <2>1, <2>2 DEF ReportInv, AttemptsInv
<1> QED BY <1>2, <1>3

\* What is read or torn off at the front changes no distance from the end.
LEMMA ReadingKeeps ==
    ASSUME StreamInv, NEW n \in Nat, NEW from \in Nat \ {0}, n <= Len(stream),
           from <= Len(stream) + 1, stream' = SubSeq(stream, from, Len(stream)), number' = number
    PROVE  StreamInv' /\ Chunk(SubSeq(stream, 1, n), Len(stream), number)
<1> DEFINE chunk == SubSeq(stream, 1, n)
           length == Len(stream)
<1>1. stream \in Seq(Pieces) /\ length \in Nat
  BY DEF StreamInv
<1>2. /\ chunk \in Seq(Pieces) /\ Len(chunk) = n
      /\ \A i \in 1..n : chunk[i] = stream[i]
  BY <1>1
<1>3. Chunk(chunk, length, number)
  BY <1>1, <1>2 DEF Chunk, StreamInv
<1>4. /\ stream' \in Seq(Pieces) /\ Len(stream') = length - from + 1
      /\ \A i \in 1..(length - from + 1) : stream'[i] = stream[from + i - 1]
  BY <1>1
<1>5. \A i \in 1..Len(stream') : Fits(stream'[i], Len(stream') - i, number')
  <2> TAKE i \in 1..Len(stream')
  <2>1. stream'[i] = stream[from + i - 1] /\ from + i - 1 \in 1..length
    BY <1>1, <1>4
  <2>2. Fits(stream[from + i - 1], length - (from + i - 1), number)
    BY <2>1 DEF StreamInv
  <2>3. length - (from + i - 1) = Len(stream') - i
    BY <1>1, <1>4
  <2> QED BY <2>1, <2>2, <2>3
<1> QED BY <1>3, <1>4, <1>5 DEF StreamInv

\* A new answer has four pieces; the answers before it are one further away.
LEMMA AnsweringKeeps ==
    ASSUME StreamInv, number \in 0..(Numbers - 1), player \in Players,
           stream' = stream \o Answer, number' = (number + 1) % Numbers
    PROVE  StreamInv'
<1> DEFINE length == Len(stream)
<1>1. stream \in Seq(Pieces) /\ length \in Nat
  BY DEF StreamInv
<1>2. /\ Answer \in Seq(Pieces) /\ Len(Answer) = 4
      /\ \A i \in 1..4 : Answer[i].tag = TagAt(4 - i) /\ Answer[i].number = number
  <2>1. /\ player.fullscreen \in {"true", "false"} /\ player.state \in {"playing", "paused"}
    BY DEF Players
  <2>2. /\ Piece("<fullscreen>", player.fullscreen) \in Pieces
        /\ Piece("</fullscreen>", "") \in Pieces
        /\ Piece("<state>", player.state) \in Pieces
        /\ Piece("</state>", "") \in Pieces
    BY <2>1 DEF Piece, Pieces, Tags
  <2>3. /\ TagAt(3) = "<fullscreen>" /\ TagAt(2) = "</fullscreen>"
        /\ TagAt(1) = "<state>" /\ TagAt(0) = "</state>"
    BY DEF TagAt
  <2>4. /\ Answer[1].tag = TagAt(3) /\ Answer[2].tag = TagAt(2)
        /\ Answer[3].tag = TagAt(1) /\ Answer[4].tag = TagAt(0)
    BY <2>3 DEF Answer, Piece
  <2>5. /\ Answer[1].number = number /\ Answer[2].number = number
        /\ Answer[3].number = number /\ Answer[4].number = number
    BY DEF Answer, Piece
  <2>6. Answer \in Seq(Pieces) /\ Len(Answer) = 4
    <3>1. \A p, q, r, t \in Pieces : <<p, q, r, t>> \in Seq(Pieces) /\ Len(<<p, q, r, t>>) = 4
      OBVIOUS
    <3> QED BY <2>2, <3>1 DEF Answer
  <2>7. \A i \in 1..4 : i = 1 \/ i = 2 \/ i = 3 \/ i = 4
    OBVIOUS
  <2>8. \A i \in 1..4 : Answer[i].tag = TagAt(4 - i)
    <3>1. 4 - 1 = 3 /\ 4 - 2 = 2 /\ 4 - 3 = 1 /\ 4 - 4 = 0
      OBVIOUS
    <3> QED BY <2>4, <2>7, <3>1
  <2>9. \A i \in 1..4 : Answer[i].number = number
    BY <2>5, <2>7
  <2> QED BY <2>6, <2>8, <2>9
<1>3. /\ stream' \in Seq(Pieces) /\ Len(stream') = length + 4
      /\ \A i \in 1..length : stream'[i] = stream[i]
      /\ \A i \in 1..4 : stream'[length + i] = Answer[i]
  <2>1. /\ Len(stream \o Answer) = Len(stream) + Len(Answer)
        /\ \A i \in 1..(Len(stream) + Len(Answer)) :
               (stream \o Answer)[i] =
                   IF i <= Len(stream) THEN stream[i] ELSE Answer[i - Len(stream)]
    BY <1>1, <1>2, ConcatProperties
  <2>2. stream \o Answer \in Seq(Pieces)
    BY <1>1, <1>2, ConcatProperties
  <2>3. \A i \in 1..4 : (stream \o Answer)[length + i] = Answer[i]
    <3> TAKE i \in 1..4
    <3>1. length + i \in 1..(length + 4) /\ ~(length + i <= length) /\ length + i - length = i
      BY <1>1
    <3> QED BY <1>2, <2>1, <3>1
  <2> QED BY <1>1, <1>2, <2>1, <2>2, <2>3
<1>4. \A i \in 1..length : Fits(stream'[i], Len(stream') - i, number')
  <2> TAKE i \in 1..length
  <2>1. Fits(stream[i], length - i, number)
    BY DEF StreamInv
  <2>2. PICK j \in Nat : j = length - i
    <3>1. length - i \in Nat
      BY <1>1
    <3> QED BY <3>1
  <2>3. TagAt(j + 4) = TagAt(j)
    BY DEF TagAt
  <2>4. (number - 1 - (j \div 4)) % 4 = (((number + 1) % 4) - 1 - ((j + 4) \div 4)) % 4
    <3>1. (j + 4) \div 4 = (j \div 4) + 1 /\ j \div 4 \in Int
      OBVIOUS
    <3>2. \A a \in Int : (number - 1 - a) % 4 = (((number + 1) % 4) - 1 - (a + 1)) % 4
      BY DEF Numbers
    <3> QED BY <3>1, <3>2
  <2>5. Len(stream') - i = j + 4
    BY <1>1, <1>3, <2>2
  <2> QED BY <1>3, <2>1, <2>2, <2>3, <2>4, <2>5 DEF Fits, Numbers
<1>5. \A i \in 1..4 : Fits(stream'[length + i], Len(stream') - (length + i), number')
  <2> TAKE i \in 1..4
  <2>1. Len(stream') - (length + i) = 4 - i /\ (4 - i) \div 4 = 0
    BY <1>1, <1>3
  <2>2. number = (((number + 1) % 4) - 1 - 0) % 4
    BY DEF Numbers
  <2> QED BY <1>2, <1>3, <2>1, <2>2 DEF Fits, Numbers
<1>6. \A i \in 1..Len(stream') : i \in 1..length \/ \E k \in 1..4 : i = length + k
  <2> TAKE i \in 1..Len(stream')
  <2>1. i > length => i - length \in 1..4 /\ i = length + (i - length)
    BY <1>1, <1>3
  <2> QED BY <1>1, <2>1
<1>7. \A i \in 1..Len(stream') : Fits(stream'[i], Len(stream') - i, number')
  BY <1>4, <1>5, <1>6
<1> QED BY <1>3, <1>7 DEF StreamInv

\* The empty stream and the chunk of an attempt that fails.
LEMMA EmptyKeeps ==
    /\ stream' = <<>> => StreamInv'
    /\ Chunk(<<>>, 0, number)
<1>1. <<>> \in Seq(Pieces) /\ Len(<<>>) = 0
  OBVIOUS
<1>2. Chunk(<<>>, 0, number)
  BY <1>1 DEF Chunk
<1>3. ASSUME stream' = <<>> PROVE StreamInv'
  BY <1>1, <1>3 DEF StreamInv
<1> QED BY <1>2, <1>3

\* The conjuncts of TypeOK that an attempt and the stream do not touch.
Rest ==
    /\ connected \in BOOLEAN
    /\ socket \in {"connecting", "open", "closed", "reset"}
    /\ requests \in 0..MaxRequests
    /\ running \in BOOLEAN
    /\ player \in Players
    /\ number \in 0..(Numbers - 1)

\* StreamInv says of the tags what TypeOK does.
LEMMA InvFromParts ==
    ASSUME Rest', pc' \in {"sleep", "receive"}, attempts' \in 0..MaxAttempts,
           StreamInv', ReportInv', AttemptsInv'
    PROVE  Inv'
<1>1. \A i \in 1..Len(stream') : stream'[i] \in Pieces
  BY DEF StreamInv
<1>2. \A i \in 1..Len(stream') : stream'[i].tag \in Tags
  BY <1>1 DEF Pieces
<1>3. report'.success \in BOOLEAN
  BY DEF ReportInv
<1>4. TypeOK'
  BY <1>2, <1>3 DEF TypeOK, Rest
<1> QED BY <1>4 DEF Inv

\* A step that leaves the poll and its report alone.
LEMMA OutsideKeeps ==
    ASSUME Inv, UNCHANGED <<pc, attempts, report>>, Rest', StreamInv'
    PROVE  Inv'
<1>1. pc' \in {"sleep", "receive"} /\ attempts' \in 0..MaxAttempts
  BY DEF Inv, TypeOK
<1>2. ReportInv' /\ AttemptsInv'
  BY DEF Inv, ReportInv, MixesNeighbours, AttemptsInv
<1> QED BY <1>1, <1>2, InvFromParts

LEMMA StepKeeps == Inv /\ [Next]_vars => Inv'
<1> SUFFICES ASSUME Inv, [Next]_vars PROVE Inv'
  OBVIOUS
<1> USE PollAssumption
<1>1. Rest /\ StreamInv
  BY DEF Inv, TypeOK, Rest
<1>2. ASSUME UNCHANGED <<stream, number>> PROVE StreamInv'
  BY <1>1, <1>2 DEF StreamInv
<1>3. CASE GetState
  <2>1. /\ pc' = "receive" /\ attempts' = 0 /\ report' = Failure
        /\ UNCHANGED <<connected, running, player, number>>
    BY <1>3 DEF GetState
  <2>2. StreamInv'
    BY <1>2, <1>3, <2>1, EmptyKeeps DEF GetState
  <2>3. socket' \in {"connecting", "open", "closed", "reset"}
    BY <1>1, <1>3 DEF GetState, CreateStream, Rest
  <2>4. requests' \in 0..MaxRequests
    BY <1>1, <1>3 DEF GetState, HTTPPost, Rest
  <2>5. Rest'
    BY <1>1, <2>1, <2>3, <2>4 DEF Rest
  <2>6. ReportInv' /\ AttemptsInv'
    <3>1. Other \in Texts
      BY DEF Other, Texts, Numbers
    <3>2. report' \in [success : BOOLEAN, state : Texts, fullscreen : Texts]
      BY <2>1, <3>1 DEF Failure
    <3>3. report'.state = Other
      BY <2>1 DEF Failure
    <3> QED BY <2>1, <3>2, <3>3 DEF ReportInv, MixesNeighbours, AttemptsInv
  <2> QED BY <2>1, <2>2, <2>5, <2>6, InvFromParts
<1>4. CASE ReceiveFails
  <2>1. /\ pc = "receive" /\ connected' = FALSE /\ Attempted(<<>>, FALSE)
        /\ UNCHANGED <<socket, requests, stream, running, player, number>>
    BY <1>4 DEF ReceiveFails
  <2>2. Rest' /\ StreamInv'
    BY <1>1, <1>2, <2>1 DEF Rest
  <2> QED BY <2>1, <2>2, EmptyKeeps, AttemptKeeps, InvFromParts
<1>5. ASSUME NEW n \in 0..BufferSize, NEW torn \in BOOLEAN, NEW flush \in BOOLEAN,
             Receive(n, torn, flush)
      PROVE  Inv'
  <2> DEFINE from == IF torn THEN n + 2 ELSE n + 1
             chunk == SubSeq(stream, 1, n)
  <2>1. /\ pc = "receive" /\ n <= Len(stream) /\ (torn => n < Len(stream))
        /\ connected' = TRUE /\ stream' = SubSeq(stream, from, Len(stream))
        /\ Attempted(chunk, flush)
        /\ UNCHANGED <<socket, requests, running, player, number>>
    BY <1>5 DEF Receive
  <2>2. Len(stream) \in Nat /\ n \in Nat /\ from \in Nat \ {0} /\ from <= Len(stream) + 1
    BY <1>1, <2>1 DEF StreamInv
  <2>3. Rest'
    BY <1>1, <2>1 DEF Rest
  <2> HIDE DEF from
  <2>4. StreamInv' /\ Chunk(chunk, Len(stream), number)
    BY <1>1, <2>1, <2>2, ReadingKeeps
  <2>5. /\ pc' \in {"sleep", "receive"} /\ attempts' \in 0..MaxAttempts
        /\ ReportInv' /\ AttemptsInv'
    BY <2>1, <2>2, <2>4, AttemptKeeps
  <2> QED BY <2>3, <2>4, <2>5, InvFromParts
<1>6. CASE Connects
  <2>1. Rest' /\ StreamInv'
    BY <1>1, <1>2, <1>6 DEF Connects, Rest
  <2> QED BY <1>6, <2>1, OutsideKeeps DEF Connects
<1>7. CASE VlcAnswers
  <2>1. StreamInv'
    BY <1>1, <1>7, AnsweringKeeps DEF VlcAnswers, Rest
  <2>2. Rest'
    BY <1>1, <1>7 DEF VlcAnswers, Rest, Numbers
  <2> QED BY <1>7, <2>1, <2>2, OutsideKeeps DEF VlcAnswers
<1>8. ASSUME NEW p \in Players, PlayerChanges(p) PROVE Inv'
  <2>1. Rest' /\ StreamInv'
    BY <1>1, <1>2, <1>8 DEF PlayerChanges, Rest
  <2> QED BY <1>8, <2>1, OutsideKeeps DEF PlayerChanges
<1>9. CASE VlcEnds
  <2>1. StreamInv'
    BY <1>2, <1>9, EmptyKeeps DEF VlcEnds
  <2>2. requests' \in 0..MaxRequests /\ socket' \in {"connecting", "open", "closed", "reset"}
    BY <1>1, <1>9 DEF VlcEnds, Rest
  <2>3. /\ connected' \in BOOLEAN /\ running' \in BOOLEAN /\ player' \in Players
        /\ number' \in 0..(Numbers - 1)
    BY <1>1, <1>9 DEF VlcEnds, Rest
  <2>4. Rest'
    BY <2>2, <2>3 DEF Rest
  <2> QED BY <1>9, <2>1, <2>4, OutsideKeeps DEF VlcEnds
<1>10. CASE VlcStarts
  <2>1. Rest' /\ StreamInv'
    BY <1>1, <1>2, <1>10 DEF VlcStarts, Rest
  <2> QED BY <1>10, <2>1, OutsideKeeps DEF VlcStarts
<1>11. CASE ResetArrives
  <2>1. Rest' /\ StreamInv'
    BY <1>1, <1>11, EmptyKeeps DEF ResetArrives, Rest
  <2> QED BY <1>11, <2>1, OutsideKeeps DEF ResetArrives
<1>12. CASE UNCHANGED vars
  <2>1. Rest' /\ StreamInv'
    BY <1>1, <1>2, <1>12 DEF vars, Rest
  <2> QED BY <1>12, <2>1, OutsideKeeps DEF vars
<1> QED BY <1>3, <1>4, <1>5, <1>6, <1>7, <1>8, <1>9, <1>10, <1>11, <1>12 DEF Next

LEMMA Invariant == Spec => []Inv
<1> QED BY InitEstablishes, StepKeeps, PTL DEF Spec

------------------------------------------------------------------------------
(* The theorems                                                            *)

\* Every variable has its type: the attempts are never exceeded and what is
\* read is always made of the pieces of an answer.
THEOREM TypeCorrect == Spec => []TypeOK
<1>1. Inv => TypeOK
  BY DEF Inv
<1> QED BY <1>1, Invariant, PTL

\* Wherever the network cuts the stream and however far the reader lags
\* behind, a report mixes no answers but neighbours, the state being the
\* older one's.
THEOREM NeighboursMixed == Spec => []MixesNeighbours
<1>1. Inv => MixesNeighbours
  BY DEF Inv, ReportInv
<1> QED BY <1>1, Invariant, PTL
==============================================================================
