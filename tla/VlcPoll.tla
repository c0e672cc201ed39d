--------------------------------- MODULE VlcPoll ---------------------------------
(***************************************************************************)
(* VLC::GetState: the VLC thread polls the player over a non-blocking TCP  *)
(* stream.  A poll sends a request and reads at most three times without   *)
(* waiting, so that it commonly reads the answer to an earlier request, a  *)
(* piece of one, or pieces of two.                                         *)
(*                                                                         *)
(* An answer is the four pieces of it that GetState looks for.  Receive    *)
(* fills the rest of its buffer with zeros, so that a text whose end is    *)
(* missing is never taken for "playing" or "true".  The thread holds       *)
(* manager_mutex through the poll; what it does with the report belongs to *)
(* module LightControl.                                                    *)
(***************************************************************************)
EXTENDS Integers, Sequences, SequencesExt

CONSTANTS
    BufferSize,   \* pieces one Receive takes at most (4095 bytes in the code)
    MaxAttempts,  \* attempts to read in one poll (3 in the code)
    MaxRequests,  \* bound: requests on their way, further ones are lost
    MaxUnread,    \* bound: pieces VLC sends ahead of the reader
    Local         \* VLC is on this host: connect succeeds at once

ASSUME PollAssumption ==
    /\ BufferSize \in Nat \ {0} /\ MaxAttempts \in Nat \ {0}
    /\ MaxRequests \in Nat \ {0} /\ MaxUnread \in Nat \ {0}
    /\ Local \in BOOLEAN

VARIABLES
    pc,         \* the thread sleeps, or it is in GetState
    attempts,   \* GetState's count of attempts
    connected,  \* VLC::connected
    socket,     \* the state of the TCP socket
    requests,   \* requests VLC has not answered
    stream,     \* pieces of answers that have not been read
    running,    \* VLC runs and listens
    player,     \* what it would answer
    report,     \* what the last GetState has returned
    number      \* history: the answers VLC has sent, modulo Numbers

vars == <<pc, attempts, connected, socket, requests, stream, running, player, report, number>>

------------------------------------------------------------------------------
(* Answers and reports                                                     *)

Tags == {"<fullscreen>", "</fullscreen>", "<state>", "</state>"}
Numbers == 4
Players == [state : {"playing", "paused"}, fullscreen : {"true", "false"}]

\* A piece is a tag and, if the tag opens an element, the text that follows.
Piece(tag, text) == [tag |-> tag, text |-> text, number |-> number]
Answer == << Piece("<fullscreen>", player.fullscreen), Piece("</fullscreen>", ""),
             Piece("<state>", player.state), Piece("</state>", "") >>

Find(chunk, tag) == SelectInSeq(chunk, LAMBDA piece : piece.tag = tag)

\* substr from the first opening tag up to the first closing tag.  If either
\* is missing, or they are in the wrong order, it returns some other text.
Other == [text |-> "", number |-> 0]
Text(chunk, open, close) ==
    LET start == Find(chunk, open)
    IN  IF start > 0 /\ start < Find(chunk, close)
        THEN [text |-> chunk[start].text, number |-> chunk[start].number] ELSE Other

\* Mutant of Report: the state is that of the last element.
ReportLast(chunk) ==
    LET start == SelectLastInSeq(chunk, LAMBDA piece : piece.tag = "<state>")
    IN  [success    |-> TRUE,
         state      |-> IF start = 0 THEN Other
                        ELSE [text |-> chunk[start].text, number |-> chunk[start].number],
         fullscreen |-> Text(chunk, "<fullscreen>", "</fullscreen>")]

Failure == [success |-> FALSE, state |-> Other, fullscreen |-> Other]
Report(chunk) ==
    [success    |-> TRUE,
     state      |-> Text(chunk, "<state>", "</state>"),
     fullscreen |-> Text(chunk, "<fullscreen>", "</fullscreen>")]

------------------------------------------------------------------------------
(* The socket.  While a connection is being made, and after it was refused *)
(* or reset, sending and reading fail; a stream that VLC has closed can    *)
(* still be read to its end.                                               *)

Fails == socket \in {"connecting", "reset"}

CreateStream == IF Local /\ running THEN "open" ELSE "connecting"

Init ==
    /\ pc = "sleep"
    /\ attempts = 0
    /\ connected = TRUE                    \* the constructor says so
    /\ running \in BOOLEAN
    /\ socket = CreateStream
    /\ requests = 0
    /\ stream = <<>>
    /\ player \in Players
    /\ report = Failure
    /\ number = 0

\* HTTPPost: the request is sent if there is a connection to send it on.
HTTPPost(n) ==
    IF socket' \in {"connecting", "reset"} \/ n = MaxRequests THEN n ELSE n + 1

ReconnectsAlways == TRUE                         \* mutant
Reconnects == ~connected

\* A poll begins: it makes a new connection if the last attempt to read had
\* failed, and sends a request.  An error of send is dropped.
GetState ==
    /\ pc = "sleep"
    /\ pc' = "receive"
    /\ attempts' = 0
    /\ report' = Failure
    /\ socket' = IF Reconnects THEN CreateStream ELSE socket
    /\ requests' = HTTPPost(IF Reconnects THEN 0 ELSE requests)
    /\ stream' = IF Reconnects THEN <<>> ELSE stream
    /\ UNCHANGED <<connected, running, player, number>>

\* Mutant of Attempted: one attempt too many.
AttemptedOnceMore(chunk, flush) ==
    /\ attempts' = attempts + 1
    /\ pc' = IF attempts' > MaxAttempts THEN "sleep" ELSE "receive"
    /\ UNCHANGED report

\* The tag is looked for by find() > 0: one that the chunk begins with, flush
\* with the cut, counts as none, and those after it are not looked for.
Shows(chunk, flush) == Find(chunk, "<fullscreen>") > (IF flush THEN 1 ELSE 0)

\* One attempt is over.  The poll ends with the first chunk that shows how an
\* element begins, or with the last attempt.
Attempted(chunk, flush) ==
    IF Shows(chunk, flush)
    THEN pc' = "sleep" /\ report' = Report(chunk) /\ UNCHANGED attempts
    ELSE /\ attempts' = attempts + 1
         /\ pc' = IF attempts' = MaxAttempts THEN "sleep" ELSE "receive"
         /\ UNCHANGED report

\* Mutant of ReceiveFails: the failure is not kept.
ReceiveFailsUnnoticed ==
    /\ pc = "receive"
    /\ Fails
    /\ Attempted(<<>>, FALSE)
    /\ UNCHANGED <<connected, socket, requests, stream, running, player, number>>

ReceiveFails ==
    /\ pc = "receive"
    /\ Fails
    /\ connected' = FALSE
    /\ Attempted(<<>>, FALSE)
    /\ UNCHANGED <<socket, requests, stream, running, player, number>>

\* Receive returns the n pieces that have arrived.  None is no error, not
\* even at the end of a closed stream.  A cut inside a tag hides the tag
\* (torn), and the cut before may have been right before a tag (flush).
Receive(n, torn, flush) ==
    /\ pc = "receive"
    /\ ~Fails
    /\ n <= Len(stream)
    /\ torn => n < Len(stream)
    /\ connected' = TRUE
    /\ stream' = SubSeq(stream, (IF torn THEN n + 2 ELSE n + 1), Len(stream))
    /\ Attempted(SubSeq(stream, 1, n), flush)
    /\ UNCHANGED <<socket, requests, running, player, number>>

------------------------------------------------------------------------------
(* VLC and the network                                                     *)

Connects ==
    /\ socket = "connecting" /\ running
    /\ socket' = "open"
    /\ UNCHANGED <<pc, attempts, connected, requests, stream, running, player, report, number>>

VlcAnswers ==
    /\ running /\ socket = "open"
    /\ requests > 0
    /\ Len(stream) < MaxUnread
    /\ requests' = requests - 1
    /\ stream' = stream \o Answer
    /\ number' = (number + 1) % Numbers
    /\ UNCHANGED <<pc, attempts, connected, socket, running, player, report>>

PlayerChanges(p) ==
    /\ running
    /\ p # player
    /\ player' = p
    /\ UNCHANGED <<pc, attempts, connected, socket, requests, stream, running, report, number>>

\* VLC ends and closes the stream, or kills it with what it held.
VlcEnds ==
    /\ running
    /\ running' = FALSE
    /\ IF socket = "open"
       THEN /\ requests' = 0
            /\ \/ socket' = "closed" /\ UNCHANGED stream
               \/ socket' = "reset" /\ stream' = <<>>
       ELSE UNCHANGED <<socket, requests, stream>>
    /\ UNCHANGED <<pc, attempts, connected, player, report, number>>

VlcStarts ==
    /\ ~running
    /\ running' = TRUE
    /\ UNCHANGED <<pc, attempts, connected, socket, requests, stream, player, report, number>>

\* A request sent to a closed stream is answered with a reset.
ResetArrives ==
    /\ socket = "closed" /\ requests > 0
    /\ socket' = "reset"
    /\ requests' = 0
    /\ stream' = <<>>
    /\ UNCHANGED <<pc, attempts, connected, running, player, report, number>>

Next ==
    \/ GetState
    \/ ReceiveFails
    \/ \E n \in 0..BufferSize, torn, flush \in BOOLEAN : Receive(n, torn, flush)
    \/ Connects
    \/ VlcAnswers
    \/ \E p \in Players : PlayerChanges(p)
    \/ VlcEnds
    \/ VlcStarts
    \/ ResetArrives

Spec == Init /\ [][Next]_vars

\* The thread goes on, connections, answers and resets arrive, and not every
\* <fullscreen> tag that is there to be read arrives late or meets a cut.
Fairness ==
    /\ WF_vars(GetState)
    /\ WF_vars(ReceiveFails)
    /\ WF_vars(\E n \in 0..BufferSize, torn, flush \in BOOLEAN : Receive(n, torn, flush))
    /\ SF_vars(\E n \in 1..BufferSize :
                  /\ Receive(n, FALSE, FALSE)
                  /\ Shows(SubSeq(stream, 1, n), FALSE))
    /\ WF_vars(Connects)
    /\ WF_vars(VlcAnswers)
    /\ WF_vars(ResetArrives)

FairSpec == Spec /\ Fairness

------------------------------------------------------------------------------
(* Properties                                                              *)

\* Every variable has its type.
TypeOK ==
    /\ pc \in {"sleep", "receive"}
    /\ attempts \in 0..MaxAttempts
    /\ connected \in BOOLEAN
    /\ socket \in {"connecting", "open", "closed", "reset"}
    /\ requests \in 0..MaxRequests
    /\ \A i \in 1..Len(stream) : stream[i].tag \in Tags
    /\ running \in BOOLEAN
    /\ player \in Players
    /\ report.success \in BOOLEAN
    /\ number \in 0..(Numbers - 1)

\* A report may mix two answers, but no more than two and those neighbours:
\* the state comes from the answer the full screen flag comes from, or from
\* the one before it.  So a film that was never playing and in full screen
\* within two answers is not reported as such.
MixesNeighbours ==
    LET s == report.state
        f == report.fullscreen
    IN  s # Other /\ f # Other => (f.number - s.number) % Numbers \in {0, 1}

\* A connection that VLC has closed or reset is noticed and replaced, though
\* the end of a stream counts as no error.
LossNoticed == socket \in {"closed", "reset"} ~> socket \in {"connecting", "open"}

\* While VLC runs, every poll is followed by one that gets an answer.  The
\* comment at WinSock.cpp:69-70 expects a connection to take some time; that
\* is so only where connect succeeds at once.
Hears == running ~> (report.success \/ ~running)
==============================================================================
