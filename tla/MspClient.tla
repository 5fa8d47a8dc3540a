----------------------------- MODULE MspClient ------------------------------
(***************************************************************************)
(* The MSP client library: requests and answers over one TCP connection to *)
(* Betaflight.  An answer carries the command it answers and nothing that  *)
(* tells two requests of one command apart.  A request that runs into its  *)
(* deadline leaves its answer on the way, and a new connection finds in    *)
(* the receive buffer what the old one left there.                         *)
(*                                                                         *)
(* An answer arrives in two pieces, which its network may separate: a head *)
(* with the header, the size and the command, and the rest.  Two pieces    *)
(* that do not belong together fail the checksum; that they pass it by     *)
(* chance, one time in 256, is left out, as is a header that appears by    *)
(* chance in the rest of an answer.                                        *)
(***************************************************************************)
EXTENDS Integers, FiniteSets, SequencesExt

CONSTANTS
    Commands,
    MaxRequests,    \* bound on the requests
    MaxConnects,    \* bound on the connections after the first
    Nothing

ASSUME BoundsAssumption == MaxRequests \in Nat /\ MaxConnects \in Nat

Ids == 1 .. MaxRequests
Pieces == [id : Ids, part : {"head", "rest"}]

VARIABLES
    sent,       \* the commands of the requests so far, the nth being request n
    pc,         \* where request() is: the caller's, the loop, recv
    buffer,     \* _buffer
    wire,       \* what Betaflight sent and the client has not received
    device,     \* the requests of this connection Betaflight has not answered
    lost,       \* Betaflight closed the connection
    connects,   \* the connections after the first
    given,      \* the last answer returned: to which request, and of which
    abandoned,  \* how many requests of each command ended without an answer
    badFrames   \* how many raised "Bad MSP checksum"

connection == <<wire, device, lost, connects>>
history == <<given, abandoned, badFrames>>
vars == <<sent, pc, buffer, connection, history>>

Init ==
    /\ sent = << >>
    /\ pc = "caller"
    /\ buffer = << >>
    /\ wire = << >>
    /\ device = << >>
    /\ lost = FALSE
    /\ connects = 0
    /\ given = Nothing
    /\ abandoned = [c \in Commands |-> 0]
    /\ badFrames = 0

-----------------------------------------------------------------------------
(* Betaflight and the network. *)

Answer(id) == <<[id |-> id, part |-> "head"], [id |-> id, part |-> "rest"]>>

\* Betaflight begins to answer, or goes on with an answer it began.
DeviceSends ==
    /\ ~lost
    /\ device # << >>
    /\ wire' = Append(wire, Head(device))
    /\ device' = Tail(device)
    /\ UNCHANGED <<sent, pc, buffer, lost, connects, history>>

DeviceCloses ==
    /\ ~lost
    /\ lost' = TRUE
    /\ UNCHANGED <<sent, pc, buffer, wire, device, connects, history>>

-----------------------------------------------------------------------------
(* What the steps are made of. *)

Current == Len(sent)

Abandon == abandoned' = [abandoned EXCEPT ![sent[Current]] = @ + 1]

\* Mutant: the size of the frame is not waited for.
FrameIsComplete_Early(bytes) == Len(bytes) >= 1

FrameIsComplete(bytes) == Len(bytes) >= 2

\* What does not begin with a header is dropped byte by byte.
Aligned(bytes) ==
    LET heads == {i \in DOMAIN bytes : bytes[i].part = "head"}
    IN  IF heads = {} THEN << >> ELSE SubSeq(bytes, Min(heads), Len(bytes))

\* Mutant: the frame is not deleted.
Consumed_Nothing(bytes) == bytes

\* del buffer[:frame_size], before the checksum is compared.
Consumed(bytes) == SubSeq(bytes, 3, Len(bytes))

GoodFrame(bytes) == IsPrefix(Answer(Head(bytes).id), bytes)

-----------------------------------------------------------------------------
(* The client. *)

Send(command) ==
    /\ pc = "caller"
    /\ Current < MaxRequests
    /\ sent' = Append(sent, command)
    /\ device' = IF lost THEN device ELSE device \o Answer(Current + 1)

Request(command) ==
    /\ Send(command)
    /\ pc' = "loop"
    /\ UNCHANGED <<buffer, wire, lost, connects, history>>

\* send() alone: nobody waits for the answer.
SendOnly(command) ==
    /\ Send(command)
    /\ abandoned' = [abandoned EXCEPT ![command] = @ + 1]
    /\ UNCHANGED <<pc, buffer, wire, lost, connects, given, badFrames>>

ParsesNothing ==
    /\ pc = "loop"
    /\ ~FrameIsComplete(Aligned(buffer))
    /\ buffer' = Aligned(buffer)
    /\ pc' = "recv"
    /\ UNCHANGED <<sent, connection, history>>

\* try_parse_response returns a response; one to another command is skipped.
\* An error response raises, which tells the caller as much as a payload.
ParsesResponse ==
    /\ pc = "loop"
    /\ FrameIsComplete(Aligned(buffer))
    /\ GoodFrame(Aligned(buffer))
    /\ buffer' = Consumed(Aligned(buffer))
    /\ LET id == Head(Aligned(buffer)).id
       IN  IF sent[id] = sent[Current]
             THEN /\ given' = [to |-> Current, of |-> id]
                  /\ pc' = "caller"
             ELSE UNCHANGED <<given, pc>>
    /\ UNCHANGED <<sent, connection, abandoned, badFrames>>

ParsesBadFrame ==
    /\ pc = "loop"
    /\ FrameIsComplete(Aligned(buffer))
    /\ ~GoodFrame(Aligned(buffer))
    /\ buffer' = Consumed(Aligned(buffer))
    /\ badFrames' = badFrames + 1
    /\ Abandon
    /\ pc' = "caller"
    /\ UNCHANGED <<sent, connection, given>>

\* The deadline is looked at before the buffer.
TimesOut ==
    /\ pc = "loop"
    /\ Abandon
    /\ pc' = "caller"
    /\ UNCHANGED <<sent, buffer, connection, given, badFrames>>

Receives ==
    /\ pc = "recv"
    /\ wire # << >>
    /\ buffer' = buffer \o wire
    /\ wire' = << >>
    /\ pc' = "loop"
    /\ UNCHANGED <<sent, device, lost, connects, history>>

\* socket.timeout
ReceivesNothing ==
    /\ pc = "recv"
    /\ wire = << >> /\ ~lost
    /\ pc' = "loop"
    /\ UNCHANGED <<sent, buffer, connection, history>>

FindsClosed ==
    /\ pc = "recv"
    /\ wire = << >> /\ lost
    /\ Abandon
    /\ pc' = "caller"
    /\ UNCHANGED <<sent, buffer, connection, given, badFrames>>

\* connect(): the old connection is closed, the buffer is not emptied.
Connect ==
    /\ pc = "caller"
    /\ connects < MaxConnects
    /\ connects' = connects + 1
    /\ wire' = << >>
    /\ device' = << >>
    /\ lost' = FALSE
    /\ UNCHANGED <<sent, pc, buffer, history>>

Next ==
    \/ DeviceSends
    \/ DeviceCloses
    \/ \E command \in Commands : Request(command) \/ SendOnly(command)
    \/ ParsesNothing \/ ParsesResponse \/ ParsesBadFrame
    \/ TimesOut
    \/ Receives \/ ReceivesNothing \/ FindsClosed
    \/ Connect

Spec == Init /\ [][Next]_vars

-----------------------------------------------------------------------------
(* Correctness. *)

\* Every variable keeps its type.
TypeOK ==
    /\ sent \in Seq(Commands) /\ Len(sent) <= MaxRequests
    /\ pc \in {"caller", "loop", "recv"}
    /\ buffer \in Seq(Pieces) /\ wire \in Seq(Pieces) /\ device \in Seq(Pieces)
    /\ Len(buffer) + Len(wire) + Len(device) <= 2 * MaxRequests
    /\ lost \in BOOLEAN
    /\ connects \in 0 .. MaxConnects
    /\ given \in [to : Ids, of : Ids] \cup {Nothing}
    /\ abandoned \in [Commands -> 0 .. MaxRequests]
    /\ badFrames \in 0 .. MaxConnects

\* An answer is late by no more requests of its command than were abandoned:
\* a client that never gave one up gets the answer to what it asked, and one
\* that did stays that far behind and no further, through every mixture of
\* late answers, skipped answers and new connections (request).
AnswerLagIsBounded ==
    given # Nothing =>
        LET command == sent[given.to]
            overtaken == {id \in given.of .. given.to - 1 : sent[id] = command}
        IN  /\ sent[given.of] = command
            /\ given.of <= given.to
            /\ Cardinality(overtaken) <= abandoned[command]

\* Betaflight's frames are good, so a bad checksum is a half frame that an
\* old connection left in the buffer, and each new connection costs at most
\* one (connect, try_parse_response).
BadFramesAreLeftovers == badFrames <= connects
=============================================================================
