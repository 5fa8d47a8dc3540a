----------------------------- MODULE TfminiLink -----------------------------
(***************************************************************************)
(* One TFmini rangefinder mapping: the lidar callback, the TCP connection  *)
(* to the UART that Betaflight SITL serves, and the frames sent on it.     *)
(*                                                                         *)
(* UpdateTfmini runs on the main thread of the bridge in three steps,      *)
(* Connect, Connected and the output, between which the network and the    *)
(* lidar act.  All three use one clock reading, so time passes between     *)
(* updates.  Ages stop counting at the limit they are compared with.       *)
(*                                                                         *)
(* A range is in centimetres, NotFinite, or NoRange for a scan that does   *)
(* not have exactly one beam.                                              *)
(***************************************************************************)
EXTENDS Integers

CONSTANTS
    Ranges,         \* what the lidar may measure
    NotFinite,      \* an infinity or a NaN
    NoRange,        \* std::nullopt
    NoFrame,        \* Betaflight has not received a frame
    StaleAfter,     \* kStaleAfter, in ticks
    OutputPeriod,   \* 10 ms, in ticks
    RetryPeriod,    \* one second, in ticks
    Locations       \* whether sitl_address may be one of this machine

ASSUME PeriodAssumption ==
    StaleAfter \in Nat /\ OutputPeriod \in Nat \ {0} /\ RetryPeriod \in Nat \ {0}
ASSUME RangesAssumption ==
    /\ Ranges \subseteq Int \cup {NotFinite, NoRange}
    /\ NotFinite \notin Int /\ NoRange \notin Int /\ NoFrame \notin Int
ASSUME LocationsAssumption == Locations \subseteq BOOLEAN

VARIABLES
    local,          \* sitl_address is one of this machine; never changes
    pc,             \* where UpdateTfmini is
    metres,         \* the last range of the lidar
    sampleAge,      \* now - sampleTime, at most StaleAfter + 1
    outputAge,      \* now - lastOutput
    attemptAge,     \* now - lastConnectAttempt
    tcp,            \* the file descriptor exists
    connecting,     \* connecting
    link,           \* the TCP connection the kernel has for it
    listening,      \* Betaflight SITL serves the UART
    heard           \* the distance Betaflight received last

sample == <<metres, sampleAge>>
client == <<tcp, connecting, attemptAge>>
vars == <<local, pc, sample, outputAge, client, link, listening, heard>>

OutOfRange == 1201

Init ==
    /\ local \in Locations
    /\ pc = "idle"
    /\ metres = NoRange
    /\ sampleAge = StaleAfter + 1
    /\ outputAge = OutputPeriod
    /\ attemptAge = RetryPeriod
    /\ tcp = FALSE
    /\ connecting = FALSE
    /\ link = "none"
    /\ listening \in BOOLEAN
    /\ heard = NoFrame

-----------------------------------------------------------------------------
(* The lidar, the clock, Betaflight and the network. *)

\* The subscription callback of the mapping.
OnScan(range) ==
    /\ metres' = range
    /\ sampleAge' = 0
    /\ UNCHANGED <<local, pc, outputAge, client, link, listening, heard>>

Older(age, limit) == IF age < limit THEN age + 1 ELSE age

Tick ==
    /\ pc = "idle"
    /\ sampleAge' = Older(sampleAge, StaleAfter + 1)
    /\ outputAge' = Older(outputAge, OutputPeriod)
    /\ attemptAge' = Older(attemptAge, RetryPeriod)
    /\ UNCHANGED <<local, pc, metres, tcp, connecting, link, listening, heard>>

\* Betaflight opens the UART's server socket.
PeerListens ==
    /\ ~listening
    /\ listening' = TRUE
    /\ UNCHANGED <<local, pc, sample, outputAge, client, link, heard>>

\* Betaflight ends, and with it the connection, in order or by a reset.
PeerEnds ==
    /\ listening
    /\ listening' = FALSE
    /\ IF link = "established" THEN link' \in {"closed", "reset"} ELSE link' = link
    /\ heard' = NoFrame
    /\ UNCHANGED <<local, pc, sample, outputAge, client>>

HandshakeEnds ==
    /\ link = "handshake"
    /\ link' = IF listening THEN "established" ELSE "refused"
    /\ UNCHANGED <<local, pc, sample, outputAge, client, listening, heard>>

-----------------------------------------------------------------------------
(* UpdateTfmini. *)

BeginUpdate ==
    /\ pc = "idle"
    /\ pc' = "connect"
    /\ UNCHANGED <<local, sample, outputAge, client, link, listening, heard>>

ConnectDue == ~tcp /\ attemptAge >= RetryPeriod

NoConnect ==
    /\ pc = "connect"
    /\ ~ConnectDue
    /\ pc' = "connected"
    /\ UNCHANGED <<local, sample, outputAge, client, link, listening, heard>>

\* connect answers EINPROGRESS.  To a local address the kernel has exchanged
\* the packets of the handshake by then.
ConnectBegins ==
    /\ pc = "connect"
    /\ ConnectDue
    /\ attemptAge' = 0
    /\ tcp' = TRUE
    /\ connecting' = TRUE
    /\ link' = IF ~local THEN "handshake" ELSE IF listening THEN "established" ELSE "refused"
    /\ pc' = "connected"
    /\ UNCHANGED <<local, sample, outputAge, listening, heard>>

\* socket or connect fails with another error.
ConnectFails ==
    /\ pc = "connect"
    /\ ConnectDue
    /\ attemptAge' = 0
    /\ pc' = "connected"
    /\ UNCHANGED <<local, sample, outputAge, tcp, connecting, link, listening, heard>>

\* Mutant: a refused connection counts as made.
PendingError_Ignored == link = "reset"

\* SO_ERROR is zero while a handshake is under way.
PendingError == link \in {"refused", "reset"}

\* Mutants: the connecting flag survives; the descriptor is not reset to -1.
CloseSocket_KeepsFlag ==
    /\ tcp' = FALSE
    /\ link' = "none"
    /\ UNCHANGED connecting

CloseSocket_KeepsDescriptor ==
    /\ connecting' = FALSE
    /\ link' = "none"
    /\ UNCHANGED tcp

CloseSocket ==
    /\ tcp' = FALSE
    /\ connecting' = FALSE
    /\ link' = "none"

Connected ==
    /\ pc = "connected"
    /\ IF connecting /\ PendingError
         THEN CloseSocket /\ pc' = "idle"
         ELSE /\ connecting' = FALSE
              /\ pc' = IF tcp /\ outputAge >= OutputPeriod THEN "output" ELSE "idle"
              /\ UNCHANGED <<local, tcp, link>>
    /\ UNCHANGED <<local, sample, outputAge, attemptAge, listening, heard>>

\* Mutant: the age of the sample is not looked at.
Sample_IgnoresAge == IF metres \in {NoRange, NotFinite} \/ metres < 0 THEN NoRange ELSE metres

\* What Sample returns.
Sample ==
    IF \/ metres \in {NoRange, NotFinite}
       \/ sampleAge > StaleAfter
       \/ metres < 0
    THEN NoRange
    ELSE metres

\* Centimetres casts to 16 bits: the build keeps the low bits of the integer.
Centimetres(range) == range % 65536

\* Mutants: an over-range distance is passed on; or clamped to the limit.
EncodeTfmini_Echoes(range) == IF range = NoRange THEN OutOfRange ELSE Centimetres(range)

EncodeTfmini_Clamps(range) ==
    IF range = NoRange THEN OutOfRange
    ELSE IF Centimetres(range) <= 1200 THEN Centimetres(range) ELSE 1200

EncodeTfmini(range) ==
    IF range # NoRange /\ Centimetres(range) <= 1200 THEN Centimetres(range) ELSE OutOfRange

\* The kernel takes the nine bytes.
SendFrame ==
    /\ pc = "output"
    /\ link = "established"
    /\ heard' = EncodeTfmini(Sample)
    /\ outputAge' = 0
    /\ pc' = "idle"
    /\ UNCHANGED <<local, sample, client, link, listening>>

\* The peer has closed: the kernel takes the bytes and gets a reset for them.
SendIsLost ==
    /\ pc = "output"
    /\ link = "closed"
    /\ link' = "reset"
    /\ outputAge' = 0
    /\ pc' = "idle"
    /\ UNCHANGED <<local, sample, client, listening, heard>>

\* send fails: no connection, or a full send buffer.
SendFails ==
    /\ pc = "output"
    /\ CloseSocket
    /\ outputAge' = 0
    /\ pc' = "idle"
    /\ UNCHANGED <<local, sample, attemptAge, listening, heard>>

SendFailsUnconnected == link \notin {"established", "closed"} /\ SendFails
SendFailsFull == link = "established" /\ SendFails

Update ==
    \/ BeginUpdate
    \/ NoConnect
    \/ ConnectBegins
    \/ ConnectFails
    \/ Connected
    \/ SendFrame
    \/ SendIsLost
    \/ SendFailsUnconnected
    \/ SendFailsFull

Next ==
    \/ \E range \in Ranges : OnScan(range)
    \/ Tick
    \/ PeerListens
    \/ PeerEnds
    \/ HandshakeEnds
    \/ Update

\* The main loop calls Update and the clock advances between two calls; the
\* network answers a handshake; a connect or a send that keeps being possible
\* succeeds some time.
Fairness ==
    /\ WF_vars(Update)
    /\ SF_vars(Tick)
    /\ WF_vars(HandshakeEnds)
    /\ SF_vars(ConnectBegins)
    /\ SF_vars(SendFrame)

Spec == Init /\ [][Next]_vars
FairSpec == Spec /\ Fairness

-----------------------------------------------------------------------------
(* Correctness. *)

\* Every variable keeps its type.
TypeOK ==
    /\ local \in Locations
    /\ pc \in {"idle", "connect", "connected", "output"}
    /\ metres \in Ranges \cup {NoRange}
    /\ sampleAge \in 0 .. StaleAfter + 1
    /\ outputAge \in 0 .. OutputPeriod
    /\ attemptAge \in 0 .. RetryPeriod
    /\ tcp \in BOOLEAN
    /\ connecting \in BOOLEAN
    /\ link \in {"none", "handshake", "established", "closed", "refused", "reset"}
    /\ listening \in BOOLEAN
    /\ heard \in 0 .. OutOfRange \cup {NoFrame}

\* The descriptor, the connecting flag and the kernel's connection agree: no
\* connection is left behind by a close, none is pending without a socket, and
\* on this machine what the status calls connected is a connection that was
\* made, for a refused one is closed in the update that learns of it
\* (Connected, LogStatus).
SocketAgreesWithLink ==
    /\ tcp <=> link # "none"
    /\ connecting => tcp
    /\ local /\ pc = "idle" /\ tcp /\ ~connecting => link \in {"established", "closed", "reset"}

\* A distance that reaches Betaflight as valid comes from the last scan, which is
\* no older than 250 ms, and is what that scan measured, less whole multiples of
\* 655.36 m: the cast comes before the test of the limit.  So 660 m is heard as
\* a valid 4.64 m, where docs/design/rangefinder.md has over-range inputs
\* "produce the `1201 cm` out-of-range frame" (Sample, EncodeTfmini).
ValidFrameIsFreshReading ==
    [][heard' # heard /\ heard' \in 0 .. OutOfRange - 1 =>
         /\ metres \in Nat
         /\ sampleAge <= StaleAfter
         /\ \E turns \in 0 .. metres : metres = heard' + 65536 * turns]_vars

LidarScans == \E range \in Ranges : OnScan(range)

\* When the lidar falls silent, Betaflight does not hold a valid distance for
\* good: a frame that says out of range follows, unless the connection is lost
\* again and again (the frames for stale samples in UpdateTfmini).
SilentLidarIsReported ==
    \/ []<><<LidarScans>>_vars
    \/ []<>(link # "established")
    \/ <>[](heard \in {OutOfRange, NoFrame})

\* A Betaflight that keeps listening is connected and fed, again after every
\* lost connection.  "Each mapping owns its TCP connection and retries once
\* per second" (docs/design/rangefinder.md).
ListeningPeerIsFed == <>[]listening => []<><<SendFrame>>_vars

\* The same of a Betaflight on this machine, whose handshake is over when
\* connect returns.
LocalPeerIsFed == local => ListeningPeerIsFed
=============================================================================
