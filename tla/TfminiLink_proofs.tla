-------------------------- MODULE TfminiLink_proofs --------------------------
(***************************************************************************)
(* Proofs about TfminiLink, for any lidar, any limits of age and any       *)
(* retry and output periods, on this machine and on another.               *)
(***************************************************************************)
EXTENDS TfminiLink, TLAPS

\* The steps of the world outside UpdateTfmini.
WorldSteps == Tick \/ PeerListens \/ PeerEnds \/ HandshakeEnds

-----------------------------------------------------------------------------
(* Operators. *)

\* What Sample hands to EncodeTfmini is the last range of the lidar, not below
\* zero, or nothing.
LEMMA SampleIsLastRange ==
    ASSUME TypeOK
    PROVE  Sample = NoRange \/ (Sample = metres /\ Sample \in Nat)
BY RangesAssumption DEF TypeOK, Sample

\* A frame carries a distance within the limit or the out-of-range mark.
LEMMA FrameInRange ==
    ASSUME NEW range, range = NoRange \/ range \in Nat
    PROVE  EncodeTfmini(range) \in 0 .. OutOfRange
<1>1. range \in Nat => range % 65536 \in Nat
  OBVIOUS
<1>. QED BY <1>1 DEF EncodeTfmini, Centimetres, OutOfRange

\* An age stops counting at its limit.
LEMMA OlderInRange ==
    ASSUME NEW limit \in Nat, NEW age \in 0 .. limit
    PROVE  Older(age, limit) \in 0 .. limit
BY DEF Older

-----------------------------------------------------------------------------
(* Types. *)

LEMMA InitTypeOK == Init => TypeOK
<1> SUFFICES ASSUME Init PROVE TypeOK OBVIOUS
<1>1. /\ StaleAfter + 1 \in 0 .. StaleAfter + 1
      /\ OutputPeriod \in 0 .. OutputPeriod
      /\ RetryPeriod \in 0 .. RetryPeriod
  BY PeriodAssumption
<1>2. local \in Locations /\ tcp = FALSE /\ connecting = FALSE /\ listening \in BOOLEAN
  BY DEF Init
<1>. QED BY <1>1, <1>2 DEF Init, TypeOK

\* Every step keeps the types.
LEMMA TypeStep == TypeOK /\ [Next]_vars => TypeOK'
<1> SUFFICES ASSUME TypeOK, [Next]_vars PROVE TypeOK' OBVIOUS
<1>0. 0 \in 0 .. StaleAfter + 1 /\ 0 \in 0 .. OutputPeriod /\ 0 \in 0 .. RetryPeriod
  BY PeriodAssumption
<1> USE DEF TypeOK, sample, client
<1>1. ASSUME NEW range \in Ranges, OnScan(range) PROVE TypeOK'
  BY <1>0, <1>1 DEF OnScan
<1>2. CASE Tick
  BY <1>2, PeriodAssumption, OlderInRange DEF Tick
<1>3. CASE PeerListens \/ PeerEnds \/ HandshakeEnds
  BY <1>3 DEF PeerListens, PeerEnds, HandshakeEnds
<1>4. CASE BeginUpdate \/ NoConnect
  BY <1>4 DEF BeginUpdate, NoConnect
<1>5. CASE ConnectBegins \/ ConnectFails
  BY <1>0, <1>5 DEF ConnectBegins, ConnectFails
<1>6. CASE Connected
  BY <1>6 DEF Connected, CloseSocket
<1>7. CASE SendFrame
  <2>1. heard' \in 0 .. OutOfRange
    BY <1>7, SampleIsLastRange, FrameInRange DEF SendFrame
  <2>. QED BY <1>0, <1>7, <2>1 DEF SendFrame
<1>8. CASE SendIsLost
  BY <1>0, <1>8 DEF SendIsLost
<1>9. CASE SendFails
  BY <1>0, <1>9 DEF SendFails, CloseSocket
<1>10. CASE UNCHANGED vars
  BY <1>10 DEF vars
<1>. QED
  BY <1>1, <1>2, <1>3, <1>4, <1>5, <1>6, <1>7, <1>8, <1>9, <1>10
  DEF Next, Update, SendFailsUnconnected, SendFailsFull

\* Every variable keeps its type: what Betaflight holds is a distance within the
\* limit, the out-of-range mark or nothing, whatever the lidar measures.
THEOREM TfminiTypeCorrect == Spec => []TypeOK
<1>. QED BY InitTypeOK, TypeStep, PTL DEF Spec

-----------------------------------------------------------------------------
(* The socket and the kernel's connection. *)

\* SocketAgreesWithLink made inductive: a socket that is not connecting has a
\* connection that was made wherever UpdateTfmini is, and the handshake with
\* this machine is over when connect returns.
SocketInvariant ==
    /\ tcp <=> link # "none"
    /\ connecting => tcp
    /\ local => link # "handshake"
    /\ local /\ tcp /\ ~connecting => link \in {"established", "closed", "reset"}

\* The socket is closed at the start.
LEMMA InitSocket == Init => SocketInvariant
BY DEF Init, SocketInvariant

\* Every step keeps socket, flag and link together.
LEMMA SocketStep == TypeOK /\ SocketInvariant /\ [Next]_vars => SocketInvariant'
<1> SUFFICES ASSUME TypeOK, SocketInvariant, [Next]_vars PROVE SocketInvariant' OBVIOUS
<1> USE DEF TypeOK, SocketInvariant, sample, client
<1>1. ASSUME NEW range \in Ranges, OnScan(range) PROVE SocketInvariant'
  BY <1>1 DEF OnScan
<1>2. CASE WorldSteps
  BY <1>2 DEF WorldSteps, Tick, PeerListens, PeerEnds, HandshakeEnds
<1>3. CASE BeginUpdate \/ NoConnect \/ ConnectFails
  BY <1>3 DEF BeginUpdate, NoConnect, ConnectFails
<1>4. CASE ConnectBegins
  BY <1>4 DEF ConnectBegins
<1>5. CASE Connected
  BY <1>5 DEF Connected, CloseSocket, PendingError
<1>6. CASE SendFrame \/ SendIsLost
  BY <1>6 DEF SendFrame, SendIsLost
<1>7. CASE SendFails
  BY <1>7 DEF SendFails, CloseSocket
<1>8. CASE UNCHANGED vars
  BY <1>8 DEF vars
<1>. QED
  BY <1>1, <1>2, <1>3, <1>4, <1>5, <1>6, <1>7, <1>8
  DEF Next, WorldSteps, Update, SendFailsUnconnected, SendFailsFull

\* The descriptor, the connecting flag and the kernel's connection agree after
\* any number of lost connections, refusals, failed sends and restarts of
\* Betaflight (Connect, Connected, Close).
THEOREM SocketsAgree == Spec => []SocketAgreesWithLink
<1>1. SocketInvariant => SocketAgreesWithLink
  BY DEF SocketInvariant, SocketAgreesWithLink
<1>. QED BY <1>1, InitTypeOK, TypeStep, InitSocket, SocketStep, PTL DEF Spec

-----------------------------------------------------------------------------
(* What Betaflight is told. *)

\* Only a frame tells Betaflight a distance.
LEMMA OnlyFramesAreHeard ==
    ASSUME TypeOK, [Next]_vars, heard' # heard, heard' \in Int
    PROVE  SendFrame
<1>1. heard' # NoFrame
  BY RangesAssumption
<1>. QED
  BY <1>1
  DEF Next, Update, vars, OnScan, Tick, PeerListens, PeerEnds, HandshakeEnds, BeginUpdate,
      NoConnect, ConnectBegins, ConnectFails, Connected, CloseSocket, SendIsLost,
      SendFailsUnconnected, SendFailsFull, SendFails

\* What the cast to 16 bits takes away is a multiple of 655.36 m.
LEMMA CastTakesTurns ==
    ASSUME NEW range \in Nat
    PROVE  \E turns \in 0 .. range : range = Centimetres(range) + 65536 * turns
<1> DEFINE turns == range \div 65536
           rest == range % 65536
<1>1. turns \in Int /\ rest \in 0 .. 65535 /\ range = 65536 * turns + rest
  OBVIOUS
<1> HIDE DEF turns, rest
<1>2. turns \in 0 .. range
  BY <1>1
<1>3. range = rest + 65536 * turns
  BY <1>1
<1>. QED BY <1>2, <1>3 DEF Centimetres, rest

\* A distance that reaches Betaflight as valid comes from a scan of the last 250
\* ms and is what it measured but for multiples of 655.36 m, whatever the lidar
\* measures (Sample, EncodeTfmini).
THEOREM ValidFramesAreFresh == Spec => ValidFrameIsFreshReading
<1>1. TypeOK /\ [Next]_vars =>
        [heard' # heard /\ heard' \in 0 .. OutOfRange - 1 =>
           /\ metres \in Nat
           /\ sampleAge <= StaleAfter
           /\ \E turns \in 0 .. metres : metres = heard' + 65536 * turns]_vars
  <2> SUFFICES ASSUME TypeOK, [Next]_vars, heard' # heard, heard' \in 0 .. OutOfRange - 1
               PROVE  /\ metres \in Nat
                      /\ sampleAge <= StaleAfter
                      /\ \E turns \in 0 .. metres : metres = heard' + 65536 * turns
    OBVIOUS
  <2>1. heard' = EncodeTfmini(Sample)
    BY OnlyFramesAreHeard DEF SendFrame, OutOfRange
  <2>2. Sample # NoRange /\ heard' = Centimetres(Sample)
    BY <2>1 DEF EncodeTfmini, OutOfRange
  <2>3. Sample = metres /\ Sample \in Nat
    BY <2>2, SampleIsLastRange
  <2>4. ~(sampleAge > StaleAfter)
    BY <2>2 DEF Sample
  <2>5. sampleAge <= StaleAfter
    BY <2>4, PeriodAssumption DEF TypeOK
  <2>. QED BY <2>2, <2>3, <2>5, CastTakesTurns
<1>. QED
  BY <1>1, InitTypeOK, TypeStep, PTL DEF Spec, ValidFrameIsFreshReading
=============================================================================
