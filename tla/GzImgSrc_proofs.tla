--------------------------- MODULE GzImgSrc_proofs ---------------------------
(***************************************************************************)
(* Proofs about GzImgSrc, for any number of starts, frames and kinds of    *)
(* image, and whatever order the base class stops the element in.          *)
(*                                                                         *)
(* Three invariants build on one another: ShapeOK, the types without the   *)
(* range of the user count; FrameOrder, from which the mailbox follows;    *)
(* and Lives, the protocol by which stop waits for the users of a          *)
(* SourceState.                                                            *)
(***************************************************************************)
EXTENDS GzImgSrc, TLAPS

AppPlaces == {"idle", "subscribe", "started", "join", "stop", "clear", "notify",
              "await", "sleep", "delete", "finalized"}
SourceStates == [alive : BOOLEAN, running : BOOLEAN, frame : FrameSet \cup {NoFrame},
                 users : Int, owner : {"none", "callback", "stream"}, deserted : BOOLEAN]

\* A thread whose local `state` is a SourceState, held or just given back.
CallbackUses == callback \in {"acquired", "notify", "release", "unlock"}
StreamUses == stream \in {"lock", "waiting", "taken", "unlock"}

ShapeOK ==
    /\ app \in AppPlaces
    /\ starts \in 0 .. MaxStarts
    /\ current \in {0, starts}
    /\ flushing \in BOOLEAN
    /\ subscribed \in 0 .. MaxStarts
    /\ heap \in [States -> SourceStates]
    /\ sent \in 0 .. MaxFrames
    /\ callback \in {"idle", "dispatched", "acquired", "notify", "release", "unlock"}
    /\ cbFrame \in FrameSet \cup {NoFrame}
    /\ callback # "idle" => cbFrame # NoFrame
    /\ cbState \in 0 .. MaxStarts
    /\ CallbackUses => cbState # 0
    /\ stream \in {"paused", "create", "lock", "waiting", "taken", "unlock"}
    /\ streamFrame \in FrameSet \cup {NoFrame}
    /\ app \in {"subscribe", "finalized"} => stream = "paused"
    /\ stream = "taken" => streamFrame # NoFrame
    /\ streamState \in 0 .. MaxStarts
    /\ StreamUses => streamState = starts /\ streamState # 0
    /\ delivered \in Seq(FrameSet)

-----------------------------------------------------------------------------
(* Types. *)

\* No frame of the element is the empty place: NoFrame is not one of them.
LEMMA NoFrameIsNoFrame == NoFrame \notin FrameSet
BY NoFrameAssumption, BoundsAssumption DEF FrameSet

\* The memory that start makes a SourceState of.
LEMMA UnbornIsState == Unborn \in SourceStates
BY DEF Unborn, SourceStates

\* One field of a SourceState may be written.
LEMMA WrittenState ==
    ASSUME NEW state \in SourceStates
    PROVE  /\ [state EXCEPT !.alive = FALSE] \in SourceStates
           /\ \A frame \in FrameSet \cup {NoFrame} : [state EXCEPT !.frame = frame] \in SourceStates
<1>1. [state EXCEPT !.alive = FALSE] \in SourceStates
  BY DEF SourceStates
<1>2. \A frame \in FrameSet \cup {NoFrame} : [state EXCEPT !.frame = frame] \in SourceStates
  BY DEF SourceStates
<1>. QED BY <1>1, <1>2

\* What start makes of a new SourceState.
Started == [Unborn EXCEPT !.alive = TRUE, !.running = TRUE]

\* It runs, without a frame and without a user (start).
LEMMA StartedState ==
    /\ Started \in SourceStates
    /\ Started.alive = TRUE /\ Started.frame = NoFrame /\ Started.users = 0
<1>1. [Unborn EXCEPT !.alive = TRUE] \in SourceStates
  BY UnbornIsState DEF SourceStates
<1>2. LET live == [Unborn EXCEPT !.alive = TRUE]
      IN  live.alive = TRUE /\ live.frame = Unborn.frame /\ live.users = Unborn.users
  BY UnbornIsState DEF SourceStates
<1>3. /\ Started \in SourceStates
      /\ Started.alive = TRUE /\ Started.frame = Unborn.frame /\ Started.users = Unborn.users
  BY <1>1, <1>2 DEF Started, SourceStates
<1>4. Unborn.frame = NoFrame /\ Unborn.users = 0
  BY DEF Unborn
<1>. QED BY <1>3, <1>4

\* What a start that cannot subscribe leaves of its SourceState.
Deserted(state, garbage) ==
    [state EXCEPT !.alive = FALSE, !.running = garbage, !.frame = NoFrame, !.deserted = TRUE]

\* It is dead and without a frame, and whoever holds it still does.
LEMMA DesertedState ==
    ASSUME NEW state \in SourceStates, NEW garbage \in BOOLEAN
    PROVE  /\ Deserted(state, garbage) \in SourceStates
           /\ Deserted(state, garbage).alive = FALSE
           /\ Deserted(state, garbage).deserted = TRUE
           /\ Deserted(state, garbage).frame = NoFrame
           /\ Deserted(state, garbage).users = state.users
<1>1. state \in SourceStates /\ garbage \in BOOLEAN
  OBVIOUS
<1>. QED BY <1>1 DEF Deserted, SourceStates

\* Giving a use back changes the count of users alone (releaseState).
LEMMA ReleasedIsState ==
    ASSUME NEW state \in SourceStates
    PROVE  Released(state) \in SourceStates
BY DEF Released, SourceStates

\* The element starts out with its types.
LEMMA InitShape == Init => ShapeOK
<1> SUFFICES ASSUME Init PROVE ShapeOK OBVIOUS
<1>1. heap \in [States -> SourceStates]
  BY UnbornIsState DEF Init
<1>2. delivered \in Seq(FrameSet)
  BY DEF Init
<1>3. ~CallbackUses /\ ~StreamUses
  BY DEF Init, CallbackUses, StreamUses
<1>4. 0 \in 0 .. MaxStarts /\ 0 \in 0 .. MaxFrames
  BY BoundsAssumption
<1>5. /\ app = "idle" /\ app \in AppPlaces
      /\ starts \in 0 .. MaxStarts /\ current \in {0, starts}
      /\ flushing \in BOOLEAN /\ subscribed \in 0 .. MaxStarts
  BY <1>4 DEF Init, AppPlaces
<1>6. /\ sent \in 0 .. MaxFrames
      /\ callback = "idle" /\ cbFrame = NoFrame /\ cbState \in 0 .. MaxStarts
  BY <1>4 DEF Init
<1>7. /\ stream = "paused" /\ streamFrame = NoFrame
      /\ streamState \in 0 .. MaxStarts
  BY <1>4 DEF Init
<1>. QED
  BY <1>1, <1>2, <1>3, <1>5, <1>6, <1>7 DEF ShapeOK

\* The steps of the application thread keep the types.
LEMMA AppKeepsShape == ShapeOK /\ AppSteps => ShapeOK'
<1> SUFFICES ASSUME ShapeOK, AppSteps PROVE ShapeOK' OBVIOUS
<1> USE BoundsAssumption DEF ShapeOK, AppPlaces, CallbackUses, StreamUses
<1>1. ASSUME Start PROVE ShapeOK'
  <2>2. heap' \in [States -> SourceStates]
    BY <1>1, StartedState DEF Start, Started
  <2>. QED BY <1>1, <2>2 DEF Start, cbVars, streamVars
<1>2. ASSUME Subscribe PROVE ShapeOK'
  BY <1>2 DEF Subscribe, cbVars
<1>3. ASSUME SubscribeFails PROVE ShapeOK'
  <2>1. heap' \in [States -> SourceStates]
    <3>1. starts \in States
      BY <1>3, SwitchAssumption DEF SubscribeFails, States
    <3>2. PICK garbage \in BOOLEAN :
            heap' = [heap EXCEPT ![starts] = Deserted(heap[starts], garbage)]
      BY <1>3 DEF SubscribeFails, Deserted
    <3>3. Deserted(heap[starts], garbage) \in SourceStates
      BY <3>1, DesertedState
    <3>. QED BY <3>2, <3>3
  <2>. QED BY <1>3, <2>1 DEF SubscribeFails, cbVars, streamVars
<1>4. ASSUME BeginShutdown PROVE ShapeOK'
  BY <1>4 DEF BeginShutdown, cbVars, streamVars
<1>5. ASSUME JoinStream PROVE ShapeOK'
  BY <1>5 DEF JoinStream, cbVars, streamVars
<1>6. ASSUME DetachState PROVE ShapeOK'
  BY <1>6 DEF DetachState, cbVars, streamVars
<1>7. ASSUME ClearRunning PROVE ShapeOK'
  <2>1. heap' \in [States -> SourceStates]
    <3> DEFINE cleared == [heap[starts] EXCEPT !.running = FALSE, !.frame = NoFrame]
    <3>1. heap' = [heap EXCEPT ![starts] = cleared]
      BY <1>7 DEF ClearRunning
    <3>2. starts \in States => cleared \in SourceStates
      BY DEF SourceStates
    <3>. QED BY <3>1, <3>2
  <2>. QED BY <1>7, <2>1 DEF ClearRunning, cbVars, streamVars
<1>8. ASSUME NotifyStopped PROVE ShapeOK'
  BY <1>8 DEF NotifyStopped, NotifyStream, cbVars
<1>9. ASSUME AwaitUsers PROVE ShapeOK'
  BY <1>9 DEF AwaitUsers, cbVars, streamVars
<1>10. ASSUME DeleteState PROVE ShapeOK'
  <2>1. heap' \in [States -> SourceStates]
    <3>1. heap' = [heap EXCEPT ![starts] = [heap[starts] EXCEPT !.alive = FALSE]]
      BY <1>10 DEF DeleteState
    <3>2. starts \in States => [heap[starts] EXCEPT !.alive = FALSE] \in SourceStates
      BY WrittenState
    <3>. QED BY <3>1, <3>2
  <2>. QED BY <1>10, <2>1 DEF DeleteState, cbVars, streamVars
<1>11. ASSUME Finalize PROVE ShapeOK'
  BY <1>11 DEF Finalize, cbVars, streamVars
<1>. QED
  BY <1>1, <1>2, <1>3, <1>4, <1>5, <1>6, <1>7, <1>8, <1>9, <1>10, <1>11
  DEF AppSteps, StopSteps

\* What Acquired, Release and ReleaseHoldingMutex leave of a well formed heap.
LEMMA AcquiredShape ==
    ASSUME ShapeOK, NEW s \in States, Acquired(s)
    PROVE  heap' \in [States -> SourceStates]
<1>1. heap \in [States -> SourceStates]
  BY DEF ShapeOK
<1>. QED BY <1>1 DEF Acquired, SourceStates

\* releaseState keeps the types, and wakes stop at most.
LEMMA ReleaseShape ==
    ASSUME ShapeOK, NEW s \in States, Release(s)
    PROVE  /\ heap' \in [States -> SourceStates]
           /\ app' \in AppPlaces /\ app' \in {app, "await"}
<1>1. heap \in [States -> SourceStates] /\ heap[s] \in SourceStates
  BY DEF ShapeOK
<1>2. heap' \in [States -> SourceStates]
  BY <1>1, ReleasedIsState DEF Release
<1>3. app' \in AppPlaces /\ app' \in {app, "await"}
  BY DEF ShapeOK, Release, WakeApp, AppPlaces
<1>. QED BY <1>2, <1>3

\* So does releaseState under the lock guard of its caller.
LEMMA ReleaseHoldingMutexShape ==
    ASSUME ShapeOK, NEW s \in States, NEW thread \in {"callback", "stream"},
           ReleaseHoldingMutex(s, thread)
    PROVE  /\ heap' \in [States -> SourceStates]
           /\ app' \in AppPlaces /\ app' \in {app, "await"}
<1>1. heap \in [States -> SourceStates] /\ heap[s] \in SourceStates
  BY DEF ShapeOK
<1>2. Released(heap[s]) \in SourceStates
  BY <1>1, ReleasedIsState
<1>3. [Released(heap[s]) EXCEPT !.owner = thread] \in SourceStates
  BY <1>2 DEF SourceStates
<1>4. heap' \in [States -> SourceStates]
  BY <1>1, <1>3 DEF ReleaseHoldingMutex
<1>5. app' \in AppPlaces /\ app' \in {app, "await"}
  BY DEF ShapeOK, ReleaseHoldingMutex, WakeApp, AppPlaces
<1>. QED BY <1>4, <1>5

\* Unlocking a mutex keeps the types.
LEMMA UnlockShape ==
    ASSUME ShapeOK, NEW s \in States, Unlock(s)
    PROVE  heap' \in [States -> SourceStates]
BY DEF ShapeOK, Unlock, SourceStates

\* The steps of the image callback keep the types.
LEMMA CallbackKeepsShape ==
    ShapeOK /\ (CallbackSteps \/ \E image \in Images : Dispatch(image)) => ShapeOK'
<1> SUFFICES ASSUME ShapeOK, CallbackSteps \/ \E image \in Images : Dispatch(image)
             PROVE  ShapeOK'
  OBVIOUS
<1>0. CallbackUses => cbState \in States
  BY BoundsAssumption DEF ShapeOK, States
<1> USE BoundsAssumption DEF CallbackUses, StreamUses
<1>1. ASSUME NEW image \in Images, Dispatch(image) PROVE ShapeOK'
  <2>1. cbFrame' \in FrameSet
    BY <1>1 DEF Dispatch, ShapeOK, FrameSet
  <2>. QED BY <1>1, <2>1, NoFrameIsNoFrame DEF Dispatch, appVars, streamVars, ShapeOK
<1>2. ASSUME CallbackAcquires PROVE ShapeOK'
  <2>1. CASE current = 0
    BY <1>2, <2>1 DEF CallbackAcquires, appVars, streamVars, ShapeOK
  <2>2. CASE current # 0
    <3>1. current \in States
      BY <2>2 DEF ShapeOK, States
    <3>2. heap' \in [States -> SourceStates]
      BY <1>2, <2>2, <3>1, AcquiredShape DEF CallbackAcquires
    <3>. QED BY <1>2, <2>2, <3>1, <3>2 DEF CallbackAcquires, appVars, streamVars, ShapeOK, States
  <2>. QED BY <2>1, <2>2
<1>3. ASSUME CallbackRejects PROVE ShapeOK'
  <2>1. heap' \in [States -> SourceStates] /\ app' \in AppPlaces /\ app' \in {app, "await"}
    <3>1. Release(cbState) /\ cbState \in States
      BY <1>0, <1>3 DEF CallbackRejects
    <3>. QED BY <3>1, ReleaseShape
  <2>. QED BY <1>3, <2>1 DEF CallbackRejects, Release, streamVars, ShapeOK
<1>4. ASSUME CallbackStores PROVE ShapeOK'
  <2>1. heap' \in [States -> SourceStates]
    <3>1. heap' = [heap EXCEPT ![cbState] = [heap[cbState] EXCEPT !.frame = cbFrame]]
      BY <1>4 DEF CallbackStores
    <3>2. heap \in [States -> SourceStates] /\ cbFrame \in FrameSet \cup {NoFrame}
      BY DEF ShapeOK
    <3>3. cbState \in States => [heap[cbState] EXCEPT !.frame = cbFrame] \in SourceStates
      BY <3>2, WrittenState
    <3>. QED BY <3>1, <3>2, <3>3
  <2>. QED BY <1>4, <2>1 DEF CallbackStores, appVars, streamVars, ShapeOK
<1>5. ASSUME CallbackFindsStopped PROVE ShapeOK'
  <2>1. heap' \in [States -> SourceStates] /\ app' \in AppPlaces /\ app' \in {app, "await"}
    BY <1>0, <1>5, ReleaseHoldingMutexShape DEF CallbackFindsStopped
  <2>. QED BY <1>5, <2>1 DEF CallbackFindsStopped, ReleaseHoldingMutex, streamVars, ShapeOK
<1>6. ASSUME CallbackUnlocks PROVE ShapeOK'
  <2>1. heap' \in [States -> SourceStates]
    BY <1>0, <1>6, UnlockShape DEF CallbackUnlocks
  <2>. QED BY <1>6, <2>1 DEF CallbackUnlocks, appVars, streamVars, ShapeOK
<1>7. ASSUME CallbackNotifies PROVE ShapeOK'
  BY <1>7 DEF CallbackNotifies, NotifyStream, appVars, ShapeOK
<1>8. ASSUME CallbackReleases PROVE ShapeOK'
  <2>1. heap' \in [States -> SourceStates] /\ app' \in AppPlaces /\ app' \in {app, "await"}
    BY <1>0, <1>8, ReleaseShape DEF CallbackReleases
  <2>. QED BY <1>8, <2>1 DEF CallbackReleases, Release, streamVars, ShapeOK
<1>. QED
  BY <1>1, <1>2, <1>3, <1>4, <1>5, <1>6, <1>7, <1>8 DEF CallbackSteps

\* The steps of the streaming thread keep the types.
LEMMA StreamKeepsShape == ShapeOK /\ StreamSteps => ShapeOK'
<1> SUFFICES ASSUME ShapeOK, StreamSteps PROVE ShapeOK' OBVIOUS
<1>0. StreamUses => streamState \in States
  BY BoundsAssumption DEF ShapeOK, States
<1> USE BoundsAssumption DEF CallbackUses, StreamUses
<1>1. ASSUME CreateAcquires PROVE ShapeOK'
  <2>1. CASE current = 0
    BY <1>1, <2>1 DEF CreateAcquires, appVars, cbVars, ShapeOK
  <2>2. CASE current # 0
    <3>1. current \in States
      BY <2>2 DEF ShapeOK, States
    <3>2. heap' \in [States -> SourceStates]
      BY <1>1, <2>2, <3>1, AcquiredShape DEF CreateAcquires
    <3>. QED BY <1>1, <2>2, <3>1, <3>2 DEF CreateAcquires, appVars, cbVars, ShapeOK, States
  <2>. QED BY <2>1, <2>2
<1>2. ASSUME CreateWaits PROVE ShapeOK'
  BY <1>2 DEF CreateWaits, appVars, cbVars, ShapeOK
<1>3. ASSUME CreateFindsStopped PROVE ShapeOK'
  <2>1. heap' \in [States -> SourceStates] /\ app' \in AppPlaces /\ app' \in {app, "await"}
    BY <1>0, <1>3, ReleaseHoldingMutexShape DEF CreateFindsStopped
  <2>. QED BY <1>3, <2>1 DEF CreateFindsStopped, ReleaseHoldingMutex, cbVars, ShapeOK
<1>4. ASSUME CreateUnlocks PROVE ShapeOK'
  <2>1. heap' \in [States -> SourceStates]
    BY <1>0, <1>4, UnlockShape DEF CreateUnlocks
  <2>. QED BY <1>4, <2>1 DEF CreateUnlocks, appVars, cbVars, ShapeOK
<1>5. ASSUME CreateTakesFrame PROVE ShapeOK'
  <2>1. heap[streamState] \in SourceStates
    BY <1>0, <1>5 DEF CreateTakesFrame, ShapeOK
  <2>2. heap' \in [States -> SourceStates]
    BY <1>0, <1>5 DEF CreateTakesFrame, TakeFrame, ShapeOK, SourceStates
  <2>3. streamFrame' \in FrameSet /\ streamFrame' # NoFrame
    BY <1>5, <2>1 DEF CreateTakesFrame, TakeFrame, SourceStates
  <2>. QED BY <1>5, <2>2, <2>3 DEF CreateTakesFrame, TakeFrame, appVars, cbVars, ShapeOK
<1>6. ASSUME CreateReturnsBuffer PROVE ShapeOK'
  <2>1. heap' \in [States -> SourceStates] /\ app' \in AppPlaces /\ app' \in {app, "await"}
    BY <1>0, <1>6, ReleaseShape DEF CreateReturnsBuffer
  <2>2. streamFrame \in FrameSet
    BY <1>6 DEF CreateReturnsBuffer, ShapeOK
  <2>3. delivered' \in Seq(FrameSet)
    BY <1>6, <2>2 DEF CreateReturnsBuffer, ShapeOK
  <2>. QED BY <1>6, <2>1, <2>3 DEF CreateReturnsBuffer, Release, cbVars, ShapeOK
<1>7. ASSUME CreateFails PROVE ShapeOK'
  <2>1. heap' \in [States -> SourceStates] /\ app' \in AppPlaces /\ app' \in {app, "await"}
    BY <1>0, <1>7, ReleaseShape DEF CreateFails
  <2>. QED BY <1>7, <2>1 DEF CreateFails, Release, cbVars, ShapeOK
<1>. QED BY <1>1, <1>2, <1>3, <1>4, <1>5, <1>6, <1>7 DEF StreamSteps

\* Every step keeps the types.
LEMMA ShapeStep == ShapeOK /\ [Next]_vars => ShapeOK'
<1> SUFFICES ASSUME ShapeOK, [Next]_vars PROVE ShapeOK' OBVIOUS
<1>1. CASE UNCHANGED vars
  BY <1>1 DEF vars, appVars, cbVars, streamVars, ShapeOK, CallbackUses, StreamUses
<1>. QED BY <1>1, AppKeepsShape, CallbackKeepsShape, StreamKeepsShape DEF Next

\* The types hold in every state.
LEMMA ShapeHolds == Spec => []ShapeOK
BY InitShape, ShapeStep, PTL DEF Spec

-----------------------------------------------------------------------------
(* The frames and their order. *)

\* The element as FrameMailbox sees it.
Waiting == IF starts = 0 THEN NoFrame ELSE heap[starts].frame
InHand == IF stream = "taken" THEN streamFrame ELSE NoFrame
Pushed == {delivered[i] : i \in 1 .. Len(delivered)}
Kept == ({Waiting, InHand} \ {NoFrame}) \cup Pushed

\* The frame of the callback is not stored yet.
Carrying == callback \in {"dispatched", "acquired"}

\* No stored frame is later than the last one sent; one that is not stored yet
\* is later than every other.
FrameOrder ==
    /\ \A kept \in Kept : kept \in FrameSet /\ kept.id <= sent
    /\ Carrying => cbFrame.id = sent /\ \A kept \in Kept : kept.id < sent

FramesKept == \A s \in States : heap'[s].frame = heap[s].frame

\* Counting users and unlocking leave the frames alone.
LEMMA AcquiredKeepsFrames ==
    ASSUME ShapeOK, NEW s \in States, Acquired(s) PROVE FramesKept
BY DEF ShapeOK, Acquired, SourceStates, FramesKept

\* releaseState touches no frame.
LEMMA ReleaseKeepsFrames ==
    ASSUME ShapeOK, NEW s \in States, Release(s) PROVE FramesKept
<1>1. heap \in [States -> SourceStates] /\ heap[s] \in SourceStates
  BY DEF ShapeOK
<1>2. Released(heap[s]).frame = heap[s].frame
  BY <1>1 DEF Released, SourceStates
<1>. QED BY <1>1, <1>2 DEF Release, FramesKept

\* Nor does it under the lock guard of its caller.
LEMMA ReleaseHoldingMutexKeepsFrames ==
    ASSUME ShapeOK, NEW s \in States, NEW thread \in {"callback", "stream"},
           ReleaseHoldingMutex(s, thread)
    PROVE  FramesKept
<1>1. heap \in [States -> SourceStates] /\ heap[s] \in SourceStates
  BY DEF ShapeOK
<1>2. Released(heap[s]).frame = heap[s].frame /\ Released(heap[s]) \in SourceStates
  BY <1>1 DEF Released, SourceStates
<1>3. [Released(heap[s]) EXCEPT !.owner = thread].frame = heap[s].frame
  BY <1>2 DEF SourceStates
<1>. QED BY <1>1, <1>3 DEF ReleaseHoldingMutex, FramesKept

\* Nor does unlocking a mutex.
LEMMA UnlockKeepsFrames ==
    ASSUME ShapeOK, NEW s \in States, Unlock(s) PROVE FramesKept
BY DEF ShapeOK, Unlock, SourceStates, FramesKept

\* The waiting frame is the same while no frame is touched.
LEMMA KeptFramesKeepWaiting ==
    ASSUME ShapeOK, FramesKept, starts' = starts PROVE Waiting' = Waiting
BY BoundsAssumption DEF ShapeOK, FramesKept, Waiting, States

\* The application thread may lose the waiting frame and does nothing else to
\* the mailbox (start and stop).
LEMMA AppView ==
    ASSUME ShapeOK, AppSteps
    PROVE  /\ Waiting' \in {Waiting, NoFrame}
           /\ InHand' = InHand
           /\ UNCHANGED <<delivered, sent, callback, cbFrame>>
<1>1. CASE Start
  <2>1. heap' = [heap EXCEPT ![starts + 1] = Started] /\ starts + 1 \in States
    BY <1>1, BoundsAssumption DEF Start, Started, States, ShapeOK
  <2>2. starts' = starts + 1 /\ starts + 1 # 0
    BY <1>1, BoundsAssumption DEF Start, ShapeOK
  <2>3. Waiting' = NoFrame
    BY <2>1, <2>2, StartedState DEF Waiting, ShapeOK
  <2>4. UNCHANGED <<InHand, delivered, sent, callback, cbFrame>>
    BY <1>1 DEF Start, cbVars, streamVars, InHand
  <2>. QED BY <1>1, <2>3, <2>4
<1> USE BoundsAssumption DEF Waiting, InHand, ShapeOK
<1>2. CASE Subscribe
  BY <1>2 DEF Subscribe, cbVars
<1>3. CASE SubscribeFails
  <2>1. starts \in States
    BY <1>3, SwitchAssumption DEF SubscribeFails, States
  <2>2. PICK garbage \in BOOLEAN :
          heap' = [heap EXCEPT ![starts] = Deserted(heap[starts], garbage)]
    BY <1>3 DEF SubscribeFails, Deserted
  <2>3. Waiting' = NoFrame
    BY <1>3, <2>1, <2>2, DesertedState DEF SubscribeFails
  <2>. QED BY <1>3, <2>3 DEF SubscribeFails, cbVars, streamVars
<1>4. CASE BeginShutdown \/ JoinStream \/ DetachState \/ AwaitUsers \/ Finalize
  BY <1>4 DEF BeginShutdown, JoinStream, DetachState, AwaitUsers, Finalize, cbVars, streamVars
<1>5. CASE ClearRunning
  BY <1>5 DEF ClearRunning, cbVars, streamVars, States, SourceStates
<1>6. CASE NotifyStopped
  BY <1>6 DEF NotifyStopped, NotifyStream, cbVars
<1>7. CASE DeleteState
  BY <1>7 DEF DeleteState, cbVars, streamVars, States, SourceStates
<1>. QED BY <1>1, <1>2, <1>3, <1>4, <1>5, <1>6, <1>7 DEF AppSteps, StopSteps

\* A callback stores a usable frame in the mailbox, or in a SourceState that is
\* no longer the current one, or nothing (onGazeboImage).
LEMMA CallbackView ==
    ASSUME ShapeOK, CallbackSteps
    PROVE  /\ InHand' = InHand
           /\ UNCHANGED <<delivered, sent, cbFrame>>
           /\ \/ Waiting' = Waiting /\ (Carrying' => Carrying)
              \/ Waiting' = cbFrame /\ Carrying /\ ~Carrying' /\ Usable(cbFrame.image)
<1>0. CallbackUses => cbState \in States
  BY BoundsAssumption DEF ShapeOK, States
<1> USE DEF InHand, Carrying, CallbackUses
<1>1. CASE CallbackAcquires
  <2>1. FramesKept
    <3>1. CASE current = 0
      BY <1>1, <3>1 DEF CallbackAcquires, FramesKept
    <3>2. CASE current # 0
      <4>1. current \in States
        BY <3>2, BoundsAssumption DEF ShapeOK, States
      <4>. QED BY <1>1, <3>2, <4>1, AcquiredKeepsFrames DEF CallbackAcquires
    <3>. QED BY <3>1, <3>2
  <2>. QED BY <1>1, <2>1, KeptFramesKeepWaiting DEF CallbackAcquires, appVars, streamVars
<1>2. CASE CallbackRejects
  <2>1. FramesKept
    BY <1>0, <1>2, ReleaseKeepsFrames DEF CallbackRejects
  <2>. QED BY <1>2, <2>1, KeptFramesKeepWaiting DEF CallbackRejects, Release, streamVars
<1>3. CASE CallbackStores
  <2>1. heap' = [heap EXCEPT ![cbState].frame = cbFrame] /\ cbState \in States
    BY <1>0, <1>3 DEF CallbackStores
  <2>2. Waiting' \in {Waiting, cbFrame}
    BY <1>3, <2>1 DEF CallbackStores, ShapeOK, SourceStates, Waiting, appVars
  <2>. QED BY <1>3, <2>2 DEF CallbackStores, appVars, streamVars
<1>4. CASE CallbackFindsStopped
  <2>1. FramesKept
    BY <1>0, <1>4, ReleaseHoldingMutexKeepsFrames DEF CallbackFindsStopped
  <2>. QED
    BY <1>4, <2>1, KeptFramesKeepWaiting
    DEF CallbackFindsStopped, ReleaseHoldingMutex, streamVars
<1>5. CASE CallbackUnlocks
  <2>1. FramesKept
    BY <1>0, <1>5, UnlockKeepsFrames DEF CallbackUnlocks
  <2>. QED BY <1>5, <2>1, KeptFramesKeepWaiting DEF CallbackUnlocks, appVars, streamVars
<1>6. CASE CallbackNotifies
  BY <1>6 DEF CallbackNotifies, NotifyStream, appVars, Waiting
<1>7. CASE CallbackReleases
  <2>1. FramesKept
    BY <1>0, <1>7, ReleaseKeepsFrames DEF CallbackReleases
  <2>. QED BY <1>7, <2>1, KeptFramesKeepWaiting DEF CallbackReleases, Release, streamVars
<1>. QED BY <1>1, <1>2, <1>3, <1>4, <1>5, <1>6, <1>7 DEF CallbackSteps

\* The streaming thread takes the waiting frame, pushes the one it took or
\* loses it (create).
LEMMA StreamView ==
    ASSUME ShapeOK, StreamSteps
    PROVE  /\ UNCHANGED <<sent, callback, cbFrame>>
           /\ \/ UNCHANGED <<Waiting, InHand, delivered>>
              \/ /\ Waiting # NoFrame /\ InHand = NoFrame
                 /\ Waiting' = NoFrame /\ InHand' = Waiting /\ delivered' = delivered
              \/ /\ InHand # NoFrame
                 /\ Waiting' = Waiting /\ InHand' = NoFrame
                 /\ delivered' \in {delivered, Append(delivered, InHand)}
<1>0. StreamUses => streamState \in States /\ streamState = starts /\ starts # 0
  BY BoundsAssumption DEF ShapeOK, States
<1> USE DEF InHand, StreamUses
<1>1. CASE CreateAcquires
  <2>1. FramesKept
    <3>1. CASE current = 0
      BY <1>1, <3>1 DEF CreateAcquires, FramesKept
    <3>2. CASE current # 0
      <4>1. current \in States
        BY <3>2, BoundsAssumption DEF ShapeOK, States
      <4>. QED BY <1>1, <3>2, <4>1, AcquiredKeepsFrames DEF CreateAcquires
    <3>. QED BY <3>1, <3>2
  <2>. QED BY <1>1, <2>1, KeptFramesKeepWaiting DEF CreateAcquires, appVars, cbVars
<1>2. CASE CreateWaits
  BY <1>2 DEF CreateWaits, appVars, cbVars, Waiting
<1>3. CASE CreateFindsStopped
  <2>1. FramesKept
    BY <1>0, <1>3, ReleaseHoldingMutexKeepsFrames DEF CreateFindsStopped
  <2>. QED
    BY <1>3, <2>1, KeptFramesKeepWaiting DEF CreateFindsStopped, ReleaseHoldingMutex, cbVars
<1>4. CASE CreateUnlocks
  <2>1. FramesKept
    BY <1>0, <1>4, UnlockKeepsFrames DEF CreateUnlocks
  <2>. QED BY <1>4, <2>1, KeptFramesKeepWaiting DEF CreateUnlocks, appVars, cbVars
<1>5. CASE CreateTakesFrame
  <2>1. streamState \in States /\ streamState = starts /\ starts # 0
    BY <1>0, <1>5 DEF CreateTakesFrame
  <2>2. heap' = [heap EXCEPT ![starts].frame = NoFrame] /\ starts' = starts
    BY <1>5, <2>1 DEF CreateTakesFrame, TakeFrame, appVars
  <2>3. Waiting' = NoFrame
    BY <2>1, <2>2 DEF ShapeOK, SourceStates, Waiting
  <2>4. Waiting = heap[starts].frame /\ Waiting # NoFrame
    BY <1>5, <2>1 DEF CreateTakesFrame, Waiting
  <2>5. InHand = NoFrame /\ InHand' = Waiting
    BY <1>5, <2>1, <2>4 DEF CreateTakesFrame, TakeFrame
  <2>. QED BY <1>5, <2>3, <2>4, <2>5 DEF CreateTakesFrame, cbVars
<1>6. CASE CreateReturnsBuffer \/ CreateFails
  <2>1. FramesKept
    BY <1>0, <1>6, ReleaseKeepsFrames DEF CreateReturnsBuffer, CreateFails
  <2>2. Waiting' = Waiting
    BY <1>6, <2>1, KeptFramesKeepWaiting DEF CreateReturnsBuffer, CreateFails, Release
  <2>. QED BY <1>6, <2>2 DEF CreateReturnsBuffer, CreateFails, Release, cbVars, ShapeOK
<1>. QED BY <1>1, <1>2, <1>3, <1>4, <1>5, <1>6 DEF StreamSteps

\* What a mailbox holds is a frame of Gazebo.
LEMMA KeptAreFrames == ShapeOK => /\ Kept \subseteq FrameSet
                                  /\ Waiting \in FrameSet \cup {NoFrame}
                                  /\ InHand \in FrameSet \cup {NoFrame}
<1> SUFFICES ASSUME ShapeOK
             PROVE  /\ Kept \subseteq FrameSet
                    /\ Waiting \in FrameSet \cup {NoFrame}
                    /\ InHand \in FrameSet \cup {NoFrame}
  OBVIOUS
<1>1. Waiting \in FrameSet \cup {NoFrame}
  BY BoundsAssumption DEF ShapeOK, Waiting, SourceStates, States
<1>2. InHand \in FrameSet \cup {NoFrame}
  BY DEF ShapeOK, InHand
<1>3. Pushed \subseteq FrameSet
  BY DEF ShapeOK, Pushed
<1>. QED BY <1>1, <1>2, <1>3 DEF Kept

\* A buffer that is pushed adds its frame to the pushed ones and nothing else.
LEMMA PushedOfAppend ==
    ASSUME ShapeOK, InHand \in FrameSet, delivered' = Append(delivered, InHand)
    PROVE  Pushed' = Pushed \cup {InHand}
<1> DEFINE n == Len(delivered)
<1>1. /\ n \in Nat /\ Len(delivered') = n + 1
      /\ delivered'[n + 1] = InHand /\ \A i \in 1 .. n : delivered'[i] = delivered[i]
  BY DEF ShapeOK
<1>2. Pushed = {delivered[i] : i \in 1 .. n} /\ Pushed' = {delivered'[i] : i \in 1 .. n + 1}
  BY <1>1 DEF Pushed
<1> HIDE DEF n
<1>3. \A i \in 1 .. n + 1 : i \in 1 .. n \/ i = n + 1
  BY <1>1
<1>4. 1 .. n \subseteq 1 .. n + 1 /\ n + 1 \in 1 .. n + 1
  BY <1>1
<1>. QED BY <1>1, <1>2, <1>3, <1>4

\* No frame is on the way at the start.
LEMMA InitFrameOrder == Init => FrameOrder
BY DEF Init, FrameOrder, Kept, Pushed, Waiting, InHand, Carrying

\* Every step keeps the frames in order.
LEMMA FrameOrderStep == ShapeOK /\ FrameOrder /\ [Next]_vars => FrameOrder'
<1> SUFFICES ASSUME ShapeOK, FrameOrder, [Next]_vars PROVE FrameOrder' OBVIOUS
<1>0. sent \in Nat
  BY BoundsAssumption DEF ShapeOK
<1>1. ASSUME Kept' \subseteq Kept, sent' = sent, cbFrame' = cbFrame, Carrying' => Carrying
      PROVE  FrameOrder'
  BY <1>1 DEF FrameOrder
<1>2. CASE AppSteps
  BY <1>1, <1>2, AppView DEF Kept, Pushed, Carrying
<1>3. ASSUME NEW image \in Images, Dispatch(image) PROVE FrameOrder'
  <2>1. Kept' = Kept
    BY <1>3 DEF Dispatch, Kept, Pushed, Waiting, InHand, appVars, streamVars
  <2>2. sent' = sent + 1 /\ cbFrame'.id = sent'
    BY <1>3 DEF Dispatch
  <2>3. \A kept \in Kept : kept.id \in Nat
    BY KeptAreFrames, BoundsAssumption DEF FrameSet
  <2>. QED BY <1>0, <2>1, <2>2, <2>3 DEF FrameOrder
<1>4. CASE CallbackSteps
  <2>1. CASE Waiting' = Waiting /\ (Carrying' => Carrying)
    BY <1>1, <1>4, <2>1, CallbackView DEF Kept, Pushed
  <2>2. CASE Waiting' = cbFrame /\ Carrying /\ ~Carrying' /\ Usable(cbFrame.image)
    <3>1. Kept' \subseteq Kept \cup {cbFrame}
      BY <1>4, <2>2, CallbackView DEF Kept, Pushed
    <3>2. cbFrame \in FrameSet /\ cbFrame.id = sent
      BY <2>2 DEF ShapeOK, Carrying, FrameOrder
    <3>3. sent' = sent
      BY <1>4, CallbackView
    <3>. QED BY <1>0, <2>2, <3>1, <3>2, <3>3 DEF FrameOrder
  <2>. QED BY <1>4, <2>1, <2>2, CallbackView
<1>5. CASE StreamSteps
  <2>1. Kept' \subseteq Kept
    <3>1. Pushed' \subseteq Kept
      <4>1. CASE delivered' = delivered
        BY <4>1 DEF Pushed, Kept
      <4>2. CASE delivered' # delivered
        <5>1. InHand # NoFrame /\ delivered' = Append(delivered, InHand)
          BY <1>5, <4>2, StreamView
        <5>. QED BY <5>1, KeptAreFrames, PushedOfAppend DEF Kept
      <4>. QED BY <4>1, <4>2
    <3>. QED BY <1>5, <3>1, StreamView DEF Kept
  <2>. QED BY <1>1, <1>5, <2>1, StreamView DEF Carrying
<1>6. CASE UNCHANGED vars
  BY <1>1, <1>6 DEF vars, appVars, cbVars, streamVars, Kept, Pushed, Waiting, InHand, Carrying
<1>. QED BY <1>2, <1>3, <1>4, <1>5, <1>6 DEF Next

\* Frames are in order in every state.
LEMMA FrameOrderHolds == Spec => []FrameOrder
BY InitShape, ShapeStep, InitFrameOrder, FrameOrderStep, PTL DEF Spec

-----------------------------------------------------------------------------
(* The element implements FrameMailbox. *)

\* The states of the mailbox at the beginning.
LEMMA InitImplements == Init => Mailbox!Init
BY DEF Init, Mailbox!Init

\* The frames the mailbox keeps are those the element keeps.
LEMMA MailboxKept == ShapeOK => Mailbox!Kept = Kept
BY DEF ShapeOK, Mailbox!Kept, Mailbox!ToSet, Kept, Pushed, Waiting, InHand

\* Every step of the element is a step of the mailbox or none.
LEMMA StepImplements ==
    ShapeOK /\ FrameOrder /\ [Next]_vars => [Mailbox!Next]_(Mailbox!vars)
<1> SUFFICES ASSUME ShapeOK, FrameOrder, [Next]_vars
             PROVE  Mailbox!Next \/ UNCHANGED <<Waiting, InHand, delivered>>
  BY DEF Mailbox!vars, Waiting, InHand
<1>1. CASE AppSteps
  <2>1. Mailbox!Lose
    BY <1>1, AppView DEF Mailbox!Lose, Waiting, InHand
  <2>. QED BY <2>1 DEF Mailbox!Next
<1>2. CASE \E image \in Images : Dispatch(image)
  BY <1>2 DEF Dispatch, Waiting, InHand, appVars, streamVars
<1>3. CASE CallbackSteps
  <2>1. CASE Waiting' = Waiting
    BY <1>3, <2>1, CallbackView
  <2>2. CASE Waiting' = cbFrame /\ Carrying /\ Usable(cbFrame.image)
    <3>1. cbFrame \in UsableFrames
      BY <2>2 DEF ShapeOK, Carrying, UsableFrames
    <3>2. \A kept \in Mailbox!Kept : kept.id < cbFrame.id
      BY <2>2, MailboxKept DEF FrameOrder
    <3>3. Mailbox!Put(cbFrame)
      BY <1>3, <2>2, <3>2, CallbackView DEF Mailbox!Put, Waiting, InHand
    <3>. QED BY <3>1, <3>3 DEF Mailbox!Next
  <2>. QED BY <1>3, <2>1, <2>2, CallbackView
<1>4. CASE StreamSteps
  <2>1. CASE /\ Waiting # NoFrame /\ InHand = NoFrame
             /\ Waiting' = NoFrame /\ InHand' = Waiting /\ delivered' = delivered
    <3>1. Mailbox!Take
      BY <2>1 DEF Mailbox!Take, Waiting, InHand
    <3>. QED BY <3>1 DEF Mailbox!Next
  <2>2. CASE /\ InHand # NoFrame
             /\ Waiting' = Waiting /\ InHand' = NoFrame
             /\ delivered' = Append(delivered, InHand)
    <3>1. Mailbox!Push
      BY <2>2 DEF Mailbox!Push, Waiting, InHand
    <3>. QED BY <3>1 DEF Mailbox!Next
  <2>3. CASE Waiting' = Waiting /\ InHand' = NoFrame /\ delivered' = delivered
    <3>1. Mailbox!Lose
      BY <2>3 DEF Mailbox!Lose, Waiting, InHand
    <3>. QED BY <3>1 DEF Mailbox!Next
  <2>. QED BY <1>4, <2>1, <2>2, <2>3, StreamView
<1>5. CASE UNCHANGED vars
  BY <1>5 DEF vars, appVars, streamVars, Waiting, InHand
<1>. QED BY <1>1, <1>2, <1>3, <1>4, <1>5 DEF Next

\* The element is a mailbox of one frame (ImplementsMailbox): none is pushed
\* twice or after a later one, whatever restarts, late callbacks and
\* overwritten frames there are.
THEOREM GzImgSrcImplementsMailbox == Spec => ImplementsMailbox
<1>. QED
  BY InitImplements, StepImplements, ShapeHolds, FrameOrderHolds, PTL
  DEF Spec, ImplementsMailbox, Mailbox!Spec

-----------------------------------------------------------------------------
(* Who holds a SourceState, and when stop may delete it. *)

Stopped == app \in {"idle", "finalized"}

\* The threads between acquireState and releaseState.
Uses(s) ==
    (IF CallbackHolds /\ cbState = s THEN 1 ELSE 0)
      + (IF StreamHolds /\ streamState = s THEN 1 ELSE 0)

\* The invariant behind the wait in stop: the one live state is the last, it is
\* visible until stop detaches it, the users of every state are counted, nobody
\* holds the last one when stop is about to delete it, and whoever holds a dead
\* state was deserted by a start that failed.
Lives ==
    /\ current # 0 <=> app \in {"subscribe", "started", "join", "stop"}
    /\ ~Stopped => starts # 0
    /\ \A s \in States : heap[s].alive <=> s = starts /\ ~Stopped
    /\ \A s \in States : heap[s].users = Uses(s)
    /\ CallbackHolds => cbState <= starts /\ (heap[cbState].alive \/ heap[cbState].deserted)
    /\ StreamHolds => heap[streamState].alive
    /\ app = "delete" => ~StreamHolds /\ (CallbackHolds => cbState # starts)

\* What a step does to the users and the life of every state.
Effect(s, change) ==
    \A t \in States :
        /\ heap'[t].alive = heap[t].alive
        /\ heap'[t].deserted = heap[t].deserted
        /\ heap'[t].users = IF t = s THEN heap[t].users + change ELSE heap[t].users

\* Taking a state adds one to its user count.
LEMMA AcquiredEffect ==
    ASSUME ShapeOK, NEW s \in States, Acquired(s) PROVE Effect(s, 1)
<1>1. heap \in [States -> SourceStates]
  BY DEF ShapeOK
<1>. QED BY <1>1 DEF Acquired, SourceStates, Effect

\* releaseState gives one use back and wakes the application thread if it
\* sleeps and was waiting for this one.
LEMMA ReleaseEffect ==
    ASSUME ShapeOK, NEW s \in States, NEW thread \in {"callback", "stream"},
           Release(s) \/ ReleaseHoldingMutex(s, thread)
    PROVE  /\ Effect(s, -1)
           /\ app' = app \/ (app = "sleep" /\ app' = "await")
           /\ UNCHANGED <<starts, current>>
<1>1. heap \in [States -> SourceStates] /\ heap[s] \in SourceStates
  BY DEF ShapeOK
<1>2. /\ Released(heap[s]) \in SourceStates
      /\ Released(heap[s]).alive = heap[s].alive
      /\ Released(heap[s]).deserted = heap[s].deserted
      /\ Released(heap[s]).users = heap[s].users + (-1)
  BY <1>1 DEF Released, SourceStates
<1>3. LET new == [Released(heap[s]) EXCEPT !.owner = thread]
      IN  /\ new.alive = heap[s].alive /\ new.deserted = heap[s].deserted
          /\ new.users = heap[s].users + (-1)
  BY <1>2 DEF SourceStates
<1>4. Effect(s, -1)
  BY <1>1, <1>2, <1>3 DEF Release, ReleaseHoldingMutex, Effect
<1>5. app' = app \/ (app = "sleep" /\ app' = "await")
  BY DEF Release, ReleaseHoldingMutex, WakeApp
<1>. QED BY <1>4, <1>5 DEF Release, ReleaseHoldingMutex

\* Unlocking a mutex leaves the user count alone.
LEMMA UnlockEffect ==
    ASSUME ShapeOK, NEW s \in States, Unlock(s) PROVE Effect(s, 0)
<1>1. heap \in [States -> SourceStates]
  BY DEF ShapeOK
<1>. QED BY <1>1 DEF Unlock, SourceStates, Effect

\* No state is alive and none is held at the start.
LEMMA InitLives == Init => Lives
<1> SUFFICES ASSUME Init PROVE Lives OBVIOUS
<1>1. \A s \in States : heap[s].alive = FALSE /\ heap[s].users = 0
  BY DEF Init, Unborn
<1>2. ~CallbackHolds /\ ~StreamHolds
  BY DEF Init, CallbackHolds, StreamHolds
<1>. QED BY <1>1, <1>2 DEF Init, Lives, Stopped, Uses

\* A notified create holds the state it held.
LEMMA NotifyKeepsHold ==
    ASSUME NEW s, NotifyStream(s) PROVE StreamHolds' = StreamHolds
BY DEF NotifyStream, StreamHolds

\* The streaming thread holds no state of a stopped element, and the callback
\* only one that it was left with.
LEMMA StoppedIsFree ==
    ASSUME ShapeOK, Lives, Stopped
    PROVE  /\ ~StreamHolds
           /\ CallbackHolds => heap[cbState].deserted
BY BoundsAssumption
DEF ShapeOK, Lives, States, CallbackHolds, StreamHolds, CallbackUses, StreamUses

\* The application thread deletes no state that another thread holds, but where
\* a subscription fails.
LEMMA AppKeepsLives == ShapeOK /\ Lives /\ AppSteps => Lives'
<1> SUFFICES ASSUME ShapeOK, Lives, AppSteps PROVE Lives' OBVIOUS
<1>0. /\ starts \in Nat /\ heap \in [States -> SourceStates]
      /\ CallbackHolds => cbState \in States
      /\ StreamHolds => streamState \in States
  BY BoundsAssumption
  DEF ShapeOK, States, CallbackHolds, CallbackUses, StreamHolds, StreamUses
<1>1. CASE Start
  <2>1. /\ ~StreamHolds /\ ~StreamHolds' /\ CallbackHolds' = CallbackHolds /\ cbState' = cbState
        /\ CallbackHolds => cbState \in States /\ cbState <= starts /\ heap[cbState].deserted
    BY <1>0, <1>1, StoppedIsFree
    DEF Start, Stopped, Lives, CallbackHolds, StreamHolds, cbVars, streamVars
  <2>2. heap' = [heap EXCEPT ![starts + 1] = Started] /\ starts + 1 \in States
    BY <1>0, <1>1, BoundsAssumption DEF Start, Started, States, ShapeOK
  <2>3. \A s \in States : heap'[s].alive <=> s = starts + 1
    BY <1>0, <1>1, <2>2, StartedState DEF Start, Lives, Stopped
  <2>4. CallbackHolds => cbState # starts + 1 /\ heap'[cbState] = heap[cbState]
    BY <1>0, <2>1, <2>2 DEF States
  <2>5. \A s \in States : heap'[s].users = Uses(s)'
    <3>1. ASSUME NEW s \in States, s # starts + 1 PROVE heap'[s].users = Uses(s)'
      BY <1>0, <2>1, <2>2, <3>1 DEF Lives, Uses
    <3>2. ASSUME NEW s \in States, s = starts + 1 PROVE heap'[s].users = Uses(s)'
      <4>1. heap'[s].users = 0
        BY <1>0, <2>2, <3>2, StartedState
      <4>2. Uses(s)' = 0
        BY <2>1, <2>4, <3>2 DEF Uses
      <4>. QED BY <4>1, <4>2
    <3>. QED BY <3>1, <3>2
  <2>6. app' = "subscribe" /\ starts' = starts + 1 /\ current' = starts + 1 /\ starts + 1 # 0
    BY <1>0, <1>1 DEF Start
  <2>7. CallbackHolds' => cbState' <= starts' /\ heap'[cbState'].deserted
    BY <1>0, <2>1, <2>4, <2>6 DEF States
  <2>. QED BY <2>1, <2>3, <2>5, <2>6, <2>7 DEF Lives, Stopped
<1>2. CASE SubscribeFails
  <2>1. starts \in States /\ stream = "paused" /\ ~Stopped
    BY <1>2, SwitchAssumption DEF SubscribeFails, Stopped, ShapeOK, States
  <2>2. PICK garbage \in BOOLEAN :
          heap' = [heap EXCEPT ![starts] = Deserted(heap[starts], garbage)]
    BY <1>2 DEF SubscribeFails, Deserted
  <2>3. ~StreamHolds /\ ~StreamHolds' /\ CallbackHolds' = CallbackHolds /\ cbState' = cbState
    BY <1>2, <2>1 DEF SubscribeFails, CallbackHolds, StreamHolds, cbVars, streamVars
  <2>4. heap[starts] \in SourceStates
    BY <1>0, <2>1
  <2>5. \A s \in States : ~heap'[s].alive /\ heap'[s].users = heap[s].users
    BY <1>0, <2>1, <2>2, <2>4, DesertedState DEF Lives
  <2>6. app' = "idle" /\ starts' = starts /\ current' = 0 /\ streamState' = streamState
    BY <1>2 DEF SubscribeFails, streamVars
  <2>7. \A s \in States : heap'[s].users = Uses(s)'
    BY <2>3, <2>5 DEF Lives, Uses
  <2>8. CallbackHolds => heap'[cbState].deserted
    <3>1. CASE cbState = starts
      BY <1>0, <2>1, <2>2, <2>4, <3>1, DesertedState
    <3>2. CASE cbState # starts
      BY <1>0, <2>1, <2>2, <3>2 DEF Lives
    <3>. QED BY <3>1, <3>2
  <2>. QED BY <2>3, <2>5, <2>6, <2>7, <2>8 DEF Lives, Stopped
<1>3. ASSUME heap' = heap, starts' = starts, CallbackHolds' = CallbackHolds,
             StreamHolds' = StreamHolds, cbState' = cbState, streamState' = streamState,
             Stopped' = Stopped,
             current' # 0 <=> app' \in {"subscribe", "started", "join", "stop"},
             app' = "delete" => ~StreamHolds /\ (CallbackHolds => cbState # starts)
      PROVE  Lives'
  BY <1>3 DEF Lives, Uses
<1>4. CASE Subscribe
  <2>1. StreamHolds' = StreamHolds /\ CallbackHolds' = CallbackHolds
    BY <1>4 DEF Subscribe, ShapeOK, StreamHolds, CallbackHolds, cbVars
  <2>. QED BY <1>3, <1>4, <2>1 DEF Subscribe, Lives, Stopped, cbVars
<1>5. CASE BeginShutdown \/ JoinStream \/ DetachState \/ Finalize
  <2>1. UNCHANGED <<heap, starts, cbVars, streamVars>>
        /\ StreamHolds' = StreamHolds /\ CallbackHolds' = CallbackHolds
    BY <1>5
    DEF BeginShutdown, JoinStream, DetachState, Finalize, cbVars, streamVars, StreamHolds, CallbackHolds
  <2>2. /\ current' # 0 <=> app' \in {"subscribe", "started", "join", "stop"}
        /\ app' # "delete"
        /\ Stopped' = Stopped
    BY <1>5 DEF BeginShutdown, JoinStream, DetachState, Finalize, Lives, Stopped
  <2>. QED BY <1>3, <2>1, <2>2 DEF cbVars, streamVars
<1>6. CASE ClearRunning
  <2>1. starts \in States
    BY <1>0, <1>6, BoundsAssumption DEF ClearRunning, Lives, Stopped, States, ShapeOK
  <2>2. \A s \in States : /\ heap'[s].alive = heap[s].alive /\ heap'[s].users = heap[s].users
                           /\ heap'[s].deserted = heap[s].deserted
    BY <1>0, <1>6, <2>1 DEF ClearRunning, SourceStates
  <2>3. UNCHANGED <<starts, current, callback, cbState, stream, streamState>>
        /\ app = "clear" /\ app' = "notify"
    BY <1>6 DEF ClearRunning, cbVars, streamVars
  <2>. QED BY <1>0, <2>2, <2>3 DEF Lives, Stopped, Uses, CallbackHolds, StreamHolds
<1>7. CASE NotifyStopped
  <2>1. StreamHolds' = StreamHolds /\ CallbackHolds' = CallbackHolds
    BY <1>7, NotifyKeepsHold DEF NotifyStopped, CallbackHolds, cbVars
  <2>. QED BY <1>3, <1>7, <2>1 DEF NotifyStopped, Lives, Stopped, cbVars
<1>8. CASE AwaitUsers
  <2>1. starts \in States
    BY <1>0, <1>8, BoundsAssumption DEF AwaitUsers, Lives, Stopped, States, ShapeOK
  <2>2. app' = "delete" => Uses(starts) <= 0
    BY <1>0, <1>8, <2>1 DEF AwaitUsers, Lives, SourceStates, Uses
  <2>3. StreamHolds => streamState = starts
    BY DEF ShapeOK, StreamHolds, StreamUses
  <2>4. app' = "delete" => ~StreamHolds /\ (CallbackHolds => cbState # starts)
    BY <2>2, <2>3 DEF Uses
  <2>6. StreamHolds' = StreamHolds /\ CallbackHolds' = CallbackHolds
    BY <1>8 DEF AwaitUsers, StreamHolds, CallbackHolds, cbVars, streamVars
  <2>. QED BY <1>3, <1>8, <2>4, <2>6 DEF AwaitUsers, Lives, Stopped, cbVars, streamVars
<1>9. CASE DeleteState
  <2>1. starts \in States
    BY <1>0, <1>9, BoundsAssumption DEF DeleteState, Lives, Stopped, States, ShapeOK
  <2>2. /\ ~StreamHolds /\ ~StreamHolds' /\ CallbackHolds' = CallbackHolds /\ cbState' = cbState
        /\ CallbackHolds => cbState # starts
    BY <1>9 DEF DeleteState, Lives, CallbackHolds, StreamHolds, cbVars, streamVars
  <2>3. \A s \in States : /\ ~heap'[s].alive /\ heap'[s].users = heap[s].users
                           /\ heap'[s].deserted = heap[s].deserted
    BY <1>0, <1>9, <2>1 DEF DeleteState, Lives, SourceStates
  <2>4. app' = "idle" /\ starts' = starts /\ current' = 0
    BY <1>9 DEF DeleteState, Lives, Stopped
  <2>5. CallbackHolds => cbState <= starts /\ heap'[cbState].deserted
    BY <1>0, <2>2, <2>3 DEF Lives
  <2>. QED BY <2>2, <2>3, <2>4, <2>5 DEF Lives, Stopped, Uses
<1>. QED
  BY <1>1, <1>2, <1>4, <1>5, <1>6, <1>7, <1>8, <1>9 DEF AppSteps, StopSteps

\* A callback that begins holds no state yet.
LEMMA DispatchKeepsLives ==
    ASSUME ShapeOK, Lives, NEW image \in Images, Dispatch(image) PROVE Lives'
<1>1. UNCHANGED <<app, starts, current, heap, cbState, stream, streamState>>
  BY DEF Dispatch, appVars, streamVars
<1>2. ~CallbackHolds /\ ~CallbackHolds' /\ StreamHolds' = StreamHolds
  BY <1>1 DEF Dispatch, CallbackHolds, StreamHolds
<1>. QED BY <1>1, <1>2 DEF Lives, Stopped, Uses

\* A use that begins or ends is counted by the thread that begins or ends it.
LEMMA CallbackKeepsLives == ShapeOK /\ Lives /\ CallbackSteps => Lives'
<1> SUFFICES ASSUME ShapeOK, Lives, CallbackSteps PROVE Lives' OBVIOUS
<1>0. /\ starts \in Nat /\ heap \in [States -> SourceStates]
      /\ CallbackUses => cbState \in States
      /\ StreamUses => streamState \in States
      /\ current # 0 => current \in States /\ current = starts
  BY BoundsAssumption DEF ShapeOK, States, Lives
<1>1. ASSUME UNCHANGED <<starts, current, stream, streamState>>,
             app' = app \/ (app = "sleep" /\ app' = "await")
      PROVE  /\ Stopped' = Stopped /\ StreamHolds' = StreamHolds
             /\ current' # 0 <=> app' \in {"subscribe", "started", "join", "stop"}
             /\ app' = "subscribe" => app = "subscribe"
             /\ app' = "delete" => app = "delete"
  BY <1>1 DEF Stopped, StreamHolds, Lives
<1>2. CASE CallbackAcquires /\ current = 0
  <2>1. UNCHANGED <<app, starts, current, heap, stream, streamState>>
        /\ callback' = "idle" /\ callback = "dispatched"
    BY <1>2 DEF CallbackAcquires, appVars, streamVars
  <2>2. ~CallbackHolds /\ ~CallbackHolds' /\ StreamHolds' = StreamHolds
    BY <2>1 DEF CallbackHolds, StreamHolds
  <2>. QED BY <2>1, <2>2 DEF Lives, Stopped, Uses
<1>3. CASE CallbackAcquires /\ current # 0
  <2>1. /\ UNCHANGED <<app, starts, current, stream, streamState>>
        /\ callback = "dispatched" /\ callback' = "acquired" /\ cbState' = current
        /\ Effect(current, 1)
    BY <1>0, <1>3, AcquiredEffect DEF CallbackAcquires, appVars, streamVars
  <2>2. ~CallbackHolds /\ CallbackHolds' /\ StreamHolds' = StreamHolds
    BY <2>1 DEF CallbackHolds, StreamHolds
  <2>3. heap[current].alive /\ app # "delete"
    BY <1>0, <1>3 DEF Lives, Stopped
  <2>4. \A t \in States : heap'[t].users = Uses(t)'
    BY <1>0, <2>1, <2>2 DEF Effect, Uses, Lives
  <2>5. \A t \in States : heap'[t].alive = heap[t].alive /\ heap'[t].deserted = heap[t].deserted
    BY <2>1 DEF Effect
  <2>6. StreamHolds => streamState \in States
    BY <1>0 DEF StreamUses, StreamHolds
  <2>. QED BY <1>0, <1>3, <2>1, <2>2, <2>3, <2>4, <2>5, <2>6 DEF Lives, Stopped
<1>4. ASSUME CallbackHolds, ~CallbackHolds', Effect(cbState, -1), cbState' = cbState,
             UNCHANGED <<starts, current, stream, streamState>>,
             app' = app \/ (app = "sleep" /\ app' = "await")
      PROVE  Lives'
  <2>1. cbState \in States
    BY <1>0, <1>4 DEF CallbackHolds, CallbackUses
  <2>2. \A t \in States : heap'[t].users = Uses(t)'
    BY <1>0, <1>1, <1>4, <2>1 DEF Effect, Uses, Lives, SourceStates
  <2>3. \A t \in States : heap'[t].alive = heap[t].alive /\ heap'[t].deserted = heap[t].deserted
    BY <1>4 DEF Effect
  <2>4. StreamHolds => streamState \in States
    BY <1>0 DEF StreamUses, StreamHolds
  <2>. QED BY <1>0, <1>1, <1>4, <2>2, <2>3, <2>4 DEF Lives
<1>5. ASSUME CallbackHolds' = CallbackHolds, Effect(cbState, 0), cbState' = cbState,
             cbState \in States,
             UNCHANGED <<app, starts, current, streamState>>,
             StreamHolds' = StreamHolds
      PROVE  Lives'
  <2>1. \A t \in States : /\ heap'[t].users = heap[t].users /\ heap'[t].alive = heap[t].alive
                           /\ heap'[t].deserted = heap[t].deserted
    BY <1>0, <1>5 DEF Effect, SourceStates
  <2>2. StreamHolds => streamState \in States
    BY <1>0 DEF StreamUses, StreamHolds
  <2>. QED BY <1>0, <1>5, <2>1, <2>2 DEF Lives, Stopped, Uses
<1>6. CASE CallbackRejects \/ CallbackReleases
  <2>1. CallbackHolds /\ ~CallbackHolds' /\ cbState \in States
        /\ cbState' = cbState /\ UNCHANGED <<stream, streamState>>
    BY <1>0, <1>6 DEF CallbackRejects, CallbackReleases, CallbackHolds, CallbackUses, streamVars
  <2>2. Release(cbState)
    BY <1>6 DEF CallbackRejects, CallbackReleases
  <2>. QED BY <1>4, <2>1, <2>2, ReleaseEffect
<1>7. CASE CallbackFindsStopped
  <2>1. CallbackHolds /\ ~CallbackHolds' /\ cbState \in States
        /\ cbState' = cbState /\ UNCHANGED <<stream, streamState>>
    BY <1>0, <1>7 DEF CallbackFindsStopped, CallbackHolds, CallbackUses, streamVars
  <2>2. ReleaseHoldingMutex(cbState, "callback")
    BY <1>7 DEF CallbackFindsStopped
  <2>. QED BY <1>4, <2>1, <2>2, ReleaseEffect
<1>8. CASE CallbackStores
  <2>1. /\ CallbackHolds' = CallbackHolds /\ cbState \in States
        /\ cbState' = cbState /\ StreamHolds' = StreamHolds
        /\ UNCHANGED <<app, starts, current, streamState>>
    BY <1>0, <1>8
    DEF CallbackStores, CallbackHolds, CallbackUses, StreamHolds, appVars, streamVars
  <2>2. Effect(cbState, 0)
    BY <1>0, <1>8, <2>1 DEF CallbackStores, Effect, SourceStates
  <2>. QED BY <1>5, <2>1, <2>2
<1>9. CASE CallbackUnlocks
  <2>1. /\ CallbackHolds' = CallbackHolds /\ cbState \in States
        /\ cbState' = cbState /\ StreamHolds' = StreamHolds
        /\ UNCHANGED <<app, starts, current, streamState>>
    BY <1>0, <1>9
    DEF CallbackUnlocks, CallbackHolds, CallbackUses, StreamHolds, appVars, streamVars
  <2>2. Effect(cbState, 0)
    BY <1>9, <2>1, UnlockEffect DEF CallbackUnlocks
  <2>. QED BY <1>5, <2>1, <2>2
<1>10. CASE CallbackNotifies
  <2>1. /\ CallbackHolds' = CallbackHolds /\ cbState \in States
        /\ cbState' = cbState /\ StreamHolds' = StreamHolds
        /\ UNCHANGED <<app, starts, current, streamState>>
    BY <1>0, <1>10, NotifyKeepsHold
    DEF CallbackNotifies, CallbackHolds, CallbackUses, appVars
  <2>2. Effect(cbState, 0)
    BY <1>0, <1>10 DEF CallbackNotifies, Effect, SourceStates
  <2>. QED BY <1>5, <2>1, <2>2
<1>. QED BY <1>2, <1>3, <1>6, <1>7, <1>8, <1>9, <1>10 DEF CallbackSteps

\* The streaming thread is counted from where it takes a state to where it
\* gives it back.
LEMMA StreamKeepsLives == ShapeOK /\ Lives /\ StreamSteps => Lives'
<1> SUFFICES ASSUME ShapeOK, Lives, StreamSteps PROVE Lives' OBVIOUS
<1>0. /\ starts \in Nat /\ heap \in [States -> SourceStates]
      /\ CallbackHolds => cbState \in States
      /\ StreamUses => streamState \in States
      /\ current # 0 => current \in States /\ current = starts
  BY BoundsAssumption DEF ShapeOK, States, CallbackHolds, CallbackUses
<1>1. UNCHANGED <<starts, current, callback, cbState>>
      /\ CallbackHolds' = CallbackHolds
  BY DEF StreamSteps, CreateAcquires, CreateWaits, CreateFindsStopped, CreateUnlocks,
         CreateTakesFrame, CreateReturnsBuffer, CreateFails, Release, ReleaseHoldingMutex,
         appVars, cbVars, CallbackHolds
<1>2. CASE CreateAcquires /\ current = 0
  <2>1. UNCHANGED <<app, heap>> /\ ~StreamHolds /\ ~StreamHolds'
    BY <1>2 DEF CreateAcquires, StreamHolds, appVars
  <2>. QED BY <1>1, <2>1 DEF Lives, Stopped, Uses
<1>3. CASE CreateAcquires /\ current # 0
  <2>1. /\ app' = app /\ ~StreamHolds /\ StreamHolds' /\ streamState' = current
        /\ Effect(current, 1)
    BY <1>0, <1>3, AcquiredEffect DEF CreateAcquires, StreamHolds, appVars
  <2>2. heap[current].alive /\ app # "delete"
    BY <1>0, <1>3 DEF Lives, Stopped
  <2>3. \A t \in States : heap'[t].users = Uses(t)'
    BY <1>0, <1>1, <2>1 DEF Effect, Uses, Lives
  <2>4. \A t \in States : heap'[t].alive = heap[t].alive /\ heap'[t].deserted = heap[t].deserted
    BY <2>1 DEF Effect
  <2>. QED BY <1>0, <1>1, <1>3, <2>1, <2>2, <2>3, <2>4 DEF Lives, Stopped
<1>4. ASSUME StreamHolds, ~StreamHolds', Effect(streamState, -1), streamState' = streamState,
             app' = app \/ (app = "sleep" /\ app' = "await")
      PROVE  Lives'
  <2>1. streamState \in States
    BY <1>0, <1>4 DEF StreamHolds, StreamUses
  <2>2. \A t \in States : heap'[t].users = Uses(t)'
    BY <1>0, <1>1, <1>4, <2>1 DEF Effect, Uses, Lives, SourceStates
  <2>3. \A t \in States : heap'[t].alive = heap[t].alive /\ heap'[t].deserted = heap[t].deserted
    BY <1>4 DEF Effect
  <2>4. /\ Stopped' = Stopped
        /\ current' # 0 <=> app' \in {"subscribe", "started", "join", "stop"}
        /\ app' = "subscribe" => app = "subscribe"
        /\ app' = "delete" => app = "delete"
    BY <1>1, <1>4 DEF Stopped, Lives
  <2>. QED BY <1>0, <1>1, <1>4, <2>2, <2>3, <2>4 DEF Lives
<1>5. ASSUME StreamHolds' = StreamHolds, streamState' = streamState, app' = app,
             Effect(streamState, 0)
      PROVE  Lives'
  <2>1. \A t \in States : /\ heap'[t].users = heap[t].users /\ heap'[t].alive = heap[t].alive
                           /\ heap'[t].deserted = heap[t].deserted
    BY <1>0, <1>5 DEF Effect, SourceStates
  <2>2. StreamHolds => streamState \in States
    BY <1>0 DEF StreamUses, StreamHolds
  <2>. QED BY <1>0, <1>1, <1>5, <2>1, <2>2 DEF Lives, Stopped, Uses
<1>6. CASE CreateWaits
  <2>1. StreamHolds' = StreamHolds /\ streamState' = streamState /\ app' = app
    BY <1>6 DEF CreateWaits, StreamHolds, appVars
  <2>2. Effect(streamState, 0)
    BY <1>0, <1>6 DEF CreateWaits, Effect, SourceStates
  <2>. QED BY <1>5, <2>1, <2>2
<1>7. CASE CreateFindsStopped
  <2>1. StreamHolds /\ ~StreamHolds' /\ streamState' = streamState /\ streamState \in States
    BY <1>0, <1>7 DEF CreateFindsStopped, StreamHolds, StreamUses
  <2>2. ReleaseHoldingMutex(streamState, "stream")
    BY <1>7 DEF CreateFindsStopped
  <2>. QED BY <1>4, <2>1, <2>2, ReleaseEffect
<1>8. CASE CreateUnlocks
  <2>1. /\ StreamHolds' = StreamHolds /\ streamState' = streamState /\ app' = app
        /\ streamState \in States
    BY <1>0, <1>8 DEF CreateUnlocks, StreamHolds, StreamUses, appVars
  <2>2. Effect(streamState, 0)
    BY <1>8, <2>1, UnlockEffect DEF CreateUnlocks
  <2>. QED BY <1>5, <2>1, <2>2
<1>9. CASE CreateTakesFrame
  <2>1. /\ StreamHolds' = StreamHolds /\ streamState' = streamState /\ app' = app
        /\ streamState \in States
    BY <1>0, <1>9 DEF CreateTakesFrame, StreamHolds, StreamUses, appVars
  <2>2. Effect(streamState, 0)
    BY <1>0, <1>9, <2>1 DEF CreateTakesFrame, TakeFrame, Effect, SourceStates
  <2>. QED BY <1>5, <2>1, <2>2
<1>10. CASE CreateReturnsBuffer \/ CreateFails
  <2>1. StreamHolds /\ ~StreamHolds' /\ streamState' = streamState /\ streamState \in States
    BY <1>0, <1>10 DEF CreateReturnsBuffer, CreateFails, StreamHolds, StreamUses
  <2>2. Release(streamState)
    BY <1>10 DEF CreateReturnsBuffer, CreateFails
  <2>. QED BY <1>4, <2>1, <2>2, ReleaseEffect
<1>. QED BY <1>2, <1>3, <1>6, <1>7, <1>8, <1>9, <1>10 DEF StreamSteps

\* Every step keeps to the protocol.
LEMMA LivesStep == ShapeOK /\ Lives /\ [Next]_vars => Lives'
<1> SUFFICES ASSUME ShapeOK, Lives, [Next]_vars PROVE Lives' OBVIOUS
<1>1. CASE UNCHANGED vars
  BY <1>1
  DEF vars, appVars, cbVars, streamVars, Lives, Stopped, Uses, CallbackHolds, StreamHolds
<1>. QED
  BY <1>1, AppKeepsLives, DispatchKeepsLives, CallbackKeepsLives, StreamKeepsLives DEF Next

\* The protocol holds in every state.
LEMMA LivesHolds == Spec => []Lives
BY InitShape, ShapeStep, InitLives, LivesStep, PTL DEF Spec

\* No stop deletes a SourceState between a thread's acquireState and
\* releaseState, nor is the element finalized then, however often it is
\* restarted, whichever start fails and whichever way the base class stops it;
\* the one state that is lost to its user is the callback's, when the start
\* that made it fails to subscribe (activeUsers, gst_gz_img_src_stop).
THEOREM StopSparesTheHeld == Spec => []StopSparesHeldStates
<1>1. ShapeOK /\ Lives => StopSparesHeldStates
  <2> SUFFICES ASSUME ShapeOK, Lives PROVE StopSparesHeldStates OBVIOUS
  <2>1. StreamHolds => streamState # 0 /\ heap[streamState].alive /\ app # "finalized"
    BY DEF ShapeOK, Lives, StreamHolds, StreamUses
  <2>2. CallbackHolds => cbState # 0
    BY DEF ShapeOK, CallbackHolds, CallbackUses
  <2>3. CallbackHolds => heap[cbState].deserted \/ (heap[cbState].alive /\ app # "finalized")
    BY StoppedIsFree DEF Lives, Stopped
  <2>. QED BY <2>1, <2>2, <2>3 DEF StopSparesHeldStates
<1>. QED BY <1>1, ShapeHolds, LivesHolds, PTL

\* Every variable keeps its type, whichever start fails: the count of users
\* stays between zero and the number of the other threads, which uint32_t would
\* not show.
THEOREM GzImgSrcTypeCorrect == Spec => []TypeOK
<1>1. ShapeOK /\ Lives => TypeOK
  <2> SUFFICES ASSUME ShapeOK, Lives PROVE TypeOK OBVIOUS
  <2>1. \A s \in States : heap[s] \in SourceStates /\ heap[s].users \in 0 .. 2
    BY DEF ShapeOK, Lives, Uses
  <2>2. \A s \in States : heap[s] \in [alive : BOOLEAN, running : BOOLEAN,
                            frame : FrameSet \cup {NoFrame}, users : 0 .. 2,
                            owner : {"none", "callback", "stream"}, deserted : BOOLEAN]
    BY <2>1 DEF SourceStates
  <2>. QED BY <2>2, BoundsAssumption DEF ShapeOK, TypeOK, AppPlaces
<1>. QED BY <1>1, ShapeHolds, LivesHolds, PTL
=============================================================================
