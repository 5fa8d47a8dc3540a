------------------------------ MODULE GzImgSrc ------------------------------
(***************************************************************************)
(* The GStreamer element gzimgsrc.  Three threads share a SourceState that *)
(* start allocates and stop deletes: the application thread that changes   *)
(* the state of the pipeline, the streaming thread that calls create in a  *)
(* loop, and the Gazebo transport thread that calls onGazeboImage.         *)
(*                                                                         *)
(* A section under self->stateLock is one step, because no thread blocks   *)
(* inside it except in g_cond_wait, which gives the lock up.  A section    *)
(* under state->mutex is one step too, except on the two paths that give   *)
(* their use of the state back before the lock guard is destroyed: there   *)
(* the mutex has an owner until a step of its own unlocks it.              *)
(*                                                                         *)
(* GstBaseSrc is external.  JoinBeforeStop says whether it may wait for    *)
(* the streaming thread before it calls stop, as gst_base_src_stop does,   *)
(* or let stop run beside create, which the element's own protocol         *)
(* provides for.                                                           *)
(***************************************************************************)
EXTENDS Integers, Sequences

CONSTANTS
    Images,             \* Gazebo image messages, without their pixels
    MaxFrames,          \* bound on the images Gazebo sends
    MaxStarts,          \* bound on the calls of start
    JoinBeforeStop,     \* whether the streaming thread ends before stop is called
    FailingStarts,      \* the calls of start whose Node::Subscribe may fail
    NoFrame

Formats == {"RGB", "BGR", "RGBA", "BGRA", "GRAY8", "GRAY16_LE"}

ASSUME ImagesAssumption ==
    Images \subseteq [format : Formats \cup {"other"}, width : Nat, height : Nat,
                      step : Nat, size : Nat]
ASSUME BoundsAssumption == MaxFrames \in Nat /\ MaxStarts \in Nat
ASSUME SwitchAssumption == JoinBeforeStop \subseteq BOOLEAN /\ FailingStarts \subseteq 1 .. MaxStarts
ASSUME NoFrameAssumption == NoFrame \notin [id : Nat, image : Images]

VARIABLES
    app,            \* where the application thread is
    starts,         \* the SourceStates allocated so far; the last is current
    current,        \* self->state, 0 for nullptr
    flushing,       \* the base class discards what create returns
    subscribed,     \* the state whose node is subscribed, or 0
    heap,           \* the SourceStates
    sent,           \* the images Gazebo has sent
    callback,       \* where onGazeboImage is
    cbFrame,        \* the frame it handles
    cbState,        \* its local `state`
    stream,         \* where create is
    streamFrame,    \* the frame it took
    streamState,    \* its local `state`
    delivered       \* the frames pushed downstream

appVars == <<app, starts, current, flushing, subscribed>>
cbVars == <<sent, callback, cbFrame, cbState>>
streamVars == <<stream, streamFrame, streamState, delivered>>
vars == <<appVars, heap, cbVars, streamVars>>

States == 1 .. MaxStarts
FrameSet == [id : 1 .. MaxFrames, image : Images]

\* `deserted` is a history of the deletion: the state's own start deleted it.
Unborn == [alive |-> FALSE, running |-> FALSE, frame |-> NoFrame, users |-> 0,
           owner |-> "none", deserted |-> FALSE]

Init ==
    /\ app = "idle"
    /\ starts = 0
    /\ current = 0
    /\ flushing = FALSE
    /\ subscribed = 0
    /\ heap = [s \in States |-> Unborn]
    /\ sent = 0
    /\ callback = "idle"
    /\ cbFrame = NoFrame
    /\ cbState = 0
    /\ stream = "paused"
    /\ streamFrame = NoFrame
    /\ streamState = 0
    /\ delivered = << >>

-----------------------------------------------------------------------------
(* What the steps are made of. *)

BytesPerPixel(format) ==
    CASE format \in {"RGB", "BGR"} -> 3
      [] format \in {"RGBA", "BGRA"} -> 4
      [] format = "GRAY8" -> 1
      [] format = "GRAY16_LE" -> 2

ValidFrameShape(image) ==
    /\ image.width > 0
    /\ image.height > 0
    /\ image.step >= image.width * BytesPerPixel(image.format)
    /\ image.size >= image.step * image.height

Usable(image) == image.format \in Formats /\ ValidFrameShape(image)

Acquired(s) == heap' = [heap EXCEPT ![s].users = @ + 1]

\* Mutant: a use is never given back.
Released_Leaks(state) == state

Released(state) == [state EXCEPT !.users = @ - 1]

\* Mutant: stateIdle is not signalled.
WakeApp_Lost(users) == app' = app

\* releaseState signals stateIdle when the last user leaves.
WakeApp(users) == app' = IF users = 0 /\ app = "sleep" THEN "await" ELSE app

\* Mutant: the frame stays in the state.
TakeFrame_Keeps(s) ==
    /\ streamFrame' = heap[s].frame
    /\ UNCHANGED heap

\* create moves the frame out of the state.
TakeFrame(s) ==
    /\ streamFrame' = heap[s].frame
    /\ heap' = [heap EXCEPT ![s].frame = NoFrame]

Release(s) ==
    /\ heap' = [heap EXCEPT ![s] = Released(@)]
    /\ WakeApp(heap[s].users - 1)
    /\ UNCHANGED <<starts, current, flushing, subscribed>>

\* releaseState called while `thread` holds state->mutex.
ReleaseHoldingMutex(s, thread) ==
    /\ heap' = [heap EXCEPT ![s] = [Released(@) EXCEPT !.owner = thread]]
    /\ WakeApp(heap[s].users - 1)
    /\ UNCHANGED <<starts, current, flushing, subscribed>>

Unlock(s) == heap' = [heap EXCEPT ![s].owner = "none"]

\* Mutant: frameAvailable is not notified.
NotifyStream_Lost(s) == stream' = stream

\* frameAvailable.notify_one or notify_all: create is the only waiter.
NotifyStream(s) ==
    stream' = IF stream = "waiting" /\ streamState = s THEN "lock" ELSE stream

-----------------------------------------------------------------------------
(* The application thread: gst_gz_img_src_start and gst_gz_img_src_stop. *)

\* The new state is visible before its node is subscribed.
Start ==
    /\ app = "idle"
    /\ stream = "paused"
    /\ starts < MaxStarts
    /\ starts' = starts + 1
    /\ current' = starts + 1
    /\ heap' = [heap EXCEPT ![starts + 1] = [Unborn EXCEPT !.alive = TRUE, !.running = TRUE]]
    /\ app' = "subscribe"
    /\ UNCHANGED <<flushing, subscribed, cbVars, streamVars>>

\* The base class then starts the streaming thread.
Subscribe ==
    /\ app = "subscribe"
    /\ subscribed' = starts
    /\ flushing' = FALSE
    /\ app' = "started"
    /\ stream' = "create"
    /\ UNCHANGED <<starts, current, heap, cbVars, streamFrame, streamState, delivered>>

\* The new state is deleted at once, without waiting for its users.  One that
\* got hold of it meanwhile goes on with freed memory, where `running` may read
\* as anything.
SubscribeFails ==
    /\ app = "subscribe"
    /\ starts \in FailingStarts
    /\ current' = 0
    /\ \E garbage \in BOOLEAN :
         heap' = [heap EXCEPT ![starts] = [@ EXCEPT !.alive = FALSE, !.running = garbage,
                                                    !.frame = NoFrame, !.deserted = TRUE]]
    /\ app' = "idle"
    /\ UNCHANGED <<starts, flushing, subscribed, cbVars, streamVars>>

\* GstBaseSrc: the element has no unlock function for it to call here.
BeginShutdown ==
    /\ app = "started"
    /\ flushing' = TRUE
    /\ \E join \in JoinBeforeStop : app' = IF join THEN "join" ELSE "stop"
    /\ UNCHANGED <<starts, current, subscribed, heap, cbVars, streamVars>>

JoinStream ==
    /\ app = "join"
    /\ stream = "paused"
    /\ app' = "stop"
    /\ UNCHANGED <<starts, current, flushing, subscribed, heap, cbVars, streamVars>>

DetachState ==
    /\ app = "stop"
    /\ current' = 0
    /\ app' = "clear"
    /\ UNCHANGED <<starts, flushing, subscribed, heap, cbVars, streamVars>>

ClearRunning ==
    /\ app = "clear"
    /\ heap[starts].owner = "none"
    /\ heap' = [heap EXCEPT ![starts].running = FALSE, ![starts].frame = NoFrame]
    /\ app' = "notify"
    /\ UNCHANGED <<starts, current, flushing, subscribed, cbVars, streamVars>>

NotifyStopped ==
    /\ app = "notify"
    /\ NotifyStream(starts)
    /\ app' = "await"
    /\ UNCHANGED <<starts, current, flushing, subscribed, heap, cbVars,
                   streamFrame, streamState, delivered>>

\* Mutant: the state is deleted without waiting for its users.
AwaitUsers_Skips ==
    /\ app = "await"
    /\ app' = "delete"
    /\ UNCHANGED <<starts, current, flushing, subscribed, heap, cbVars, streamVars>>

\* The loop around g_cond_wait.
AwaitUsers ==
    /\ app = "await"
    /\ app' = IF heap[starts].users > 0 THEN "sleep" ELSE "delete"
    /\ UNCHANGED <<starts, current, flushing, subscribed, heap, cbVars, streamVars>>

\* delete state: its node unsubscribes, its mutex is destroyed.
DeleteState ==
    /\ app = "delete"
    /\ heap' = [heap EXCEPT ![starts].alive = FALSE]
    /\ subscribed' = 0
    /\ app' = "idle"
    /\ UNCHANGED <<starts, current, flushing, cbVars, streamVars>>

\* gst_gz_img_src_finalize, when the application gives the element up: the
\* state lock and its condition are cleared, and nobody may use them again.
Finalize ==
    /\ app = "idle"
    /\ stream = "paused"
    /\ app' = "finalized"
    /\ UNCHANGED <<starts, current, flushing, subscribed, heap, cbVars, streamVars>>

-----------------------------------------------------------------------------
(* The transport thread: onGazeboImage. *)

\* A callback that was dispatched may run after its node has unsubscribed; it
\* must not once the element is finalized, which nothing in it prevents.
Dispatch(image) ==
    /\ callback = "idle"
    /\ subscribed # 0
    /\ sent < MaxFrames
    /\ sent' = sent + 1
    /\ cbFrame' = [id |-> sent + 1, image |-> image]
    /\ callback' = "dispatched"
    /\ UNCHANGED <<appVars, heap, cbState, streamVars>>

CallbackAcquires ==
    /\ callback = "dispatched"
    /\ app # "finalized"
    /\ cbState' = current
    /\ IF current = 0
         THEN callback' = "idle" /\ UNCHANGED heap
         ELSE callback' = "acquired" /\ Acquired(current)
    /\ UNCHANGED <<appVars, sent, cbFrame, streamVars>>

CallbackRejects ==
    /\ callback = "acquired"
    /\ ~Usable(cbFrame.image)
    /\ Release(cbState)
    /\ callback' = "idle"
    /\ UNCHANGED <<sent, cbFrame, cbState, streamVars>>

CallbackStores ==
    /\ callback = "acquired"
    /\ Usable(cbFrame.image)
    /\ heap[cbState].owner = "none"
    /\ heap[cbState].running
    /\ heap' = [heap EXCEPT ![cbState].frame = cbFrame]
    /\ callback' = "notify"
    /\ UNCHANGED <<appVars, sent, cbFrame, cbState, streamVars>>

CallbackFindsStopped ==
    /\ callback = "acquired"
    /\ Usable(cbFrame.image)
    /\ heap[cbState].owner = "none"
    /\ ~heap[cbState].running
    /\ ReleaseHoldingMutex(cbState, "callback")
    /\ callback' = "unlock"
    /\ UNCHANGED <<sent, cbFrame, cbState, streamVars>>

CallbackUnlocks ==
    /\ callback = "unlock"
    /\ Unlock(cbState)
    /\ callback' = "idle"
    /\ UNCHANGED <<appVars, sent, cbFrame, cbState, streamVars>>

CallbackNotifies ==
    /\ callback = "notify"
    /\ NotifyStream(cbState)
    /\ callback' = "release"
    /\ UNCHANGED <<appVars, heap, sent, cbFrame, cbState, streamFrame, streamState, delivered>>

CallbackReleases ==
    /\ callback = "release"
    /\ Release(cbState)
    /\ callback' = "idle"
    /\ UNCHANGED <<sent, cbFrame, cbState, streamVars>>

-----------------------------------------------------------------------------
(* The streaming thread: gst_gz_img_src_create. *)

CreateAcquires ==
    /\ stream = "create"
    /\ streamState' = current
    /\ IF current = 0
         THEN stream' = "paused" /\ UNCHANGED heap
         ELSE stream' = "lock" /\ Acquired(current)
    /\ UNCHANGED <<appVars, cbVars, streamFrame, delivered>>

CreateWaits ==
    /\ stream = "lock"
    /\ heap[streamState].owner = "none"
    /\ heap[streamState].running
    /\ heap[streamState].frame = NoFrame
    /\ stream' = "waiting"
    /\ UNCHANGED <<appVars, heap, cbVars, streamFrame, streamState, delivered>>

CreateFindsStopped ==
    /\ stream = "lock"
    /\ heap[streamState].owner = "none"
    /\ ~heap[streamState].running
    /\ ReleaseHoldingMutex(streamState, "stream")
    /\ stream' = "unlock"
    /\ UNCHANGED <<cbVars, streamFrame, streamState, delivered>>

\* GST_FLOW_FLUSHING pauses the streaming thread.
CreateUnlocks ==
    /\ stream = "unlock"
    /\ Unlock(streamState)
    /\ stream' = "paused"
    /\ UNCHANGED <<appVars, cbVars, streamFrame, streamState, delivered>>

CreateTakesFrame ==
    /\ stream = "lock"
    /\ heap[streamState].owner = "none"
    /\ heap[streamState].running
    /\ heap[streamState].frame # NoFrame
    /\ TakeFrame(streamState)
    /\ stream' = "taken"
    /\ UNCHANGED <<appVars, cbVars, streamState, delivered>>

\* The base class pushes the buffer, unless it is flushing.
CreateReturnsBuffer ==
    /\ stream = "taken"
    /\ Release(streamState)
    /\ IF flushing
         THEN stream' = "paused" /\ UNCHANGED delivered
         ELSE stream' = "create" /\ delivered' = Append(delivered, streamFrame)
    /\ UNCHANGED <<cbVars, streamFrame, streamState>>

\* The caps are refused or no buffer can be allocated.
CreateFails ==
    /\ stream = "taken"
    /\ Release(streamState)
    /\ stream' = "paused"
    /\ UNCHANGED <<cbVars, streamFrame, streamState, delivered>>

-----------------------------------------------------------------------------

StopSteps ==
    \/ JoinStream
    \/ DetachState
    \/ ClearRunning
    \/ NotifyStopped
    \/ AwaitUsers
    \/ DeleteState

AppSteps == Start \/ Subscribe \/ SubscribeFails \/ BeginShutdown \/ StopSteps \/ Finalize

CallbackSteps ==
    \/ CallbackAcquires
    \/ CallbackRejects
    \/ CallbackStores
    \/ CallbackFindsStopped
    \/ CallbackUnlocks
    \/ CallbackNotifies
    \/ CallbackReleases

StreamSteps ==
    \/ CreateAcquires
    \/ CreateWaits
    \/ CreateFindsStopped
    \/ CreateUnlocks
    \/ CreateTakesFrame
    \/ CreateReturnsBuffer
    \/ CreateFails

Next ==
    \/ AppSteps
    \/ \E image \in Images : Dispatch(image)
    \/ CallbackSteps
    \/ StreamSteps

\* The three threads are scheduled; nothing makes Gazebo send images or the
\* application start and stop.
Fairness == WF_vars(StopSteps) /\ WF_vars(CallbackSteps) /\ WF_vars(StreamSteps)

Spec == Init /\ [][Next]_vars
FairSpec == Spec /\ Fairness

-----------------------------------------------------------------------------
(* Correctness. *)

\* Every variable keeps its type.
TypeOK ==
    /\ app \in {"idle", "subscribe", "started", "join", "stop", "clear", "notify",
                "await", "sleep", "delete", "finalized"}
    /\ starts \in 0 .. MaxStarts
    /\ current \in 0 .. MaxStarts
    /\ flushing \in BOOLEAN
    /\ subscribed \in 0 .. MaxStarts
    /\ heap \in [States -> [alive : BOOLEAN, running : BOOLEAN,
                            frame : FrameSet \cup {NoFrame}, users : 0 .. 2,
                            owner : {"none", "callback", "stream"},
                            deserted : BOOLEAN]]
    /\ sent \in 0 .. MaxFrames
    /\ callback \in {"idle", "dispatched", "acquired", "notify", "release", "unlock"}
    /\ cbFrame \in FrameSet \cup {NoFrame}
    /\ cbState \in 0 .. MaxStarts
    /\ stream \in {"paused", "create", "lock", "waiting", "taken", "unlock"}
    /\ streamFrame \in FrameSet \cup {NoFrame}
    /\ streamState \in 0 .. MaxStarts
    /\ delivered \in Seq(FrameSet)

CallbackHolds == callback \in {"acquired", "notify", "release"}
StreamHolds == stream \in {"lock", "waiting", "taken"}

\* Between acquireState and releaseState no stop deletes a thread's SourceState
\* and the element is not finalized, whenever stop runs and however often the
\* element is restarted (activeUsers and the wait in gst_gz_img_src_stop).  For
\* the callback there is one exception: a start whose subscription fails deletes
\* its state without that wait (gst_gz_img_src_start).
StopSparesHeldStates ==
    /\ StreamHolds => streamState # 0 /\ heap[streamState].alive /\ app # "finalized"
    /\ CallbackHolds =>
         /\ cbState # 0
         /\ heap[cbState].deserted \/ (heap[cbState].alive /\ app # "finalized")

UsableFrames == {frame \in FrameSet : Usable(frame.image)}

Mailbox ==
    INSTANCE FrameMailbox WITH
        Frames <- UsableFrames,
        waiting <- IF starts = 0 THEN NoFrame ELSE heap[starts].frame,
        inHand <- IF stream = "taken" THEN streamFrame ELSE NoFrame,
        out <- delivered

\* The element is a mailbox of one frame: what is pushed has passed the tests of
\* onGazeboImage, and none is pushed twice or after a later one, although frames are overwritten while create works and the element may
\* be restarted with a callback of its former life still under way.
ImplementsMailbox == Mailbox!Spec

\* A shutdown ends, or hangs for ever at one place: the base class waits for a
\* streaming thread that waits for a frame, which no unlock function
\* interrupts.  No wakeup of stateIdle or frameAvailable is lost.
ShutdownHangsOnlyForFrame ==
    app \in {"join", "stop"} ~>
        app = "idle" \/ [](app = "join" /\ stream = "waiting")

\* A frame stored for a streaming thread that waits is taken, or the source
\* stops (notify_one in onGazeboImage).
StoredFrameIsTaken ==
    stream = "waiting" /\ heap[streamState].frame # NoFrame ~> stream # "waiting"

\* The lock guard of a path that gives its use of the state back inside the
\* guarded section unlocks a mutex that still exists.  "Stop the subscription
\* cleanly when the element stops" (gst/gst_gzimgsrc/docs/implementation_plan.md).
UnlockedMutexExists ==
    /\ callback = "unlock" => heap[cbState].alive
    /\ stream = "unlock" => heap[streamState].alive
=============================================================================
