# A TLA+ model of the Betaflight–Gazebo bridge

The bridge connects Betaflight SITL with Gazebo: motor packets from SITL become
rotor velocities, Gazebo sensors become flight-dynamics (FDM) packets,
rangefinder frames and MAVLink telemetry. Beside it the repository holds a
GStreamer source for Gazebo cameras, a GStreamer filter that looks for red
pixels, and Python tools with an MSP client library. This directory models the
parts that keep state between events and the computations that are easy to get
wrong, checks them with TLC, and proves their safety properties with TLAPS.

## 1. Inventory

| Component | State | Operations | What makes it correct |
|---|---|---|---|
| Main loop, `src/BridgeApp.cc` | last motor command and its time, timeout latch, times of the last FDM packet and heartbeat, stop flag | drain the motor socket, publish rotors, send FDM, update rangefinders and odometry, heartbeat, log | the newest usable command drives the rotors until it times out; rotors stand still without SITL and after a stop; periodic output keeps flowing |
| Sensor subscriber, FDM builder, actuator publisher, `src/GazeboTransport.cc` | last IMU, altimeter and NavSat values, a `has` flag each | callbacks on transport threads, `Snapshot` and `Build` on the main thread | no packet before every required sensor was heard; position and altitude from the configured source; frames that fit those of the odometry |
| `src/MotorMapper.cc` | none | reorder, map, convert | rotor velocities within the configured range |
| `src/UdpSocket.cc` | a descriptor and the kernel's buffer | bind, receive, send | an empty socket is no error; every other failure is an exception |
| TFmini output, `src/Rangefinder.cc` | last scan, TCP socket, `connecting`, times of attempt and output | scan callback, connect, complete, send, close | a valid distance in a frame is what a fresh scan measured; a lost connection comes back |
| MAVLink rangefinder, `src/Rangefinder.cc` | last scan, the scan sent last, time of output | scan callback, check, send | each answer has a scan; obstacle messages flow and become unknown |
| Odometry, `src/Odometry.cc` | last sample, generation, last time, origin, reset counter | callback, `Update`, `Convert` | a consumer can tell every frame change by the reset counter and gets the vehicle's motion out of a message |
| Configuration, `src/Config.cc` | none | load and validate | only usable configurations reach the others, so an accepted one starts |
| Process life, `src/main.cpp`, the constructors and destructors | members built so far, descriptors | construct in order, run, unwind | each descriptor has one owner; the loop finds the sockets it uses |
| `gzimgsrc`, `gst/gst_gzimgsrc` | a heap-allocated `SourceState` with mutex, condition variable, frame and user count; the element's own lock | `start`, `stop`, `create`, `finalize`, image callback | the state outlives its users, shutdowns end, frames in order |
| `controlledreddetect`, `gst/gst_detector` | caps and seven properties | per-frame detection | one set of thresholds per frame |
| MSP client, `scripts/msp_core` | TCP socket, receive buffer | connect, send, request, parse | an answer belongs to its request |
| Motor GUI, `scripts/tools/motor_velocity_gui.py` | running flag, motor, velocity, timer | start, publish, stop, close | what it shows is what Gazebo does |
| Other tools, missions, worlds, models, scripts, Betaflight patch | little | — | — |

How they interact. SITL and the bridge exchange UDP datagrams; Gazebo calls the
sensor, scan and odometry callbacks on its transport threads, and each shares a
last value with the main thread under one lock. The main thread does everything
else in a fixed order, a millisecond apart. A TFmini mapping is a TCP client of
a UART that SITL serves. Every failed socket call other than those on a TFmini
connection is an exception that ends the process. In `gzimgsrc` the application
thread, the streaming thread and a transport thread meet at the `SourceState`.
SIGINT and SIGTERM set a flag that the loop reads once per iteration.

What is hard here: datagrams arriving while the socket is drained; a latch set
in one function and cleared in another; sensors heard in any order; a TCP
handshake in flight; locks given up between a check and a use; a state deleted
while other threads still use it; resets of the simulation seen only through
their effect on time; 8- and 16-bit fields; failures in the middle of the loop.
`PROJECT.json` lists each of these hazards at its line, with the properties
that would catch it.

## 2. Modules

| Module | Models | Checked by |
|---|---|---|
| `MotorMapping` | the pure path from packet to velocity | through `BridgeApp` |
| `BridgeApp` | the main loop and its environment | `MCBridgeApp`, `BridgeApp_proofs` |
| `MotorFailsafe` | abstract: what Gazebo may be told about rotors | `ImplementsFailsafe` |
| `TfminiLink` | one TFmini mapping and its TCP connection | `MCTfminiLink`, `TfminiLink_proofs` |
| `RangefinderMavlink` | one MAVLink rangefinder mapping | `MCRangefinderMavlink`, `RangefinderMavlink_proofs` |
| `Frames` | the changes of frame of the FDM builder and the odometry converter | through `Odometry` |
| `Odometry` | odometry callback, `Update`, converter | `MCOdometry`, `Odometry_proofs` |
| `Config` | defaults, loading and validation | through `Startup` |
| `Startup` | the life of the process: configuration, constructors, descriptors, destructors | `MCStartup`, `Startup_proofs` |
| `GzImgSrc` | the camera source with its three threads | `MCGzImgSrc`, `GzImgSrc_proofs` |
| `FrameMailbox` | abstract: which frames the camera source may push | `ImplementsMailbox` |
| `RedDetect` | the filter that looks for red pixels, and its properties | `MCRedDetect`, `RedDetect_proofs` |
| `MspClient` | requests and answers of the MSP client library | `MCMspClient.cfg`, `MspClient_proofs` |

`BridgeApp` extends `MotorMapping` and instantiates `MotorFailsafe`; `Startup` extends
`Config`; `Odometry` extends `Frames`; `GzImgSrc` instantiates `FrameMailbox`. Each
`X_proofs` extends `X`.

Conventions. An action is a stretch of code that no other thread can divide: a
section under a lock, or the code between two points where another party can
act. Time is counted in ticks, and a clock reading is kept as its age, counted
up to the limit it is compared with; the code never uses a reading in another
way. Operators called `X_Y` that follow the comment "Mutant" are variants of
`X` with a plausible mistake in them; no specification uses them, and every
checked property is known to fail under at least one.

**BridgeApp.** `pc` names the function the main loop is about to call:
`BeginIteration` (the test of the stop flag), `ReceiveDatagram` and
`SocketEmpty` (`ReceiveMotorPackets`, one step for each datagram, since more
may arrive in between), `PublishMotorCommand`, `SendFdm`, `UpdateRangefinders`,
`UpdateOdometry`, `SendMavlinkHeartbeat`, and `PublishZerosAndStop` after the
loop. `…Throws` actions are the exceptions of `UdpSocket`; they leave `pc` at
`failed`. `arrived` is the kernel's receive buffer, which drops what does not
fit. `newest` is a history variable: the last usable packet put in it. Rotor
commands are integers in units of 1/`FullScale`, so the interpolation is exact.
`LogStatusIfNeeded` and the sleep change nothing the properties see.

**MotorFailsafe.** A setpoint holds for `Timeout` ticks, drives the rotors
while it holds, and an orderly end leaves them at rest. `BridgeApp` implements
it with `setpoint` mapped to the velocities of the last command and `mode` to
whether the loop runs; neither the queue nor the latch shows.

**TfminiLink.** `UpdateTfmini` is three steps, connect, completion and output.
`link` is what the kernel knows of the connection, `tcp` and `connecting` what
the mapping believes. `local` says whether the peer is on this machine, where
the handshake is over when `connect` returns. `heard` is the distance
Betaflight has.

**RangefinderMavlink.** `Check` and the three sends are the two sections under
the mapping's lock; scans may come between them. `unanswered` is a history
variable. `kind` is the message of the mapping, chosen at the start.

**Frames.** Vectors and quaternions have integer components. A quaternion stands
for a rotation whatever its norm, so normalising is left out, and with it every
square root and division of the code; what is left is exact. `Rotation(q)` is
the rotation matrix times the squared norm. `FluVectorToFrdSensor` and
`FluToFrd` are the same change of axes, written once in the FDM builder and once
in the odometry converter, so that the two can be compared.

**Odometry.** A pose is what one Gazebo message tells of the vehicle; `finite`
is false when a component is not a finite number. Time is in microseconds.
`shown` is a history variable, the pose the last message was made from.

**Config.** A file is a function from the keys it gives to their values, so a
missing key is a missing argument and `Loaded` lays it over the defaults. A
value that cannot be converted is `Malformed`; `NotANumber` is a double no
comparison holds of, as `Validate` compares it.

**Startup.** `Members` are the members of `BridgeApp` whose construction can
fail, in the order of their declaration, and then the three steps of the
constructor's body. `fd`, `destination` and `bound` are the `UdpSocket`s, `tcp`
the enabled TFmini mappings, `open` the kernel's table. `Topics` are the names
gz-transport takes for a topic; a `Subscribe` or `Advertise` of another name
returns false, and one of a valid name may. `outside` remembers that a system
call failed, or a subscription to a topic with a valid name: what fails
otherwise is the configuration's own doing. The two conditions that open MAVLink
sockets for the rangefinders, `HasMavlink` of `RangefinderManager` and
`HasMavlinkOutput` of `BridgeApp`, are two definitions, as in the code.

**RedDetect.** The image is what the conversion to HSV gives. `ReadThreshold`
reads one of the six thresholds; between two of them the application may set a
property. `first` and `last` in `pushed` are the settings at the frame's
beginning and end.

**MspClient.** `pc` is `loop` at the test of the deadline and `recv` in the
wait for bytes. An answer comes in two pieces, which is enough for a frame cut
anywhere. `abandoned` and `badFrames` are history variables. Requests are
numbered, which the code does not do. The tools of the repository open one
connection and stop at the first error; the library promises no such thing, so
the model lets the caller go on, and connect again.

**GzImgSrc.** `heap` holds the `SourceState` of each start. `app`, `stream` and
`callback` are the places of the three threads. `releaseState` on the two paths
that run while a lock guard is in scope leaves an `owner` of the mutex, which a
later step unlocks. The base class may call `stop` in two ways: `GstBaseSrc`
waits for the streaming thread first, while the element's own protocol, with
its flag and notification, is written for a `stop` that runs beside `create`.
`JoinBeforeStop` is the set of ways the run allows, and it allows both.
`FailingStarts` are the starts whose subscription may fail; the run has all of
them. Such a start deletes its state at once, even when a callback of the
element's previous life holds it: `deserted`, a history field, marks the state,
and the freed memory reads as anything from then on. `Finalize` ends the element
for good.

**FrameMailbox.** A place for one waiting frame, one frame in hand, and the
frames pushed. `GzImgSrc` implements it with the mailbox the `frame` of the last
`SourceState`; a `stop` and a `create` that fails lose a frame. `Frames` of the
mailbox are those that pass the tests of `onGazeboImage`, so the refinement also
says that no other frame is ever pushed.

## 3. Runs

| Run | Question | Result |
|---|---|---|
| `bridge` | types, the inductive invariant (with the orderly stop and the FDM sources in it), timeout latch, newest command, range, refinement of `MotorFailsafe`, with any socket call failing; a silent SITL times out, stop honoured, FDM packets and heartbeats flow | holds |
| `bridge_exit` | rotors at zero however the bridge ends | violated by an exception |
| `bridge_timeout` | rotors at zero after SITL falls silent | violated when the minimum velocity is above zero |
| `tfmini` | link, flag and descriptor agree; a valid distance is a fresh reading, up to the turns of the 16-bit cast; a silent lidar is reported; a local peer that listens is fed again and again | holds |
| `tfmini_remote` | a listening peer is fed, when it is on another machine | violated |
| `rangefinder_mavlink` | an answer for each scan at most; a distance within its own maximum; obstacle messages flow and become unknown | holds |
| `odometry` | a consumer that turns the velocities by the quaternion gets the vehicle's; FDM packets tell the same; positions move as the vehicle does or start anew with a new counter; time goes back only with a new counter | holds |
| `startup` | one owner for each descriptor; the loop finds its sockets; an accepted configuration starts but for `sitl.address` and topic names | holds |
| `gzimgsrc` | `stop` deletes no state that is in use; the element is a mailbox; a shutdown hangs only where it waits for a frame; stored frames are taken | holds |
| `gzimgsrc_unlock` | a mutex is not destroyed before it is unlocked | violated |
| `red_detect` | with one change per frame, the box is that of one setting | holds |
| `msp_client` | an answer lags by no more requests than were abandoned; a bad checksum comes from a new connection | holds |

Each violation quotes the sentence of the docs it contradicts under `findings`
in `PROJECT.json`. More deviations are in the models but have no run of their
own; the hazards list them:

* a simulation reset is not counted when no valid sample arrives before the new
  run has reached the last time sent, where
  `docs/design/optical_flow_odometry.md` would count it;
* a shutdown of `gzimgsrc` while no image comes never ends, where the element's
  plan says that it does not deadlock; `ShutdownHangsOnlyForFrame` says that
  this is the one place;
* a lidar that measures more than 655.35 m is cut to 16 bits before the limit is
  tested, so 660 m is sent as a valid 4.64 m, where `docs/design/rangefinder.md`
  asks for 1201; the run measures 66000 cm, and `ValidFrameIsFreshReading` says
  what such a frame holds. In the MAVLink output `maxCm + 1` may wrap to zero,
  and a beam that meets nothing is sent as unknown, where the same document asks
  for `max_distance + 1`;
* image rows keep Gazebo's stride and are pushed under caps that have none, for
  which GStreamer expects rows rounded up to 4 bytes;
* `Validate` lets a NaN pass, and does not look into `sitl.address` and the names
  of topics, which fail in the constructors;
* TFmini endpoints are unique as texts only: two loopback addresses, or one and
  0.0.0.0, lead to one UART;
* a subscription of `gzimgsrc` that fails on a restart while an old callback is
  still under way deletes the state that callback holds. `StopSparesHeldStates`
  excepts this state, by `deserted`; without the exception TLC finds the trace;
* two properties set while `controlledreddetect` processes one frame may give a
  box that belongs to no setting.

Bounds and why they are enough:

* `BridgeApp`: a receive buffer of two datagrams is the smallest in which a
  newer packet follows an older one and a third is dropped; four kinds of
  datagram cover usable, out of range, not finite and truncated, and the two
  usable ones differ in every motor, so a swapped order shows. A timeout of two
  ticks has a tick before, at and after the limit. NavSat is required and the
  GPS the source of altitude, which is the longer way to a ready snapshot.
  `bridge_timeout` needs one kind of datagram, one place in the buffer and no
  failing socket.
* `TfminiLink`: ranges in, at and just past the limit, the last that fits 16 bits
  and one past it, negative, not finite and missing; the retry period is longer
  than the sample's life, so a lidar can fall silent while the link is down.
* `RangefinderMavlink`: two maxima and ranges on each side of them and of 16
  bits. `MaxUnanswered` is 2, as one answer is under way and one to come at
  most.
* `Odometry`: `MaxTime` lets a new run stay behind, catch up with and overtake
  the old one; the counter wraps. The eight valid poses take the four branches
  of the quaternion conversion, their boundaries included, and tilt about every
  axis; two more have no attitude and no finite value. The velocities differ in
  every component, so that swapped axes and signs show.
* `Startup`: two good files, and every key of them replaced by each of the values
  at and past the limits of its rule, one key at a time, 141 files; topics are
  empty, valid, or neither. Two mappings are enough for every rule on pairs.
* `RedDetect`: two channels, two levels and three by two pixels: matching pixels
  in corners, in one row, in one column, and none. Two changes per frame, one
  more than the property allows for.
* `MspClient`: four requests of two commands and two new connections: an answer
  can be late by several requests, be skipped, and be cut by a new connection.
* `GzImgSrc`: three images and three lives of the element, so that a callback of the first can meet
  a failed restart and a good one after it; any of the three subscriptions may
  fail; one callback at a time, as one subscription delivers one message at a
  time.

`CHECK_DEADLOCK FALSE` is set where the program really ends: `BridgeApp`, whose
process terminates, `Startup` likewise, `GzImgSrc`, whose element is finalized
and whose starts and images are bounded, and `MspClient`, whose requests are.

Fairness and its ground:

* `BridgeApp`: the operating system runs the main thread (`WF` on its steps)
  and the clock advances (`WF` on `Tick`). Nothing is assumed of SITL, Gazebo
  or the operator, hence the premise that SITL does not send without end: the
  drain loop has no bound, and each liveness property names that.
* `TfminiLink`: the main loop calls the update and the clock advances between
  two calls (`SF` on `Tick`, which is disabled during an update). `connect` and
  `send` may fail at any time but not for ever while they could succeed (`SF`).
  The end of a handshake has `WF` only: the network answers, but in its own
  time, and the bridge closes its socket before that.
* `RangefinderMavlink`: as in `TfminiLink`, without the network.
* `GzImgSrc`: each thread is scheduled (`WF`). The application need not stop,
  and Gazebo need not send.

## 4. Proofs

Every invariant, every action property and both refinements that a passing run
checks are theorems, for every value of the constants that the assumptions of
the modules allow, and under no other hypothesis. The bounds that keep a run
finite (`MaxTime`, `MaxRequests`, `MaxStarts` and the like) are arbitrary
naturals there. `PROJECT.json` lists the theorems with the properties they
state.

**`BridgeApp_proofs`**: `TypeCorrect`, `LatchTruthful`, `RotorsWithinRange`,
`OrderlyStop`, `FdmSources`, `NewestDrives` and `BridgeImplementsFailsafe`, for
every accepted map, velocity range, packet set, buffer size and period. The
assumptions are what `ConfigLoader::Validate` enforces, plus the shape of a
datagram. Most of the properties are not inductive by themselves. The latch
needs the age of a command that was never received to be past the timeout
(`BeforeFirstPacket`). "The newest packet drives the rotors" compares the
rotors with a packet that entered the queue several steps earlier, so it needs
the two halves of the way: while a usable datagram is queued, the last usable
one is the newest (`NewestIsLastUsable`), and once none is queued the newest is
the last command (`NewestIsLastCommand`); and after a publication the rotors
are idle or follow the last command (`PublishedLastCommand`).
`InductiveInvariant` joins them with the properties. `EachMotorTurnsOneRotor`
says that a packet's order and an accepted map lose no motor's command and give
none twice, since four different indices of four are all of them;
`MoreThrottleIsNotSlower` that the conversion is monotone.

**`GzImgSrc_proofs`**: `GzImgSrcImplementsMailbox`, `StopSparesTheHeld` and
`GzImgSrcTypeCorrect`, for any number of images and restarts, for both ways in
which the base class may call `stop`, and whichever subscriptions fail. Three
invariants carry them. `ShapeOK` is the type of every variable but the user
counts. `FrameOrder`: a frame that waits, is in hand or was pushed has passed the
tests of `onGazeboImage`, and one the callback has yet to store is later than
all of them. `Lives`: only the last state is alive, its user count is the number
of threads between `acquireState` and `releaseState`, and nobody holds it when
`stop` comes to delete it. A state that a failed `start` deleted is dead and
`deserted`: its memory may read as anything, and a callback that still holds it
stores nothing that is ever pushed.

**`TfminiLink_proofs`**: `TfminiTypeCorrect`, `SocketsAgree`, `ValidFramesAreFresh`,
for all periods, ranges and places of the peer. `SocketInvariant` is
`SocketAgreesWithLink` in every step of an update instead of between updates,
and with it that a local peer never leaves a handshake open. A valid frame was
made from a fresh scan; that the cast in `Centimetres` changes it by multiples
of 65536 only is `CastTakesTurns`.

**`RangefinderMavlink_proofs`**: `RangefinderTypeCorrect`,
`EveryAnswerHasItsScan`, `DistancesStayWithinMaximum`. The three are inductive
together; the second is what keeps the count in its type, and the third rests on
the conversion to centimetres being monotone up to the clamp.

**`Odometry_proofs`**: `OdometryTypeCorrect`, `TimeGoesBackWithReset`,
`PositionsFollowVehicle`, `MessagesShowMotion`, `PacketsAndMessagesAgree`, for
every set of poses. `MessageOfShown` says that the last message is the
conversion of `shown` under the origin and counter the converter still has; the
action properties compare it with the next one. The rest is algebra, for every
nonzero quaternion: the four branches of the matrix-to-quaternion conversion
give multiples of one quaternion, the rotation of a multiple is the rotation
scaled by the square, and the FDM's conjugation is a half turn about the forward
axis on both sides. Sums of products of four factors are split until each leaf
is linear in the monomials.

**`Startup_proofs`**: `StartupTypeCorrect`, `OneOwnerPerDescriptor`,
`SocketsAreReady`, `ValidFilesStart`, for every set of files, addresses and topic
names. `Typed` adds to the types that the mappings are those the file enables.
`Owned` has the owners' descriptors pairwise different, and
needs `NotYetOpened`: a socket whose constructor has not run has no descriptor
that the run of it could lose. `Progress` tells for every member built so far
which sockets are open and directed, `Accepting` that its topics and its address
were taken, and `Escapes` what a failure was about: `ConstructTakesOrThrows` goes
through the members. The one assumption is that -1 is no descriptor
(`ClosedAssumption`).

**`MspClient_proofs`**: `MspClientTypeCorrect`, `LagOfAnswersIsBounded`,
`ConnectionsPayForBadFrames`, for any number of requests, commands and new
connections. The proof looks at `Stream`, all the bytes between Betaflight and
the caller: the client's buffer, the wire and what the device has not sent.
`Queued`: the answers on it begin in the order of their requests. `Lag`: for
each of them, the requests of its command that ended since it was asked are no
more than those abandoned; a request ends by an answer, which takes the first
one of its command away, or by being given up, which raises the bound. `Cuts`:
the broken frames on the stream and those already counted are no more than the
connections made, because only closing a connection breaks a frame, and one at
most.

**`RedDetect_proofs`**: `RedDetectTypeCorrect`, `VerdictIsOfOneSetting`, for
every image size, number of levels and number of changes. `AtMostOneChange`: after
one change the thresholds read so far are, one by one, those of the beginning
or those of now, and the two differ in one threshold at most, so what is read in
the end is one of the two. That the box describes the matching pixels needs the
least and greatest coordinate of a finite set to exist; `LeastNatural` and
`GreatestNatural` prove it by a least counterexample.

Only model-checked:

* liveness, since fairness and `ENABLED` are out of TLAPS's reach:
  `SilentSitlTimesOut`, `StopRequestEndsBridge`, `PeriodicOutputFlows`,
  `SilentLidarIsReported`, `LocalPeerIsFed`, `SilentLidarBecomesUnknown`,
  `ObstacleKeepsFlowing`, `ShutdownHangsOnlyForFrame`, `StoredFrameIsTaken`;
* the four violations, which are counterexamples.

## 5. Assumed of the outside

* `gst_base_src_stop` sets the pad flushing, joins the streaming thread and
  then calls the element's `stop`; there is no `unlock` function for it to call
  first.
* A callback that gz-transport has dispatched may run after `Unsubscribe`, but
  none begins once the element is finalized; one subscription delivers one
  message at a time. Memory that was freed reads as anything.
* `yaml-cpp` converts a scalar or throws; `inet_pton` accepts addresses and no
  names; gz-transport refuses some names of topics, empty or not; the kernel
  gives the lowest free descriptor.
* Betaflight answers MSP requests in their order and with good checksums; bytes
  of one TCP connection arrive in order.
* `cv::inRange` includes both limits and `cv::boundingRect` is the smallest box.
* The kernel drops the arriving datagram when the receive buffer is full.
* `SO_ERROR` is 0 while a non-blocking `connect` is under way, and `send` then
  fails with `EAGAIN`. To a local address, the handshake or the refusal is
  complete when `connect` returns.
* A signal handler runs at any point; only the flag it sets is shared.

## 6. Not modelled

* The barometric formula, a power with a fractional exponent, and the rounding
  of doubles to floats: real arithmetic, which TLC does not have.
* The text of YAML files, logging, the packing of MAVLink messages and of MSP
  payloads, OpenCV's conversion to HSV: formats without state of the program's.
* `rc.py`, `telemetry.py`, `timing.py`: unpacking and a sleep.
* The motor GUI: one thread and one timer; its hazard is one branch of one
  handler. The other tools and the missions are scripts that run once.
* The move operations of `UdpSocket`, which nothing calls; the `topic` property
  of `gzimgsrc`, which only `start` reads; plugin registration.
* Gazebo, SITL, kernel and GStreamer, except as environments.
* The values of sensors, beyond what the frames and the odometry show.
* The destruction of subscriptions beside their callbacks: `Startup` destroys
  in one step. Whether a callback is still under way then is decided inside
  gz-transport; the hazards list the order of declarations that makes it matter.

## 7. Plan

The motor path came first, since it is what keeps a vehicle safe, then the
parts with a protocol of their own, then configuration and start, the filter
and the MSP client; then the proofs of all safety properties. What is left:

1. The safety half of the liveness properties as action properties, where one
   can be stated: that the age of a command, a scan or a sample leads to the
   fail-safe output in a bounded number of ticks.
2. Lemmas of `Config`: that the defaults are accepted, and that `Loaded` keeps
   what a file does not name.
3. A common invariant of the mappings and the descriptors of `Startup` with the
   connection of `TfminiLink`, which model one socket at two levels of detail.
