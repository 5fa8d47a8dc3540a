----------------------------- MODULE RedDetect ------------------------------
(***************************************************************************)
(* The GStreamer filter controlledreddetect: it looks for pixels whose hue,*)
(* saturation and value lie between thresholds and attaches their bounding *)
(* box to the buffer.  The application thread sets the thresholds, which   *)
(* are properties, while the streaming thread reads them, without a lock.  *)
(*                                                                         *)
(* An image is what OpenCV's conversion to HSV gives: a level for every    *)
(* channel of every pixel.  The read of one property is one step; C++ does *)
(* not say in which order the six thresholds are read.                     *)
(***************************************************************************)
EXTENDS Integers, FiniteSets, FiniteSetsExt

CONSTANTS
    Channels,       \* hue, saturation, value
    Levels,         \* the values of a channel
    Width, Height,  \* of the images
    Images,         \* the images that may come
    MaxChanges,     \* bound on the properties set while a frame is processed
    None

Pixels == (0 .. Width - 1) \X (0 .. Height - 1)
Thresholds == {"low", "high"} \X Channels

ASSUME LevelsAssumption == Levels \subseteq Nat /\ IsFiniteSet(Levels) /\ Levels # {}
ASSUME ImagesAssumption == Images \subseteq [Pixels -> [Channels -> Levels]]
ASSUME BoundsAssumption == Width \in Nat /\ Height \in Nat /\ MaxChanges \in Nat

Settings == [enabled : BOOLEAN, threshold : [Thresholds -> Levels]]
Metas == [found : BOOLEAN, x : Nat, y : Nat, width : Nat, height : Nat]

VARIABLES
    settings,       \* the properties
    pc,             \* where transform_ip is
    frame,          \* the image it processes and the settings when it began
    seen,           \* the thresholds it has read
    changes,        \* the properties set since
    pushed          \* the meta on the last buffer and what it was made from

vars == <<settings, pc, frame, seen, changes, pushed>>

\* gst_controlled_red_detect_init; only the order of the levels matters.
Init ==
    /\ settings = [enabled |-> TRUE,
                   threshold |-> [t \in Thresholds |-> IF t[1] = "low" THEN Min(Levels) ELSE Max(Levels)]]
    /\ pc = "idle"
    /\ frame = None
    /\ seen = << >>
    /\ changes = 0
    /\ pushed = None

-----------------------------------------------------------------------------
(* The application thread. *)

SetProperty(new) ==
    /\ settings' = new
    /\ pc = "thresholds" => changes < MaxChanges
    /\ changes' = IF pc = "thresholds" THEN changes + 1 ELSE changes
    /\ UNCHANGED <<pc, frame, seen, pushed>>

SetEnabled(value) == SetProperty([settings EXCEPT !.enabled = value])

\* GLib refuses a level that is out of range before the element sees it.
SetThreshold(t, level) == SetProperty([settings EXCEPT !.threshold[t] = level])

-----------------------------------------------------------------------------
(* The streaming thread: gst_controlled_red_detect_transform_ip. *)

NotFound == [found |-> FALSE, x |-> 0, y |-> 0, width |-> 0, height |-> 0]

\* Mutant: the upper threshold itself is out of range.
InRange_Exclusive(pixel, threshold) ==
    \A c \in Channels : threshold[<<"low", c>>] <= pixel[c] /\ pixel[c] < threshold[<<"high", c>>]

\* cv::inRange.
InRange(pixel, threshold) ==
    \A c \in Channels : threshold[<<"low", c>>] <= pixel[c] /\ pixel[c] <= threshold[<<"high", c>>]

\* Mutants: the last column is not counted; the far corner is taken for the
\* size.
BoundingRect_Narrow(points) ==
    LET xs == {p[1] : p \in points}
        ys == {p[2] : p \in points}
    IN  [found |-> TRUE, x |-> Min(xs), y |-> Min(ys),
         width |-> Max(xs) - Min(xs), height |-> Max(ys) - Min(ys) + 1]

BoundingRect_Corner(points) ==
    LET xs == {p[1] : p \in points}
        ys == {p[2] : p \in points}
    IN  [found |-> TRUE, x |-> Min(xs), y |-> Min(ys),
         width |-> Max(xs) + 1, height |-> Max(ys) + 1]

BoundingRect(points) ==
    LET xs == {p[1] : p \in points}
        ys == {p[2] : p \in points}
    IN  [found |-> TRUE, x |-> Min(xs), y |-> Min(ys),
         width |-> Max(xs) - Min(xs) + 1, height |-> Max(ys) - Min(ys) + 1]

Verdict(image, threshold) ==
    LET redPixels == {p \in Pixels : InRange(image[p], threshold)}
    IN  IF redPixels = {} THEN NotFound ELSE BoundingRect(redPixels)

\* attachDetectionMeta, which may fail, and the end of the frame.
Push(image, first, meta) ==
    /\ \E attached \in {meta, None} :
            pushed' = [image |-> image, meta |-> attached, first |-> first, last |-> settings,
                       changes |-> changes]
    /\ pc' = "idle"
    /\ frame' = None
    /\ seen' = << >>
    /\ changes' = 0
    /\ UNCHANGED settings

SkipFrame(image) ==
    /\ pc = "idle"
    /\ ~settings.enabled
    /\ Push(image, settings, NotFound)

StartFrame(image) ==
    /\ pc = "idle"
    /\ settings.enabled
    /\ frame' = [image |-> image, first |-> settings]
    /\ pc' = "thresholds"
    /\ pushed' = None
    /\ UNCHANGED <<settings, seen, changes>>

\* The buffer cannot be mapped with the size its caps promise: GST_FLOW_ERROR
\* ends the stream.
MapFails ==
    /\ pc = "idle"
    /\ settings.enabled
    /\ pc' = "error"
    /\ pushed' = None
    /\ UNCHANGED <<settings, frame, seen, changes>>

ReadThreshold(t) ==
    /\ pc = "thresholds"
    /\ t \notin DOMAIN seen
    /\ seen' = [u \in DOMAIN seen \cup {t} |-> IF u = t THEN settings.threshold[t] ELSE seen[u]]
    /\ UNCHANGED <<settings, pc, frame, changes, pushed>>

Detect ==
    /\ pc = "thresholds"
    /\ DOMAIN seen = Thresholds
    /\ Push(frame.image, frame.first, Verdict(frame.image, seen))

Next ==
    \/ \E value \in BOOLEAN : SetEnabled(value)
    \/ \E t \in Thresholds, level \in Levels : SetThreshold(t, level)
    \/ \E image \in Images : SkipFrame(image) \/ StartFrame(image)
    \/ MapFails
    \/ \E t \in Thresholds : ReadThreshold(t)
    \/ Detect

Spec == Init /\ [][Next]_vars

-----------------------------------------------------------------------------
(* Correctness. *)

\* Every variable keeps its type, and a box lies in the image.
TypeOK ==
    /\ settings \in Settings
    /\ pc \in {"idle", "thresholds", "error"}
    /\ frame # None => frame.image \in Images /\ frame.first \in Settings
    /\ DOMAIN seen \subseteq Thresholds /\ \A t \in DOMAIN seen : seen[t] \in Levels
    /\ changes \in 0 .. MaxChanges
    /\ pushed # None /\ pushed.meta # None =>
          /\ pushed.meta \in Metas
          /\ pushed.meta.x + pushed.meta.width <= Width
          /\ pushed.meta.y + pushed.meta.height <= Height

\* The meta says what is true of the image under these settings: it holds
\* every matching pixel and touches one on each of its four sides.
Describes(meta, image, s) ==
    LET Matches(p) == \A c \in Channels :
            image[p][c] \in s.threshold[<<"low", c>>] .. s.threshold[<<"high", c>>]
        right == meta.x + meta.width - 1
        bottom == meta.y + meta.height - 1
    IN  IF s.enabled /\ \E p \in Pixels : Matches(p)
          THEN /\ meta.found
               /\ \A p \in Pixels : Matches(p) =>
                     p[1] \in meta.x .. right /\ p[2] \in meta.y .. bottom
               /\ \A x \in {meta.x, right} : \E p \in Pixels : Matches(p) /\ p[1] = x
               /\ \A y \in {meta.y, bottom} : \E p \in Pixels : Matches(p) /\ p[2] = y
          ELSE meta = NotFound

\* While at most one property is set during a frame, what is attached is the
\* verdict of one setting, that of the frame's beginning or that of its end,
\* although the thresholds are read one by one without a lock.
VerdictOfOneSetting ==
    pushed # None /\ pushed.meta # None /\ pushed.changes <= 1 =>
        \/ Describes(pushed.meta, pushed.image, pushed.first)
        \/ Describes(pushed.meta, pushed.image, pushed.last)
=============================================================================
