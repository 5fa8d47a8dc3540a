------------------------- MODULE RangefinderMavlink -------------------------
(***************************************************************************)
(* One MAVLink rangefinder mapping: scans of the lidar become              *)
(* DISTANCE_SENSOR or OBSTACLE_DISTANCE messages.                          *)
(*                                                                         *)
(* The scan callback runs on a Gazebo transport thread.  Update, on the    *)
(* main thread, takes the mapping's lock twice: once to see whether there  *)
(* is a scan it has not sent, and once in UpdateMavlink to read it.  A     *)
(* scan may come in between, so the two are steps of their own.  That the  *)
(* UDP send may end the bridge is modelled in BridgeApp.                   *)
(*                                                                         *)
(* A scan has a range and the lidar's maximum, in centimetres; the minimum *)
(* travels with the maximum.                                               *)
(***************************************************************************)
EXTENDS Integers

CONSTANTS
    Ranges,         \* what the lidar may measure
    Maxima,         \* the maximum a scan may carry
    Infinite,       \* the range of a beam that came back from nothing
    NoRange,        \* std::nullopt
    None,           \* no scan, or no message, yet
    StaleAfter,     \* kStaleAfter, in ticks
    OutputPeriod    \* 50 ms, in ticks

ASSUME PeriodAssumption == StaleAfter \in Nat /\ OutputPeriod \in Nat \ {0}
ASSUME RangesAssumption ==
    /\ Ranges \subseteq Int \cup {Infinite, NoRange}
    /\ Maxima \subseteq Nat
    /\ Infinite \notin Int /\ NoRange \notin Int

VARIABLES
    kind,           \* mavlink_message of the mapping, which does not change
    pc,             \* where Update is
    scan,           \* metres and maxMetres of the last scan
    sampleAge,      \* now - sampleTime, at most StaleAfter + 1
    unsent,         \* sampleTime > lastSampleSent
    outputAge,      \* now - lastOutput, at most OutputPeriod
    message,        \* the last message sent
    unanswered      \* history: scans not yet answered, at most MaxUnanswered

vars == <<kind, pc, scan, sampleAge, unsent, outputAge, message, unanswered>>

Unknown == 65535            \* UINT16_MAX
MaxUnanswered == 2          \* one being answered and one seen since

Scans == [range : Ranges, max : Maxima]
Messages == [distance : 0 .. Unknown, max : 0 .. Unknown]

ASSUME NoneAssumption == None \notin Scans \cup Messages

Init ==
    /\ kind \in {"distance_sensor", "obstacle_distance"}
    /\ pc = "idle"
    /\ scan = None
    /\ sampleAge = StaleAfter + 1
    /\ unsent = FALSE
    /\ outputAge = OutputPeriod
    /\ message = None
    /\ unanswered = 0

-----------------------------------------------------------------------------
\* The subscription callback of the mapping.
OnScan(range, max) ==
    /\ scan' = [range |-> range, max |-> max]
    /\ sampleAge' = 0
    /\ unsent' = TRUE
    /\ unanswered' = IF unanswered < MaxUnanswered THEN unanswered + 1 ELSE unanswered
    /\ UNCHANGED <<kind, pc, outputAge, message>>

Older(age, limit) == IF age < limit THEN age + 1 ELSE age

Tick ==
    /\ pc = "idle"
    /\ sampleAge' = Older(sampleAge, StaleAfter + 1)
    /\ outputAge' = Older(outputAge, OutputPeriod)
    /\ UNCHANGED <<kind, pc, scan, unsent, message, unanswered>>

-----------------------------------------------------------------------------
(* Update. *)

\* Mutant: an obstacle message needs a new scan as well.
RepeatDue_Never == FALSE

RepeatDue == kind = "obstacle_distance" /\ outputAge >= OutputPeriod

\* Mutant: the scan is not marked as sent.
MarkSent_Missing == unsent' = unsent

\* lastSampleSent = sampleTime.
MarkSent == unsent' = FALSE

Check ==
    /\ pc = "idle"
    /\ unsent \/ RepeatDue
    /\ MarkSent
    /\ pc' = "send"
    /\ UNCHANGED <<kind, scan, sampleAge, outputAge, message, unanswered>>

\* Mutant: the age of the scan is not looked at.
Sample_IgnoresAge ==
    IF scan = None \/ scan.range \in {NoRange, Infinite} \/ scan.range < 0 THEN NoRange ELSE scan.range

\* What Sample returns.
Sample ==
    IF \/ scan = None
       \/ sampleAge > StaleAfter
       \/ scan.range \in {NoRange, Infinite}
       \/ scan.range < 0
    THEN NoRange
    ELSE scan.range

\* The maximum Sample hands out, zero before the first scan.
Maximum == IF scan = None THEN 0 ELSE scan.max

\* Mutant: no clamp.
Clamped_Missing(range) == range

\* Centimetres(std::clamp(metres, 0.0, 655.35)).
Clamped(range) == IF range > 65535 THEN 65535 ELSE range

\* Mutant: the maximum is not looked at.
OverRange_Never == FALSE

OverRange == Sample # NoRange /\ Sample > Maximum

\* The bin of the beam: maxCm + 1 is cut to 16 bits.
ObstacleBin ==
    IF Sample = NoRange THEN Unknown
    ELSE IF OverRange THEN (Clamped(Maximum) + 1) % 65536
    ELSE Clamped(Sample)

Answered ==
    /\ unanswered' = IF kind = "distance_sensor" THEN unanswered - 1 ELSE 0
    /\ pc' = "idle"

SendDistanceSensor ==
    /\ pc = "send"
    /\ kind = "distance_sensor"
    /\ Sample # NoRange /\ ~OverRange
    /\ message' = [distance |-> Clamped(Sample), max |-> Clamped(Maximum)]
    /\ outputAge' = 0
    /\ Answered
    /\ UNCHANGED <<kind, scan, sampleAge, unsent>>

SkipInvalid ==
    /\ pc = "send"
    /\ kind = "distance_sensor"
    /\ Sample = NoRange \/ OverRange
    /\ Answered
    /\ UNCHANGED <<kind, scan, sampleAge, unsent, outputAge, message>>

SendObstacleDistance ==
    /\ pc = "send"
    /\ kind = "obstacle_distance"
    /\ message' = [distance |-> ObstacleBin, max |-> Clamped(Maximum)]
    /\ outputAge' = 0
    /\ Answered
    /\ UNCHANGED <<kind, scan, sampleAge, unsent>>

Update ==
    \/ Check
    \/ SendDistanceSensor
    \/ SkipInvalid
    \/ SendObstacleDistance

Next ==
    \/ \E range \in Ranges, max \in Maxima : OnScan(range, max)
    \/ Tick
    \/ Update

\* The main loop calls Update and the clock advances between two calls.
Fairness == WF_vars(Update) /\ SF_vars(Tick)

Spec == Init /\ [][Next]_vars
FairSpec == Spec /\ Fairness

-----------------------------------------------------------------------------
(* Correctness. *)

\* Every variable keeps its type.
TypeOK ==
    /\ kind \in {"distance_sensor", "obstacle_distance"}
    /\ pc \in {"idle", "send"}
    /\ scan \in Scans \cup {None}
    /\ sampleAge \in 0 .. StaleAfter + 1
    /\ unsent \in BOOLEAN
    /\ outputAge \in 0 .. OutputPeriod
    /\ message \in Messages \cup {None}
    /\ unanswered \in 0 .. MaxUnanswered

\* A scan that comes between the check and the send is sent twice and the one
\* before it never, so there are never more answers than scans
\* (RangefinderManager::Update): an answer under way or still to come has a
\* scan of its own.
AnswersHaveScans ==
    kind = "distance_sensor" =>
        unanswered >= (IF pc = "send" THEN 1 ELSE 0) + (IF unsent THEN 1 ELSE 0)

\* The distance and the maximum of a message belong together, whatever scans
\* came in between: a DISTANCE_SENSOR message stays within its own maximum
\* ("Do not publish a range message for an invalid, no-return, or stale
\* sample", docs/design/rangefinder.md).
DistanceWithinOwnMaximum ==
    kind = "distance_sensor" /\ message # None => message.distance <= message.max

LidarScans == \E range \in Ranges, max \in Maxima : OnScan(range, max)

\* A lidar that falls silent is an unknown obstacle distance soon after, not
\* its last reading for good (the repeated send in Update).
SilentLidarBecomesUnknown ==
    \/ kind # "obstacle_distance"
    \/ []<><<LidarScans>>_vars
    \/ <>[](message # None => message.distance = Unknown)

\* Obstacle messages flow whether or not the lidar does (Update).
ObstacleKeepsFlowing == kind # "obstacle_distance" \/ []<><<SendObstacleDistance>>_vars
=============================================================================
