---------------------- MODULE RangefinderMavlink_proofs ----------------------
(***************************************************************************)
(* Proofs about RangefinderMavlink, for any lidar and any limit of age and *)
(* output period.                                                          *)
(***************************************************************************)
EXTENDS RangefinderMavlink, TLAPS

-----------------------------------------------------------------------------
(* Operators. *)

\* What Sample hands out of a scan is its range, not below zero, or nothing.
LEMMA SampleIsLastScan ==
    ASSUME scan \in Scans \cup {None}
    PROVE  Sample = NoRange \/ (scan # None /\ Sample = scan.range /\ Sample \in Nat)
<1>1. CASE scan = None
  BY <1>1 DEF Sample
<1>2. CASE scan # None
  <2>1. scan.range \in Int \cup {Infinite, NoRange}
    BY <1>2, RangesAssumption DEF Scans
  <2>. QED BY <1>2, <2>1 DEF Sample
<1>. QED BY <1>1, <1>2

\* The maximum distance of a scan is a natural number.
LEMMA MaximumIsNat ==
    ASSUME scan \in Scans \cup {None}
    PROVE  Maximum \in Nat
BY RangesAssumption DEF Maximum, Scans

\* Clamped fits the field of the message and keeps the order of distances.
LEMMA ClampedFits ==
    ASSUME NEW range \in Nat
    PROVE  Clamped(range) \in Nat /\ Clamped(range) <= Unknown
BY DEF Clamped, Unknown

\* Clamping to 16 bits keeps the order of two distances.
LEMMA ClampedIsMonotone ==
    ASSUME NEW low \in Nat, NEW high \in Nat, low <= high
    PROVE  Clamped(low) <= Clamped(high)
BY DEF Clamped

\* The bin of the beam fits its field, also where maxCm + 1 wraps.
LEMMA ObstacleBinFits ==
    ASSUME scan \in Scans \cup {None}
    PROVE  ObstacleBin \in Nat /\ ObstacleBin <= Unknown
<1>1. CASE Sample = NoRange
  BY <1>1 DEF ObstacleBin, Unknown
<1>2. CASE Sample # NoRange
  <2>1. Sample \in Nat /\ Maximum \in Nat
    BY <1>2, SampleIsLastScan, MaximumIsNat
  <2>2. CASE OverRange
    <3>1. ObstacleBin = (Clamped(Maximum) + 1) % 65536
      BY <1>2, <2>2 DEF ObstacleBin
    <3>2. Clamped(Maximum) + 1 \in Nat
      BY <2>1 DEF Clamped
    <3>. QED BY <3>1, <3>2 DEF Unknown
  <2>3. CASE ~OverRange
    <3>1. ObstacleBin = Clamped(Sample)
      BY <1>2, <2>3 DEF ObstacleBin
    <3>. QED BY <2>1, <3>1 DEF Clamped, Unknown
  <2>. QED BY <2>2, <2>3
<1>. QED BY <1>1, <1>2

\* A distance and a maximum of 16 bits make a message.
LEMMA MessageOfFields ==
    ASSUME NEW distance \in Nat, NEW max \in Nat, distance <= Unknown, max <= Unknown
    PROVE  [distance |-> distance, max |-> max] \in Messages
<1>1. Unknown \in Nat
  BY DEF Unknown
<1>. QED BY <1>1 DEF Messages

-----------------------------------------------------------------------------
(* The inductive invariant: the types need that no answer lacks a scan, and *)
(* a distance within its maximum needs the types.                           *)

RangefinderInvariant == TypeOK /\ AnswersHaveScans /\ DistanceWithinOwnMaximum

\* The invariant holds at the start.
LEMMA InitInvariant == Init => RangefinderInvariant
<1> SUFFICES ASSUME Init PROVE RangefinderInvariant OBVIOUS
<1>1. StaleAfter + 1 \in 0 .. StaleAfter + 1 /\ OutputPeriod \in 0 .. OutputPeriod
  BY PeriodAssumption
<1>2. TypeOK
  <2>1. unanswered \in 0 .. MaxUnanswered
    BY DEF Init, MaxUnanswered
  <2>. QED BY <1>1, <2>1 DEF Init, TypeOK
<1>. QED BY <1>2 DEF Init, RangefinderInvariant, AnswersHaveScans, DistanceWithinOwnMaximum

\* Nothing but a message changes the last one.
LEMMA QuietStep ==
    ASSUME RangefinderInvariant, kind' = kind, message' = message
    PROVE  DistanceWithinOwnMaximum'
BY DEF RangefinderInvariant, DistanceWithinOwnMaximum

\* An answer leaves a scan to every answer still to come.
LEMMA AnswerStep ==
    ASSUME RangefinderInvariant, pc = "send", Answered, UNCHANGED <<kind, unsent>>
    PROVE  /\ unanswered' \in 0 .. MaxUnanswered
           /\ AnswersHaveScans'
<1>1. unanswered \in Nat /\ unanswered <= 2
  BY DEF RangefinderInvariant, TypeOK, MaxUnanswered
<1>2. CASE kind = "distance_sensor"
  BY <1>1, <1>2 DEF RangefinderInvariant, AnswersHaveScans, Answered, MaxUnanswered
<1>3. CASE kind # "distance_sensor"
  BY <1>3 DEF AnswersHaveScans, Answered, MaxUnanswered
<1>. QED BY <1>2, <1>3

\* Every step keeps the invariant.
LEMMA InvariantStep == RangefinderInvariant /\ [Next]_vars => RangefinderInvariant'
<1> SUFFICES ASSUME RangefinderInvariant, [Next]_vars PROVE RangefinderInvariant' OBVIOUS
<1>0. TypeOK /\ AnswersHaveScans /\ DistanceWithinOwnMaximum
  BY DEF RangefinderInvariant
<1>1. ASSUME NEW range \in Ranges, NEW max \in Maxima, OnScan(range, max)
      PROVE  RangefinderInvariant'
  <2>1. TypeOK'
    BY <1>0, <1>1, PeriodAssumption DEF OnScan, TypeOK, Scans, MaxUnanswered
  <2>2. AnswersHaveScans'
    BY <1>0, <1>1 DEF OnScan, TypeOK, AnswersHaveScans, MaxUnanswered
  <2>. QED BY <1>1, <2>1, <2>2, QuietStep DEF OnScan, RangefinderInvariant
<1>2. CASE Tick
  <2>1. TypeOK'
    BY <1>0, <1>2, PeriodAssumption DEF Tick, TypeOK, Older
  <2>2. AnswersHaveScans'
    BY <1>0, <1>2 DEF Tick, AnswersHaveScans
  <2>. QED BY <1>2, <2>1, <2>2, QuietStep DEF Tick, RangefinderInvariant
<1>3. CASE Check
  <2>1. TypeOK'
    BY <1>0, <1>3 DEF Check, MarkSent, TypeOK
  <2>2. AnswersHaveScans'
    BY <1>0, <1>3 DEF Check, MarkSent, RepeatDue, TypeOK, AnswersHaveScans
  <2>. QED BY <1>3, <2>1, <2>2, QuietStep DEF Check, RangefinderInvariant
<1>4. CASE SendDistanceSensor
  <2>1. unanswered' \in 0 .. MaxUnanswered /\ AnswersHaveScans'
    BY <1>4, AnswerStep DEF SendDistanceSensor
  <2>2. Sample \in Nat /\ Maximum \in Nat /\ Sample <= Maximum
    BY <1>0, <1>4, SampleIsLastScan, MaximumIsNat DEF SendDistanceSensor, OverRange, TypeOK
  <2>3. message'.distance <= message'.max /\ message' \in Messages
    <3>1. message' = [distance |-> Clamped(Sample), max |-> Clamped(Maximum)]
      BY <1>4 DEF SendDistanceSensor
    <3>2. Clamped(Sample) <= Clamped(Maximum)
      BY <2>2, ClampedIsMonotone
    <3>3. message' \in Messages
      BY <2>2, <3>1, ClampedFits, MessageOfFields
    <3>. QED BY <3>1, <3>2, <3>3
  <2>4. TypeOK'
    BY <1>0, <1>4, <2>1, <2>3, PeriodAssumption DEF SendDistanceSensor, Answered, TypeOK
  <2>5. DistanceWithinOwnMaximum'
    BY <2>3 DEF DistanceWithinOwnMaximum
  <2>. QED BY <2>1, <2>4, <2>5 DEF RangefinderInvariant
<1>5. CASE SkipInvalid
  <2>1. unanswered' \in 0 .. MaxUnanswered /\ AnswersHaveScans'
    BY <1>5, AnswerStep DEF SkipInvalid
  <2>2. TypeOK'
    BY <1>0, <1>5, <2>1 DEF SkipInvalid, Answered, TypeOK
  <2>. QED BY <1>5, <2>1, <2>2, QuietStep DEF SkipInvalid, RangefinderInvariant
<1>6. CASE SendObstacleDistance
  <2>1. unanswered' \in 0 .. MaxUnanswered /\ AnswersHaveScans'
    BY <1>6, AnswerStep DEF SendObstacleDistance
  <2>2. message' \in Messages
    <3>1. ObstacleBin \in Nat /\ ObstacleBin <= Unknown /\ Maximum \in Nat
      BY <1>0, ObstacleBinFits, MaximumIsNat DEF TypeOK
    <3>. QED BY <1>6, <3>1, ClampedFits, MessageOfFields DEF SendObstacleDistance
  <2>3. TypeOK'
    BY <1>0, <1>6, <2>1, <2>2, PeriodAssumption DEF SendObstacleDistance, Answered, TypeOK
  <2>4. DistanceWithinOwnMaximum'
    BY <1>6 DEF SendObstacleDistance, DistanceWithinOwnMaximum
  <2>. QED BY <2>1, <2>3, <2>4 DEF RangefinderInvariant
<1>7. CASE UNCHANGED vars
  BY <1>0, <1>7
  DEF vars, RangefinderInvariant, TypeOK, AnswersHaveScans, DistanceWithinOwnMaximum
<1>. QED BY <1>1, <1>2, <1>3, <1>4, <1>5, <1>6, <1>7 DEF Next, Update

\* The invariant holds in every state.
LEMMA InvariantHolds == Spec => []RangefinderInvariant
BY InitInvariant, InvariantStep, PTL DEF Spec

-----------------------------------------------------------------------------
\* Every variable keeps its type: distances and maxima fit the 16 bits of their
\* fields, and no more answers are sent than there were scans.
THEOREM RangefinderTypeCorrect == Spec => []TypeOK
<1>1. RangefinderInvariant => TypeOK BY DEF RangefinderInvariant
<1>. QED BY <1>1, InvariantHolds, PTL

\* An answer under way or still to come has a scan of its own, although a scan
\* may come between the check of Update and the read of UpdateMavlink.
THEOREM EveryAnswerHasItsScan == Spec => []AnswersHaveScans
<1>1. RangefinderInvariant => AnswersHaveScans BY DEF RangefinderInvariant
<1>. QED BY <1>1, InvariantHolds, PTL

\* A DISTANCE_SENSOR message stays within its own maximum, whatever scans came
\* since, for distances beyond 16 bits too (UpdateMavlink).
THEOREM DistancesStayWithinMaximum == Spec => []DistanceWithinOwnMaximum
<1>1. RangefinderInvariant => DistanceWithinOwnMaximum BY DEF RangefinderInvariant
<1>. QED BY <1>1, InvariantHolds, PTL
=============================================================================
