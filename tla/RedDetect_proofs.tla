-------------------------- MODULE RedDetect_proofs --------------------------
(***************************************************************************)
(* Proofs about RedDetect, for any images and any levels.                  *)
(***************************************************************************)
EXTENDS RedDetect, FiniteSetTheorems, TLAPS

-----------------------------------------------------------------------------
(* Extremes. *)

\* A set of naturals that is not empty has a least one.
LEMMA LeastNatural ==
    ASSUME NEW S \in SUBSET Nat, S # {}
    PROVE  Min(S) \in S /\ \A y \in S : Min(S) <= y
<1> DEFINE Less == OpToRel(<, Nat)
<1>1. IsWellFoundedOn(Less, Nat)
  BY NatLessThanWellFounded
<1>2. \A m, n \in Nat : <<m, n>> \in Less <=> m < n
  BY DEF OpToRel
<1> HIDE DEF Less
<1>3. PICK x \in S : \A y \in S : <<y, x>> \notin Less
  BY <1>1, WFMin
<1>4. ASSUME NEW y \in S PROVE x <= y
  <2>1. x \in Nat /\ y \in Nat
    OBVIOUS
  <2>2. ~(y < x)
    BY <1>2, <1>3, <2>1
  <2>. QED BY <2>1, <2>2
<1>. QED BY <1>4 DEF Min

\* One that is finite has a greatest one as well: a least number of elements
\* without one would leave, without one of them, a set that has one.
LEMMA GreatestNatural ==
    ASSUME NEW S \in SUBSET Nat, S # {}, IsFiniteSet(S)
    PROVE  Max(S) \in S /\ \A y \in S : Max(S) >= y
<1> DEFINE HasGreatest(T) == \E x \in T : \A y \in T : x >= y
<1> DEFINE Counter(n, T) == T # {} /\ IsFiniteSet(T) /\ Cardinality(T) = n /\ ~HasGreatest(T)
<1> DEFINE sizes == {n \in Nat : \E T \in SUBSET Nat : Counter(n, T)}
<1>1. sizes = {}
  <2> SUFFICES ASSUME sizes # {} PROVE FALSE
    OBVIOUS
  <2> DEFINE n == Min(sizes)
  <2>1. n \in sizes /\ \A m \in sizes : n <= m
    <3> HIDE DEF Counter
    <3>1. sizes \in SUBSET Nat
      OBVIOUS
    <3> HIDE DEF sizes
    <3>. QED BY <3>1, LeastNatural
  <2> HIDE DEF n
  <2>2. PICK T \in SUBSET Nat : Counter(n, T)
    BY <2>1
  <2>3. PICK x \in T : TRUE
    BY <2>2
  <2> DEFINE U == T \ {x}
  <2>4. IsFiniteSet(U) /\ Cardinality(U) = n - 1
    BY <2>2, <2>3, FS_RemoveElement
  <2>5. n - 1 \notin sizes /\ n - 1 \in Nat
    <3>1. n \in Nat /\ Cardinality(U) \in Nat
      BY <2>1, <2>4, FS_CardinalityType
    <3>2. n - 1 \in Nat
      BY <2>4, <3>1
    <3> HIDE DEF sizes
    <3>3. n - 1 \notin sizes
      BY <2>1, <3>1
    <3>. QED BY <3>2, <3>3
  <2>6. HasGreatest(T)
    <3>1. CASE U = {}
      <4>1. \A y \in T : y = x
        BY <3>1
      <4>2. x \in Nat
        BY <2>3
      <4>. QED BY <4>1, <4>2
    <3>2. CASE U # {}
      <4>1. HasGreatest(U)
        BY <2>4, <2>5, <3>2
      <4>2. PICK u \in U : \A y \in U : u >= y
        BY <4>1
      <4>3. x \in Nat /\ u \in Nat /\ u \in T
        BY <2>3
      <4>4. CASE u >= x
        <5>1. \A y \in T : u >= y
          BY <4>2, <4>4
        <5>. QED BY <4>3, <5>1
      <4>5. CASE x >= u
        <5>1. \A y \in T : x >= y
          BY <2>3, <4>2, <4>3, <4>5
        <5>. QED BY <5>1
      <4>. QED BY <4>3, <4>4, <4>5
    <3>. QED BY <3>1, <3>2
  <2>. QED BY <2>2, <2>6
<1>2. HasGreatest(S)
  <2>1. Cardinality(S) \in Nat
    BY FS_CardinalityType
  <2>. QED BY <1>1, <2>1
<1>. QED BY <1>2 DEF Max

-----------------------------------------------------------------------------
(* The bounding box. *)

\* The columns, or the rows, of some pixels have a first and a last one, in
\* the image.
LEMMA ExtremesInImage ==
    ASSUME NEW n \in Nat, NEW S \in SUBSET (0 .. n - 1), S # {}
    PROVE  /\ Min(S) \in S /\ Max(S) \in S /\ Min(S) \in Nat /\ Max(S) \in Nat
           /\ Max(S) < n /\ \A y \in S : Min(S) <= y /\ y <= Max(S)
<1>1. S \in SUBSET Nat /\ IsFiniteSet(S)
  <2>1. IsFiniteSet(0 .. n - 1)
    <3>1. n - 1 \in Int
      OBVIOUS
    <3>. QED BY <3>1, FS_Interval
  <2>2. IsFiniteSet(S)
    BY <2>1, FS_Subset
  <2>3. \A y \in S : y \in Nat
    OBVIOUS
  <2>. QED BY <2>2, <2>3
<1>2. Min(S) \in S /\ \A y \in S : Min(S) <= y
  BY <1>1, LeastNatural
<1>3. Max(S) \in S /\ \A y \in S : Max(S) >= y
  BY <1>1, GreatestNatural
<1> DEFINE least == Min(S)
<1> DEFINE greatest == Max(S)
<1> HIDE DEF least, greatest
<1>4. least \in S /\ greatest \in S /\ \A y \in S : least <= y /\ greatest >= y
  BY <1>2, <1>3 DEF least, greatest
<1>5. /\ least \in Nat /\ greatest \in Nat /\ greatest < n
      /\ \A y \in S : least <= y /\ y <= greatest
  BY <1>4
<1>6. /\ least \in S /\ greatest \in S /\ least \in Nat /\ greatest \in Nat
      /\ greatest < n /\ \A y \in S : least <= y /\ y <= greatest
  BY <1>4, <1>5
<1>. QED BY ONLY <1>6 DEF least, greatest

\* The box of some pixels lies in the image, holds all of them and touches one
\* on each of its four sides (boundingRect).
LEMMA BoxFits ==
    ASSUME NEW points \in SUBSET Pixels, points # {}
    PROVE  LET box == BoundingRect(points)
               right == box.x + box.width - 1
               bottom == box.y + box.height - 1
           IN  /\ box.found /\ box \in Metas
               /\ box.x + box.width <= Width /\ box.y + box.height <= Height
               /\ \A p \in points : p[1] \in box.x .. right /\ p[2] \in box.y .. bottom
               /\ \A x \in {box.x, right} : \E p \in points : p[1] = x
               /\ \A y \in {box.y, bottom} : \E p \in points : p[2] = y
<1> DEFINE xs == {p[1] : p \in points}
<1> DEFINE ys == {p[2] : p \in points}
<1>1. /\ xs \in SUBSET (0 .. Width - 1) /\ xs # {}
      /\ ys \in SUBSET (0 .. Height - 1) /\ ys # {}
  BY DEF Pixels
<1>2. Width \in Nat /\ Height \in Nat
  BY BoundsAssumption
<1> DEFINE left == Min(xs)
<1> DEFINE right == Max(xs)
<1> DEFINE top == Min(ys)
<1> DEFINE bottom == Max(ys)
<1>3. BoundingRect(points) = [found |-> TRUE, x |-> left, y |-> top,
                              width |-> right - left + 1, height |-> bottom - top + 1]
  BY DEF BoundingRect
<1>4. \A p \in points : p[1] \in xs /\ p[2] \in ys
  OBVIOUS
<1>5. (\A x \in xs : \E p \in points : p[1] = x) /\ (\A y \in ys : \E p \in points : p[2] = y)
  OBVIOUS
<1> HIDE DEF xs, ys
<1>6. /\ left \in xs /\ right \in xs /\ left \in Nat /\ right \in Nat
      /\ right < Width /\ \A x \in xs : left <= x /\ x <= right
  BY <1>1, <1>2, ExtremesInImage
<1>7. /\ top \in ys /\ bottom \in ys /\ top \in Nat /\ bottom \in Nat
      /\ bottom < Height /\ \A y \in ys : top <= y /\ y <= bottom
  BY <1>1, <1>2, ExtremesInImage
<1> HIDE DEF left, right, top, bottom
<1> DEFINE box == BoundingRect(points)
<1>8. /\ box.found /\ box.x = left /\ box.y = top
      /\ box.width = right - left + 1 /\ box.height = bottom - top + 1
  BY <1>3
<1>9. /\ right - left + 1 \in Nat /\ bottom - top + 1 \in Nat
      /\ left + (right - left + 1) - 1 = right /\ top + (bottom - top + 1) - 1 = bottom
      /\ left + (right - left + 1) <= Width /\ top + (bottom - top + 1) <= Height
  BY <1>2, <1>6, <1>7
<1>10. box \in Metas
  BY <1>3, <1>6, <1>7, <1>9 DEF Metas
<1>11. \A p \in points : p[1] \in left .. right /\ p[2] \in top .. bottom
  <2> SUFFICES ASSUME NEW p \in points PROVE p[1] \in left .. right /\ p[2] \in top .. bottom
    OBVIOUS
  <2>1. p[1] \in xs /\ p[2] \in ys
    BY <1>4
  <2>2. p[1] \in 0 .. Width - 1 /\ p[2] \in 0 .. Height - 1
    BY <1>1, <2>1
  <2>3. p[1] \in Int /\ p[2] \in Int
    BY <2>2
  <2>. QED BY <1>6, <1>7, <2>1, <2>2, <2>3
<1>12. \A x \in {left, right} : \E p \in points : p[1] = x
  BY <1>5, <1>6
<1>13. \A y \in {top, bottom} : \E p \in points : p[2] = y
  BY <1>5, <1>7
<1> HIDE DEF box
<1>14. /\ box.x + box.width - 1 = right /\ box.y + box.height - 1 = bottom
       /\ box.x + box.width <= Width /\ box.y + box.height <= Height
  BY <1>8, <1>9
<1>15. /\ box.found /\ box \in Metas
       /\ box.x + box.width <= Width /\ box.y + box.height <= Height
       /\ \A p \in points : /\ p[1] \in box.x .. box.x + box.width - 1
                            /\ p[2] \in box.y .. box.y + box.height - 1
       /\ \A x \in {box.x, box.x + box.width - 1} : \E p \in points : p[1] = x
       /\ \A y \in {box.y, box.y + box.height - 1} : \E p \in points : p[2] = y
  BY <1>8, <1>10, <1>11, <1>12, <1>13, <1>14
<1>. QED BY <1>15 DEF box

\* A verdict describes the image under the settings whose thresholds it was
\* reached with (cv::inRange, findNonZero, boundingRect).
LEMMA VerdictDescribes ==
    ASSUME NEW image \in Images, NEW threshold, NEW s \in Settings, s.enabled,
           \A t \in Thresholds : threshold[t] = s.threshold[t]
    PROVE  Describes(Verdict(image, threshold), image, s)
<1> DEFINE Matches(p) == \A c \in Channels :
            image[p][c] \in s.threshold[<<"low", c>>] .. s.threshold[<<"high", c>>]
<1> DEFINE redPixels == {p \in Pixels : InRange(image[p], threshold)}
<1> DEFINE meta == Verdict(image, threshold)
<1>1. ASSUME NEW p \in Pixels PROVE InRange(image[p], threshold) <=> Matches(p)
  <2>1. ASSUME NEW c \in Channels
        PROVE  /\ threshold[<<"low", c>>] <= image[p][c] /\ image[p][c] <= threshold[<<"high", c>>]
                     <=> image[p][c] \in s.threshold[<<"low", c>>] .. s.threshold[<<"high", c>>]
    <3>1. <<"low", c>> \in Thresholds /\ <<"high", c>> \in Thresholds
      BY DEF Thresholds
    <3>2. image[p][c] \in Levels
      BY ImagesAssumption
    <3>3. s.threshold[<<"low", c>>] \in Levels /\ s.threshold[<<"high", c>>] \in Levels
      BY <3>1 DEF Settings
    <3>4. /\ image[p][c] \in Int
          /\ s.threshold[<<"low", c>>] \in Int /\ s.threshold[<<"high", c>>] \in Int
      <4>1. \A level \in Levels : level \in Int
        BY LevelsAssumption
      <4>. QED BY <3>2, <3>3, <4>1
    <3>5. /\ threshold[<<"low", c>>] = s.threshold[<<"low", c>>]
          /\ threshold[<<"high", c>>] = s.threshold[<<"high", c>>]
      BY <3>1
    <3>. QED BY <3>4, <3>5
  <2>. QED BY <2>1 DEF InRange
<1>2. redPixels = {p \in Pixels : Matches(p)}
  BY <1>1
<1>3. meta = IF redPixels = {} THEN NotFound ELSE BoundingRect(redPixels)
  BY DEF Verdict
<1>4. redPixels \in SUBSET Pixels
  OBVIOUS
<1> HIDE DEF redPixels, Matches, meta
<1>5. CASE redPixels = {}
  <2>1. meta = NotFound /\ ~ \E p \in Pixels : Matches(p)
    BY <1>2, <1>3, <1>5
  <2>. QED BY <2>1 DEF Describes, Matches, meta
<1>6. CASE redPixels # {}
  <2>1. /\ meta.found
        /\ \A p \in redPixels : /\ p[1] \in meta.x .. meta.x + meta.width - 1
                                /\ p[2] \in meta.y .. meta.y + meta.height - 1
        /\ \A x \in {meta.x, meta.x + meta.width - 1} : \E p \in redPixels : p[1] = x
        /\ \A y \in {meta.y, meta.y + meta.height - 1} : \E p \in redPixels : p[2] = y
    BY <1>3, <1>4, <1>6, BoxFits
  <2>2. \A p \in Pixels : p \in redPixels <=> Matches(p)
    BY <1>2
  <2>3. /\ \A p \in Pixels : Matches(p) => /\ p[1] \in meta.x .. meta.x + meta.width - 1
                                           /\ p[2] \in meta.y .. meta.y + meta.height - 1
        /\ \A x \in {meta.x, meta.x + meta.width - 1} : \E p \in Pixels : Matches(p) /\ p[1] = x
        /\ \A y \in {meta.y, meta.y + meta.height - 1} : \E p \in Pixels : Matches(p) /\ p[2] = y
    BY <1>4, <2>1, <2>2
  <2>. QED BY <2>1, <2>3 DEF Describes, Matches, meta
<1>. QED BY <1>5, <1>6

\* A meta is of its type and its box lies in the image, whatever thresholds
\* it was reached with.
LEMMA VerdictFits ==
    ASSUME NEW image, NEW threshold
    PROVE  LET meta == Verdict(image, threshold)
           IN  /\ meta \in Metas
               /\ meta.x + meta.width <= Width /\ meta.y + meta.height <= Height
<1> DEFINE redPixels == {p \in Pixels : InRange(image[p], threshold)}
<1> DEFINE meta == Verdict(image, threshold)
<1>1. meta = IF redPixels = {} THEN NotFound ELSE BoundingRect(redPixels)
  BY DEF Verdict
<1>2. redPixels \in SUBSET Pixels
  OBVIOUS
<1>3. /\ NotFound \in Metas
      /\ NotFound.x + NotFound.width <= Width /\ NotFound.y + NotFound.height <= Height
  BY BoundsAssumption DEF NotFound, Metas
<1> HIDE DEF redPixels, meta
<1>4. /\ meta \in Metas
      /\ meta.x + meta.width <= Width /\ meta.y + meta.height <= Height
  <2>1. CASE redPixels = {}
    BY <1>1, <1>3, <2>1
  <2>2. CASE redPixels # {}
    BY <1>1, <1>2, <2>2, BoxFits
  <2>. QED BY <2>1, <2>2
<1>. QED BY <1>4 DEF meta

-----------------------------------------------------------------------------
(* The inductive invariant. *)

\* A frame is under way between its first and its last threshold, and at no
\* other time are thresholds kept or settings counted.
Typed ==
    /\ settings \in Settings
    /\ pc \in {"idle", "thresholds", "error"}
    /\ pc = "thresholds" =>
          /\ frame.image \in Images /\ frame.first \in Settings /\ frame.first.enabled
          /\ changes \in 0 .. MaxChanges
    /\ pc # "thresholds" => DOMAIN seen = {} /\ changes = 0 /\ frame = None
    /\ DOMAIN seen \subseteq Thresholds /\ \A t \in DOMAIN seen : seen[t] \in Levels

\* While nothing was set, all thresholds are those of the beginning.  After
\* one property was set, one threshold has changed or `enabled` has, and each
\* threshold was read before or after.
AtMostOneChange ==
    pc = "thresholds" =>
        /\ changes = 0 =>
              /\ settings = frame.first
              /\ \A t \in DOMAIN seen : seen[t] = frame.first.threshold[t]
        /\ changes = 1 =>
              /\ \/ \A t \in Thresholds : settings.threshold[t] = frame.first.threshold[t]
                 \/ /\ settings.enabled
                    /\ \E set \in Thresholds : \A t \in Thresholds \ {set} :
                           settings.threshold[t] = frame.first.threshold[t]
              /\ \A t \in DOMAIN seen :
                     seen[t] \in {frame.first.threshold[t], settings.threshold[t]}

\* What is attached fits the image.
PushedFits ==
    pushed # None /\ pushed.meta # None =>
        /\ pushed.meta \in Metas
        /\ pushed.meta.x + pushed.meta.width <= Width
        /\ pushed.meta.y + pushed.meta.height <= Height

RedDetectInvariant == Typed /\ AtMostOneChange /\ PushedFits /\ VerdictOfOneSetting

-----------------------------------------------------------------------------
(* The steps. *)

\* The properties that may be set are settings.
LEMMA SettingsStay ==
    ASSUME settings \in Settings
    PROVE  /\ \A value \in BOOLEAN : [settings EXCEPT !.enabled = value] \in Settings
           /\ \A t \in Thresholds, level \in Levels :
                  /\ [settings EXCEPT !.threshold[t] = level] \in Settings
                  /\ [settings EXCEPT !.threshold[t] = level].enabled = settings.enabled
                  /\ \A u \in Thresholds \ {t} :
                        [settings EXCEPT !.threshold[t] = level].threshold[u] = settings.threshold[u]
<1>1. \A value \in BOOLEAN : [settings EXCEPT !.enabled = value] \in Settings
  BY DEF Settings
<1>2. ASSUME NEW t \in Thresholds, NEW level \in Levels
      PROVE  /\ [settings EXCEPT !.threshold[t] = level] \in Settings
             /\ [settings EXCEPT !.threshold[t] = level].enabled = settings.enabled
             /\ \A u \in Thresholds \ {t} :
                   [settings EXCEPT !.threshold[t] = level].threshold[u] = settings.threshold[u]
  <2> DEFINE levels == [settings.threshold EXCEPT ![t] = level]
  <2> DEFINE new == [settings EXCEPT !.threshold = levels]
  <2>1. levels \in [Thresholds -> Levels] /\ \A u \in Thresholds \ {t} : levels[u] = settings.threshold[u]
    BY DEF Settings
  <2>2. [settings EXCEPT !.threshold[t] = level] = new
    OBVIOUS
  <2> HIDE DEF levels
  <2>3. new \in Settings /\ new.enabled = settings.enabled /\ new.threshold = levels
    BY <2>1 DEF Settings
  <2> HIDE DEF new
  <2>. QED BY <2>1, <2>2, <2>3
<1>. QED BY <1>1, <1>2

\* The application sets a property, at any time.
LEMMA SetPropertyStep ==
    ASSUME RedDetectInvariant, NEW new \in Settings, SetProperty(new),
           \/ \A t \in Thresholds : new.threshold[t] = settings.threshold[t]
           \/ /\ new.enabled = settings.enabled
              /\ \E set \in Thresholds : \A t \in Thresholds \ {set} :
                     new.threshold[t] = settings.threshold[t]
    PROVE  RedDetectInvariant'
<1>1. /\ settings' = new /\ pc' = pc /\ frame' = frame /\ seen' = seen /\ pushed' = pushed
      /\ pc = "thresholds" => changes < MaxChanges /\ changes' = changes + 1
      /\ pc # "thresholds" => changes' = changes
  BY DEF SetProperty
<1>2. Typed'
  BY <1>1, BoundsAssumption DEF RedDetectInvariant, Typed
<1>3. AtMostOneChange'
  <2> SUFFICES ASSUME pc = "thresholds" PROVE AtMostOneChange'
    BY <1>1 DEF AtMostOneChange
  <2>1. changes \in Nat /\ changes' = changes + 1 /\ frame.first.enabled
    BY <1>1, BoundsAssumption DEF RedDetectInvariant, Typed
  <2>2. changes' # 0 /\ (changes' = 1 => changes = 0)
    BY <2>1
  <2>3. CASE changes = 0
    <3>1. settings = frame.first /\ \A t \in DOMAIN seen : seen[t] = frame.first.threshold[t]
      BY <2>3 DEF RedDetectInvariant, AtMostOneChange
    <3>. QED BY <1>1, <2>1, <2>2, <3>1 DEF AtMostOneChange
  <2>4. CASE changes # 0
    BY <1>1, <2>2, <2>4 DEF AtMostOneChange
  <2>. QED BY <2>3, <2>4
<1>4. PushedFits' /\ VerdictOfOneSetting'
  BY <1>1 DEF RedDetectInvariant, PushedFits, VerdictOfOneSetting
<1>. QED BY <1>2, <1>3, <1>4 DEF RedDetectInvariant

\* A buffer with a meta that fits leaves the element ready for the next one.
LEMMA PushStep ==
    ASSUME RedDetectInvariant, NEW image, NEW first, NEW meta, Push(image, first, meta),
           meta \in Metas, meta.x + meta.width <= Width, meta.y + meta.height <= Height,
           changes <= 1 => Describes(meta, image, first) \/ Describes(meta, image, settings)
    PROVE  RedDetectInvariant'
<1>1. /\ settings' = settings /\ pc' = "idle" /\ frame' = None /\ seen' = << >> /\ changes' = 0
      /\ \E attached \in {meta, None} :
            pushed' = [image |-> image, meta |-> attached, first |-> first, last |-> settings,
                       changes |-> changes]
  BY DEF Push
<1>2. Typed'
  <2>1. DOMAIN seen' = {}
    BY <1>1
  <2>. QED BY <1>1, <2>1 DEF RedDetectInvariant, Typed
<1>3. AtMostOneChange'
  BY <1>1 DEF AtMostOneChange
<1>4. /\ pushed'.image = image /\ pushed'.first = first /\ pushed'.last = settings
      /\ pushed'.changes = changes /\ (pushed'.meta # None => pushed'.meta = meta)
  BY <1>1
<1>5. PushedFits'
  BY <1>4 DEF PushedFits
<1>6. VerdictOfOneSetting'
  BY <1>4 DEF VerdictOfOneSetting
<1>. QED BY <1>2, <1>3, <1>5, <1>6 DEF RedDetectInvariant

\* Thresholds of which each was read before or after a single change are those
\* before it or those after it.
LEMMA ThresholdsOfOneSetting ==
    ASSUME Typed, AtMostOneChange, pc = "thresholds", DOMAIN seen = Thresholds, changes <= 1
    PROVE  \/ \A t \in Thresholds : seen[t] = frame.first.threshold[t]
           \/ settings.enabled /\ \A t \in Thresholds : seen[t] = settings.threshold[t]
<1>1. changes = 0 \/ changes = 1
  BY BoundsAssumption DEF Typed
<1>2. CASE changes = 0
  BY <1>2 DEF AtMostOneChange
<1>3. CASE changes = 1
  <2>1. \A t \in Thresholds : seen[t] \in {frame.first.threshold[t], settings.threshold[t]}
    BY <1>3 DEF AtMostOneChange
  <2>2. CASE \A t \in Thresholds : settings.threshold[t] = frame.first.threshold[t]
    BY <2>1, <2>2
  <2>3. CASE /\ settings.enabled
             /\ \E set \in Thresholds : \A t \in Thresholds \ {set} :
                    settings.threshold[t] = frame.first.threshold[t]
    <3>1. PICK set \in Thresholds : \A t \in Thresholds \ {set} :
                    settings.threshold[t] = frame.first.threshold[t]
      BY <2>3
    <3>2. \A t \in Thresholds \ {set} :
                    seen[t] = frame.first.threshold[t] /\ seen[t] = settings.threshold[t]
      BY <2>1, <3>1
    <3>3. CASE seen[set] = frame.first.threshold[set]
      BY <3>2, <3>3
    <3>4. CASE seen[set] = settings.threshold[set]
      BY <2>3, <3>2, <3>4
    <3>. QED BY <2>1, <3>3, <3>4
  <2>. QED BY <1>3, <2>2, <2>3 DEF AtMostOneChange
<1>. QED BY <1>1, <1>2, <1>3

\* Every step keeps the invariant.
LEMMA NextKeepsInvariant ==
    ASSUME RedDetectInvariant, [Next]_vars
    PROVE  RedDetectInvariant'
<1>1. Typed /\ AtMostOneChange /\ settings \in Settings
  BY DEF RedDetectInvariant, Typed
<1>2. ASSUME NEW value \in BOOLEAN, SetEnabled(value) PROVE RedDetectInvariant'
  <2> DEFINE new == [settings EXCEPT !.enabled = value]
  <2>1. new \in Settings /\ new.threshold = settings.threshold
    BY <1>1, SettingsStay DEF Settings
  <2>2. SetProperty(new)
    BY <1>2 DEF SetEnabled
  <2> HIDE DEF new
  <2>. QED BY <2>1, <2>2, SetPropertyStep
<1>3. ASSUME NEW t \in Thresholds, NEW level \in Levels, SetThreshold(t, level)
      PROVE  RedDetectInvariant'
  <2> DEFINE new == [settings EXCEPT !.threshold[t] = level]
  <2>1. /\ new \in Settings /\ new.enabled = settings.enabled
        /\ \A u \in Thresholds \ {t} : new.threshold[u] = settings.threshold[u]
    BY <1>1, SettingsStay
  <2>2. SetProperty(new)
    BY <1>3 DEF SetThreshold
  <2> HIDE DEF new
  <2>. QED BY <2>1, <2>2, SetPropertyStep
<1>4. ASSUME NEW image \in Images, SkipFrame(image) PROVE RedDetectInvariant'
  <2>1. ~settings.enabled /\ Push(image, settings, NotFound)
    BY <1>4 DEF SkipFrame
  <2>2. Describes(NotFound, image, settings)
    BY <2>1 DEF Describes
  <2>3. /\ NotFound \in Metas
        /\ NotFound.x + NotFound.width <= Width /\ NotFound.y + NotFound.height <= Height
    BY BoundsAssumption DEF NotFound, Metas
  <2>. QED BY <2>1, <2>2, <2>3, PushStep
<1>5. ASSUME NEW image \in Images, StartFrame(image) PROVE RedDetectInvariant'
  <2>1. /\ pc = "idle" /\ settings.enabled /\ frame' = [image |-> image, first |-> settings]
        /\ pc' = "thresholds" /\ pushed' = None
        /\ settings' = settings /\ seen' = seen /\ changes' = changes
    BY <1>5 DEF StartFrame
  <2>2. frame'.image = image /\ frame'.first = settings
    BY <2>1
  <2>3. DOMAIN seen = {} /\ changes = 0
    BY <1>1, <2>1 DEF Typed
  <2>4. Typed'
    BY <1>1, <2>1, <2>2, <2>3, BoundsAssumption DEF Typed
  <2>5. AtMostOneChange'
    BY <2>1, <2>2, <2>3 DEF AtMostOneChange
  <2>. QED BY <2>1, <2>4, <2>5 DEF RedDetectInvariant, PushedFits, VerdictOfOneSetting
<1>6. CASE MapFails
  <2>1. /\ pc = "idle" /\ pc' = "error" /\ pushed' = None
        /\ UNCHANGED <<settings, frame, seen, changes>>
    BY <1>6 DEF MapFails
  <2>. QED BY <1>1, <2>1 DEF RedDetectInvariant, Typed, AtMostOneChange, PushedFits,
                             VerdictOfOneSetting
<1>7. ASSUME NEW t \in Thresholds, ReadThreshold(t) PROVE RedDetectInvariant'
  <2>1. /\ pc = "thresholds"
        /\ seen' = [u \in DOMAIN seen \cup {t} |-> IF u = t THEN settings.threshold[t] ELSE seen[u]]
        /\ UNCHANGED <<settings, pc, frame, changes, pushed>>
    BY <1>7 DEF ReadThreshold
  <2>2. /\ DOMAIN seen' = DOMAIN seen \cup {t}
        /\ \A u \in DOMAIN seen' : \/ u = t /\ seen'[u] = settings.threshold[t]
                                   \/ u \in DOMAIN seen /\ seen'[u] = seen[u]
    BY <2>1
  <2>3. settings.threshold[t] \in Levels
    BY <1>1 DEF Settings
  <2>4. Typed'
    BY <1>1, <2>1, <2>2, <2>3 DEF Typed
  <2>5. AtMostOneChange'
    BY <1>1, <2>1, <2>2 DEF AtMostOneChange
  <2>. QED BY <2>1, <2>4, <2>5 DEF RedDetectInvariant, PushedFits, VerdictOfOneSetting
<1>8. CASE Detect
  <2> DEFINE meta == Verdict(frame.image, seen)
  <2>1. pc = "thresholds" /\ DOMAIN seen = Thresholds /\ Push(frame.image, frame.first, meta)
    BY <1>8 DEF Detect
  <2>2. frame.image \in Images /\ frame.first \in Settings /\ frame.first.enabled
    BY <1>1, <2>1 DEF Typed
  <2>3. /\ meta \in Metas
        /\ meta.x + meta.width <= Width /\ meta.y + meta.height <= Height
    BY VerdictFits
  <2>4. ASSUME changes <= 1
        PROVE  Describes(meta, frame.image, frame.first) \/ Describes(meta, frame.image, settings)
    <3>1. CASE \A t \in Thresholds : seen[t] = frame.first.threshold[t]
      BY <2>2, <3>1, VerdictDescribes
    <3>2. CASE settings.enabled /\ \A t \in Thresholds : seen[t] = settings.threshold[t]
      BY <1>1, <2>2, <3>2, VerdictDescribes
    <3>. QED BY <1>1, <2>1, <2>4, <3>1, <3>2, ThresholdsOfOneSetting
  <2> HIDE DEF meta
  <2>. QED BY <2>1, <2>3, <2>4, PushStep
<1>9. CASE UNCHANGED vars
  BY <1>9 DEF vars, RedDetectInvariant, Typed, AtMostOneChange, PushedFits, VerdictOfOneSetting
<1>. QED BY <1>2, <1>3, <1>4, <1>5, <1>6, <1>7, <1>8, <1>9 DEF Next

\* The invariant holds at the start.
LEMMA InitInvariant ==
    ASSUME Init
    PROVE  RedDetectInvariant
<1>1. Min(Levels) \in Levels /\ Max(Levels) \in Levels
  BY LevelsAssumption, LeastNatural, GreatestNatural
<1>2. settings \in Settings
  <2> DEFINE levels == [t \in Thresholds |-> IF t[1] = "low" THEN Min(Levels) ELSE Max(Levels)]
  <2>1. levels \in [Thresholds -> Levels]
    BY <1>1
  <2>2. settings = [enabled |-> TRUE, threshold |-> levels]
    BY DEF Init
  <2> HIDE DEF levels
  <2>. QED BY <2>1, <2>2 DEF Settings
<1>3. pc = "idle" /\ frame = None /\ DOMAIN seen = {} /\ changes = 0 /\ pushed = None
  BY DEF Init
<1>. QED BY <1>2, <1>3 DEF RedDetectInvariant, Typed, AtMostOneChange, PushedFits,
                           VerdictOfOneSetting

-----------------------------------------------------------------------------
(* The theorems. *)

\* The invariant holds in every state.
THEOREM RedDetectInvariantHolds == Spec => []RedDetectInvariant
<1>1. Init => RedDetectInvariant
  BY InitInvariant
<1>2. RedDetectInvariant /\ [Next]_vars => RedDetectInvariant'
  BY NextKeepsInvariant
<1>. QED BY <1>1, <1>2, PTL DEF Spec

\* Every variable keeps its type, and the box on a buffer lies in the image,
\* however the thresholds change under the detection (transform_ip).
THEOREM RedDetectTypeCorrect == Spec => []TypeOK
<1>1. RedDetectInvariant => TypeOK
  BY BoundsAssumption DEF RedDetectInvariant, Typed, PushedFits, TypeOK
<1>. QED BY <1>1, RedDetectInvariantHolds, PTL

\* While at most one property is set during a frame, what is attached is the
\* verdict of the settings at its beginning or of those at its end, in
\* whatever order the thresholds are read (transform_ip, set_property).
THEOREM VerdictIsOfOneSetting == Spec => []VerdictOfOneSetting
<1>1. RedDetectInvariant => VerdictOfOneSetting
  BY DEF RedDetectInvariant
<1>. QED BY <1>1, RedDetectInvariantHolds, PTL
=============================================================================
