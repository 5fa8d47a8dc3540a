-------------------------- MODULE MspClient_proofs --------------------------
(***************************************************************************)
(* Proofs about MspClient, for any commands, any number of requests and    *)
(* any number of connections.                                              *)
(*                                                                         *)
(* The argument is about one sequence, what is on the way from Betaflight  *)
(* to try_parse_response: the buffer, then the wire, then what Betaflight  *)
(* has still to send.  The client takes pieces off its front, a request    *)
(* puts an answer at its end, and a new connection cuts its end off, so    *)
(* the answers on the way stay in the order of their requests.             *)
(***************************************************************************)
EXTENDS MspClient, FiniteSetTheorems, TLAPS

Stream == buffer \o wire \o device

\* The answers that still begin somewhere in a sequence of pieces.
Heads(pieces) ==
    {id \in Ids : \E k \in 1 .. Len(pieces) : pieces[k] = [id |-> id, part |-> "head"]}

\* Those of them that are not followed by their rest.
Broken(pieces) ==
    {id \in Ids : \E k \in 1 .. Len(pieces) :
        /\ pieces[k] = [id |-> id, part |-> "head"]
        /\ k < Len(pieces) => pieces[k + 1] # [id |-> id, part |-> "rest"]}

\* The answers begin in the order of their requests.
InOrder(pieces) ==
    \A j, k \in 1 .. Len(pieces) :
        j < k /\ pieces[j].part = "head" /\ pieces[k].part = "head" => pieces[j].id < pieces[k].id

\* How many requests are over, with an answer or without.
Ended == IF pc = "caller" THEN Current ELSE Current - 1

\* The requests of the same command that are over, from this one on.
Overtaken(id) == {other \in id .. Ended : sent[other] = sent[id]}

-----------------------------------------------------------------------------
(* Sequences of pieces. *)

\* A sequence of which the front is taken off keeps its order and begins and
\* breaks no other answer.
LEMMA FrontTaken ==
    ASSUME NEW s \in Seq(Pieces), NEW n \in 0 .. Len(s), InOrder(s)
    PROVE  /\ SubSeq(s, n + 1, Len(s)) \in Seq(Pieces)
           /\ Len(SubSeq(s, n + 1, Len(s))) = Len(s) - n
           /\ InOrder(SubSeq(s, n + 1, Len(s)))
           /\ Heads(SubSeq(s, n + 1, Len(s))) \subseteq Heads(s)
           /\ Broken(SubSeq(s, n + 1, Len(s))) \subseteq Broken(s)
<1> DEFINE t == SubSeq(s, n + 1, Len(s))
<1>1. /\ t \in Seq(Pieces) /\ Len(t) = Len(s) - n
      /\ \A k \in 1 .. Len(t) : k + n \in 1 .. Len(s) /\ t[k] = s[k + n]
  OBVIOUS
<1> HIDE DEF t
<1>2. InOrder(t)
  BY <1>1 DEF InOrder
<1>3. Heads(t) \subseteq Heads(s)
  BY <1>1 DEF Heads
<1>4. ASSUME NEW id \in Broken(t) PROVE id \in Broken(s)
  <2>1. id \in Ids
    BY DEF Broken
  <2>2. PICK k \in 1 .. Len(t) : /\ t[k] = [id |-> id, part |-> "head"]
                                 /\ k < Len(t) => t[k + 1] # [id |-> id, part |-> "rest"]
    BY DEF Broken
  <2>3. k + n \in 1 .. Len(s) /\ s[k + n] = [id |-> id, part |-> "head"]
    BY <1>1, <2>2
  <2>4. k + n < Len(s) => s[k + n + 1] # [id |-> id, part |-> "rest"]
    <3>1. SUFFICES ASSUME k + n < Len(s) PROVE s[k + n + 1] # [id |-> id, part |-> "rest"]
      OBVIOUS
    <3>2. k < Len(t) /\ k + 1 \in 1 .. Len(t)
      BY <1>1, <3>1
    <3>3. t[k + 1] = s[(k + 1) + n] /\ (k + 1) + n = k + n + 1
      BY <1>1, <3>2
    <3>. QED BY <2>2, <3>2, <3>3
  <2>. QED BY <2>1, <2>3, <2>4 DEF Broken
<1>. QED BY <1>1, <1>2, <1>3, <1>4 DEF t

\* What is left begins after every answer that was taken.
LEMMA LaterAnswersLeft ==
    ASSUME NEW s \in Seq(Pieces), NEW n \in 0 .. Len(s), InOrder(s),
           NEW m \in 1 .. n, s[m].part = "head"
    PROVE  \A id \in Heads(SubSeq(s, n + 1, Len(s))) : s[m].id < id
<1> DEFINE t == SubSeq(s, n + 1, Len(s))
<1> SUFFICES ASSUME NEW id \in Heads(t) PROVE s[m].id < id
  OBVIOUS
<1>1. PICK k \in 1 .. Len(t) : t[k] = [id |-> id, part |-> "head"]
  BY DEF Heads
<1>2. k + n \in 1 .. Len(s) /\ m \in 1 .. Len(s) /\ m < k + n /\ t[k] = s[k + n]
  OBVIOUS
<1>. QED BY <1>1, <1>2 DEF InOrder

\* A sequence of which the end is lost breaks at most its last answer anew.
LEMMA EndLost ==
    ASSUME NEW s \in Seq(Pieces), NEW rest \in Seq(Pieces), InOrder(s \o rest)
    PROVE  /\ InOrder(s)
           /\ Heads(s) \subseteq Heads(s \o rest)
           /\ \E last : Broken(s) \subseteq Broken(s \o rest) \cup {last}
<1> DEFINE t == s \o rest
<1>1. /\ t \in Seq(Pieces) /\ Len(s) <= Len(t)
      /\ \A k \in 1 .. Len(s) : k \in 1 .. Len(t) /\ t[k] = s[k]
  OBVIOUS
<1>2. InOrder(t)
  OBVIOUS
<1> HIDE DEF t
<1>3. InOrder(s)
  BY <1>1, <1>2 DEF InOrder
<1>4. Heads(s) \subseteq Heads(t)
  BY <1>1 DEF Heads
<1>5. ASSUME NEW id \in Broken(s), id # s[Len(s)].id PROVE id \in Broken(t)
  <2>1. id \in Ids
    BY DEF Broken
  <2>2. PICK k \in 1 .. Len(s) : /\ s[k] = [id |-> id, part |-> "head"]
                                 /\ k < Len(s) => s[k + 1] # [id |-> id, part |-> "rest"]
    BY DEF Broken
  <2>3. k # Len(s)
    BY <1>5, <2>2
  <2>4. k < Len(s) /\ k + 1 \in 1 .. Len(s)
    BY <2>3
  <2>5. t[k] = s[k] /\ t[k + 1] = s[k + 1] /\ k \in 1 .. Len(t)
    BY <1>1, <2>4
  <2>. QED BY <2>1, <2>2, <2>4, <2>5 DEF Broken
<1>6. Broken(s) \subseteq Broken(t) \cup {s[Len(s)].id}
  BY <1>5
<1>. QED BY <1>3, <1>4, <1>6 DEF t

\* The elements of a sequence that is two put together.
LEMMA PiecesOfBoth ==
    ASSUME NEW s \in Seq(Pieces), NEW rest \in Seq(Pieces)
    PROVE  /\ s \o rest \in Seq(Pieces) /\ Len(s \o rest) = Len(s) + Len(rest)
           /\ \A k \in 1 .. Len(s) : (s \o rest)[k] = s[k]
           /\ \A k \in 1 .. Len(rest) : (s \o rest)[Len(s) + k] = rest[k]
OBVIOUS

\* Sequences of one length with the same pieces are the same.
LEMMA SamePieces ==
    ASSUME NEW s \in Seq(Pieces), NEW t \in Seq(Pieces), Len(s) = Len(t),
           \A k \in 1 .. Len(s) : s[k] = t[k]
    PROVE  s = t
OBVIOUS

\* How the parts of a sequence are grouped does not matter, nor where the
\* border between two parts is, and the front of it is that of its first part.
LEMMA Regrouped ==
    ASSUME NEW s \in Seq(Pieces), NEW t \in Seq(Pieces), NEW u \in Seq(Pieces)
    PROVE  /\ s \o t \in Seq(Pieces) /\ t \o u \in Seq(Pieces)
           /\ s \o t \o u = s \o (t \o u)
           /\ (s \o t) \o << >> \o u = s \o t \o u
<1>1. s \o t \in Seq(Pieces) /\ t \o u \in Seq(Pieces)
  OBVIOUS
<1>2. s \o t \o u = s \o (t \o u)
  OBVIOUS
<1>3. (s \o t) \o << >> \o u = s \o t \o u
  OBVIOUS
<1>. QED BY <1>1, <1>2, <1>3

\* Concatenation may be grouped either way.
LEMMA Grouped ==
    \A s, t, u \in Seq(Pieces) : s \o t \o u = s \o (t \o u)
BY Regrouped

\* Moving the border between two sequences changes nothing in the whole.
LEMMA BorderMoved ==
    ASSUME NEW s \in Seq(Pieces), NEW t \in Seq(Pieces), t # << >>
    PROVE  /\ Append(s, Head(t)) \in Seq(Pieces) /\ Tail(t) \in Seq(Pieces)
           /\ Append(s, Head(t)) \o Tail(t) = s \o t
OBVIOUS

\* Dropping from the front of the first sequence drops from the front of
\* both.
LEMMA FrontOfFirst ==
    ASSUME NEW s \in Seq(Pieces), NEW t \in Seq(Pieces), NEW n \in 0 .. Len(s)
    PROVE  /\ SubSeq(s, n + 1, Len(s)) \in Seq(Pieces)
           /\ SubSeq(s, n + 1, Len(s)) \o t = SubSeq(s \o t, n + 1, Len(s \o t))
<1> DEFINE front == SubSeq(s, n + 1, Len(s))
<1> DEFINE both == s \o t
<1> DEFINE left == front \o t
<1> DEFINE right == SubSeq(both, n + 1, Len(both))
<1>1. front \in Seq(Pieces) /\ Len(front) = Len(s) - n
      /\ \A k \in 1 .. Len(front) : front[k] = s[n + k]
  OBVIOUS
<1>2. both \in Seq(Pieces) /\ Len(both) = Len(s) + Len(t)
      /\ (\A k \in 1 .. Len(s) : both[k] = s[k])
      /\ \A k \in 1 .. Len(t) : both[Len(s) + k] = t[k]
  BY PiecesOfBoth
<1> HIDE DEF front, both
<1>3. left \in Seq(Pieces) /\ Len(left) = Len(front) + Len(t)
      /\ (\A k \in 1 .. Len(front) : left[k] = front[k])
      /\ \A k \in 1 .. Len(t) : left[Len(front) + k] = t[k]
  BY <1>1, PiecesOfBoth
<1>4. right \in Seq(Pieces) /\ Len(right) = Len(both) - n
      /\ \A k \in 1 .. Len(right) : right[k] = both[n + k]
  BY <1>2
<1> HIDE DEF left, right
<1>5. ASSUME NEW k \in 1 .. Len(right) PROVE left[k] = right[k]
  <2>1. Len(s) \in Nat /\ Len(t) \in Nat /\ Len(front) \in Nat
    BY <1>1
  <2>2. CASE k <= Len(front)
    <3>1. k \in 1 .. Len(front) /\ n + k \in 1 .. Len(s)
      BY <1>1, <2>1, <2>2
    <3>. QED BY <1>1, <1>2, <1>3, <1>4, <3>1
  <2>3. CASE k > Len(front)
    <3> DEFINE j == k - Len(front)
    <3>1. j \in 1 .. Len(t) /\ Len(front) + j = k /\ Len(s) + j = n + k
      BY <1>1, <1>2, <1>4, <2>1, <2>3
    <3>2. right[k] = both[n + k] /\ both[Len(s) + j] = t[j] /\ left[Len(front) + j] = t[j]
      BY <1>2, <1>3, <1>4, <3>1
    <3> HIDE DEF j
    <3>. QED BY <3>1, <3>2
  <2>. QED BY <2>1, <2>2, <2>3
<1>6. left = right
  <2>1. Len(left) = Len(right)
    BY <1>1, <1>2, <1>3, <1>4
  <2>2. left \in Seq(Pieces) /\ right \in Seq(Pieces) /\ \A k \in 1 .. Len(left) : left[k] = right[k]
    BY <1>3, <1>4, <1>5, <2>1
  <2>. QED BY <2>1, <2>2, SamePieces
<1>7. front \o t = SubSeq(both, n + 1, Len(both))
  BY <1>6 DEF left, right
<1>8. front \in Seq(Pieces)
  BY <1>1
<1>. QED BY ONLY <1>7, <1>8 DEF front, both

\* An answer is a head and its rest.
LEMMA AnswerIsTwoPieces ==
    ASSUME NEW id \in Ids
    PROVE  /\ Answer(id) \in Seq(Pieces) /\ Len(Answer(id)) = 2
           /\ Answer(id)[1] = [id |-> id, part |-> "head"]
           /\ Answer(id)[2] = [id |-> id, part |-> "rest"]
           /\ SubSeq(Answer(id), 1, 2) = Answer(id)
<1>1. Answer(id) \in Seq(Pieces) /\ Len(Answer(id)) = 2
  BY DEF Answer, Pieces
<1>2. /\ Answer(id)[1] = [id |-> id, part |-> "head"]
      /\ Answer(id)[2] = [id |-> id, part |-> "rest"]
  BY DEF Answer
<1>3. \A s \in Seq(Pieces) : Len(s) = 2 => SubSeq(s, 1, 2) = s
  OBVIOUS
<1>. QED BY <1>1, <1>2, <1>3

\* Two sequences of two pieces are the same when their pieces are.
LEMMA SameTwoPieces ==
    ASSUME NEW s \in Seq(Pieces), NEW t \in Seq(Pieces), Len(s) = 2, Len(t) >= 2,
           s[1] = t[1], s[2] = t[2]
    PROVE  SubSeq(t, 1, 2) = s
OBVIOUS

\* A whole answer to a later request at the end keeps the order and breaks
\* nothing.
LEMMA AnswerAdded ==
    ASSUME NEW s \in Seq(Pieces), NEW n \in Ids, InOrder(s), \A id \in Heads(s) : id < n
    PROVE  /\ s \o Answer(n) \in Seq(Pieces) /\ Len(s \o Answer(n)) = Len(s) + 2
           /\ InOrder(s \o Answer(n))
           /\ Heads(s \o Answer(n)) \subseteq Heads(s) \cup {n}
           /\ Broken(s \o Answer(n)) \subseteq Broken(s)
<1> DEFINE t == s \o Answer(n)
<1>1. Answer(n) \in Seq(Pieces) /\ Len(Answer(n)) = 2
  BY AnswerIsTwoPieces
<1>2. t \in Seq(Pieces) /\ Len(t) = Len(s) + 2 /\ \A k \in 1 .. Len(s) : t[k] = s[k]
  <2>1. t \in Seq(Pieces) /\ Len(t) = Len(s) + Len(Answer(n))
    BY <1>1, PiecesOfBoth
  <2>2. \A k \in 1 .. Len(s) : t[k] = s[k]
    BY <1>1, PiecesOfBoth
  <2>. QED BY <1>1, <2>1, <2>2
<1>3. t[Len(s) + 1] = [id |-> n, part |-> "head"] /\ t[Len(s) + 2] = [id |-> n, part |-> "rest"]
  <2>1. t[Len(s) + 1] = Answer(n)[1] /\ t[Len(s) + 2] = Answer(n)[2]
    BY <1>1, PiecesOfBoth
  <2>. QED BY <2>1, AnswerIsTwoPieces
<1> HIDE DEF t
<1>4. \A k \in 1 .. Len(t) : k \in 1 .. Len(s) \/ k = Len(s) + 1 \/ k = Len(s) + 2
  BY <1>2
<1>5. \A k \in 1 .. Len(s) : s[k].part = "head" => s[k].id < n
  <2> SUFFICES ASSUME NEW k \in 1 .. Len(s), s[k].part = "head" PROVE s[k].id < n
    OBVIOUS
  <2>1. s[k] \in Pieces
    OBVIOUS
  <2>2. s[k].id \in Ids /\ s[k] = [id |-> s[k].id, part |-> "head"]
    BY <2>1 DEF Pieces
  <2>3. s[k].id \in Heads(s)
    BY <2>2 DEF Heads
  <2>. QED BY <2>3
<1>6. InOrder(t)
  <2> SUFFICES ASSUME NEW j \in 1 .. Len(t), NEW k \in 1 .. Len(t), j < k,
                      t[j].part = "head", t[k].part = "head"
               PROVE  t[j].id < t[k].id
    BY DEF InOrder
  <2>1. j # Len(s) + 2 /\ k # Len(s) + 2
    BY <1>3
  <2>2. CASE k \in 1 .. Len(s)
    <3>1. j \in 1 .. Len(s) /\ t[j] = s[j] /\ t[k] = s[k]
      BY <1>2, <2>2
    <3>. QED BY <2>2, <3>1 DEF InOrder
  <2>3. CASE k = Len(s) + 1
    <3>1. j \in 1 .. Len(s) /\ t[j] = s[j] /\ t[k].id = n
      BY <1>2, <1>3, <2>3
    <3>. QED BY <1>5, <3>1
  <2>. QED BY <1>4, <2>1, <2>2, <2>3
<1>7. ASSUME NEW id \in Heads(t) PROVE id \in Heads(s) \cup {n}
  <2>1. id \in Ids
    BY DEF Heads
  <2>2. PICK k \in 1 .. Len(t) : t[k] = [id |-> id, part |-> "head"]
    BY DEF Heads
  <2>3. k # Len(s) + 2
    BY <1>3, <2>2
  <2>4. CASE k \in 1 .. Len(s)
    BY <1>2, <2>1, <2>2, <2>4 DEF Heads
  <2>5. CASE k = Len(s) + 1
    BY <1>3, <2>2, <2>5
  <2>. QED BY <1>4, <2>3, <2>4, <2>5
<1>8. ASSUME NEW id \in Broken(t) PROVE id \in Broken(s)
  <2>1. id \in Ids
    BY DEF Broken
  <2>2. PICK k \in 1 .. Len(t) : /\ t[k] = [id |-> id, part |-> "head"]
                                 /\ k < Len(t) => t[k + 1] # [id |-> id, part |-> "rest"]
    BY DEF Broken
  <2>3. k # Len(s) + 1 /\ k # Len(s) + 2
    BY <1>2, <1>3, <2>2
  <2>4. k \in 1 .. Len(s) /\ k < Len(t) /\ s[k] = t[k]
    BY <1>2, <1>4, <2>3
  <2>5. k < Len(s) => s[k + 1] = t[k + 1]
    BY <1>2, <2>4
  <2>. QED BY <2>1, <2>2, <2>4, <2>5 DEF Broken
<1>. QED BY <1>2, <1>6, <1>7, <1>8 DEF t

\* A set of positions that is not empty has a lowest one.
LEMMA LowestPosition ==
    ASSUME NEW S \in SUBSET Nat, S # {}
    PROVE  Min(S) \in S
<1> DEFINE Less == OpToRel(<, Nat)
<1>1. IsWellFoundedOn(Less, Nat)
  BY NatLessThanWellFounded
<1>2. \A m, n \in Nat : <<m, n>> \in Less <=> m < n
  BY DEF OpToRel
<1> HIDE DEF Less
<1>3. PICK x \in S : \A y \in S : <<y, x>> \notin Less
  BY <1>1, WFMin
<1>4. ASSUME NEW y \in S PROVE x <= y
  <2>1. x \in Nat /\ y \in Nat
    OBVIOUS
  <2>2. ~(y < x)
    BY <1>2, <1>3, <2>1
  <2>. QED BY <2>1, <2>2
<1>. QED BY <1>4 DEF Min

\* What is dropped before a header is a front of the buffer, and a header
\* comes next if anything does.
LEMMA AlignedDropsFront ==
    ASSUME NEW bytes \in Seq(Pieces)
    PROVE  \E d \in 0 .. Len(bytes) :
              /\ Aligned(bytes) = SubSeq(bytes, d + 1, Len(bytes))
              /\ d < Len(bytes) => bytes[d + 1].part = "head"
<1> DEFINE heads == {i \in DOMAIN bytes : bytes[i].part = "head"}
<1>1. heads \in SUBSET Nat /\ \A i \in heads : i \in 1 .. Len(bytes) /\ bytes[i].part = "head"
  OBVIOUS
<1>2. CASE heads = {}
  <2>1. Aligned(bytes) = << >>
    BY <1>2 DEF Aligned
  <2>2. SubSeq(bytes, Len(bytes) + 1, Len(bytes)) = << >>
    OBVIOUS
  <2>3. Len(bytes) \in 0 .. Len(bytes) /\ ~(Len(bytes) < Len(bytes))
    OBVIOUS
  <2>. QED BY <2>1, <2>2, <2>3
<1>3. CASE heads # {}
  <2> DEFINE first == Min(heads)
  <2>1. Aligned(bytes) = SubSeq(bytes, first, Len(bytes))
    BY <1>3 DEF Aligned
  <2>2. first \in heads
    BY <1>1, <1>3, LowestPosition
  <2> HIDE DEF first, heads
  <2>3. first \in 1 .. Len(bytes) /\ bytes[first].part = "head"
    BY <1>1, <2>2
  <2>4. first - 1 \in 0 .. Len(bytes) /\ (first - 1) + 1 = first
    BY <2>3
  <2>. QED BY <2>1, <2>3, <2>4
<1>. QED BY <1>2, <1>3

\* A complete frame begins with a header at which the buffer is cut, and two
\* pieces are gone with what precedes it.  In a good frame the second is the
\* rest of the first.
LEMMA ConsumedDropsFront ==
    ASSUME NEW bytes \in Seq(Pieces), FrameIsComplete(Aligned(bytes))
    PROVE  \E d \in Nat :
              /\ d + 2 <= Len(bytes)
              /\ Consumed(Aligned(bytes)) = SubSeq(bytes, d + 3, Len(bytes))
              /\ Head(Aligned(bytes)) = bytes[d + 1]
              /\ bytes[d + 1].part = "head"
              /\ ~GoodFrame(Aligned(bytes))
                    => bytes[d + 2] # [id |-> bytes[d + 1].id, part |-> "rest"]
<1>1. PICK d \in 0 .. Len(bytes) :
              /\ Aligned(bytes) = SubSeq(bytes, d + 1, Len(bytes))
              /\ d < Len(bytes) => bytes[d + 1].part = "head"
  BY AlignedDropsFront
<1> DEFINE aligned == SubSeq(bytes, d + 1, Len(bytes))
<1>2. /\ aligned \in Seq(Pieces) /\ Len(aligned) = Len(bytes) - d
      /\ \A k \in 1 .. Len(aligned) : aligned[k] = bytes[d + k]
  OBVIOUS
<1>3. Len(aligned) >= 2
  BY <1>1 DEF FrameIsComplete
<1>4. d + 2 <= Len(bytes) /\ bytes[d + 1].part = "head"
  BY <1>1, <1>2, <1>3
<1>5. aligned[1] = bytes[d + 1] /\ aligned[2] = bytes[d + 2] /\ Head(aligned) = aligned[1]
  BY <1>2, <1>3
<1>6. SubSeq(aligned, 3, Len(aligned)) = SubSeq(bytes, d + 3, Len(bytes))
  BY <1>2, <1>3, <1>4
<1>7. ASSUME bytes[d + 2] = [id |-> bytes[d + 1].id, part |-> "rest"]
      PROVE  GoodFrame(aligned)
  <2> DEFINE id == aligned[1].id
  <2>1. aligned[1] \in Pieces
    BY <1>2, <1>3
  <2>2. aligned[1] = [id |-> id, part |-> "head"] /\ id \in Ids
    BY <1>4, <1>5, <2>1 DEF Pieces
  <2>3. aligned[2] = [id |-> id, part |-> "rest"]
    BY <1>5, <1>7
  <2> HIDE DEF aligned, id
  <2>4. SubSeq(aligned, 1, 2) = Answer(id)
    <3>1. /\ Answer(id) \in Seq(Pieces) /\ Len(Answer(id)) = 2
          /\ Answer(id)[1] = aligned[1] /\ Answer(id)[2] = aligned[2]
      BY <2>2, <2>3, AnswerIsTwoPieces
    <3>. QED BY <1>2, <1>3, <3>1, SameTwoPieces
  <2>5. IsPrefix(Answer(id), aligned)
    <3>1. Len(Answer(id)) = 2 /\ SubSeq(Answer(id), 1, 2) = Answer(id)
      BY <2>2, AnswerIsTwoPieces
    <3>. QED BY <1>3, <2>4, <3>1 DEF IsPrefix
  <2>. QED BY <1>5, <2>5 DEF GoodFrame, id
<1>8. Aligned(bytes) = aligned
  BY <1>1
<1> HIDE DEF aligned
<1>9. Consumed(Aligned(bytes)) = SubSeq(bytes, d + 3, Len(bytes))
  BY <1>6, <1>8 DEF Consumed
<1>10. Head(Aligned(bytes)) = bytes[d + 1]
  BY <1>5, <1>8
<1>11. ~GoodFrame(Aligned(bytes)) => bytes[d + 2] # [id |-> bytes[d + 1].id, part |-> "rest"]
  BY <1>7, <1>8
<1>12. d \in Nat
  OBVIOUS
<1>. QED BY ONLY <1>4, <1>9, <1>10, <1>11, <1>12

-----------------------------------------------------------------------------
(* The inductive invariant. *)

\* Every variable keeps its type, but for the bounds that need an argument.
Typed ==
    /\ sent \in Seq(Commands) /\ Len(sent) <= MaxRequests
    /\ pc \in {"caller", "loop", "recv"}
    /\ buffer \in Seq(Pieces) /\ wire \in Seq(Pieces) /\ device \in Seq(Pieces)
    /\ lost \in BOOLEAN
    /\ connects \in 0 .. MaxConnects
    /\ given \in [to : Ids, of : Ids] \cup {Nothing}
    /\ abandoned \in [Commands -> Nat]
    /\ badFrames \in Nat

\* What is on the way answers requests that were sent, in their order.
Queued ==
    /\ pc # "caller" => Current >= 1
    /\ Len(Stream) <= 2 * Current
    /\ InOrder(Stream)
    /\ \A id \in Heads(Stream) : id <= Current

\* No answer on the way is later than the requests of its command that were
\* abandoned.
Lag ==
    /\ \A c \in Commands : abandoned[c] <= Ended
    /\ \A id \in Heads(Stream) : Cardinality(Overtaken(id)) <= abandoned[sent[id]]

\* Every connection pays for one broken answer, on the way or parsed.
Cuts == badFrames + Cardinality(Broken(Stream)) <= connects

\* What was returned answers a request that was sent, and its lag stays.
GivenLag ==
    /\ given # Nothing => given.to <= Current
    /\ AnswerLagIsBounded

MspClientInvariant == Typed /\ Queued /\ Lag /\ Cuts /\ GivenLag

-----------------------------------------------------------------------------
(* What the steps do to what is on the way. *)

\* Betaflight and recv move pieces on, and nothing is lost or turned around.
LEMMA MovingKeepsStream ==
    ASSUME Typed,
           \/ DeviceSends \/ DeviceCloses \/ TimesOut
           \/ Receives \/ ReceivesNothing \/ FindsClosed
    PROVE  sent' = sent /\ Stream' = Stream
<1>1. buffer \in Seq(Pieces) /\ wire \in Seq(Pieces) /\ device \in Seq(Pieces)
  BY DEF Typed
<1>2. CASE DeviceSends
  <2>1. buffer' = buffer /\ wire' = Append(wire, Head(device)) /\ device' = Tail(device)
        /\ device # << >> /\ sent' = sent
    BY <1>2 DEF DeviceSends
  <2>2. /\ wire' \in Seq(Pieces) /\ device' \in Seq(Pieces)
        /\ wire' \o device' = wire \o device
    <3>1. Head(device) \in Pieces /\ Tail(device) \in Seq(Pieces)
      BY <1>1, <2>1
    <3>2. Append(wire, Head(device)) \in Seq(Pieces)
      BY <1>1, <3>1
    <3>3. Append(wire, Head(device)) \o Tail(device) = wire \o device
      BY <1>1, <2>1, BorderMoved
    <3>. QED BY <2>1, <3>1, <3>2, <3>3
  <2>3. Stream' = buffer \o (wire' \o device')
    <3>1. Stream' = buffer \o wire' \o device'
      BY <2>1 DEF Stream
    <3>2. buffer \o wire' \o device' = buffer \o (wire' \o device')
      BY <1>1, <2>2, Grouped, Zenon
    <3>. QED BY <3>1, <3>2
  <2>4. Stream = buffer \o (wire \o device)
    BY <1>1, Regrouped DEF Stream
  <2>. QED BY <2>1, <2>2, <2>3, <2>4
<1>3. CASE Receives
  <2>1. buffer' = buffer \o wire /\ wire' = << >> /\ device' = device /\ sent' = sent
    BY <1>3 DEF Receives
  <2>2. (buffer \o wire) \o << >> \o device = buffer \o wire \o device
    BY <1>1, Regrouped
  <2>. QED BY <2>1, <2>2 DEF Stream
<1>4. CASE DeviceCloses \/ TimesOut \/ ReceivesNothing \/ FindsClosed
  BY <1>4 DEF DeviceCloses, TimesOut, ReceivesNothing, FindsClosed, Stream, connection
<1>. QED BY <1>2, <1>3, <1>4

\* The front of the buffer is the front of what is on the way.
LEMMA FrontOfBuffer ==
    ASSUME Typed, NEW n \in 0 .. Len(buffer), buffer' = SubSeq(buffer, n + 1, Len(buffer)),
           wire' = wire, device' = device
    PROVE  /\ Stream \in Seq(Pieces) /\ n <= Len(Stream)
           /\ Stream' = SubSeq(Stream, n + 1, Len(Stream))
           /\ \A k \in 1 .. Len(buffer) : Stream[k] = buffer[k] /\ k <= Len(Stream)
<1> DEFINE rest == wire \o device
<1>1. buffer \in Seq(Pieces) /\ wire \in Seq(Pieces) /\ device \in Seq(Pieces)
  BY DEF Typed
<1>2. rest \in Seq(Pieces) /\ Stream = buffer \o rest
  BY <1>1, Regrouped DEF Stream
<1>3. buffer' \in Seq(Pieces)
  BY <1>1, FrontOfFirst
<1>4. Stream' = buffer' \o rest
  <2>1. Stream' = buffer' \o wire \o device
    BY DEF Stream
  <2>2. buffer' \o wire \o device = buffer' \o (wire \o device)
    BY <1>1, <1>3, Grouped, Zenon
  <2>. QED BY <2>1, <2>2
<1> HIDE DEF rest
<1>5. Stream \in Seq(Pieces) /\ Len(Stream) = Len(buffer) + Len(rest)
  BY <1>1, <1>2, PiecesOfBoth
<1>6. \A k \in 1 .. Len(buffer) : Stream[k] = buffer[k]
  BY <1>1, <1>2, PiecesOfBoth
<1>7. Stream' = SubSeq(Stream, n + 1, Len(Stream))
  BY <1>1, <1>2, <1>4, FrontOfFirst
<1>8. Len(rest) \in Nat /\ Len(buffer) \in Nat
  BY <1>1, <1>2
<1>. QED BY <1>5, <1>6, <1>7, <1>8

\* try_parse_response drops what precedes a header.
LEMMA DroppingTakesFront ==
    ASSUME Typed, ParsesNothing
    PROVE  \E n \in 0 .. Len(Stream) :
              Stream \in Seq(Pieces) /\ Stream' = SubSeq(Stream, n + 1, Len(Stream))
<1>1. buffer \in Seq(Pieces)
  BY DEF Typed
<1>2. buffer' = Aligned(buffer) /\ wire' = wire /\ device' = device
  BY DEF ParsesNothing, connection
<1>3. PICK d \in 0 .. Len(buffer) : Aligned(buffer) = SubSeq(buffer, d + 1, Len(buffer))
  BY <1>1, AlignedDropsFront
<1>4. /\ Stream \in Seq(Pieces) /\ d <= Len(Stream)
      /\ Stream' = SubSeq(Stream, d + 1, Len(Stream))
  BY <1>2, <1>3, FrontOfBuffer
<1>5. d \in 0 .. Len(Stream)
  BY <1>4
<1>. QED BY <1>4, <1>5

\* It takes a frame off the front, which begins with a header, and in which
\* something else follows when the checksum is wrong.
LEMMA ParsingTakesFrame ==
    ASSUME Typed, ParsesResponse \/ ParsesBadFrame
    PROVE  \E n \in 0 .. Len(Stream) :
              /\ Stream \in Seq(Pieces)
              /\ Stream' = SubSeq(Stream, n + 1, Len(Stream))
              /\ \E m \in 1 .. n :
                    /\ Stream[m] = [id |-> Head(Aligned(buffer)).id, part |-> "head"]
                    /\ Head(Aligned(buffer)).id \in Heads(Stream)
                    /\ ParsesBadFrame => Head(Aligned(buffer)).id \in Broken(Stream)
<1>1. buffer \in Seq(Pieces)
  BY DEF Typed
<1>2. /\ buffer' = Consumed(Aligned(buffer)) /\ wire' = wire /\ device' = device
      /\ FrameIsComplete(Aligned(buffer))
      /\ ParsesBadFrame => ~GoodFrame(Aligned(buffer))
  BY DEF ParsesResponse, ParsesBadFrame, connection
<1>3. PICK d \in Nat :
              /\ d + 2 <= Len(buffer)
              /\ Consumed(Aligned(buffer)) = SubSeq(buffer, d + 3, Len(buffer))
              /\ Head(Aligned(buffer)) = buffer[d + 1]
              /\ buffer[d + 1].part = "head"
              /\ ~GoodFrame(Aligned(buffer))
                    => buffer[d + 2] # [id |-> buffer[d + 1].id, part |-> "rest"]
  BY <1>1, <1>2, ConsumedDropsFront
<1> DEFINE n == d + 2
<1> DEFINE id == Head(Aligned(buffer)).id
<1>4. n \in 0 .. Len(buffer) /\ buffer' = SubSeq(buffer, n + 1, Len(buffer))
  BY <1>2, <1>3
<1>5. /\ Stream \in Seq(Pieces) /\ n <= Len(Stream)
      /\ Stream' = SubSeq(Stream, n + 1, Len(Stream))
      /\ \A k \in 1 .. Len(buffer) : Stream[k] = buffer[k] /\ k <= Len(Stream)
  BY <1>2, <1>4, FrontOfBuffer
<1>6. Stream[d + 1] = buffer[d + 1] /\ Stream[d + 2] = buffer[d + 2] /\ d + 1 \in 1 .. Len(Stream)
  BY <1>3, <1>5
<1>7. buffer[d + 1] \in Pieces
  BY <1>1, <1>3
<1>8. id \in Ids /\ Stream[d + 1] = [id |-> id, part |-> "head"]
  BY <1>3, <1>6, <1>7 DEF Pieces
<1>9. id \in Heads(Stream)
  BY <1>6, <1>8 DEF Heads
<1>10. ASSUME ParsesBadFrame PROVE id \in Broken(Stream)
  <2>1. Stream[(d + 1) + 1] # [id |-> id, part |-> "rest"]
    BY <1>2, <1>3, <1>6, <1>10
  <2>. QED BY <1>6, <1>8, <2>1 DEF Broken
<1>11. d + 1 \in 1 .. n /\ n \in 0 .. Len(Stream)
  BY <1>3, <1>5
<1>. QED BY <1>5, <1>8, <1>9, <1>10, <1>11

\* A request puts its answer at the end, unless Betaflight is gone.
LEMMA SendingAddsAnswer ==
    ASSUME Typed, NEW command \in Commands, Send(command), buffer' = buffer, wire' = wire
    PROVE  /\ Current + 1 \in Ids
           /\ sent' \in Seq(Commands) /\ Len(sent') = Current + 1
           /\ sent'[Current + 1] = command /\ \A id \in 1 .. Current : sent'[id] = sent[id]
           /\ Stream \in Seq(Pieces)
           /\ Stream' = Stream \/ Stream' = Stream \o Answer(Current + 1)
<1>1. buffer \in Seq(Pieces) /\ wire \in Seq(Pieces) /\ device \in Seq(Pieces)
      /\ sent \in Seq(Commands) /\ Current \in Nat
  BY DEF Typed, Current
<1>2. sent' = Append(sent, command) /\ Current < MaxRequests
      /\ (device' = device \/ device' = device \o Answer(Current + 1))
  BY DEF Send
<1>3. Current + 1 \in Ids
  BY <1>1, <1>2, BoundsAssumption DEF Ids
<1>4. /\ sent' \in Seq(Commands) /\ Len(sent') = Current + 1
      /\ sent'[Current + 1] = command /\ \A id \in 1 .. Current : sent'[id] = sent[id]
  BY <1>1, <1>2 DEF Current
<1> DEFINE front == buffer \o wire
<1>5. front \in Seq(Pieces)
  BY <1>1, PiecesOfBoth
<1>6. Stream = front \o device /\ Stream' = front \o device'
  BY DEF Stream
<1>7. Stream \in Seq(Pieces)
  BY <1>1, <1>5, <1>6, PiecesOfBoth
<1> HIDE DEF front
<1>8. Stream' = Stream \/ Stream' = Stream \o Answer(Current + 1)
  <2>1. CASE device' = device
    BY <1>6, <2>1
  <2>2. CASE device' = device \o Answer(Current + 1)
    <3>1. Answer(Current + 1) \in Seq(Pieces)
      BY <1>3, AnswerIsTwoPieces
    <3>2. front \o device \o Answer(Current + 1) = front \o (device \o Answer(Current + 1))
      BY <1>1, <1>5, <3>1, Grouped, Zenon
    <3>. QED BY <1>6, <2>2, <3>2
  <2>. QED BY <1>2, <2>1, <2>2
<1>. QED BY <1>3, <1>4, <1>7, <1>8

\* A new connection leaves the buffer and nothing else.
LEMMA ConnectingKeepsBuffer ==
    ASSUME Typed, Connect
    PROVE  \E lostPieces \in Seq(Pieces) :
              Stream = Stream' \o lostPieces /\ Stream' \in Seq(Pieces)
<1>1. buffer \in Seq(Pieces) /\ wire \in Seq(Pieces) /\ device \in Seq(Pieces)
  BY DEF Typed
<1>2. buffer' = buffer /\ wire' = << >> /\ device' = << >>
  BY DEF Connect
<1>3. buffer \o << >> \o << >> = buffer
  BY <1>1
<1>4. Stream' = buffer
  BY <1>2, <1>3 DEF Stream
<1>5. Stream = buffer \o (wire \o device) /\ wire \o device \in Seq(Pieces)
  BY <1>1, Regrouped DEF Stream
<1>. QED BY <1>1, <1>4, <1>5

-----------------------------------------------------------------------------
(* Types. *)

LEMMA TypedStep ==
    ASSUME Typed, Queued, [Next]_vars
    PROVE  Typed'
<1>1. /\ sent \in Seq(Commands) /\ Len(sent) <= MaxRequests /\ Current = Len(sent)
      /\ Len(sent) \in Nat
      /\ buffer \in Seq(Pieces) /\ wire \in Seq(Pieces) /\ device \in Seq(Pieces)
      /\ abandoned \in [Commands -> Nat] /\ badFrames \in Nat
  BY DEF Typed, Current
<1>2. pc # "caller" => Current \in Ids /\ sent[Current] \in Commands
  BY <1>1, BoundsAssumption DEF Queued, Ids
<1>3. CASE DeviceSends
  <2>1. device # << >> /\ wire' = Append(wire, Head(device)) /\ device' = Tail(device)
    BY <1>3 DEF DeviceSends
  <2>2. wire' \in Seq(Pieces) /\ device' \in Seq(Pieces)
    <3>1. Head(device) \in Pieces /\ Tail(device) \in Seq(Pieces)
      BY <1>1, <2>1
    <3>. QED BY <1>1, <2>1, <3>1
  <2>. QED BY <1>3, <2>2 DEF Typed, DeviceSends, history
<1>4. CASE DeviceCloses
  BY <1>4 DEF Typed, DeviceCloses, history
<1>5. ASSUME NEW command \in Commands, Request(command) \/ SendOnly(command)
      PROVE  Typed'
  <2>1. Send(command) /\ buffer' = buffer /\ wire' = wire
    BY <1>5 DEF Request, SendOnly
  <2>2. Current + 1 \in Ids /\ sent' \in Seq(Commands) /\ Len(sent') = Current + 1
    BY <2>1, SendingAddsAnswer
  <2>3. device' \in Seq(Pieces)
    <3>1. Answer(Current + 1) \in Seq(Pieces)
      BY <2>2, AnswerIsTwoPieces
    <3>2. device \o Answer(Current + 1) \in Seq(Pieces)
      BY <1>1, <3>1, PiecesOfBoth
    <3>. QED BY <1>1, <2>1, <3>2 DEF Send
  <2>4. Len(sent') <= MaxRequests
    BY <2>2, BoundsAssumption DEF Ids
  <2>5. abandoned' \in [Commands -> Nat]
    BY <1>1, <1>5 DEF Request, SendOnly, history
  <2>6. /\ pc' \in {"caller", "loop", "recv"} /\ lost' = lost /\ connects' = connects
        /\ given' = given /\ badFrames' = badFrames
    BY <1>5 DEF Request, SendOnly, history, Typed
  <2>. QED BY <2>1, <2>2, <2>3, <2>4, <2>5, <2>6 DEF Typed
<1>6. CASE ParsesNothing
  <2>1. buffer' \in Seq(Pieces)
    <3>1. PICK d \in 0 .. Len(buffer) : Aligned(buffer) = SubSeq(buffer, d + 1, Len(buffer))
      BY <1>1, AlignedDropsFront
    <3>. QED BY <1>1, <1>6, <3>1 DEF ParsesNothing
  <2>. QED BY <1>6, <2>1 DEF Typed, ParsesNothing, connection, history
<1>7. CASE ParsesResponse \/ ParsesBadFrame
  <2>1. buffer' \in Seq(Pieces) /\ Head(Aligned(buffer)).id \in Ids
    <3>1. FrameIsComplete(Aligned(buffer)) /\ buffer' = Consumed(Aligned(buffer))
      BY <1>7 DEF ParsesResponse, ParsesBadFrame
    <3>2. PICK d \in Nat :
              /\ d + 2 <= Len(buffer)
              /\ Consumed(Aligned(buffer)) = SubSeq(buffer, d + 3, Len(buffer))
              /\ Head(Aligned(buffer)) = buffer[d + 1]
      BY <1>1, <3>1, ConsumedDropsFront
    <3>3. buffer[d + 1] \in Pieces
      BY <1>1, <3>2
    <3>4. SubSeq(buffer, d + 3, Len(buffer)) \in Seq(Pieces)
      BY <1>1, <3>2
    <3>. QED BY <3>1, <3>2, <3>3, <3>4 DEF Pieces
  <2>2. CASE ParsesResponse
    <3>1. pc' \in {"caller", "loop", "recv"} /\ given' \in [to : Ids, of : Ids] \cup {Nothing}
      BY <1>2, <2>1, <2>2 DEF ParsesResponse, Typed
    <3>. QED BY <2>1, <2>2, <3>1 DEF ParsesResponse, Typed, connection
  <2>3. CASE ParsesBadFrame
    <3>1. pc # "caller" /\ Abandon /\ badFrames' = badFrames + 1 /\ pc' = "caller"
          /\ UNCHANGED <<sent, wire, device, lost, connects, given>>
      BY <2>3 DEF ParsesBadFrame, connection
    <3>2. abandoned' \in [Commands -> Nat]
      BY <1>1, <1>2, <3>1 DEF Abandon
    <3>. QED BY <1>1, <2>1, <3>1, <3>2 DEF Typed
  <2>. QED BY <1>7, <2>2, <2>3
<1>8. CASE TimesOut \/ FindsClosed
  <2>1. pc # "caller" /\ Abandon /\ pc' = "caller"
        /\ UNCHANGED <<sent, buffer, wire, device, lost, connects, given, badFrames>>
    BY <1>8 DEF TimesOut, FindsClosed, connection
  <2>2. abandoned' \in [Commands -> Nat]
    BY <1>1, <1>2, <2>1 DEF Abandon
  <2>. QED BY <1>1, <2>1, <2>2 DEF Typed
<1>9. CASE Receives
  <2>1. buffer' \in Seq(Pieces) /\ wire' \in Seq(Pieces)
    BY <1>1, <1>9, PiecesOfBoth DEF Receives
  <2>. QED BY <1>9, <2>1 DEF Receives, Typed, history
<1>10. CASE ReceivesNothing
  BY <1>10 DEF ReceivesNothing, Typed, connection, history
<1>11. CASE Connect
  <2>1. connects' \in 0 .. MaxConnects
    BY <1>11, BoundsAssumption DEF Connect, Typed
  <2>2. wire' \in Seq(Pieces) /\ device' \in Seq(Pieces) /\ lost' \in BOOLEAN
    <3>1. wire' = << >> /\ device' = << >> /\ lost' = FALSE
      BY <1>11 DEF Connect
    <3>2. << >> \in Seq(Pieces)
      OBVIOUS
    <3>. QED BY <3>1, <3>2
  <2>3. UNCHANGED <<sent, pc, buffer, given, abandoned, badFrames>>
    BY <1>11 DEF Connect, history
  <2>. QED BY <2>1, <2>2, <2>3 DEF Typed
<1>12. CASE UNCHANGED vars
  BY <1>12 DEF vars, Typed, connection, history
<1>. QED BY <1>3, <1>4, <1>5, <1>6, <1>7, <1>8, <1>9, <1>10, <1>11, <1>12 DEF Next

-----------------------------------------------------------------------------
(* The order of the answers. *)

LEMMA StreamType ==
    ASSUME Typed
    PROVE  Stream \in Seq(Pieces)
<1>1. buffer \in Seq(Pieces) /\ wire \in Seq(Pieces) /\ device \in Seq(Pieces)
  BY DEF Typed
<1>. QED BY <1>1, Regrouped, PiecesOfBoth DEF Stream

\* What is no request brings no answer on the way.
LEMMA HeadsKept ==
    ASSUME Typed, Queued,
           \/ DeviceSends \/ DeviceCloses \/ TimesOut
           \/ Receives \/ ReceivesNothing \/ FindsClosed
           \/ ParsesNothing \/ ParsesResponse \/ ParsesBadFrame
           \/ Connect \/ UNCHANGED vars
    PROVE  /\ sent' = sent
           /\ Heads(Stream') \subseteq Heads(Stream)
           /\ InOrder(Stream')
           /\ Len(Stream') <= Len(Stream)
<1>1. Stream \in Seq(Pieces) /\ InOrder(Stream) /\ Len(Stream) \in Nat
  BY StreamType DEF Queued
<1>2. CASE \/ DeviceSends \/ DeviceCloses \/ TimesOut
           \/ Receives \/ ReceivesNothing \/ FindsClosed
  BY <1>1, <1>2, MovingKeepsStream
<1>3. CASE UNCHANGED vars
  BY <1>1, <1>3 DEF vars, connection, history, Stream
<1>4. CASE ParsesNothing \/ ParsesResponse \/ ParsesBadFrame
  <2>1. sent' = sent
    BY <1>4 DEF ParsesNothing, ParsesResponse, ParsesBadFrame
  <2>2. PICK n \in 0 .. Len(Stream) : Stream' = SubSeq(Stream, n + 1, Len(Stream))
    BY <1>4, DroppingTakesFront, ParsingTakesFrame
  <2> DEFINE left == SubSeq(Stream, n + 1, Len(Stream))
  <2>3. InOrder(left)
    BY <1>1, FrontTaken
  <2>4. Heads(left) \subseteq Heads(Stream)
    BY <1>1, FrontTaken
  <2>5. Len(left) = Len(Stream) - n
    BY <1>1
  <2> HIDE DEF left
  <2>6. Stream' = left
    BY <2>2 DEF left
  <2>. QED BY <1>1, <2>1, <2>3, <2>4, <2>5, <2>6
<1>5. CASE Connect
  <2>1. PICK lostPieces \in Seq(Pieces) :
              Stream = Stream' \o lostPieces /\ Stream' \in Seq(Pieces)
    BY <1>5, ConnectingKeepsBuffer
  <2>2. InOrder(Stream') /\ Heads(Stream') \subseteq Heads(Stream)
    BY <1>1, <2>1, EndLost
  <2>3. Len(Stream) = Len(Stream') + Len(lostPieces) /\ Len(Stream') \in Nat /\ Len(lostPieces) \in Nat
    BY <2>1, PiecesOfBoth
  <2>4. sent' = sent
    BY <1>5 DEF Connect
  <2>. QED BY <2>2, <2>3, <2>4
<1>. QED BY <1>2, <1>3, <1>4, <1>5

\* A request brings one, behind all the others.
LEMMA HeadsOfRequest ==
    ASSUME Typed, Queued, NEW command \in Commands, Request(command) \/ SendOnly(command)
    PROVE  /\ Current' = Current + 1 /\ Current + 1 \in Ids
           /\ sent'[Current + 1] = command /\ \A id \in 1 .. Current : sent'[id] = sent[id]
           /\ Heads(Stream') \subseteq Heads(Stream) \cup {Current + 1}
           /\ InOrder(Stream')
           /\ Len(Stream') <= Len(Stream) + 2
           /\ Broken(Stream') \subseteq Broken(Stream)
<1>1. Stream \in Seq(Pieces) /\ InOrder(Stream) /\ Len(Stream) \in Nat /\ Current \in Nat
  BY StreamType DEF Queued, Typed, Current
<1>2. Send(command) /\ buffer' = buffer /\ wire' = wire
  BY DEF Request, SendOnly
<1>3. /\ Current + 1 \in Ids /\ Len(sent') = Current + 1
      /\ sent'[Current + 1] = command /\ \A id \in 1 .. Current : sent'[id] = sent[id]
      /\ Stream' = Stream \/ Stream' = Stream \o Answer(Current + 1)
  BY <1>2, SendingAddsAnswer
<1>4. \A id \in Heads(Stream) : id < Current + 1
  <2> SUFFICES ASSUME NEW id \in Heads(Stream) PROVE id < Current + 1
    OBVIOUS
  <2>1. id \in Ids /\ id <= Current
    BY DEF Queued, Heads
  <2>. QED BY <1>1, <2>1 DEF Ids
<1>5. CASE Stream' = Stream
  BY <1>1, <1>3, <1>5 DEF Current
<1>6. CASE Stream' = Stream \o Answer(Current + 1)
  <2>1. /\ Heads(Stream') \subseteq Heads(Stream) \cup {Current + 1}
        /\ InOrder(Stream') /\ Broken(Stream') \subseteq Broken(Stream)
        /\ Len(Stream') = Len(Stream) + 2
    BY <1>1, <1>3, <1>4, <1>6, AnswerAdded
  <2>. QED BY <1>1, <1>3, <2>1 DEF Current
<1>. QED BY <1>3, <1>5, <1>6

\* Every step keeps the answers in the order of their requests.
LEMMA QueuedStep ==
    ASSUME Typed, Queued, [Next]_vars
    PROVE  Queued'
<1>1. Current \in Nat /\ Len(Stream) \in Nat /\ Len(Stream) <= 2 * Current
      /\ (pc # "caller" => Current >= 1) /\ \A id \in Heads(Stream) : id <= Current
  BY StreamType DEF Queued, Typed, Current
<1>2. CASE \/ DeviceSends \/ DeviceCloses \/ TimesOut
           \/ Receives \/ ReceivesNothing \/ FindsClosed
           \/ ParsesNothing \/ ParsesResponse \/ ParsesBadFrame
           \/ Connect \/ UNCHANGED vars
  <2>1. /\ sent' = sent
        /\ Heads(Stream') \subseteq Heads(Stream)
        /\ InOrder(Stream')
        /\ Len(Stream') <= Len(Stream)
    BY <1>2, HeadsKept
  <2>2. Current' = Current
    BY <2>1 DEF Current
  <2>3. pc' # "caller" => pc # "caller"
    BY <1>2 DEF DeviceSends, DeviceCloses, TimesOut, Receives, ReceivesNothing, FindsClosed,
                ParsesNothing, ParsesResponse, ParsesBadFrame, Connect, vars
  <2>. QED BY <1>1, <2>1, <2>2, <2>3 DEF Queued
<1>3. ASSUME NEW command \in Commands, Request(command) \/ SendOnly(command)
      PROVE  Queued'
  <2>1. /\ Current' = Current + 1
        /\ Heads(Stream') \subseteq Heads(Stream) \cup {Current + 1}
        /\ InOrder(Stream')
        /\ Len(Stream') <= Len(Stream) + 2
    BY <1>3, HeadsOfRequest
  <2>2. \A id \in Heads(Stream') : id <= Current'
    <3> SUFFICES ASSUME NEW id \in Heads(Stream') PROVE id <= Current'
      OBVIOUS
    <3>1. id \in Ids
      BY DEF Heads
    <3>. QED BY <1>1, <2>1, <3>1 DEF Ids
  <2>3. Len(Stream') <= 2 * Current'
    BY <1>1, <2>1
  <2>. QED BY <1>1, <2>1, <2>2, <2>3 DEF Queued
<1>. QED BY <1>2, <1>3 DEF Next

-----------------------------------------------------------------------------
(* The lag of the answers. *)

\* A set that gained at most one element counts at most one more.
LEMMA OneMore ==
    ASSUME NEW S, IsFiniteSet(S), NEW x, NEW T, T \subseteq S \cup {x}
    PROVE  /\ IsFiniteSet(T) /\ Cardinality(S) \in Nat /\ Cardinality(T) \in Nat
           /\ Cardinality(T) <= Cardinality(S) + 1
<1>1. IsFiniteSet(S \cup {x}) /\ Cardinality(S \cup {x}) <= Cardinality(S) + 1
  <2>1. /\ IsFiniteSet(S \cup {x})
        /\ Cardinality(S \cup {x}) = IF x \in S THEN Cardinality(S) ELSE Cardinality(S) + 1
    BY FS_AddElement
  <2>2. Cardinality(S) \in Nat
    BY FS_CardinalityType
  <2>. QED BY <2>1, <2>2
<1>2. IsFiniteSet(T) /\ Cardinality(T) <= Cardinality(S \cup {x})
  BY <1>1, FS_Subset
<1>3. Cardinality(S) \in Nat /\ Cardinality(T) \in Nat /\ Cardinality(S \cup {x}) \in Nat
  BY <1>1, <1>2, FS_CardinalityType
<1>. QED BY <1>1, <1>2, <1>3

\* Only finitely many requests end from some answer on.
LEMMA OvertakenIsFinite ==
    ASSUME Typed, NEW id \in Ids
    PROVE  IsFiniteSet(Overtaken(id)) /\ Cardinality(Overtaken(id)) \in Nat
<1>1. Current \in Nat
  BY DEF Typed, Current
<1>2. Ended \in Int /\ id \in Int
  BY <1>1 DEF Ended, Ids
<1>3. IsFiniteSet(id .. Ended)
  BY <1>2, FS_Interval
<1>4. Overtaken(id) \subseteq id .. Ended
  BY DEF Overtaken
<1>5. IsFiniteSet(Overtaken(id))
  BY <1>3, <1>4, FS_Subset
<1>. QED BY <1>5, FS_CardinalityType

\* A later answer to the same command was overtaken less often than an
\* earlier one whose turn is over.
LEMMA LaterAnswerOvertakenLess ==
    ASSUME Typed, NEW early \in Ids, NEW late \in Ids, early < late, early <= Ended,
           sent[late] = sent[early]
    PROVE  Cardinality(Overtaken(late)) + 1 <= Cardinality(Overtaken(early))
<1>1. Ended \in Int
  BY DEF Typed, Current, Ended
<1>2. early \notin Overtaken(late) /\ early \in Overtaken(early)
      /\ Overtaken(late) \subseteq Overtaken(early)
  BY <1>1 DEF Overtaken, Ids
<1>3. IsFiniteSet(Overtaken(late)) /\ IsFiniteSet(Overtaken(early))
  BY OvertakenIsFinite
<1>4. Cardinality(Overtaken(late) \cup {early}) = Cardinality(Overtaken(late)) + 1
  BY <1>2, <1>3, FS_AddElement
<1>5. Cardinality(Overtaken(late) \cup {early}) <= Cardinality(Overtaken(early))
  BY <1>2, <1>3, FS_Subset
<1>. QED BY <1>4, <1>5

\* When a request ends, with an answer or without, only answers to its
\* command are overtaken.
LEMMA EndingOvertakes ==
    ASSUME Typed, Queued, pc # "caller", pc' = "caller", sent' = sent, NEW id \in Ids
    PROVE  /\ Ended' = Ended + 1 /\ Ended' = Current
           /\ Overtaken(id)' \subseteq Overtaken(id) \cup {Current}
           /\ sent[id] # sent[Current] => Overtaken(id)' \subseteq Overtaken(id)
<1>1. Current \in Nat /\ Current' = Current /\ Ended = Current - 1 /\ Ended' = Current
  BY DEF Typed, Current, Ended
<1>2. ASSUME NEW other \in Overtaken(id)'
      PROVE  other \in Overtaken(id) \/ (other = Current /\ sent[id] = sent[Current])
  <2>1. other \in id .. Current /\ sent[other] = sent[id]
    BY <1>1 DEF Overtaken
  <2>. QED BY <1>1, <2>1 DEF Overtaken, Ids
<1>. QED BY <1>1, <1>2

\* What is parsed began before everything that is still on the way.
LEMMA ParsedIsFirst ==
    ASSUME Typed, Queued, ParsesResponse \/ ParsesBadFrame
    PROVE  /\ Head(Aligned(buffer)).id \in Heads(Stream)
           /\ \A id \in Heads(Stream') : Head(Aligned(buffer)).id < id
           /\ ParsesBadFrame => Head(Aligned(buffer)).id \in Broken(Stream)
           /\ Broken(Stream') \subseteq Broken(Stream)
<1> DEFINE first == Head(Aligned(buffer)).id
<1>1. Stream \in Seq(Pieces) /\ InOrder(Stream)
  BY StreamType DEF Queued
<1>2. PICK n \in 0 .. Len(Stream) :
              /\ Stream' = SubSeq(Stream, n + 1, Len(Stream))
              /\ \E m \in 1 .. n :
                    /\ Stream[m] = [id |-> first, part |-> "head"]
                    /\ first \in Heads(Stream)
                    /\ ParsesBadFrame => first \in Broken(Stream)
  BY ParsingTakesFrame
<1>3. PICK m \in 1 .. n :
                    /\ Stream[m] = [id |-> first, part |-> "head"]
                    /\ first \in Heads(Stream)
                    /\ ParsesBadFrame => first \in Broken(Stream)
  BY <1>2
<1> HIDE DEF first
<1>4. Stream[m].part = "head" /\ Stream[m].id = first
  BY <1>3
<1>5. \A id \in Heads(SubSeq(Stream, n + 1, Len(Stream))) : Stream[m].id < id
  BY <1>1, <1>4, LaterAnswersLeft
<1>6. Broken(SubSeq(Stream, n + 1, Len(Stream))) \subseteq Broken(Stream)
  BY <1>1, FrontTaken
<1>. QED BY <1>2, <1>3, <1>4, <1>5, <1>6 DEF first

\* Every step keeps the lag within the abandoned requests.
LEMMA LagStep ==
    ASSUME Typed, Queued, Lag, [Next]_vars
    PROVE  Lag'
<1>1. /\ Current \in Nat /\ abandoned \in [Commands -> Nat] /\ sent \in Seq(Commands)
      /\ Current = Len(sent)
      /\ \A c \in Commands : abandoned[c] \in Nat /\ abandoned[c] <= Ended
  BY DEF Typed, Lag, Current
<1>2. \A id \in Heads(Stream) : /\ id \in Ids /\ id \in 1 .. Current /\ sent[id] \in Commands
                                /\ Cardinality(Overtaken(id)) <= abandoned[sent[id]]
  <2> SUFFICES ASSUME NEW id \in Heads(Stream)
               PROVE  /\ id \in Ids /\ id \in 1 .. Current /\ sent[id] \in Commands
                      /\ Cardinality(Overtaken(id)) <= abandoned[sent[id]]
    OBVIOUS
  <2>1. id \in Ids /\ id <= Current
    BY DEF Heads, Queued
  <2>2. id \in 1 .. Current
    BY <1>1, <2>1 DEF Ids
  <2>. QED BY <1>1, <2>1, <2>2 DEF Lag
<1>3. pc # "caller" => Current \in 1 .. Current /\ sent[Current] \in Commands
  BY <1>1 DEF Queued
<1>4. Ended \in Int
  BY <1>1 DEF Ended
\* Nothing begins or ends.
<1>5. CASE /\ sent' = sent /\ Ended' = Ended /\ abandoned' = abandoned
           /\ Heads(Stream') \subseteq Heads(Stream)
  <2>1. \A id : Overtaken(id)' = Overtaken(id)
    BY <1>5 DEF Overtaken
  <2>2. \A c \in Commands : abandoned'[c] <= Ended'
    BY <1>1, <1>5
  <2>3. \A id \in Heads(Stream') : Cardinality(Overtaken(id)') <= abandoned'[sent'[id]]
    BY <1>2, <1>5, <2>1
  <2>. QED BY <2>2, <2>3 DEF Lag
<1>6. CASE \/ DeviceSends \/ DeviceCloses \/ Receives \/ ReceivesNothing
           \/ ParsesNothing \/ Connect \/ UNCHANGED vars
           \/ ParsesResponse /\ pc' # "caller"
  <2>1. sent' = sent /\ Heads(Stream') \subseteq Heads(Stream)
    BY <1>6, HeadsKept
  <2>2. Ended' = Ended
    BY <1>6, <2>1 DEF Ended, Current, DeviceSends, DeviceCloses, Receives, ReceivesNothing,
                      ParsesNothing, Connect, vars, ParsesResponse
  <2>3. abandoned' = abandoned
    BY <1>6 DEF history, DeviceSends, DeviceCloses, Receives, ReceivesNothing,
                ParsesNothing, Connect, vars, ParsesResponse
  <2>. QED BY <1>5, <2>1, <2>2, <2>3
<1>7. CASE TimesOut \/ FindsClosed \/ ParsesBadFrame
  <2>1. sent' = sent /\ Heads(Stream') \subseteq Heads(Stream)
    BY <1>7, HeadsKept
  <2>2. pc # "caller" /\ pc' = "caller" /\ Abandon
    BY <1>7 DEF TimesOut, FindsClosed, ParsesBadFrame
  <2>3. /\ sent[Current] \in Commands
        /\ abandoned'[sent[Current]] = abandoned[sent[Current]] + 1
        /\ \A c \in Commands : c # sent[Current] => abandoned'[c] = abandoned[c]
    BY <1>1, <1>3, <2>2 DEF Abandon
  <2>4. \A c \in Commands : abandoned'[c] <= Ended'
    <3>1. Ended' = Ended + 1
      BY <1>1, <2>1, <2>2 DEF Ended, Current
    <3> SUFFICES ASSUME NEW c \in Commands PROVE abandoned'[c] <= Ended'
      OBVIOUS
    <3>2. abandoned'[c] <= abandoned[c] + 1
      BY <1>1, <2>3
    <3>3. abandoned'[c] \in Nat
      BY <1>1, <2>3
    <3>. QED BY <1>1, <1>4, <3>1, <3>2, <3>3
  <2>5. ASSUME NEW id \in Heads(Stream')
        PROVE  Cardinality(Overtaken(id)') <= abandoned'[sent'[id]]
    <3>1. id \in Ids /\ sent[id] \in Commands
          /\ Cardinality(Overtaken(id)) <= abandoned[sent[id]]
      BY <1>2, <2>1
    <3>2. IsFiniteSet(Overtaken(id)) /\ Cardinality(Overtaken(id)) \in Nat
      BY <3>1, OvertakenIsFinite
    <3>3. /\ Overtaken(id)' \subseteq Overtaken(id) \cup {Current}
          /\ sent[id] # sent[Current] => Overtaken(id)' \subseteq Overtaken(id)
      BY <2>1, <2>2, <3>1, EndingOvertakes
    <3>4. CASE sent[id] = sent[Current]
      <4>1. /\ Cardinality(Overtaken(id)') <= Cardinality(Overtaken(id)) + 1
            /\ Cardinality(Overtaken(id)') \in Nat
        BY <3>2, <3>3, OneMore
      <4>2. abandoned'[sent'[id]] = abandoned[sent[id]] + 1
        BY <2>1, <2>3, <3>4
      <4>. QED BY <1>1, <3>1, <3>2, <4>1, <4>2
    <3>5. CASE sent[id] # sent[Current]
      <4>1. /\ Cardinality(Overtaken(id)') <= Cardinality(Overtaken(id))
            /\ Cardinality(Overtaken(id)') \in Nat
        BY <3>2, <3>3, <3>5, FS_Subset, FS_CardinalityType
      <4>2. abandoned'[sent'[id]] = abandoned[sent[id]]
        BY <2>1, <2>3, <3>1, <3>5
      <4>. QED BY <1>1, <3>1, <3>2, <4>1, <4>2
    <3>. QED BY <3>4, <3>5
  <2>. QED BY <2>4, <2>5 DEF Lag
<1>8. CASE ParsesResponse /\ pc' = "caller"
  <2> DEFINE first == Head(Aligned(buffer)).id
  <2>1. sent' = sent /\ Heads(Stream') \subseteq Heads(Stream)
    BY <1>8, HeadsKept
  <2>2. pc # "caller" /\ abandoned' = abandoned /\ sent[first] = sent[Current]
    BY <1>8 DEF ParsesResponse
  <2>3. first \in Heads(Stream) /\ \A id \in Heads(Stream') : first < id
    BY <1>8, ParsedIsFirst
  <2> HIDE DEF first
  <2>4. \A c \in Commands : abandoned'[c] <= Ended'
    <3>1. Ended' = Ended + 1
      BY <1>1, <1>8, <2>1, <2>2 DEF Ended, Current
    <3>. QED BY <1>1, <1>4, <2>2, <3>1
  <2>5. ASSUME NEW id \in Heads(Stream')
        PROVE  Cardinality(Overtaken(id)') <= abandoned'[sent'[id]]
    <3>1. /\ id \in Ids /\ sent[id] \in Commands /\ id \in 1 .. Current
          /\ Cardinality(Overtaken(id)) <= abandoned[sent[id]]
      BY <1>2, <2>1
    <3>2. IsFiniteSet(Overtaken(id)) /\ Cardinality(Overtaken(id)) \in Nat
      BY <3>1, OvertakenIsFinite
    <3>3. /\ Overtaken(id)' \subseteq Overtaken(id) \cup {Current}
          /\ sent[id] # sent[Current] => Overtaken(id)' \subseteq Overtaken(id)
      BY <1>8, <2>1, <2>2, <3>1, EndingOvertakes
    <3>4. CASE sent[id] = sent[Current]
      <4>1. /\ Cardinality(Overtaken(id)') <= Cardinality(Overtaken(id)) + 1
            /\ Cardinality(Overtaken(id)') \in Nat
        BY <3>2, <3>3, OneMore
      <4>2. first \in Ids /\ first \in 1 .. Current /\ first < id
            /\ Cardinality(Overtaken(first)) <= abandoned[sent[first]]
        BY <1>2, <2>3
      <4>3. first <= Ended
        BY <1>1, <2>2, <3>1, <4>2 DEF Ended
      <4>4. Cardinality(Overtaken(id)) + 1 <= Cardinality(Overtaken(first))
        BY <2>2, <3>1, <3>4, <4>2, <4>3, LaterAnswerOvertakenLess
      <4>5. abandoned'[sent'[id]] = abandoned[sent[first]]
        BY <2>1, <2>2, <3>4
      <4>6. Cardinality(Overtaken(first)) \in Nat /\ abandoned[sent[first]] \in Nat
        BY <1>1, <3>1, <3>4, <2>2, <4>2, OvertakenIsFinite
      <4>. QED BY <3>2, <4>1, <4>2, <4>4, <4>5, <4>6
    <3>5. CASE sent[id] # sent[Current]
      <4>1. /\ Cardinality(Overtaken(id)') <= Cardinality(Overtaken(id))
            /\ Cardinality(Overtaken(id)') \in Nat
        BY <3>2, <3>3, <3>5, FS_Subset, FS_CardinalityType
      <4>2. abandoned'[sent'[id]] = abandoned[sent[id]]
        BY <2>1, <2>2
      <4>. QED BY <1>1, <3>1, <3>2, <4>1, <4>2
    <3>. QED BY <3>4, <3>5
  <2>. QED BY <2>4, <2>5 DEF Lag
<1>9. ASSUME NEW command \in Commands, Request(command) \/ SendOnly(command)
      PROVE  Lag'
  <2>1. /\ Current' = Current + 1 /\ Current + 1 \in Ids
        /\ sent'[Current + 1] = command /\ \A id \in 1 .. Current : sent'[id] = sent[id]
        /\ Heads(Stream') \subseteq Heads(Stream) \cup {Current + 1}
    BY <1>9, HeadsOfRequest
  <2>2. pc = "caller" /\ Ended = Current
    BY <1>9 DEF Request, SendOnly, Send, Ended
  <2>3. CASE Request(command)
    <3>1. Ended' = Current /\ abandoned' = abandoned
      BY <1>1, <2>1, <2>3 DEF Request, Ended, history
    <3>2. \A c \in Commands : abandoned'[c] <= Ended'
      BY <1>1, <2>2, <3>1
    <3>3. ASSUME NEW id \in Heads(Stream')
          PROVE  Cardinality(Overtaken(id)') <= abandoned'[sent'[id]]
      <4>1. CASE id = Current + 1
        <5>1. Overtaken(id)' = {}
          BY <1>1, <3>1, <4>1 DEF Overtaken
        <5>2. Cardinality({}) = 0
          BY FS_EmptySet
        <5>3. abandoned'[sent'[id]] \in Nat
          BY <1>1, <2>1, <3>1, <4>1
        <5>. QED BY <5>1, <5>2, <5>3
      <4>2. CASE id \in Heads(Stream)
        <5>1. id \in 1 .. Current /\ Cardinality(Overtaken(id)) <= abandoned[sent[id]]
          BY <1>2, <4>2
        <5>2. \A other \in id .. Current : sent'[other] = sent[other]
          BY <2>1, <5>1
        <5>3. Overtaken(id)' = Overtaken(id) /\ sent'[id] = sent[id]
          BY <2>1, <2>2, <3>1, <5>1, <5>2 DEF Overtaken
        <5>. QED BY <3>1, <5>1, <5>3
      <4>. QED BY <2>1, <4>1, <4>2
    <3>. QED BY <3>2, <3>3 DEF Lag
  <2>4. CASE SendOnly(command)
    <3>1. Ended' = Current + 1
      BY <2>1, <2>2, <2>4 DEF SendOnly, Ended
    <3>2. /\ abandoned'[command] = abandoned[command] + 1
          /\ \A c \in Commands : c # command => abandoned'[c] = abandoned[c]
      BY <1>1, <2>4 DEF SendOnly
    <3>3. \A c \in Commands : abandoned'[c] <= Ended'
      <4> SUFFICES ASSUME NEW c \in Commands PROVE abandoned'[c] <= Ended'
        OBVIOUS
      <4>1. CASE c = command
        BY <1>1, <2>2, <3>1, <3>2, <4>1
      <4>2. CASE c # command
        BY <1>1, <2>2, <3>1, <3>2, <4>2
      <4>. QED BY <4>1, <4>2
    <3>4. ASSUME NEW id \in Heads(Stream')
          PROVE  Cardinality(Overtaken(id)') <= abandoned'[sent'[id]]
      <4>1. CASE id = Current + 1
        <5>1. Overtaken(id)' \subseteq {Current + 1}
          BY <1>1, <3>1, <4>1 DEF Overtaken
        <5>2. Cardinality(Overtaken(id)') <= 1 /\ Cardinality(Overtaken(id)') \in Nat
          <6>1. IsFiniteSet({Current + 1}) /\ Cardinality({Current + 1}) = 1
            BY FS_Singleton
          <6>. QED BY <5>1, <6>1, FS_Subset, FS_CardinalityType
        <5>3. abandoned'[sent'[id]] = abandoned[command] + 1 /\ abandoned[command] \in Nat
          BY <1>1, <2>1, <3>2, <4>1
        <5>. QED BY <5>2, <5>3
      <4>2. CASE id \in Heads(Stream)
        <5>1. /\ id \in Ids /\ id \in 1 .. Current /\ sent[id] \in Commands
              /\ Cardinality(Overtaken(id)) <= abandoned[sent[id]]
          BY <1>2, <4>2
        <5>2. \A other \in id .. Current : sent'[other] = sent[other]
          BY <2>1, <5>1
        <5>3. sent'[id] = sent[id]
          BY <2>1, <5>1
        <5>4. IsFiniteSet(Overtaken(id)) /\ Cardinality(Overtaken(id)) \in Nat
          BY <5>1, OvertakenIsFinite
        <5>5. ASSUME NEW other \in Overtaken(id)'
              PROVE  other \in Overtaken(id) \/ (other = Current + 1 /\ sent[id] = command)
          <6>1. other \in id .. Current + 1 /\ sent'[other] = sent'[id]
            BY <3>1 DEF Overtaken
          <6>2. CASE other = Current + 1
            BY <2>1, <5>3, <6>1, <6>2
          <6>3. CASE other # Current + 1
            <7>1. Current \in Int /\ id \in Int /\ other \in id .. Current + 1
              BY <1>1, <5>1, <6>1
            <7>2. other \in id .. Current
              BY <6>3, <7>1
            <7>. QED BY <2>2, <5>2, <5>3, <6>1, <7>2 DEF Overtaken
          <6>. QED BY <6>2, <6>3
        <5>6. CASE sent[id] = command
          <6>1. Overtaken(id)' \subseteq Overtaken(id) \cup {Current + 1}
            BY <5>5
          <6>2. /\ Cardinality(Overtaken(id)') <= Cardinality(Overtaken(id)) + 1
                /\ Cardinality(Overtaken(id)') \in Nat
            BY <5>4, <6>1, OneMore
          <6>3. abandoned'[sent'[id]] = abandoned[sent[id]] + 1
            BY <3>2, <5>3, <5>6
          <6>. QED BY <1>1, <5>1, <5>4, <6>2, <6>3
        <5>7. CASE sent[id] # command
          <6>1. Overtaken(id)' \subseteq Overtaken(id)
            BY <5>5, <5>7
          <6>2. /\ Cardinality(Overtaken(id)') <= Cardinality(Overtaken(id))
                /\ Cardinality(Overtaken(id)') \in Nat
            BY <5>4, <6>1, FS_Subset, FS_CardinalityType
          <6>3. abandoned'[sent'[id]] = abandoned[sent[id]]
            BY <3>2, <5>1, <5>3, <5>7
          <6>. QED BY <1>1, <5>1, <5>4, <6>2, <6>3
        <5>. QED BY <5>6, <5>7
      <4>. QED BY <2>1, <4>1, <4>2
    <3>. QED BY <3>3, <3>4 DEF Lag
  <2>. QED BY <1>9, <2>3, <2>4
<1>. QED BY <1>6, <1>7, <1>8, <1>9 DEF Next

-----------------------------------------------------------------------------
(* The broken answers. *)

LEMMA BrokenIsFinite ==
    ASSUME NEW pieces
    PROVE  /\ IsFiniteSet(Broken(pieces)) /\ Cardinality(Broken(pieces)) \in Nat
           /\ Broken(pieces) \subseteq Heads(pieces)
<1>1. IsFiniteSet(Ids)
  BY BoundsAssumption, FS_Interval DEF Ids
<1>2. Broken(pieces) \subseteq Ids /\ Broken(pieces) \subseteq Heads(pieces)
  BY DEF Broken, Heads
<1>. QED BY <1>1, <1>2, FS_Subset, FS_CardinalityType

\* Every step keeps the broken frames within the connections made.
LEMMA CutsStep ==
    ASSUME Typed, Queued, Cuts, [Next]_vars
    PROVE  Cuts'
<1> DEFINE broken == Broken(Stream)
<1> DEFINE left == Broken(Stream')
<1>1. /\ IsFiniteSet(broken) /\ Cardinality(broken) \in Nat
      /\ IsFiniteSet(left) /\ Cardinality(left) \in Nat
      /\ left \subseteq Heads(Stream')
  BY BrokenIsFinite
<1>2. badFrames \in Nat /\ connects \in Nat /\ badFrames + Cardinality(broken) <= connects
  BY DEF Typed, Cuts
<1>3. Stream \in Seq(Pieces) /\ InOrder(Stream)
  BY StreamType DEF Queued
<1> SUFFICES badFrames' + Cardinality(left) <= connects'
  BY DEF Cuts
<1> HIDE DEF broken, left
<1>4. CASE left \subseteq broken /\ badFrames' = badFrames /\ connects' = connects
  <2>1. Cardinality(left) <= Cardinality(broken)
    BY <1>1, <1>4, FS_Subset
  <2>. QED BY <1>1, <1>2, <1>4, <2>1
<1>5. CASE \/ DeviceSends \/ DeviceCloses \/ TimesOut
           \/ Receives \/ ReceivesNothing \/ FindsClosed
  <2>1. left = broken
    BY <1>5, MovingKeepsStream DEF left, broken
  <2>2. badFrames' = badFrames /\ connects' = connects
    BY <1>5 DEF DeviceSends, DeviceCloses, TimesOut, Receives, ReceivesNothing, FindsClosed,
                connection, history
  <2>. QED BY <1>4, <2>1, <2>2
<1>6. CASE UNCHANGED vars
  <2>1. left = broken /\ badFrames' = badFrames /\ connects' = connects
    BY <1>6 DEF vars, connection, history, Stream, left, broken
  <2>. QED BY <1>4, <2>1
<1>7. CASE ParsesNothing
  <2>1. PICK n \in 0 .. Len(Stream) : Stream' = SubSeq(Stream, n + 1, Len(Stream))
    BY <1>7, DroppingTakesFront
  <2>2. Broken(SubSeq(Stream, n + 1, Len(Stream))) \subseteq Broken(Stream)
    BY <1>3, FrontTaken
  <2>3. left \subseteq broken
    BY <2>1, <2>2 DEF left, broken
  <2>4. badFrames' = badFrames /\ connects' = connects
    BY <1>7 DEF ParsesNothing, connection, history
  <2>. QED BY <1>4, <2>3, <2>4
<1>8. CASE ParsesResponse
  <2>1. left \subseteq broken
    BY <1>8, ParsedIsFirst DEF left, broken
  <2>2. badFrames' = badFrames /\ connects' = connects
    BY <1>8 DEF ParsesResponse, connection
  <2>. QED BY <1>4, <2>1, <2>2
\* The connection has paid for the frame when it was broken.
<1>9. CASE ParsesBadFrame
  <2> DEFINE first == Head(Aligned(buffer)).id
  <2>1. /\ first \in broken /\ left \subseteq broken
        /\ \A id \in Heads(Stream') : first < id
    BY <1>9, ParsedIsFirst DEF left, broken
  <2> HIDE DEF first
  <2>2. first \in Int
    BY <2>1 DEF broken, Broken, Ids
  <2>3. first \notin left
    BY <1>1, <2>1, <2>2
  <2>4. Cardinality(left \cup {first}) = Cardinality(left) + 1
    BY <1>1, <2>3, FS_AddElement
  <2>5. Cardinality(left \cup {first}) <= Cardinality(broken)
    BY <1>1, <2>1, FS_Subset
  <2>6. badFrames' = badFrames + 1 /\ connects' = connects
    BY <1>9 DEF ParsesBadFrame, connection
  <2>. QED BY <1>1, <1>2, <2>4, <2>5, <2>6
<1>10. CASE Connect
  <2>1. PICK lostPieces \in Seq(Pieces) :
              Stream = Stream' \o lostPieces /\ Stream' \in Seq(Pieces)
    BY <1>10, ConnectingKeepsBuffer
  <2>2. \E last : left \subseteq broken \cup {last}
    BY <1>3, <2>1, EndLost DEF left, broken
  <2>3. Cardinality(left) <= Cardinality(broken) + 1
    BY <1>1, <2>2, OneMore
  <2>4. badFrames' = badFrames /\ connects' = connects + 1
    BY <1>10 DEF Connect, history
  <2>. QED BY <1>1, <1>2, <2>3, <2>4
<1>11. ASSUME NEW command \in Commands, Request(command) \/ SendOnly(command)
       PROVE  badFrames' + Cardinality(left) <= connects'
  <2>1. left \subseteq broken
    BY <1>11, HeadsOfRequest DEF left, broken
  <2>2. badFrames' = badFrames /\ connects' = connects
    BY <1>11 DEF Request, SendOnly, history
  <2>. QED BY <1>4, <2>1, <2>2
<1>. QED BY <1>5, <1>6, <1>7, <1>8, <1>9, <1>10, <1>11 DEF Next

-----------------------------------------------------------------------------
(* The answers that were returned. *)

LEMMA GivenLagStep ==
    ASSUME Typed, Queued, Lag, GivenLag, [Next]_vars
    PROVE  GivenLag'
<1>1. /\ Current \in Nat /\ abandoned \in [Commands -> Nat] /\ sent \in Seq(Commands)
      /\ Current = Len(sent)
      /\ given # Nothing => /\ given.to \in Ids /\ given.of \in Ids /\ given.to <= Current
  BY DEF Typed, Current, GivenLag
\* What was returned before stays as it was.
<1>2. ASSUME given' = given, Current <= Current', \A id \in 1 .. Current : sent'[id] = sent[id],
             \A c \in Commands : abandoned'[c] \in Nat /\ abandoned[c] <= abandoned'[c]
      PROVE  GivenLag'
  <2> SUFFICES ASSUME given # Nothing
               PROVE  /\ given.to <= Current'
                      /\ sent'[given.of] = sent'[given.to]
                      /\ given.of <= given.to
                      /\ Cardinality({id \in given.of .. given.to - 1 : sent'[id] = sent'[given.to]})
                            <= abandoned'[sent'[given.to]]
    BY <1>2 DEF GivenLag, AnswerLagIsBounded
  <2> DEFINE overtaken == {id \in given.of .. given.to - 1 : sent[id] = sent[given.to]}
  <2>1. /\ sent[given.of] = sent[given.to]
        /\ given.of <= given.to
        /\ Cardinality(overtaken) <= abandoned[sent[given.to]]
    BY DEF GivenLag, AnswerLagIsBounded
  <2>2. given.of \in 1 .. Current /\ given.to \in 1 .. Current
    BY <1>1, <2>1 DEF Ids
  <2>3. sent'[given.of] = sent[given.of] /\ sent'[given.to] = sent[given.to]
    BY <1>2, <2>2
  <2>4. \A id \in given.of .. given.to - 1 : sent'[id] = sent[id]
    <3> DEFINE low == given.of
    <3> DEFINE high == given.to
    <3>1. low \in 1 .. Current /\ high \in 1 .. Current /\ Current \in Nat
      BY <1>1, <2>2
    <3> HIDE DEF low, high
    <3>2. \A id \in low .. high - 1 : id \in 1 .. Current
      BY <3>1
    <3>. QED BY <1>2, <3>2 DEF low, high
  <2>5. {id \in given.of .. given.to - 1 : sent'[id] = sent'[given.to]} = overtaken
    BY <2>3, <2>4
  <2>6. given.to <= Current'
    <3>1. Current' \in Int \/ Current' = Current
      BY TypedStep DEF Typed, Current
    <3>. QED BY <1>1, <1>2, <2>2, <3>1
  <2>7. Cardinality(overtaken) \in Nat
    <3>1. IsFiniteSet(given.of .. given.to - 1)
      BY <2>2, FS_Interval
    <3>. QED BY <3>1, FS_Subset, FS_CardinalityType
  <2>8. sent[given.to] \in Commands
    BY <1>1, <2>2
  <2> HIDE DEF overtaken
  <2>9. Cardinality(overtaken) <= abandoned'[sent'[given.to]]
    <3>1. /\ abandoned[sent[given.to]] <= abandoned'[sent[given.to]]
          /\ abandoned'[sent[given.to]] \in Nat /\ abandoned[sent[given.to]] \in Nat
      BY <1>1, <1>2, <2>8
    <3>. QED BY <2>1, <2>3, <2>7, <3>1
  <2>. QED BY <2>1, <2>3, <2>5, <2>6, <2>9
<1>3. CASE \/ DeviceSends \/ DeviceCloses \/ Receives \/ ReceivesNothing
           \/ ParsesNothing \/ Connect \/ UNCHANGED vars
           \/ ParsesResponse /\ given' = given
  <2>1. sent' = sent
    BY <1>3, HeadsKept
  <2>2. given' = given /\ abandoned' = abandoned
    BY <1>3 DEF DeviceSends, DeviceCloses, Receives, ReceivesNothing, ParsesNothing, Connect,
                vars, ParsesResponse, history
  <2>. QED BY <1>1, <1>2, <2>1, <2>2 DEF Current
<1>4. CASE TimesOut \/ FindsClosed \/ ParsesBadFrame
  <2>1. sent' = sent
    BY <1>4, HeadsKept
  <2>2. given' = given /\ Abandon /\ pc # "caller"
    BY <1>4 DEF TimesOut, FindsClosed, ParsesBadFrame
  <2>3. sent[Current] \in Commands
    BY <1>1, <2>2 DEF Queued
  <2>4. \A c \in Commands : abandoned'[c] \in Nat /\ abandoned[c] <= abandoned'[c]
    BY <1>1, <2>2, <2>3 DEF Abandon
  <2>. QED BY <1>1, <1>2, <2>1, <2>2, <2>4 DEF Current
<1>5. ASSUME NEW command \in Commands, Request(command) \/ SendOnly(command)
      PROVE  GivenLag'
  <2>1. Current' = Current + 1 /\ \A id \in 1 .. Current : sent'[id] = sent[id]
    BY <1>5, HeadsOfRequest
  <2>2. given' = given
    BY <1>5 DEF Request, SendOnly, history
  <2>3. \A c \in Commands : abandoned'[c] \in Nat /\ abandoned[c] <= abandoned'[c]
    BY <1>1, <1>5 DEF Request, SendOnly, history
  <2>. QED BY <1>1, <1>2, <2>1, <2>2, <2>3
\* A new answer was overtaken no more often than was abandoned.
<1>6. CASE ParsesResponse /\ given' # given
  <2> DEFINE first == Head(Aligned(buffer)).id
  <2>1. /\ given' = [to |-> Current, of |-> first] /\ sent[first] = sent[Current]
        /\ pc # "caller" /\ sent' = sent /\ abandoned' = abandoned
    BY <1>6 DEF ParsesResponse
  <2>2. first \in Heads(Stream)
    BY <1>6, ParsedIsFirst
  <2> HIDE DEF first
  <2>3. first <= Current /\ Cardinality(Overtaken(first)) <= abandoned[sent[first]]
    BY <2>2 DEF Queued, Lag
  <2>4. Overtaken(first) = {id \in first .. Current - 1 : sent[id] = sent[Current]}
    BY <2>1 DEF Overtaken, Ended
  <2>5. given'.to = Current /\ given'.of = first /\ Current' = Current
    BY <2>1 DEF Current
  <2>. QED BY <1>1, <2>1, <2>3, <2>4, <2>5 DEF GivenLag, AnswerLagIsBounded
<1>. QED BY <1>3, <1>4, <1>5, <1>6 DEF Next

-----------------------------------------------------------------------------
(* The theorems. *)

LEMMA InitInvariant ==
    ASSUME Init
    PROVE  MspClientInvariant
<1>1. << >> \in Seq(Pieces) /\ << >> \in Seq(Commands) /\ Len(<< >>) = 0
  OBVIOUS
<1>2. Stream = << >>
  BY DEF Init, Stream
<1>3. Current = 0 /\ Ended = 0
  BY <1>1 DEF Init, Current, Ended
<1>4. Heads(Stream) = {} /\ Broken(Stream) = {} /\ InOrder(Stream)
  <2>1. 1 .. Len(Stream) = {}
    BY <1>1, <1>2
  <2>. QED BY <2>1 DEF Heads, Broken, InOrder
<1>5. Typed
  <2>1. sent \in Seq(Commands) /\ Len(sent) <= MaxRequests
    BY <1>1, BoundsAssumption DEF Init
  <2>2. buffer \in Seq(Pieces) /\ wire \in Seq(Pieces) /\ device \in Seq(Pieces)
    BY <1>1 DEF Init
  <2>3. connects \in 0 .. MaxConnects /\ badFrames \in Nat /\ abandoned \in [Commands -> Nat]
    BY BoundsAssumption DEF Init
  <2>. QED BY <2>1, <2>2, <2>3 DEF Init, Typed
<1>6. Queued
  <2>1. Len(Stream) = 0
    BY <1>1, <1>2
  <2>. QED BY <1>3, <1>4, <2>1 DEF Init, Queued
<1>7. Lag
  <2>1. \A c \in Commands : abandoned[c] = 0
    BY DEF Init
  <2>. QED BY <1>3, <1>4, <2>1 DEF Lag
<1>8. Cuts
  BY <1>4, FS_EmptySet DEF Init, Cuts
<1>9. GivenLag
  BY DEF Init, GivenLag, AnswerLagIsBounded
<1>. QED BY <1>5, <1>6, <1>7, <1>8, <1>9 DEF MspClientInvariant

\* The invariant holds in every state.
THEOREM MspClientInvariantHolds == Spec => []MspClientInvariant
<1>1. Init => MspClientInvariant
  BY InitInvariant
<1>2. MspClientInvariant /\ [Next]_vars => MspClientInvariant'
  BY TypedStep, QueuedStep, LagStep, CutsStep, GivenLagStep DEF MspClientInvariant
<1>. QED BY <1>1, <1>2, PTL DEF Spec

\* Every variable keeps its type: the pieces on the way are no more than two
\* for a request, and no command is given up more often than it was sent
\* (request, send, connect).
THEOREM MspClientTypeCorrect == Spec => []TypeOK
<1>1. MspClientInvariant => TypeOK
  <2> SUFFICES ASSUME MspClientInvariant PROVE TypeOK
    OBVIOUS
  <2>1. /\ Typed /\ Current \in Nat /\ Current <= MaxRequests /\ Len(Stream) <= 2 * Current
        /\ badFrames + Cardinality(Broken(Stream)) <= connects
        /\ \A c \in Commands : abandoned[c] <= Ended
    BY DEF MspClientInvariant, Typed, Queued, Lag, Cuts, Current
  <2>2. Len(Stream) = Len(buffer) + Len(wire) + Len(device)
        /\ Len(buffer) \in Nat /\ Len(wire) \in Nat /\ Len(device) \in Nat
    <3>1. buffer \in Seq(Pieces) /\ wire \in Seq(Pieces) /\ device \in Seq(Pieces)
      BY <2>1 DEF Typed
    <3>2. buffer \o wire \in Seq(Pieces) /\ Len(buffer \o wire) = Len(buffer) + Len(wire)
      BY <3>1, PiecesOfBoth
    <3>3. Len(Stream) = Len(buffer \o wire) + Len(device)
      BY <3>1, <3>2, PiecesOfBoth DEF Stream
    <3>. QED BY <3>1, <3>2, <3>3
  <2>3. Len(buffer) + Len(wire) + Len(device) <= 2 * MaxRequests
    BY <2>1, <2>2, BoundsAssumption
  <2>4. Ended \in Int /\ Ended <= MaxRequests
    BY <2>1, BoundsAssumption DEF Ended
  <2>5. abandoned \in [Commands -> 0 .. MaxRequests]
    <3>1. \A c \in Commands : abandoned[c] \in Nat /\ abandoned[c] <= Ended
      BY <2>1 DEF Typed
    <3>2. \A c \in Commands : abandoned[c] \in 0 .. MaxRequests
      BY <2>4, <3>1, BoundsAssumption
    <3>. QED BY <2>1, <3>2 DEF Typed
  <2>6. badFrames \in 0 .. MaxConnects
    <3>1. Cardinality(Broken(Stream)) \in Nat
      BY BrokenIsFinite
    <3>. QED BY <2>1, <3>1, BoundsAssumption DEF Typed
  <2>. QED BY <2>1, <2>3, <2>5, <2>6 DEF Typed, TypeOK
<1>. QED BY <1>1, MspClientInvariantHolds, PTL

\* A returned answer is late by no more requests of its command than were
\* abandoned, through every mixture of late answers, skipped answers, bad
\* frames and new connections (request, try_parse_response).
THEOREM LagOfAnswersIsBounded == Spec => []AnswerLagIsBounded
<1>1. MspClientInvariant => AnswerLagIsBounded
  BY DEF MspClientInvariant, GivenLag
<1>. QED BY <1>1, MspClientInvariantHolds, PTL

\* A bad checksum is a half frame that an old connection left in the buffer,
\* and each new connection costs at most one (connect, try_parse_response).
THEOREM ConnectionsPayForBadFrames == Spec => []BadFramesAreLeftovers
<1>1. MspClientInvariant => BadFramesAreLeftovers
  <2> SUFFICES ASSUME MspClientInvariant PROVE BadFramesAreLeftovers
    OBVIOUS
  <2>1. badFrames + Cardinality(Broken(Stream)) <= connects /\ badFrames \in Nat /\ connects \in Nat
    BY DEF MspClientInvariant, Typed, Cuts
  <2>2. Cardinality(Broken(Stream)) \in Nat
    BY BrokenIsFinite
  <2>. QED BY <2>1, <2>2 DEF BadFramesAreLeftovers
<1>. QED BY <1>1, MspClientInvariantHolds, PTL
=============================================================================
