--------------------------- MODULE Odometry_proofs ---------------------------
(***************************************************************************)
(* Proofs about Odometry and the changes of frame in Frames, for any poses *)
(* of the vehicle, any bound on time and any width of reset_counter.       *)
(***************************************************************************)
EXTENDS Odometry, TLAPS

-----------------------------------------------------------------------------
(* Vectors and quaternions. *)

LEMMA VectorOfComponents ==
    ASSUME NEW a \in Int, NEW b \in Int, NEW c \in Int
    PROVE  <<a, b, c>> \in Vectors
BY DEF Vectors

\* Vectors are equal when their three components are.
LEMMA EqualVectors ==
    ASSUME NEW u \in Vectors, NEW v \in Vectors, u[1] = v[1], u[2] = v[2], u[3] = v[3]
    PROVE  u = v
BY DEF Vectors

\* The squared norm of a quaternion is a natural number.
LEMMA NormIsNat ==
    ASSUME NEW q \in Quaternions
    PROVE  Norm2(q) \in Nat
BY DEF Norm2, Quaternions

\* A rotation matrix has nine integers.
LEMMA RotationEntries ==
    ASSUME NEW q \in Quaternions, NEW i \in 1 .. 3, NEW j \in 1 .. 3
    PROVE  Rotation(q)[i][j] \in Int
<1>1. q[1] \in Int /\ q[2] \in Int /\ q[3] \in Int /\ q[4] \in Int
  BY DEF Quaternions
<1>2. i \in {1, 2, 3} /\ j \in {1, 2, 3}
  OBVIOUS
<1>. QED BY <1>1, <1>2 DEF Rotation, Norm2

\* Rotating a vector gives a vector.
LEMMA RotatedIsVector ==
    ASSUME NEW q \in Quaternions, NEW v \in Vectors
    PROVE  Rotate(Rotation(q), v) \in Vectors
<1>1. \A i \in 1 .. 3 : /\ Rotation(q)[i][1] \in Int /\ Rotation(q)[i][2] \in Int
                        /\ Rotation(q)[i][3] \in Int
  BY RotationEntries
<1>. QED BY <1>1 DEF Rotate, Vectors

\* Changing the axes of a vector gives a vector.
LEMMA BodyIsVector ==
    ASSUME NEW v \in Vectors
    PROVE  FluToFrd(v) \in Vectors
BY DEF FluToFrd, Vectors

-----------------------------------------------------------------------------
(* The attitude of the ODOMETRY message.                                   *)

\* The quaternion of EnuFluToNedFrdQuaternion by the algebra of quaternions: the
\* turn from east-north-up to north-east-down, q, and the turn from
\* forward-left-up to forward-right-down.  Its norm is that of q, doubled.
Turned(q) == <<q[1] + q[4], q[2] + q[3], q[2] - q[3], q[1] - q[4]>>

Multiple(k, q) == <<k * q[1], k * q[2], k * q[3], k * q[4]>>

\* Changing the axes of a quaternion doubles its squared norm.
LEMMA TurnedNorm ==
    ASSUME NEW q \in Quaternions
    PROVE  Turned(q) \in Quaternions /\ Norm2(Turned(q)) = 2 * Norm2(q)
BY DEF Turned, Norm2, Quaternions

\* The entries of the code's matrix are those of the turned quaternion.
LEMMA MatrixOfTurned ==
    ASSUME NEW q \in Quaternions
    PROVE  LET m == NedFrdMatrix(Rotation(q))
               p == Turned(q)
               n == Norm2(q)
           IN  /\ m[1][1] = n - p[3] * p[3] - p[4] * p[4]
               /\ m[2][2] = n - p[2] * p[2] - p[4] * p[4]
               /\ m[3][3] = n - p[2] * p[2] - p[3] * p[3]
               /\ m[1][2] = p[2] * p[3] - p[1] * p[4]
               /\ m[2][1] = p[2] * p[3] + p[1] * p[4]
               /\ m[1][3] = p[2] * p[4] + p[1] * p[3]
               /\ m[3][1] = p[2] * p[4] - p[1] * p[3]
               /\ m[2][3] = p[3] * p[4] - p[1] * p[2]
               /\ m[3][2] = p[3] * p[4] + p[1] * p[2]
<1> DEFINE m == NedFrdMatrix(Rotation(q))
           p == Turned(q)
           n == Norm2(q)
<1>1. q[1] \in Int /\ q[2] \in Int /\ q[3] \in Int /\ q[4] \in Int
  BY DEF Quaternions
<1> USE <1>1 DEF NedFrdMatrix, Rotation, Turned, Norm2
<1>2. m[1][1] = n - p[3] * p[3] - p[4] * p[4]
  OBVIOUS
<1>3. m[2][2] = n - p[2] * p[2] - p[4] * p[4]
  OBVIOUS
<1>4. m[3][3] = n - p[2] * p[2] - p[3] * p[3]
  OBVIOUS
<1>5. m[1][2] = p[2] * p[3] - p[1] * p[4] /\ m[2][1] = p[2] * p[3] + p[1] * p[4]
  OBVIOUS
<1>6. m[1][3] = p[2] * p[4] + p[1] * p[3] /\ m[3][1] = p[2] * p[4] - p[1] * p[3]
  OBVIOUS
<1>7. m[2][3] = p[3] * p[4] - p[1] * p[2] /\ m[3][2] = p[3] * p[4] + p[1] * p[2]
  OBVIOUS
<1> HIDE <1>1 DEF m, p, n, NedFrdMatrix, Rotation, Turned, Norm2
<1>8. /\ m[1][1] = n - p[3] * p[3] - p[4] * p[4]
      /\ m[2][2] = n - p[2] * p[2] - p[4] * p[4]
      /\ m[3][3] = n - p[2] * p[2] - p[3] * p[3]
      /\ m[1][2] = p[2] * p[3] - p[1] * p[4] /\ m[2][1] = p[2] * p[3] + p[1] * p[4]
      /\ m[1][3] = p[2] * p[4] + p[1] * p[3] /\ m[3][1] = p[2] * p[4] - p[1] * p[3]
      /\ m[2][3] = p[3] * p[4] - p[1] * p[2] /\ m[3][2] = p[3] * p[4] + p[1] * p[2]
  BY <1>2, <1>3, <1>4, <1>5, <1>6, <1>7
<1>. QED BY <1>8 DEF m, p, n

\* Twice a component, times it, is twice its square.
LEMMA DoubleOfComponent ==
    ASSUME NEW x \in Int
    PROVE  (2 * x) * x = 2 * (x * x) /\ (x * x # 0 => 2 * x \in Int \ {0})
<1>1. x = 0 \/ x # 0
  OBVIOUS
<1>. QED BY <1>1

\* Whichever branch EnuFluToNedFrdQuaternion takes, the component it divides by
\* is not zero and the others fit it: the outcome is a multiple of the turned
\* quaternion.
LEMMA BranchIsMultiple ==
    ASSUME NEW q \in Quaternions, Norm2(q) > 0
    PROVE  \E k \in Int \ {0} : EnuFluToNedFrdQuaternion(q) = Multiple(k, Turned(q))
<1> DEFINE m == NedFrdMatrix(Rotation(q))
           p == Turned(q)
           n == Norm2(q)
           trace == m[1][1] + m[2][2] + m[3][3]
           o == EnuFluToNedFrdQuaternion(q)
<1>1. /\ p[1] \in Int /\ p[2] \in Int /\ p[3] \in Int /\ p[4] \in Int
      /\ n \in Nat /\ n > 0
      /\ p[1] * p[1] + p[2] * p[2] + p[3] * p[3] + p[4] * p[4] = 2 * n
  BY TurnedNorm, NormIsNat DEF Norm2, Quaternions
<1>2. /\ m[1][1] = n - p[3] * p[3] - p[4] * p[4]
      /\ m[2][2] = n - p[2] * p[2] - p[4] * p[4]
      /\ m[3][3] = n - p[2] * p[2] - p[3] * p[3]
  BY MatrixOfTurned
<1>3. /\ m[3][2] - m[2][3] = (2 * p[1]) * p[2]
      /\ m[1][3] - m[3][1] = (2 * p[1]) * p[3]
      /\ m[2][1] - m[1][2] = (2 * p[1]) * p[4]
  BY <1>1, MatrixOfTurned
<1>4. /\ m[1][2] + m[2][1] = (2 * p[2]) * p[3]
      /\ m[1][3] + m[3][1] = (2 * p[2]) * p[4]
      /\ m[2][3] + m[3][2] = (2 * p[3]) * p[4]
  BY <1>1, MatrixOfTurned
<1>5. o = IF trace > 0
            THEN <<n + trace, m[3][2] - m[2][3], m[1][3] - m[3][1], m[2][1] - m[1][2]>>
          ELSE IF m[1][1] > m[2][2] /\ m[1][1] > m[3][3]
            THEN <<m[3][2] - m[2][3], n + m[1][1] - m[2][2] - m[3][3],
                   m[1][2] + m[2][1], m[1][3] + m[3][1]>>
          ELSE IF m[2][2] > m[3][3]
            THEN <<m[1][3] - m[3][1], m[1][2] + m[2][1],
                   n + m[2][2] - m[1][1] - m[3][3], m[2][3] + m[3][2]>>
          ELSE <<m[2][1] - m[1][2], m[1][3] + m[3][1], m[2][3] + m[3][2],
                 n + m[3][3] - m[1][1] - m[2][2]>>
  BY DEF EnuFluToNedFrdQuaternion
<1> HIDE DEF m, p, n, o
<1> DEFINE s1 == p[1] * p[1]
           s2 == p[2] * p[2]
           s3 == p[3] * p[3]
           s4 == p[4] * p[4]
           a == m[1][1]
           b == m[2][2]
           c == m[3][3]
<1>6. /\ s1 \in Int /\ s2 \in Int /\ s3 \in Int /\ s4 \in Int /\ n \in Int /\ n > 0
      /\ s1 + s2 + s3 + s4 = 2 * n
      /\ a = n - s3 - s4 /\ b = n - s2 - s4 /\ c = n - s2 - s3
  BY <1>1, <1>2
<1> HIDE DEF s1, s2, s3, s4, a, b, c
<1>7. /\ n + (a + b + c) = 2 * s1
      /\ n + a - b - c = 2 * s2
      /\ n + b - a - c = 2 * s3
      /\ n + c - a - b = 2 * s4
      /\ a + b + c > 0 => s1 # 0
      /\ ~(a + b + c > 0) /\ a > b /\ a > c => s2 # 0
      /\ ~(a + b + c > 0) /\ ~(a > b /\ a > c) /\ b > c => s3 # 0
      /\ ~(a + b + c > 0) /\ ~(a > b /\ a > c) /\ ~(b > c) => s4 # 0
  BY <1>6
<1> USE DEF s1, s2, s3, s4, a, b, c
<1>8. CASE trace > 0
  <2>1. 2 * p[1] \in Int \ {0}
    BY <1>1, <1>7, <1>8, DoubleOfComponent
  <2>2. n + trace = (2 * p[1]) * p[1]
    BY <1>1, <1>7, DoubleOfComponent
  <2>3. o = Multiple(2 * p[1], p)
    BY <1>3, <1>5, <2>2, <1>8 DEF Multiple
  <2>. QED BY <2>1, <2>3 DEF o, p
<1>9. CASE ~(trace > 0) /\ m[1][1] > m[2][2] /\ m[1][1] > m[3][3]
  <2>1. 2 * p[2] \in Int \ {0}
    BY <1>1, <1>7, <1>9, DoubleOfComponent
  <2>2. n + m[1][1] - m[2][2] - m[3][3] = (2 * p[2]) * p[2]
    BY <1>1, <1>7, DoubleOfComponent
  <2>3. (2 * p[1]) * p[2] = (2 * p[2]) * p[1]
    BY <1>1
  <2>4. o = Multiple(2 * p[2], p)
    BY <1>3, <1>4, <1>5, <2>2, <2>3, <1>9 DEF Multiple
  <2>. QED BY <2>1, <2>4 DEF o, p
<1>10. CASE ~(trace > 0) /\ ~(m[1][1] > m[2][2] /\ m[1][1] > m[3][3]) /\ m[2][2] > m[3][3]
  <2>1. 2 * p[3] \in Int \ {0}
    BY <1>1, <1>7, <1>10, DoubleOfComponent
  <2>2. n + m[2][2] - m[1][1] - m[3][3] = (2 * p[3]) * p[3]
    BY <1>1, <1>7, DoubleOfComponent
  <2>3. (2 * p[1]) * p[3] = (2 * p[3]) * p[1] /\ (2 * p[2]) * p[3] = (2 * p[3]) * p[2]
    BY <1>1
  <2>4. o = Multiple(2 * p[3], p)
    BY <1>3, <1>4, <1>5, <2>2, <2>3, <1>10 DEF Multiple
  <2>. QED BY <2>1, <2>4 DEF o, p
<1>11. CASE ~(trace > 0) /\ ~(m[1][1] > m[2][2] /\ m[1][1] > m[3][3]) /\ ~(m[2][2] > m[3][3])
  <2>1. 2 * p[4] \in Int \ {0}
    BY <1>1, <1>7, <1>11, DoubleOfComponent
  <2>2. n + m[3][3] - m[1][1] - m[2][2] = (2 * p[4]) * p[4]
    BY <1>1, <1>7, DoubleOfComponent
  <2>3. /\ (2 * p[1]) * p[4] = (2 * p[4]) * p[1] /\ (2 * p[2]) * p[4] = (2 * p[4]) * p[2]
        /\ (2 * p[3]) * p[4] = (2 * p[4]) * p[3]
    BY <1>1
  <2>4. o = Multiple(2 * p[4], p)
    BY <1>3, <1>4, <1>5, <2>2, <2>3, <1>11 DEF Multiple
  <2>. QED BY <2>1, <2>4 DEF o, p
<1>. QED BY <1>8, <1>9, <1>10, <1>11

\* A multiple of a quaternion stands for the same rotation.
LEMMA MultipleRotates ==
    ASSUME NEW k \in Int, NEW p \in Quaternions, NEW v \in Vectors
    PROVE  /\ Norm2(Multiple(k, p)) = (k * k) * Norm2(p)
           /\ \A i \in 1 .. 3 : Rotate(Rotation(Multiple(k, p)), v)[i]
                                  = (k * k) * Rotate(Rotation(p), v)[i]
<1>1. /\ p[1] \in Int /\ p[2] \in Int /\ p[3] \in Int /\ p[4] \in Int
      /\ v[1] \in Int /\ v[2] \in Int /\ v[3] \in Int
  BY DEF Quaternions, Vectors
<1>2. Norm2(Multiple(k, p)) = (k * k) * Norm2(p)
  BY <1>1 DEF Norm2, Multiple
<1>3. \A i, j \in 1 .. 3 : Rotation(Multiple(k, p))[i][j] = (k * k) * Rotation(p)[i][j]
  <2>1. Rotation(Multiple(k, p))[1][1] = (k * k) * Rotation(p)[1][1]
    BY <1>1 DEF Rotation, Norm2, Multiple
  <2>2. Rotation(Multiple(k, p))[1][2] = (k * k) * Rotation(p)[1][2]
    BY <1>1 DEF Rotation, Norm2, Multiple
  <2>3. Rotation(Multiple(k, p))[1][3] = (k * k) * Rotation(p)[1][3]
    BY <1>1 DEF Rotation, Norm2, Multiple
  <2>4. Rotation(Multiple(k, p))[2][1] = (k * k) * Rotation(p)[2][1]
    BY <1>1 DEF Rotation, Norm2, Multiple
  <2>5. Rotation(Multiple(k, p))[2][2] = (k * k) * Rotation(p)[2][2]
    BY <1>1 DEF Rotation, Norm2, Multiple
  <2>6. Rotation(Multiple(k, p))[2][3] = (k * k) * Rotation(p)[2][3]
    BY <1>1 DEF Rotation, Norm2, Multiple
  <2>7. Rotation(Multiple(k, p))[3][1] = (k * k) * Rotation(p)[3][1]
    BY <1>1 DEF Rotation, Norm2, Multiple
  <2>8. Rotation(Multiple(k, p))[3][2] = (k * k) * Rotation(p)[3][2]
    BY <1>1 DEF Rotation, Norm2, Multiple
  <2>9. Rotation(Multiple(k, p))[3][3] = (k * k) * Rotation(p)[3][3]
    BY <1>1 DEF Rotation, Norm2, Multiple
  <2>. QED BY <2>1, <2>2, <2>3, <2>4, <2>5, <2>6, <2>7, <2>8, <2>9
<1>4. ASSUME NEW i \in 1 .. 3
      PROVE  Rotate(Rotation(Multiple(k, p)), v)[i] = (k * k) * Rotate(Rotation(p), v)[i]
  <2>1. Rotation(p)[i][1] \in Int /\ Rotation(p)[i][2] \in Int /\ Rotation(p)[i][3] \in Int
    BY RotationEntries
  <2>2. /\ Rotation(Multiple(k, p))[i][1] = (k * k) * Rotation(p)[i][1]
        /\ Rotation(Multiple(k, p))[i][2] = (k * k) * Rotation(p)[i][2]
        /\ Rotation(Multiple(k, p))[i][3] = (k * k) * Rotation(p)[i][3]
    BY <1>3
  <2> HIDE DEF Rotation
  <2>. QED BY <1>1, <2>1, <2>2 DEF Rotate
<1>. QED BY <1>2, <1>4

\* The matrix of the code is half the matrix of the turned quaternion.
LEMMA TurnedMatrix ==
    ASSUME NEW q \in Quaternions, NEW i \in 1 .. 3, NEW j \in 1 .. 3
    PROVE  Rotation(Turned(q))[i][j] = 2 * NedFrdMatrix(Rotation(q))[i][j]
<1> DEFINE m == NedFrdMatrix(Rotation(q))
           p == Turned(q)
           n == Norm2(q)
<1>1. /\ p[1] \in Int /\ p[2] \in Int /\ p[3] \in Int /\ p[4] \in Int /\ n \in Int
      /\ Norm2(p) = 2 * n
  BY TurnedNorm, NormIsNat DEF Quaternions
<1>2. /\ m[1][1] = n - p[3] * p[3] - p[4] * p[4]
      /\ m[2][2] = n - p[2] * p[2] - p[4] * p[4]
      /\ m[3][3] = n - p[2] * p[2] - p[3] * p[3]
  BY MatrixOfTurned
<1>3. /\ m[1][2] = p[2] * p[3] - p[1] * p[4] /\ m[2][1] = p[2] * p[3] + p[1] * p[4]
      /\ m[1][3] = p[2] * p[4] + p[1] * p[3] /\ m[3][1] = p[2] * p[4] - p[1] * p[3]
      /\ m[2][3] = p[3] * p[4] - p[1] * p[2] /\ m[3][2] = p[3] * p[4] + p[1] * p[2]
  BY MatrixOfTurned
<1> HIDE DEF m, p, n
<1>4. /\ Rotation(p)[1][1] = 2 * m[1][1]
      /\ Rotation(p)[2][2] = 2 * m[2][2]
      /\ Rotation(p)[3][3] = 2 * m[3][3]
  BY <1>1, <1>2 DEF Rotation
<1>5. /\ Rotation(p)[1][2] = 2 * m[1][2] /\ Rotation(p)[2][1] = 2 * m[2][1]
      /\ Rotation(p)[1][3] = 2 * m[1][3] /\ Rotation(p)[3][1] = 2 * m[3][1]
      /\ Rotation(p)[2][3] = 2 * m[2][3] /\ Rotation(p)[3][2] = 2 * m[3][2]
  BY <1>1, <1>3 DEF Rotation
<1>6. i \in {1, 2, 3} /\ j \in {1, 2, 3}
  OBVIOUS
<1>. QED BY <1>4, <1>5, <1>6 DEF p, m

\* The turned quaternion takes a body vector, its axes forward, right and down,
\* to where q takes it, told as north, east and down.
LEMMA TurnedRotates ==
    ASSUME NEW q \in Quaternions, NEW v \in Vectors, NEW i \in 1 .. 3
    PROVE  Rotate(Rotation(Turned(q)), FluToFrd(v))[i]
             = 2 * NorthEastDown(Rotate(Rotation(q), v))[i]
<1> DEFINE r == Rotation(q)
           t == Rotation(Turned(q))
<1>1. v[1] \in Int /\ v[2] \in Int /\ v[3] \in Int
  BY DEF Vectors
<1>2. /\ r[1][1] \in Int /\ r[1][2] \in Int /\ r[1][3] \in Int
      /\ r[2][1] \in Int /\ r[2][2] \in Int /\ r[2][3] \in Int
      /\ r[3][1] \in Int /\ r[3][2] \in Int /\ r[3][3] \in Int
  BY RotationEntries
<1>3. /\ t[1][1] = 2 * NedFrdMatrix(r)[1][1] /\ t[1][2] = 2 * NedFrdMatrix(r)[1][2]
      /\ t[1][3] = 2 * NedFrdMatrix(r)[1][3] /\ t[2][1] = 2 * NedFrdMatrix(r)[2][1]
      /\ t[2][2] = 2 * NedFrdMatrix(r)[2][2] /\ t[2][3] = 2 * NedFrdMatrix(r)[2][3]
      /\ t[3][1] = 2 * NedFrdMatrix(r)[3][1] /\ t[3][2] = 2 * NedFrdMatrix(r)[3][2]
      /\ t[3][3] = 2 * NedFrdMatrix(r)[3][3]
  BY TurnedMatrix
<1> HIDE DEF r, t
<1>4. t[1][1] = 2 * r[2][1] /\ t[1][2] = - (2 * r[2][2]) /\ t[1][3] = - (2 * r[2][3])
  BY <1>2, <1>3 DEF NedFrdMatrix
<1>5. t[2][1] = 2 * r[1][1] /\ t[2][2] = - (2 * r[1][2]) /\ t[2][3] = - (2 * r[1][3])
  BY <1>2, <1>3 DEF NedFrdMatrix
<1>6. t[3][1] = - (2 * r[3][1]) /\ t[3][2] = 2 * r[3][2] /\ t[3][3] = 2 * r[3][3]
  BY <1>2, <1>3 DEF NedFrdMatrix
<1>7. Rotate(t, FluToFrd(v))[1] = 2 * NorthEastDown(Rotate(r, v))[1]
  <2>1. NorthEastDown(Rotate(r, v))[1] = r[2][1] * v[1] + r[2][2] * v[2] + r[2][3] * v[3]
    BY <1>1, <1>2 DEF Rotate, NorthEastDown
  <2>2. Rotate(t, FluToFrd(v))[1]
          = t[1][1] * v[1] + t[1][2] * (-v[2]) + t[1][3] * (-v[3])
    BY DEF Rotate, FluToFrd
  <2>. QED BY <1>1, <1>2, <1>4, <2>1, <2>2
<1>8. Rotate(t, FluToFrd(v))[2] = 2 * NorthEastDown(Rotate(r, v))[2]
  <2>1. NorthEastDown(Rotate(r, v))[2] = r[1][1] * v[1] + r[1][2] * v[2] + r[1][3] * v[3]
    BY <1>1, <1>2 DEF Rotate, NorthEastDown
  <2>2. Rotate(t, FluToFrd(v))[2]
          = t[2][1] * v[1] + t[2][2] * (-v[2]) + t[2][3] * (-v[3])
    BY DEF Rotate, FluToFrd
  <2>. QED BY <1>1, <1>2, <1>5, <2>1, <2>2
<1>9. Rotate(t, FluToFrd(v))[3] = 2 * NorthEastDown(Rotate(r, v))[3]
  <2>1. NorthEastDown(Rotate(r, v))[3]
          = - (r[3][1] * v[1]) - (r[3][2] * v[2]) - (r[3][3] * v[3])
    BY <1>1, <1>2 DEF Rotate, NorthEastDown
  <2>2. Rotate(t, FluToFrd(v))[3]
          = t[3][1] * v[1] + t[3][2] * (-v[2]) + t[3][3] * (-v[3])
    BY DEF Rotate, FluToFrd
  <2>. QED BY <1>1, <1>2, <1>6, <2>1, <2>2
<1>10. i \in {1, 2, 3}
  OBVIOUS
<1>. QED BY <1>7, <1>8, <1>9, <1>10 DEF r, t

\* The attitude and a body vector of an ODOMETRY message together tell the
\* vector Gazebo meant, in north, east and down (EnuFluToNedFrdQuaternion,
\* FluToFrd).
LEMMA MessageTellsWorldVector ==
    ASSUME NEW q \in Quaternions, Norm2(q) > 0, NEW v \in Vectors
    PROVE  LET o == EnuFluToNedFrdQuaternion(q)
           IN  /\ o \in Quaternions
               /\ Norm2(o) > 0
               /\ Scale(Norm2(q), Rotate(Rotation(o), FluToFrd(v)))
                    = Scale(Norm2(o), NorthEastDown(Rotate(Rotation(q), v)))
<1> DEFINE o == EnuFluToNedFrdQuaternion(q)
           u == FluToFrd(v)
           n == Norm2(q)
           said == Rotate(Rotation(o), u)
           meant == NorthEastDown(Rotate(Rotation(q), v))
<1>1. PICK k \in Int \ {0} : o = Multiple(k, Turned(q))
  BY BranchIsMultiple
<1>2. Turned(q) \in Quaternions /\ Norm2(Turned(q)) = 2 * n /\ n \in Nat /\ n > 0
  BY TurnedNorm, NormIsNat
<1>3. o \in Quaternions
  BY <1>1, <1>2 DEF Multiple, Quaternions
<1>4. u \in Vectors
  BY BodyIsVector
<1>5. said \in Vectors
  BY <1>3, <1>4, RotatedIsVector
<1>6. meant \in Vectors
  BY RotatedIsVector DEF NorthEastDown, Vectors
<1>7. Norm2(o) = (k * k) * (2 * n)
  BY <1>1, <1>2, MultipleRotates
<1>8. ASSUME NEW i \in 1 .. 3 PROVE said[i] = (k * k) * (2 * meant[i])
  BY <1>1, <1>2, <1>4, MultipleRotates, TurnedRotates
<1> HIDE DEF o, u, n, said, meant
<1>9. k * k \in Nat /\ k * k > 0
  BY <1>1
<1>10. Norm2(o) > 0
  BY <1>2, <1>7, <1>9
<1>11. ASSUME NEW i \in 1 .. 3 PROVE n * said[i] = Norm2(o) * meant[i]
  <2>1. meant[i] \in Int
    BY <1>6 DEF Vectors
  <2>. QED BY <1>2, <1>7, <1>8, <1>9, <2>1
<1>12. Scale(n, said) = Scale(Norm2(o), meant)
  BY <1>5, <1>6, <1>11 DEF Scale, Vectors
<1>. QED BY <1>3, <1>10, <1>12 DEF o, u, n, said, meant

\* The attitude and a body vector of an FDM packet together tell it too, in
\* east, south and down (FluBodyToEnuWorldQuatToGazeboBridgeQuat).
LEMMA PacketTellsWorldVector ==
    ASSUME NEW q \in Quaternions, NEW v \in Vectors
    PROVE  LET f == FluBodyToEnuWorldQuatToGazeboBridgeQuat(q)
               told == Rotate(Rotation(f), FluVectorToFrdSensor(v))
           IN  /\ Norm2(f) = Norm2(q)
               /\ <<-told[2], told[1], told[3]>> = NorthEastDown(Rotate(Rotation(q), v))
<1> DEFINE f == FluBodyToEnuWorldQuatToGazeboBridgeQuat(q)
           r == Rotation(q)
           t == Rotation(f)
<1>1. /\ q[1] \in Int /\ q[2] \in Int /\ q[3] \in Int /\ q[4] \in Int
      /\ v[1] \in Int /\ v[2] \in Int /\ v[3] \in Int
  BY DEF Quaternions, Vectors
<1>2. Norm2(f) = Norm2(q)
  BY <1>1 DEF Norm2, FluBodyToEnuWorldQuatToGazeboBridgeQuat
<1>3. /\ r[1][1] \in Int /\ r[1][2] \in Int /\ r[1][3] \in Int
      /\ r[2][1] \in Int /\ r[2][2] \in Int /\ r[2][3] \in Int
      /\ r[3][1] \in Int /\ r[3][2] \in Int /\ r[3][3] \in Int
  BY RotationEntries
<1> USE DEF Rotation, Norm2, FluBodyToEnuWorldQuatToGazeboBridgeQuat
<1>4. t[1][1] = r[1][1] /\ t[1][2] = - r[1][2] /\ t[1][3] = - r[1][3]
  BY <1>1
<1>5. t[2][1] = - r[2][1] /\ t[2][2] = r[2][2] /\ t[2][3] = r[2][3]
  BY <1>1
<1>6. t[3][1] = - r[3][1] /\ t[3][2] = r[3][2] /\ t[3][3] = r[3][3]
  <2>1. t[3][1] = - r[3][1]
    BY <1>1
  <2>2. t[3][2] = r[3][2]
    BY <1>1
  <2>3. t[3][3] = r[3][3]
    BY <1>1
  <2> HIDE DEF Rotation, Norm2, FluBodyToEnuWorldQuatToGazeboBridgeQuat, f, r, t
  <2>. QED BY <2>1, <2>2, <2>3
<1> HIDE DEF Rotation, Norm2, FluBodyToEnuWorldQuatToGazeboBridgeQuat, f, r, t
<1> DEFINE told == Rotate(t, FluVectorToFrdSensor(v))
           meant == Rotate(r, v)
<1>7. told[1] = meant[1]
  <2>1. told[1] = t[1][1] * v[1] + t[1][2] * (-v[2]) + t[1][3] * (-v[3])
    BY DEF Rotate, FluVectorToFrdSensor
  <2>2. meant[1] = r[1][1] * v[1] + r[1][2] * v[2] + r[1][3] * v[3]
    BY DEF Rotate
  <2> HIDE DEF told, meant
  <2>. QED BY <1>1, <1>3, <1>4, <2>1, <2>2
<1>8. -told[2] = meant[2]
  <2>1. told[2] = t[2][1] * v[1] + t[2][2] * (-v[2]) + t[2][3] * (-v[3])
    BY DEF Rotate, FluVectorToFrdSensor
  <2>2. meant[2] = r[2][1] * v[1] + r[2][2] * v[2] + r[2][3] * v[3]
    BY DEF Rotate
  <2> HIDE DEF told, meant
  <2>. QED BY <1>1, <1>3, <1>5, <2>1, <2>2
<1>9. told[3] = -meant[3]
  <2>1. told[3] = t[3][1] * v[1] + t[3][2] * (-v[2]) + t[3][3] * (-v[3])
    BY DEF Rotate, FluVectorToFrdSensor
  <2>2. meant[3] = r[3][1] * v[1] + r[3][2] * v[2] + r[3][3] * v[3]
    BY DEF Rotate
  <2> HIDE DEF told, meant
  <2>. QED BY <1>1, <1>3, <1>6, <2>1, <2>2
<1> HIDE DEF told, meant
<1>10. <<-told[2], told[1], told[3]>> = NorthEastDown(meant)
  BY <1>7, <1>8, <1>9 DEF NorthEastDown
<1>. QED BY <1>2, <1>10 DEF told, meant, f, r, t

-----------------------------------------------------------------------------
(* Types. *)

LEMMA PoseFields ==
    ASSUME NEW p \in Poses
    PROVE  /\ p.position \in Vectors /\ p.linearVelocity \in Vectors
           /\ p.angularVelocity \in Vectors
           /\ p.orientation \in Quaternions /\ p.finite \in BOOLEAN
BY PoseAssumption

\* The counter stays within its field, and counting changes it: it has two
\* values or more (++resetCounter_).
LEMMA CounterCounts ==
    ASSUME resetCounter \in 0 .. CounterSize - 1
    PROVE  NextCounter \in 0 .. CounterSize - 1 /\ NextCounter # resetCounter
<1>1. CounterSize \in Nat /\ CounterSize > 1
  BY BoundAssumption
<1>2. CASE resetCounter + 1 < CounterSize
  <2>1. (resetCounter + 1) % CounterSize = resetCounter + 1
    BY <1>1, <1>2
  <2>. QED BY <1>1, <1>2, <2>1 DEF NextCounter
<1>3. CASE resetCounter + 1 = CounterSize
  <2>1. (resetCounter + 1) % CounterSize = 0
    BY <1>1, <1>3
  <2>. QED BY <1>1, <1>3, <2>1 DEF NextCounter
<1>. QED BY <1>1, <1>2, <1>3

\* The last message was made from the last pose that was finite, and the
\* converter remembers that message: its time, its counter and the origin its
\* position is measured from.  A sample to be sent is there.
MessageOfShown ==
    /\ unsent => sample # None
    /\ message = None => lastTimeUsec = None /\ origin = None
    /\ message # None =>
        /\ shown \in Poses
        /\ Finite(shown)
        /\ origin # None
        /\ message.timeUsec = lastTimeUsec
        /\ message.resetCounter = resetCounter
        /\ message.position = EnuToNed(Minus(shown.position, origin))
        /\ message.orientation = EnuFluToNedFrdQuaternion(shown.orientation)
        /\ message.linearVelocity = FluToFrd(shown.linearVelocity)
        /\ message.angularVelocity = FluToFrd(shown.angularVelocity)

OdometryInvariant == TypeOK /\ MessageOfShown

\* The invariant holds at the start.
LEMMA InitInvariant == Init => OdometryInvariant
<1> SUFFICES ASSUME Init PROVE OdometryInvariant OBVIOUS
<1>1. /\ 0 \in 0 .. MaxTime /\ StaleAfter + 1 \in 0 .. StaleAfter + 1
      /\ 0 \in 0 .. CounterSize - 1
  BY BoundAssumption
<1>. QED BY <1>1 DEF Init, OdometryInvariant, TypeOK, MessageOfShown

\* What Convert reports of a finite sample is a message of the right types.
LEMMA ConvertedIsMessage ==
    ASSUME NEW p \in Poses, Finite(p), NEW time \in 0 .. MaxTime, NEW o \in Vectors,
           NEW counter \in 0 .. CounterSize - 1
    PROVE  [timeUsec |-> time,
            position |-> EnuToNed(Minus(p.position, o)),
            orientation |-> EnuFluToNedFrdQuaternion(p.orientation),
            linearVelocity |-> FluToFrd(p.linearVelocity),
            angularVelocity |-> FluToFrd(p.angularVelocity),
            resetCounter |-> counter] \in Messages
<1>1. /\ p.position \in Vectors /\ p.linearVelocity \in Vectors
      /\ p.angularVelocity \in Vectors /\ p.orientation \in Quaternions
  BY PoseFields
<1>2. EnuToNed(Minus(p.position, o)) \in Vectors
  BY <1>1 DEF EnuToNed, Minus, Vectors
<1>3. EnuFluToNedFrdQuaternion(p.orientation) \in Quaternions
  BY <1>1, MessageTellsWorldVector DEF Finite
<1>4. /\ FluToFrd(p.linearVelocity) \in Vectors
      /\ FluToFrd(p.angularVelocity) \in Vectors
  BY <1>1, BodyIsVector
<1>. QED BY <1>2, <1>3, <1>4 DEF Messages

\* The one step that changes the converter.
Converts == Update /\ Finite(sample.pose)

\* A converted sample leaves everything as it should be.
LEMMA ConvertStep ==
    ASSUME OdometryInvariant, Converts
    PROVE  /\ sample \in Samples
           /\ lastTimeUsec' \in 0 .. MaxTime
           /\ resetCounter' \in 0 .. CounterSize - 1
           /\ origin' \in {p.position : p \in Poses}
           /\ message' \in Messages
           /\ message' # None
           /\ OdometryInvariant'
<1>1. sample \in Samples /\ sample # None
  BY DEF OdometryInvariant, TypeOK, MessageOfShown, Converts, Update, SampleDue
<1>2. sample.timeUsec \in 0 .. MaxTime /\ sample.pose \in Poses
  BY <1>1 DEF Samples
<1>3. Convert(sample)
  BY DEF Converts, Update
<1>4. lastTimeUsec' = sample.timeUsec /\ shown' = sample.pose /\ Finite(shown')
  BY <1>3 DEF Convert, Converts
<1>5. resetCounter' \in 0 .. CounterSize - 1
  BY <1>3, CounterCounts DEF Convert, OdometryInvariant, TypeOK
<1>6. origin' \in {p.position : p \in Poses}
  BY <1>2, <1>3 DEF Convert, NewOrigin, OdometryInvariant, TypeOK
<1>7. origin' \in Vectors
  BY <1>6, PoseFields
<1>8. message' = [timeUsec |-> sample.timeUsec,
                  position |-> EnuToNed(Minus(sample.pose.position, origin')),
                  orientation |-> EnuFluToNedFrdQuaternion(sample.pose.orientation),
                  linearVelocity |-> FluToFrd(sample.pose.linearVelocity),
                  angularVelocity |-> FluToFrd(sample.pose.angularVelocity),
                  resetCounter |-> resetCounter']
  BY <1>3 DEF Convert, Converted
<1>9. message' \in Messages
  BY <1>2, <1>5, <1>7, <1>8, ConvertedIsMessage DEF Converts
<1>10. message' # None /\ origin' # None
  BY <1>7, <1>9, NoneAssumption
<1>11. TypeOK'
  BY <1>2, <1>4, <1>5, <1>6, <1>9 DEF OdometryInvariant, TypeOK, Converts, Update
<1>12. MessageOfShown'
  BY <1>1, <1>2, <1>4, <1>8, <1>10 DEF MessageOfShown, Converts, Update
<1>. QED BY <1>1, <1>2, <1>4, <1>5, <1>6, <1>9, <1>10, <1>11, <1>12 DEF OdometryInvariant

\* Every step keeps the invariant.
LEMMA InvariantStep == OdometryInvariant /\ [Next]_vars => OdometryInvariant'
<1> SUFFICES ASSUME OdometryInvariant, [Next]_vars PROVE OdometryInvariant' OBVIOUS
<1>0. TypeOK /\ MessageOfShown
  BY DEF OdometryInvariant
<1>1. CASE SimStep \/ SimReset \/ Tick
  <2>1. TypeOK'
    BY <1>0, <1>1, BoundAssumption
    DEF SimStep, SimReset, Tick, TypeOK, shared, converter, sent
  <2>2. MessageOfShown'
    BY <1>0, <1>1
    DEF SimStep, SimReset, Tick, MessageOfShown, shared, converter, sent, Finite
  <2>. QED BY <2>1, <2>2 DEF OdometryInvariant
<1>2. ASSUME NEW pose \in Poses, NEW complete \in BOOLEAN, OnOdometry(pose, complete)
      PROVE  OdometryInvariant'
  <2>1. [timeUsec |-> simTime, pose |-> pose] \in Samples
    BY <1>0 DEF TypeOK, Samples
  <2>2. TypeOK'
    <3>1. /\ sample' \in Samples \cup {None}
          /\ sampleAge' \in 0 .. StaleAfter + 1
          /\ unsent' \in BOOLEAN
      <4>1. 0 \in 0 .. StaleAfter + 1
        BY BoundAssumption
      <4>2. CASE complete
        BY <1>2, <2>1, <4>1, <4>2 DEF OnOdometry
      <4>3. CASE ~complete
        BY <1>0, <1>2, <4>3 DEF OnOdometry, TypeOK, shared
      <4>. QED BY <4>2, <4>3
    <3>. QED BY <1>0, <1>2, <3>1 DEF OnOdometry, TypeOK, converter, sent
  <2>3. MessageOfShown'
    BY <1>0, <1>2, <2>1, NoneAssumption
    DEF OnOdometry, MessageOfShown, shared, converter, sent, Finite
  <2>. QED BY <2>2, <2>3 DEF OdometryInvariant
<1>3. CASE Update /\ Finite(sample.pose)
  BY <1>3, ConvertStep DEF Converts
<1>4. CASE Update /\ ~Finite(sample.pose)
  BY <1>0, <1>4
  DEF Update, SampleDue, OdometryInvariant, TypeOK, MessageOfShown, converter, sent, Finite
<1>5. CASE UNCHANGED vars
  BY <1>0, <1>5
  DEF vars, OdometryInvariant, TypeOK, MessageOfShown, shared, converter, sent, Finite
<1>. QED BY <1>1, <1>2, <1>3, <1>4, <1>5 DEF Next

\* The invariant holds in every state.
LEMMA InvariantHolds == Spec => []OdometryInvariant
BY InitInvariant, InvariantStep, PTL DEF Spec

\* A step that touches what was sent is a converted sample.
LEMMA OnlyConvertSends ==
    ASSUME [Next]_vars, sent' # sent
    PROVE  Converts
BY DEF Next, vars, SimStep, SimReset, Tick, OnOdometry, Update, Converts, sent

-----------------------------------------------------------------------------
\* Every variable keeps its type: every message fits the fields of ODOMETRY and
\* resetCounter_ its byte.
THEOREM OdometryTypeCorrect == Spec => []TypeOK
<1>1. OdometryInvariant => TypeOK BY DEF OdometryInvariant
<1>. QED BY <1>1, InvariantHolds, PTL

\* The time of the messages goes back only together with a new reset_counter,
\* for a counter of any width of one bit or more, whatever samples were skipped
\* (Convert).
THEOREM TimeGoesBackWithReset == Spec => TimeGoesBackOnlyWithReset
<1>1. OdometryInvariant /\ [Next]_vars =>
        [message # None /\ message'.timeUsec < message.timeUsec
           => message'.resetCounter # message.resetCounter]_sent
  <2> SUFFICES ASSUME OdometryInvariant, [Next]_vars, sent' # sent,
                      message # None, message'.timeUsec < message.timeUsec
               PROVE  message'.resetCounter # message.resetCounter
    OBVIOUS
  <2>1. Converts
    BY OnlyConvertSends
  <2>2. message'.timeUsec = sample.timeUsec /\ message'.resetCounter = resetCounter'
    BY <2>1 DEF Converts, Update, Convert, Converted
  <2>3. message.timeUsec = lastTimeUsec /\ message.resetCounter = resetCounter
    BY DEF OdometryInvariant, MessageOfShown
  <2>4. lastTimeUsec # None
    <3>1. message \in Messages
      BY DEF OdometryInvariant, TypeOK
    <3>2. message.timeUsec \in Int
      BY <3>1 DEF Messages
    <3>. QED BY <2>3, <3>2, NoneAssumption
  <2>5. MovedBack(sample.timeUsec)
    BY <2>2, <2>3, <2>4 DEF MovedBack
  <2>6. resetCounter' = NextCounter
    BY <2>1, <2>5 DEF Converts, Update, Convert
  <2>. QED BY <2>2, <2>3, <2>6, CounterCounts DEF OdometryInvariant, TypeOK
<1>. QED BY <1>1, InvariantHolds, PTL DEF Spec, TimeGoesBackOnlyWithReset

\* The reported position moves as the vehicle moved or starts anew from zero with
\* a new counter, whatever samples lie between two messages (Convert).
THEOREM PositionsFollowVehicle == Spec => DisplacementFollowsVehicle
<1>1. OdometryInvariant /\ [Next]_vars =>
        [message' # None =>
           IF message # None /\ message'.resetCounter = message.resetCounter
             THEN Minus(message'.position, message.position)
                    = NorthEastDown(Minus(shown'.position, shown.position))
             ELSE message'.position = <<0, 0, 0>>]_sent
  <2> SUFFICES ASSUME OdometryInvariant, [Next]_vars, sent' # sent
               PROVE  IF message # None /\ message'.resetCounter = message.resetCounter
                        THEN Minus(message'.position, message.position)
                               = NorthEastDown(Minus(shown'.position, shown.position))
                        ELSE message'.position = <<0, 0, 0>>
    OBVIOUS
  <2>1. Converts
    BY OnlyConvertSends
  <2>2. /\ message'.resetCounter = resetCounter'
        /\ message'.position = EnuToNed(Minus(shown'.position, origin'))
        /\ shown' = sample.pose /\ sample.pose.position \in Vectors
    <3>1. sample.pose \in Poses
      BY <2>1, ConvertStep DEF Samples
    <3>2. /\ message' = Converted(sample) /\ shown' = sample.pose
      BY <2>1 DEF Converts, Update, Convert
    <3>. QED BY <3>1, <3>2, PoseFields DEF Converted
  <2>3. origin' \in Vectors
    BY <2>1, ConvertStep, PoseFields
  <2>4. CASE message # None /\ message'.resetCounter = message.resetCounter
    <3>1. /\ message.resetCounter = resetCounter /\ origin # None
          /\ message.position = EnuToNed(Minus(shown.position, origin))
          /\ shown \in Poses
      BY <2>4 DEF OdometryInvariant, MessageOfShown
    <3>2. ~MovedBack(sample.timeUsec)
      BY <2>1, <2>2, <2>4, <3>1, CounterCounts
      DEF Converts, Update, Convert, OdometryInvariant, TypeOK
    <3>3. origin' = origin
      BY <2>1, <3>1, <3>2 DEF Converts, Update, Convert, NewOrigin
    <3>4. shown.position \in Vectors /\ shown'.position \in Vectors /\ origin \in Vectors
      BY <2>2, <2>3, <3>1, <3>3, PoseFields
    <3>5. ASSUME NEW u \in Vectors, NEW v \in Vectors, NEW o \in Vectors
          PROVE  Minus(EnuToNed(Minus(u, o)), EnuToNed(Minus(v, o)))
                   = NorthEastDown(Minus(u, v))
      BY DEF Minus, EnuToNed, NorthEastDown, Vectors
    <3>. QED BY <2>2, <2>4, <3>1, <3>3, <3>4, <3>5
  <2>5. CASE ~(message # None /\ message'.resetCounter = message.resetCounter)
    <3>1. origin = None \/ MovedBack(sample.timeUsec)
      BY <2>1, <2>2, <2>5
      DEF Converts, Update, Convert, OdometryInvariant, MessageOfShown
    <3>2. origin' = shown'.position
      BY <2>1, <2>2, <3>1 DEF Converts, Update, Convert, NewOrigin
    <3>3. ASSUME NEW u \in Vectors PROVE EnuToNed(Minus(u, u)) = <<0, 0, 0>>
      BY DEF Minus, EnuToNed, Vectors
    <3>. QED BY <2>2, <2>3, <2>5, <3>2, <3>3
  <2>. QED BY <2>4, <2>5
<1>. QED BY <1>1, InvariantHolds, PTL DEF Spec, DisplacementFollowsVehicle

\* A consumer that turns the body velocities of a message by its quaternion gets
\* the velocities of the vehicle, north, east and down, for every attitude and
\* velocity: the four branches of EnuFluToNedFrdQuaternion, the axes and the
\* signs fit together (OdometryConverter::Convert).
THEOREM MessagesShowMotion == Spec => []MessageShowsVehicleMotion
<1>1. OdometryInvariant => MessageShowsVehicleMotion
  <2> SUFFICES ASSUME OdometryInvariant, message # None PROVE MessageShowsVehicleMotion
    BY DEF MessageShowsVehicleMotion
  <2>1. /\ shown \in Poses /\ Norm2(shown.orientation) > 0
        /\ message.orientation = EnuFluToNedFrdQuaternion(shown.orientation)
        /\ message.linearVelocity = FluToFrd(shown.linearVelocity)
        /\ message.angularVelocity = FluToFrd(shown.angularVelocity)
    BY DEF OdometryInvariant, MessageOfShown, Finite
  <2>2. /\ shown.orientation \in Quaternions
        /\ shown.linearVelocity \in Vectors /\ shown.angularVelocity \in Vectors
    BY <2>1, PoseFields
  <2>. QED BY <2>1, <2>2, MessageTellsWorldVector DEF MessageShowsVehicleMotion
<1>. QED BY <1>1, InvariantHolds, PTL

\* An FDM packet and an ODOMETRY message of one pose tell one vector of the world,
\* for every attitude (FluBodyToEnuWorldQuatToGazeboBridgeQuat,
\* EnuFluToNedFrdQuaternion).
THEOREM PacketsAndMessagesAgree == Spec => []FdmAndOdometryAgree
<1>1. OdometryInvariant => FdmAndOdometryAgree
  <2> SUFFICES ASSUME OdometryInvariant, message # None PROVE FdmAndOdometryAgree
    BY DEF FdmAndOdometryAgree
  <2>1. /\ shown \in Poses /\ Norm2(shown.orientation) > 0
        /\ message.orientation = EnuFluToNedFrdQuaternion(shown.orientation)
        /\ message.linearVelocity = FluToFrd(shown.linearVelocity)
        /\ message.angularVelocity = FluToFrd(shown.angularVelocity)
    BY DEF OdometryInvariant, MessageOfShown, Finite
  <2>2. /\ shown.orientation \in Quaternions
        /\ shown.linearVelocity \in Vectors /\ shown.angularVelocity \in Vectors
    BY <2>1, PoseFields
  <2> DEFINE q == shown.orientation
             f == FluBodyToEnuWorldQuatToGazeboBridgeQuat(q)
             fdm == FdmImu(q, shown.linearVelocity, shown.angularVelocity, TRUE)
  <2>3. /\ fdm.orientation = f
        /\ fdm.acceleration = FluVectorToFrdSensor(shown.linearVelocity)
        /\ fdm.angularVelocity = FluVectorToFrdSensor(shown.angularVelocity)
    BY DEF FdmImu
  <2>4. ASSUME NEW v \in Vectors
        PROVE  LET told == Rotate(Rotation(f), FluVectorToFrdSensor(v))
               IN  Scale(Norm2(message.orientation), <<-told[2], told[1], told[3]>>)
                     = Scale(Norm2(f), Rotate(Rotation(message.orientation), FluToFrd(v)))
    BY <2>1, <2>2, MessageTellsWorldVector, PacketTellsWorldVector
  <2>. QED BY <2>1, <2>2, <2>3, <2>4 DEF FdmAndOdometryAgree
<1>. QED BY <1>1, InvariantHolds, PTL
=============================================================================
