----------------------------- MODULE LineProofs -----------------------------
(***************************************************************************)
(* Theorems about Cursor and LineTable, for any programs that compilers    *)
(* write, any header, and any widths of words and groups: numbers read as  *)
(* what was written, and addresses are located in the rows their code      *)
(* belongs to.                                                             *)
(*                                                                         *)
(* Numbers.  The word into which a number's groups are rotated holds,      *)
(* after k of them, the lowest k groups of the number in its highest bits  *)
(* (Partial).  Shifted down by the bits that were not used, that is the    *)
(* number, and with its sign, the number modulo the word.                  *)
(*                                                                         *)
(* Rows.  The registers are always those that the standard gives them,     *)
(* since a special opcode has one decomposition only; and the map keeps,   *)
(* for each address, the newest of the rows emitted at it (Keeps).  So a   *)
(* lookup finds the newest of the rows nearest below the address           *)
(* (Nearest).  Where rows ascend, that row is the one whose code the       *)
(* address is in; where only each sequence does, it is that row or the end *)
(* of another sequence.                                                    *)
(***************************************************************************)
EXTENDS LineTable, NaturalFacts, SequenceTheorems

-----------------------------------------------------------------------------
(* Powers, quotients and remainders.                                       *)

LEMMA PowStep ==
    /\ Pow2[0] = 1
    /\ \A k \in Nat \ {0} : Pow2[k] = 2 * Pow2[k - 1]
  <1> DEFINE Is(h) == h = [k \in Nat |-> IF k = 0 THEN 1 ELSE 2 * h[k - 1]]
             double == [x \in Nat |-> 2 * x]
             step == [k \in Nat |-> double]
  <1>1. double \in [Nat -> Nat] /\ \A x \in Nat : double[x] = 2 * x
    OBVIOUS
  <1> HIDE DEF double
  <1>2. step \in [Nat -> [Nat -> Nat]] /\ \A k \in Nat : step[k] = double
    BY <1>1
  <1> HIDE DEF step
  <1>3. PICK f : Iterated(f, 1, step, Nat)
    <2>1. step \in Stepping(Nat) /\ 1 \in Nat
      BY <1>2 DEF Stepping
    <2> QED
      BY <2>1, Iterates
  <1>4. Is(f)
    <2> DEFINE r == [k \in Nat |-> IF k = 0 THEN 1 ELSE 2 * f[k - 1]]
    <2>1. ASSUME NEW k \in Nat PROVE f[k] = r[k]
      <3>1. CASE k = 0
        BY <1>3, <3>1 DEF Iterated
      <3>2. CASE k # 0
        <4>1. k - 1 \in Nat /\ (k - 1) + 1 = k
          BY <3>2
        <4>2. f[k] = 2 * f[k - 1]
          BY <1>1, <1>2, <1>3, <4>1 DEF Iterated
        <4> QED
          BY <3>2, <4>2
      <3> QED
        BY <3>1, <3>2
    <2>2. f = [k \in Nat |-> f[k]] /\ r = [k \in Nat |-> r[k]]
      BY <1>3 DEF Iterated
    <2> HIDE DEF r
    <2>3. f = r
      BY <2>1, <2>2
    <2> QED
      BY <2>3 DEF r
  <1>5. Is(Pow2)
    <2>1. Pow2 = CHOOSE h : Is(h)
      BY DEF Pow2
    <2> HIDE DEF Is
    <2> QED
      BY <1>4, <2>1
  <1> DEFINE e == [k \in Nat |-> IF k = 0 THEN 1 ELSE 2 * Pow2[k - 1]]
  <1>6. Pow2 = e
    BY <1>5
  <1>7. \A k \in Nat : e[k] = IF k = 0 THEN 1 ELSE 2 * Pow2[k - 1]
    OBVIOUS
  <1> HIDE DEF e, Is
  <1> QED
    BY <1>6, <1>7

LEMMA PowPositive ==
    \A k \in Nat : Pow2[k] \in Nat \ {0}
  <1> DEFINE T == {k \in Nat : Pow2[k] \notin Nat \ {0}}
  <1> SUFFICES ASSUME T # {} PROVE FALSE
    OBVIOUS
  <1>1. PICK k \in T : \A j \in T : k <= j
    <2>1. T \subseteq Nat
      OBVIOUS
    <2> HIDE DEF T
    <2> QED
      BY <2>1, Least
  <1>2. k # 0
    BY PowStep
  <1>3. k - 1 \in Nat /\ k \in Nat \ {0} /\ ~ (k <= k - 1)
    BY <1>2
  <1>4. Pow2[k - 1] \in Nat \ {0}
    BY <1>1, <1>3
  <1>5. Pow2[k] \in Nat \ {0}
    BY <1>3, <1>4, PowStep
  <1> QED
    BY <1>5

LEMMA PowAdd ==
    ASSUME NEW i \in Nat, NEW j \in Nat
    PROVE  Pow2[i + j] = Pow2[i] * Pow2[j]
  <1> DEFINE T == {k \in Nat : Pow2[i + k] # Pow2[i] * Pow2[k]}
  <1>1. T = {}
    <2> SUFFICES ASSUME T # {} PROVE FALSE
      OBVIOUS
    <2>1. PICK k \in T : \A l \in T : k <= l
      <3>1. T \subseteq Nat
        OBVIOUS
      <3> HIDE DEF T
      <3> QED
        BY <3>1, Least
    <2>2. k # 0
      <3>1. Pow2[i + 0] = Pow2[i] * Pow2[0]
        BY PowStep, PowPositive
      <3> QED
        BY <3>1
    <2>3. k - 1 \in Nat /\ k \in Nat \ {0} /\ ~ (k <= k - 1) /\ i + k \in Nat \ {0} /\ (i + k) - 1 = i + (k - 1)
      BY <2>2
    <2>4. Pow2[i + (k - 1)] = Pow2[i] * Pow2[k - 1]
      BY <2>1, <2>3
    <2>5. Pow2[i + k] = 2 * (Pow2[i] * Pow2[k - 1]) /\ Pow2[k] = 2 * Pow2[k - 1]
      BY <2>3, <2>4, PowStep
    <2>6. Pow2[i] \in Nat /\ Pow2[k - 1] \in Nat
      BY <2>3, PowPositive
    <2>7. Pow2[i + k] = Pow2[i] * Pow2[k]
      BY <2>5, <2>6
    <2> QED
      BY <2>7
  <1> QED
    BY <1>1

LEMMA PowMonotonic ==
    ASSUME NEW i \in Nat, NEW j \in Nat, i <= j
    PROVE  Pow2[i] <= Pow2[j]
  <1>1. j - i \in Nat /\ i + (j - i) = j
    OBVIOUS
  <1>2. Pow2[j] = Pow2[i] * Pow2[j - i]
    BY <1>1, PowAdd
  <1>3. Pow2[i] \in Nat \ {0} /\ Pow2[j - i] \in Nat \ {0}
    BY <1>1, PowPositive
  <1> QED
    BY <1>2, <1>3

LEMMA Divided ==
    ASSUME NEW n \in Int, NEW b \in Nat \ {0}
    PROVE  n \div b \in Int /\ n % b \in 0 .. b - 1 /\ n = (b * (n \div b)) + (n % b)
  OBVIOUS

LEMMA DividedOnce ==
    ASSUME NEW q \in Int, NEW b \in Nat \ {0}, NEW r \in 0 .. b - 1
    PROVE  (b * q + r) % b = r /\ (b * q + r) \div b = q
  OBVIOUS

\* The remainder by a product, one factor at a time.
LEMMA RemainderSplit ==
    ASSUME NEW n \in Int, NEW a \in Nat \ {0}, NEW b \in Nat \ {0}
    PROVE  a * b \in Nat \ {0} /\ n % (a * b) = (n % a) + (a * ((n \div a) % b))
  <1> DEFINE q == n \div a
             r == n % a
             s == q \div b
             t == q % b
  <1>1. q \in Int /\ r \in 0 .. a - 1 /\ n = (a * q) + r
    BY Divided
  <1> HIDE DEF q, r
  <1>2. s \in Int /\ t \in 0 .. b - 1 /\ q = (b * s) + t
    BY <1>1, Divided
  <1> HIDE DEF s, t
  <1>3. a * b \in Nat \ {0}
    OBVIOUS
  <1>4. n = ((a * b) * s) + ((a * t) + r)
    BY <1>1, <1>2
  <1>5. (a * t) + r \in 0 .. (a * b) - 1
    <2>1. a * t <= a * (b - 1) /\ 0 <= a * t /\ a * t \in Int
      BY <1>2
    <2>2. a * (b - 1) = (a * b) - a
      OBVIOUS
    <2> QED
      BY <1>1, <1>3, <2>1, <2>2
  <1> DEFINE m == a * b
             u == (a * t) + r
  <1>6. m \in Nat \ {0} /\ u \in 0 .. m - 1 /\ n = (m * s) + u
    BY <1>3, <1>4, <1>5
  <1> HIDE DEF m, u
  <1>7. n % m = u
    BY <1>2, <1>6, DividedOnce
  <1> QED
    BY <1>3, <1>7 DEF m, u, q, r, t

-----------------------------------------------------------------------------
(* The numbers a cursor reads.                                             *)

\* The word when k groups of n have come in.
Partial(n, k) == (n % Pow2[GroupBits * k]) * Pow2[WordBits - GroupBits * k]

LEMMA BitsLeft ==
    ASSUME NEW count \in 1 .. WordBits, Fits(count), NEW k \in 0 .. count
    PROVE  GroupBits * k \in Nat /\ WordBits - GroupBits * k \in Nat
  <1>1. GroupBits \in Nat /\ WordBits \in Nat /\ GroupBits * count <= WordBits
    BY WidthAssumption DEF Fits
  <1>2. GroupBits * k <= GroupBits * count
    BY <1>1
  <1> QED
    BY <1>1, <1>2

LEMMA PartialNat ==
    ASSUME NEW n \in Int, NEW count \in 1 .. WordBits, Fits(count), NEW k \in 0 .. count
    PROVE  Partial(n, k) \in Nat
  <1>1. Pow2[GroupBits * k] \in Nat \ {0} /\ Pow2[WordBits - GroupBits * k] \in Nat \ {0}
    BY BitsLeft, PowPositive
  <1>2. n % Pow2[GroupBits * k] \in Nat
    <2> DEFINE b == Pow2[GroupBits * k]
    <2>1. b \in Nat \ {0}
      BY <1>1
    <2> HIDE DEF b
    <2>2. n % b \in Nat
      BY <2>1, Divided
    <2> QED
      BY <2>2 DEF b
  <1> QED
    BY <1>1, <1>2 DEF Partial

LEMMA PartialZero ==
    ASSUME NEW n \in Int
    PROVE  Partial(n, 0) = 0
  <1>1. GroupBits * 0 = 0 /\ Pow2[0] = 1 /\ n % 1 = 0
    BY WidthAssumption, PowStep
  <1>2. WordBits - GroupBits * 0 \in Nat
    BY WidthAssumption
  <1>3. Pow2[WordBits - GroupBits * 0] \in Nat
    BY <1>2, PowPositive
  <1> QED
    BY <1>1, <1>3 DEF Partial

\* The next group comes in where the bits are 0, and joins those before it,
\* whether it is rotated there or pushed there.
LEMMA GroupComes ==
    ASSUME NEW n \in Int, NEW count \in 1 .. WordBits, Fits(count), NEW k \in 1 .. count,
           NEW w, w = Partial(n, k - 1), NEW g, g = Groups(n, count)[k]
    PROVE  /\ (w \div Pow2[GroupBits]) + g * Pow2[WordBits - GroupBits] = Partial(n, k)
           /\ ((w + g) \div Pow2[GroupBits]) + ((w + g) % Pow2[GroupBits]) * Pow2[WordBits - GroupBits]
                 = Partial(n, k)
  <1> DEFINE B == Pow2[GroupBits]
             R == Pow2[GroupBits * (k - 1)]
             Q == Pow2[WordBits - GroupBits * k]
             v == n % R
  <1>1. GroupBits \in Nat \ {0} /\ WordBits \in Nat /\ k \in 0 .. count /\ k - 1 \in 0 .. count
    BY WidthAssumption
  <1>2. /\ GroupBits * k \in Nat /\ WordBits - GroupBits * k \in Nat
        /\ GroupBits * (k - 1) \in Nat /\ WordBits - GroupBits * (k - 1) \in Nat
    BY <1>1, BitsLeft
  <1>3. /\ WordBits - GroupBits * (k - 1) = (WordBits - GroupBits * k) + GroupBits
        /\ WordBits - GroupBits = (WordBits - GroupBits * k) + GroupBits * (k - 1)
        /\ GroupBits * k = GroupBits * (k - 1) + GroupBits
    BY <1>1
  <1>4. /\ Pow2[WordBits - GroupBits * (k - 1)] = Q * B
        /\ Pow2[WordBits - GroupBits] = Q * R
        /\ Pow2[GroupBits * k] = R * B
    BY <1>1, <1>2, <1>3, PowAdd, ZenonT(30)
  <1>5. B \in Nat \ {0} /\ R \in Nat \ {0} /\ Q \in Nat \ {0}
    BY <1>1, <1>2, PowPositive
  <1>6. g = (n \div R) % B
    BY DEF Groups
  <1>7. w = v * (Q * B)
    BY <1>4 DEF Partial
  <1>8. Partial(n, k) = (n % (R * B)) * Q
    BY <1>4 DEF Partial
  <1> HIDE DEF B, R, Q
  <1>9. v \in 0 .. R - 1 /\ n \div R \in Int
    BY <1>5, Divided
  <1>10. g \in 0 .. B - 1
    BY <1>5, <1>6, <1>9, Divided
  <1>11. n % (R * B) = v + (R * g)
    <2>1. n % (R * B) = (n % R) + (R * ((n \div R) % B))
      BY <1>5, RemainderSplit
    <2> QED
      BY <1>6, <2>1
  <1> HIDE DEF v
  <1> DEFINE q == v * Q
  <1>12. q \in Int /\ w = B * q + 0 /\ w + g = B * q + g /\ 0 \in 0 .. B - 1
    BY <1>5, <1>7, <1>9, <1>10
  <1>13. Partial(n, k) = q + g * (Q * R)
    <2>1. Partial(n, k) = (v + (R * g)) * Q
      BY <1>8, <1>11
    <2>2. v \in Int /\ g \in Int /\ R \in Int /\ Q \in Int
      BY <1>5, <1>9, <1>10
    <2>3. (v + (R * g)) * Q = v * Q + g * (Q * R)
      BY <2>2
    <2> QED
      BY <2>1, <2>3
  <1> HIDE DEF q
  <1>14. w \div B = q /\ (w + g) \div B = q /\ (w + g) % B = g
    <2>1. (B * q + 0) \div B = q
      BY <1>5, <1>12, DividedOnce
    <2>2. (B * q + g) \div B = q /\ (B * q + g) % B = g
      BY <1>5, <1>10, <1>12, DividedOnce
    <2> QED
      BY <1>12, <2>1, <2>2
  <1>15. Pow2[WordBits - GroupBits] = Q * R
    BY <1>4
  <1> QED
    BY <1>13, <1>14, <1>15 DEF B

\* A word that takes the groups in, one at a time, is what Partial says.
LEMMA WordIs ==
    ASSUME NEW n \in Int, NEW count \in 1 .. WordBits, Fits(count), NEW f,
           f[0] = 0,
           \A k \in 1 .. count : f[k - 1] = Partial(n, k - 1) => f[k] = Partial(n, k)
    PROVE  f[count] = Partial(n, count)
  <1> DEFINE T == {k \in 0 .. count : f[k] # Partial(n, k)}
  <1>1. T = {}
    <2> SUFFICES ASSUME T # {} PROVE FALSE
      OBVIOUS
    <2>1. PICK k \in T : \A j \in T : k <= j
      <3>1. T \subseteq Nat
        OBVIOUS
      <3> HIDE DEF T
      <3> QED
        BY <3>1, Least
    <2>2. k # 0
      BY PartialZero
    <2>3. k \in 1 .. count /\ k - 1 \in 0 .. count /\ ~ (k <= k - 1)
      BY <2>2
    <2>4. f[k - 1] = Partial(n, k - 1)
      BY <2>1, <2>3
    <2>5. f[k] = Partial(n, k)
      BY <2>3, <2>4
    <2> QED
      BY <2>5
  <1>2. count \in 0 .. count
    OBVIOUS
  <1> QED
    BY <1>1, <1>2

LEMMA RolledIn ==
    ASSUME NEW n \in Int, NEW count \in 1 .. WordBits, Fits(count), NEW groups, groups = Groups(n, count)
    PROVE  Uleb(groups) = Partial(n, count) \div Pow2[WordBits - GroupBits * count]
  <1>1. Len(groups) = count
    BY DEF Groups
  <1> DEFINE Step(w, k) == ((w + groups[k]) \div Pow2[GroupBits])
                               + ((w + groups[k]) % Pow2[GroupBits]) * Pow2[WordBits - GroupBits]
             Is(h) == h = [k \in 0 .. count |-> IF k = 0 THEN 0 ELSE Step(h[k - 1], k)]
             f == CHOOSE h : Is(h)
             g == [k \in 0 .. count |-> Partial(n, k)]
  <1>2. ASSUME NEW k \in 1 .. count PROVE Step(Partial(n, k - 1), k) = Partial(n, k)
    BY GroupComes
  <1>3. Uleb(groups) = f[count] \div Pow2[Unused(groups)]
    BY <1>1 DEF Uleb
  <1> HIDE DEF Step
  <1>4. Is(g)
    <2> DEFINE r == [k \in 0 .. count |-> IF k = 0 THEN 0 ELSE Step(g[k - 1], k)]
    <2>1. ASSUME NEW k \in 0 .. count PROVE g[k] = r[k]
      <3>1. CASE k = 0
        BY <3>1, PartialZero
      <3>2. CASE k # 0
        <4>1. k \in 1 .. count /\ k - 1 \in 0 .. count
          BY <3>2
        <4>2. g[k - 1] = Partial(n, k - 1) /\ g[k] = Partial(n, k)
          BY <4>1
        <4>3. r[k] = Step(g[k - 1], k)
          BY <3>2
        <4> HIDE DEF g, r
        <4> QED
          BY <1>2, <4>1, <4>2, <4>3
      <3> QED
        BY <3>1, <3>2
    <2>2. g = [k \in 0 .. count |-> g[k]] /\ r = [k \in 0 .. count |-> r[k]]
      OBVIOUS
    <2> HIDE DEF g, r
    <2>3. g = r
      BY <2>1, <2>2
    <2> QED
      BY <2>3 DEF r
  <1>5. Is(f)
    <2> HIDE DEF Is, g
    <2> QED
      BY <1>4
  <1> HIDE DEF f, g
  <1> DEFINE e == [k \in 0 .. count |-> IF k = 0 THEN 0 ELSE Step(f[k - 1], k)]
  <1>6. f = e
    BY <1>5
  <1>7. \A k \in 0 .. count : e[k] = IF k = 0 THEN 0 ELSE Step(f[k - 1], k)
    OBVIOUS
  <1> HIDE DEF e, Is
  <1>8. f[0] = 0
    BY <1>6, <1>7
  <1>9. ASSUME NEW k \in 1 .. count, f[k - 1] = Partial(n, k - 1) PROVE f[k] = Partial(n, k)
    <2>1. f[k] = Step(f[k - 1], k)
      BY <1>6, <1>7
    <2> QED
      BY <1>2, <1>9, <2>1
  <1>10. f[count] = Partial(n, count)
    BY <1>8, <1>9, WordIs
  <1> QED
    BY <1>1, <1>3, <1>10 DEF Unused

LEMMA PushedIn ==
    ASSUME NEW n \in Int, NEW count \in 1 .. WordBits, Fits(count), NEW groups, groups = Groups(n, count)
    PROVE  Pushed(groups) = Partial(n, count)
  <1>1. Len(groups) = count
    BY DEF Groups
  <1> DEFINE Step(w, k) == (w \div Pow2[GroupBits]) + groups[k] * Pow2[WordBits - GroupBits]
             Is(h) == h = [k \in 0 .. count |-> IF k = 0 THEN 0 ELSE Step(h[k - 1], k)]
             f == CHOOSE h : Is(h)
             g == [k \in 0 .. count |-> Partial(n, k)]
  <1>2. ASSUME NEW k \in 1 .. count PROVE Step(Partial(n, k - 1), k) = Partial(n, k)
    BY GroupComes
  <1>3. Pushed(groups) = f[count]
    BY <1>1 DEF Pushed
  <1> HIDE DEF Step
  <1>4. Is(g)
    <2> DEFINE r == [k \in 0 .. count |-> IF k = 0 THEN 0 ELSE Step(g[k - 1], k)]
    <2>1. ASSUME NEW k \in 0 .. count PROVE g[k] = r[k]
      <3>1. CASE k = 0
        BY <3>1, PartialZero
      <3>2. CASE k # 0
        <4>1. k \in 1 .. count /\ k - 1 \in 0 .. count
          BY <3>2
        <4>2. g[k - 1] = Partial(n, k - 1) /\ g[k] = Partial(n, k)
          BY <4>1
        <4>3. r[k] = Step(g[k - 1], k)
          BY <3>2
        <4> HIDE DEF g, r
        <4> QED
          BY <1>2, <4>1, <4>2, <4>3
      <3> QED
        BY <3>1, <3>2
    <2>2. g = [k \in 0 .. count |-> g[k]] /\ r = [k \in 0 .. count |-> r[k]]
      OBVIOUS
    <2> HIDE DEF g, r
    <2>3. g = r
      BY <2>1, <2>2
    <2> QED
      BY <2>3 DEF r
  <1>5. Is(f)
    <2> HIDE DEF Is, g
    <2> QED
      BY <1>4
  <1> HIDE DEF f, g
  <1> DEFINE e == [k \in 0 .. count |-> IF k = 0 THEN 0 ELSE Step(f[k - 1], k)]
  <1>6. f = e
    BY <1>5
  <1>7. \A k \in 0 .. count : e[k] = IF k = 0 THEN 0 ELSE Step(f[k - 1], k)
    OBVIOUS
  <1> HIDE DEF e, Is
  <1>8. f[0] = 0
    BY <1>6, <1>7
  <1>9. ASSUME NEW k \in 1 .. count, f[k - 1] = Partial(n, k - 1) PROVE f[k] = Partial(n, k)
    <2>1. f[k] = Step(f[k - 1], k)
      BY <1>6, <1>7
    <2> QED
      BY <1>2, <1>9, <2>1
  <1>10. f[count] = Partial(n, count)
    BY <1>8, <1>9, WordIs
  <1> QED
    BY <1>1, <1>3, <1>10

\* A number written without a sign is read as it is.
LEMMA UlebReads ==
    ASSUME NEW n, NEW groups, WrittenUnsigned(n, groups)
    PROVE  n \in Nat /\ Uleb(groups) = n
  <1>1. PICK count \in 1 .. WordBits :
            Fits(count) /\ groups = Groups(n, count) /\ n \in 0 .. Pow2[GroupBits * count] - 1
    BY DEF WrittenUnsigned
  <1> DEFINE b == Pow2[GroupBits * count]
             u == Pow2[WordBits - GroupBits * count]
  <1>2. count \in 0 .. count /\ WordBits \in Nat
    BY WidthAssumption
  <1>3. b \in Nat \ {0} /\ u \in Nat \ {0}
    BY <1>1, <1>2, BitsLeft, PowPositive
  <1>4. n \in Int /\ n \in 0 .. b - 1
    BY <1>1, <1>3
  <1>5. Uleb(groups) = Partial(n, count) \div u
    BY <1>1, <1>4, RolledIn
  <1>6. Partial(n, count) = (n % b) * u
    BY DEF Partial
  <1> HIDE DEF b, u
  <1>7. n % b = n
    BY <1>3, <1>4, DividedOnce
  <1>8. (u * n + 0) \div u = n /\ n * u = u * n + 0
    BY <1>3, <1>4, DividedOnce
  <1> QED
    BY <1>4, <1>5, <1>6, <1>7, <1>8

\* A number written with a sign is read modulo the word.
LEMMA SlebReads ==
    ASSUME NEW n, NEW groups, WrittenSigned(n, groups)
    PROVE  n \in Int /\ Sleb(groups) = n % Pow2[WordBits]
  <1>1. PICK count \in 1 .. WordBits :
            /\ Fits(count) /\ groups = Groups(n, count)
            /\ n \in -Pow2[GroupBits * count - 1] .. Pow2[GroupBits * count - 1] - 1
    BY DEF WrittenSigned
  <1> DEFINE h == Pow2[GroupBits * count - 1]
             b == Pow2[GroupBits * count]
             u == Pow2[WordBits - GroupBits * count]
             w == (n % b) * u
             signed == IF w >= Pow2[WordBits - 1] THEN w - Pow2[WordBits] ELSE w
  <1>2. count \in 0 .. count /\ WordBits \in Nat /\ GroupBits \in Nat \ {0} /\ count \in Nat \ {0}
    BY WidthAssumption
  <1>3. GroupBits * count \in Nat \ {0} /\ GroupBits * count - 1 \in Nat /\ WordBits - GroupBits * count \in Nat
    <2>1. GroupBits * count \in Nat /\ WordBits - GroupBits * count \in Nat
      BY <1>1, <1>2, BitsLeft
    <2> QED
      BY <1>2, <2>1
  <1>4. h \in Nat \ {0} /\ b \in Nat \ {0} /\ u \in Nat \ {0}
    BY <1>3, PowPositive
  <1>5. b = 2 * h
    BY <1>3, PowStep
  <1>6. Pow2[WordBits] = b * u /\ Pow2[WordBits - 1] = h * u
    <2>1. /\ WordBits = GroupBits * count + (WordBits - GroupBits * count)
          /\ WordBits - 1 = (GroupBits * count - 1) + (WordBits - GroupBits * count)
      BY <1>2, <1>3
    <2> QED
      BY <1>3, <2>1, PowAdd
  <1>7. n \in Int /\ -h <= n /\ n < h
    BY <1>1, <1>4
  <1>8. Pushed(groups) = w
    BY <1>1, <1>7, PushedIn DEF Partial
  <1>9. Sleb(groups) = (signed \div u) % Pow2[WordBits]
    <2>1. Len(groups) = count
      BY <1>1, <1>2 DEF Groups
    <2> QED
      BY <1>8, <2>1 DEF Sleb, Unused
  <1>10. w = (n % b) * u /\ signed = IF w >= h * u THEN w - b * u ELSE w
    BY <1>6
  <1> HIDE DEF h, b, u, w, signed
  <1>11. signed = u * n + 0
    <2>1. CASE n >= 0
      <3>1. n \in 0 .. b - 1 /\ n = b * 0 + n /\ 0 \in Int
        BY <1>4, <1>5, <1>7, <2>1
      <3>2. (b * 0 + n) % b = n
        BY <1>4, <3>1, DividedOnce
      <3>3. n % b = n
        BY <3>1, <3>2
      <3>4. n * u < h * u
        BY <1>4, <1>7, <2>1
      <3> QED
        BY <1>4, <1>7, <1>10, <3>3, <3>4
    <2>2. CASE n < 0
      <3>1. n + b \in 0 .. b - 1 /\ n = b * (-1) + (n + b) /\ -1 \in Int
        BY <1>4, <1>5, <1>7, <2>2
      <3>2. (b * (-1) + (n + b)) % b = n + b
        BY <1>4, <3>1, DividedOnce
      <3>3. n % b = n + b
        BY <3>1, <3>2
      <3>4. n + b >= h
        BY <1>4, <1>5, <1>7
      <3>5. (n + b) * u >= h * u
        BY <1>4, <1>7, <3>4
      <3>6. (n + b) * u - b * u = u * n + 0
        BY <1>4, <1>7
      <3>7. w = (n + b) * u
        BY <1>10, <3>3
      <3> QED
        BY <1>10, <3>5, <3>6, <3>7
    <2> QED
      BY <1>7, <2>1, <2>2
  <1>12. (u * n + 0) \div u = n
    BY <1>4, <1>7, DividedOnce
  <1> QED
    BY <1>7, <1>9, <1>11, <1>12

-----------------------------------------------------------------------------
(* What an operation does to the registers.                                *)

Regs ==
    [addr : 0 .. Pow2[WordBits] - 1, file : Int, line : 0 .. RegMod - 1, col : 0 .. RegMod - 1]

\* What they hold: a file number has a sign, and no more room than a line.
Held ==
    [addr : 0 .. Pow2[WordBits] - 1, file : -(RegMod \div 2) .. (RegMod \div 2) - 1,
     line : 0 .. RegMod - 1, col : 0 .. RegMod - 1]

\* Half of what a register counts to.
LEMMA HalfIs ==
    /\ RegMod \in Nat \ {0} /\ RegMod \div 2 \in Nat /\ RegMod = 2 * (RegMod \div 2)
    /\ RegMod \div 2 >= 2 /\ FileCount \in Nat /\ FileCount <= RegMod \div 2
  <1>1. RegMod \in Nat /\ RegMod >= 4 /\ RegMod % 2 = 0 /\ FileCount \in 0 .. RegMod \div 2
    BY HeaderAssumption
  <1> DEFINE h == RegMod \div 2
             r == RegMod % 2
  <1>2. h \in Int /\ RegMod = (2 * h) + r /\ r = 0
    <2>1. RegMod \in Int /\ 2 \in Nat \ {0}
      BY <1>1
    <2> QED
      BY <1>1, <2>1, Divided
  <1> HIDE DEF h, r
  <1>3. RegMod = 2 * h /\ h >= 2
    BY <1>1, <1>2
  <1> QED
    BY <1>1, <1>2, <1>3 DEF h

LEMMA AddressIn ==
    ASSUME NEW x \in Int
    PROVE  Address(x) \in 0 .. Pow2[WordBits] - 1
  <1>1. Pow2[WordBits] \in Nat \ {0}
    BY WidthAssumption, PowPositive
  <1> QED
    BY <1>1, Divided DEF Address

LEMMA ColumnIn ==
    ASSUME NEW x \in Int
    PROVE  Column(x) \in 0 .. RegMod - 1
  BY HalfIs, Divided DEF Column

\* The file register keeps what the table has a file for.
LEMMA FileIndexIs ==
    ASSUME NEW x \in Int
    PROVE  /\ FileIndex(x) \in -(RegMod \div 2) .. (RegMod \div 2) - 1
           /\ x \in Nat /\ x < FileCount => FileIndex(x) = x
  <1> DEFINE h == RegMod \div 2
             m == x % RegMod
  <1>1. RegMod \in Nat \ {0} /\ h \in Nat /\ RegMod = 2 * h /\ FileCount \in Nat /\ FileCount <= h
    BY HalfIs
  <1>2. m \in 0 .. RegMod - 1
    BY <1>1, Divided
  <1>3. FileIndex(x) = IF m >= h THEN m - RegMod ELSE m
    BY DEF FileIndex
  <1>4. x \in Nat /\ x < RegMod => m = x
    <2> SUFFICES ASSUME x \in Nat, x < RegMod PROVE m = x
      OBVIOUS
    <2>1. x \in 0 .. RegMod - 1 /\ RegMod * 0 + x = x /\ 0 \in Int
      BY <1>1
    <2>2. (RegMod * 0 + x) % RegMod = x
      BY <1>1, <2>1, DividedOnce
    <2> QED
      BY <2>1, <2>2
  <1> HIDE DEF h, m
  <1>5. FileIndex(x) \in -h .. h - 1
    BY <1>1, <1>2, <1>3
  <1>6. x \in Nat /\ x < FileCount => FileIndex(x) = x
    BY <1>1, <1>3, <1>4
  <1> QED
    BY <1>5, <1>6 DEF h

LEMMA ResetIn == Reset \in Held /\ Reset \in Regs
  <1>1. 0 \in 0 .. Pow2[WordBits] - 1
    <2>1. Pow2[WordBits] \in Nat \ {0}
      BY WidthAssumption, PowPositive
    <2> QED
      BY <2>1
  <1>2. 0 \in 0 .. RegMod - 1 /\ 1 \in 0 .. RegMod - 1 /\ 1 \in -(RegMod \div 2) .. (RegMod \div 2) - 1
    BY HalfIs
  <1> QED
    BY <1>1, <1>2 DEF Reset, Held, Regs

LEMMA LineIn ==
    ASSUME NEW x \in Int
    PROVE  Line(x) \in 0 .. RegMod - 1
  <1>1. RegMod \in Nat \ {0}
    BY HeaderAssumption
  <1> QED
    BY <1>1, Divided DEF Line

\* Lines count modulo less than a word, so what the word loses is no loss.
LEMMA LineSame ==
    ASSUME NEW x \in Int, NEW n \in Int
    PROVE  Line(x + (n % Pow2[WordBits])) = Line(x + n)
  <1> DEFINE m == Pow2[WordBits]
             t == m \div RegMod
             q == n \div m
             r == n % m
             e == x + r
             y == e \div RegMod
             z == e % RegMod
  <1>1. RegMod \in Nat \ {0} /\ m % RegMod = 0
    BY HeaderAssumption
  <1>2. m \in Nat \ {0}
    BY WidthAssumption, PowPositive
  <1> HIDE DEF m
  <1>3. t \in Int /\ m = RegMod * t
    BY <1>1, <1>2, Divided
  <1> HIDE DEF t
  <1>4. q \in Int /\ r \in Int /\ n = (m * q) + r
    BY <1>2, Divided
  <1> HIDE DEF q, r
  <1>9. e \in Int /\ e = x + r
    BY <1>4
  <1> HIDE DEF e
  <1>5. y \in Int /\ z \in 0 .. RegMod - 1 /\ e = (RegMod * y) + z
    BY <1>1, <1>9, Divided
  <1> HIDE DEF y, z
  <1>6. x + n = RegMod * (y + (t * q)) + z
    BY <1>1, <1>3, <1>4, <1>9, <1>5
  <1>7. y + (t * q) \in Int
    BY <1>3, <1>4, <1>5
  <1>8. (x + n) % RegMod = z
    BY <1>1, <1>5, <1>6, <1>7, DividedOnce
  <1> QED
    BY <1>8 DEF z, e, r, m, Line

LEMMA MovesIs ==
    ASSUME NEW adj \in Nat
    PROVE  /\ Moves(adj)[1] = LineBase + (adj % LineRange)
           /\ Moves(adj)[2] = adj \div LineRange
           /\ adj \div LineRange \in Nat /\ adj % LineRange \in Nat
  <1> DEFINE d == adj \div LineRange
             r == adj % LineRange
             S == (LineBase .. LineBase + LineRange - 1) \X (0 .. adj)
             Fit(m) == adj = (m[1] - LineBase) + LineRange * m[2]
  <1>1. LineRange \in Nat \ {0} /\ LineBase \in Int
    BY HeaderAssumption
  <1>2. d \in Int /\ r \in 0 .. LineRange - 1 /\ adj = (LineRange * d) + r
    BY <1>1, Divided
  <1> HIDE DEF d, r
  <1>3. d \in 0 .. adj
    <2>1. d >= 0
      <3> SUFFICES ASSUME d <= -1 PROVE FALSE
        BY <1>2
      <3>1. LineRange * d <= LineRange * (-1)
        BY <1>1, <1>2
      <3> QED
        BY <1>1, <1>2, <3>1
    <2>2. LineRange * d >= d
      BY <1>1, <1>2, <2>1
    <2> QED
      BY <1>1, <1>2, <2>1, <2>2
  <1>4. <<LineBase + r, d>> \in S /\ Fit(<<LineBase + r, d>>)
    BY <1>1, <1>2, <1>3
  <1> DEFINE m == Moves(adj)
  <1>5. m \in S /\ Fit(m)
    <2>1. m = CHOOSE x \in S : Fit(x)
      BY DEF Moves
    <2> HIDE DEF S, Fit, m
    <2> QED
      BY <1>4, <2>1
  <1> HIDE DEF m
  <1>6. m[1] \in Int /\ m[2] \in Int /\ m[1] - LineBase \in 0 .. LineRange - 1
    BY <1>1, <1>5
  <1>7. adj = LineRange * m[2] + (m[1] - LineBase)
    BY <1>1, <1>5, <1>6
  <1>8. adj % LineRange = m[1] - LineBase /\ adj \div LineRange = m[2]
    <2> DEFINE u == m[1] - LineBase
               v == m[2]
    <2>1. u \in 0 .. LineRange - 1 /\ v \in Int /\ adj = LineRange * v + u
      BY <1>6, <1>7
    <2> HIDE DEF u, v
    <2>2. (LineRange * v + u) % LineRange = u /\ (LineRange * v + u) \div LineRange = v
      BY <1>1, <2>1, DividedOnce
    <2> QED
      BY <2>1, <2>2 DEF u, v
  <1> QED
    BY <1>1, <1>2, <1>3, <1>6, <1>8 DEF d, r, m

\* An operand's byte is taken for an operation without a number in LEB128.
LEMMA TakenIs ==
    ASSUME NEW p \in Programs, NEW k \in DOMAIN p
    PROVE  LET o == Taken(p[k]) IN
           /\ p[k].op # "operand" => o = p[k]
           /\ p[k].op = "operand" => o.op \in {"astray", "copy", "const_add_pc", "ignored", "unknown", "special"}
           /\ o.op = "special" => o.arg \in Nat
           /\ o.op = "fixed_advance_pc" => o.arg \in Nat
           /\ o.op = "set_address" => o.arg \in 0 .. Pow2[WordBits] - 1
  <1>1. CASE p[k].op # "operand"
    <2>1. Taken(p[k]) = p[k]
      BY <1>1 DEF Taken
    <2>2. /\ p[k].op = "fixed_advance_pc" => p[k].arg \in Nat
          /\ p[k].op = "set_address" => p[k].arg \in 0 .. Pow2[WordBits] - 1
          /\ p[k].op = "special" => p[k].arg \in 0 .. AdjMax
      BY ProgramsAssumption
    <2>3. p[k].op = "special" => p[k].arg \in Nat
      BY <2>2
    <2> QED
      BY <1>1, <2>1, <2>2, <2>3
  <1>2. CASE p[k].op = "operand"
    <2>1. p[k].arg \in 0 .. 255
      BY <1>2, ProgramsAssumption
    <2>2. PICK b : b = p[k].arg /\ b \in 0 .. 255
      BY <2>1
    <2>3. Taken(p[k]) = [op |-> TakenFor(b), arg |-> b - OpcodeBase]
      BY <1>2, <2>2 DEF Taken
    <2>4. OpcodeBase \in 13 .. 255
      BY HeaderAssumption
    <2>5. TakenFor(b) \in {"astray", "copy", "const_add_pc", "ignored", "unknown", "special"}
      BY <2>2, <2>4 DEF TakenFor
    <2>6. TakenFor(b) = "special" => b >= OpcodeBase
      <3> SUFFICES ASSUME b < OpcodeBase PROVE TakenFor(b) # "special"
        BY <2>2, <2>4
      <3>1. b \in {0, 2, 3, 4, 5, 9} \/ b = 1 \/ b = 8 \/ b \in {6, 7, 10, 11, 12} \/ b \in 13 .. OpcodeBase - 1
        BY <2>2, <2>4
      <3> QED
        BY <3>1 DEF TakenFor
    <2>7. b >= OpcodeBase => b - OpcodeBase \in Nat
      BY <2>2, <2>4
    <2>8. Taken(p[k]).op = TakenFor(b) /\ Taken(p[k]).arg = b - OpcodeBase
      BY <2>3
    <2> QED
      BY <1>2, <2>5, <2>6, <2>7, <2>8
  <1> QED
    BY <1>1, <1>2

\* The number of an operation is what was written, or is so modulo the word.
LEMMA ArgReads ==
    ASSUME prog \in Programs, next \in DOMAIN prog
    PROVE  LET o == Taken(prog[next]) IN
           /\ o.op \in Signed => o.arg \in Int /\ Arg = o.arg % Pow2[WordBits]
           /\ o.op \notin Signed => Arg = o.arg
           /\ o.op \in Unsigned => o.arg \in Nat
           /\ o.op \in {"special", "fixed_advance_pc"} => o.arg \in Nat
           /\ o.op = "set_address" => o.arg \in 0 .. Pow2[WordBits] - 1
  <1> DEFINE o == Taken(prog[next])
  <1>1. o.op \in Unsigned => WrittenUnsigned(o.arg, o.groups)
    BY NumbersAssumption, TakenIs DEF Unsigned
  <1>2. o.op \in Signed => WrittenSigned(o.arg, o.groups)
    BY NumbersAssumption, TakenIs DEF Signed
  <1>3. o.op \in Unsigned => Arg = Uleb(o.groups)
    BY DEF Arg, Signed, Unsigned
  <1>4. o.op \in Signed => Arg = Sleb(o.groups)
    BY DEF Arg, Signed, Unsigned
  <1>5. o.op \notin Unsigned \cup Signed => Arg = o.arg
    BY DEF Arg
  <1>8. /\ o.op \in {"special", "fixed_advance_pc"} => o.arg \in Nat
        /\ o.op = "set_address" => o.arg \in 0 .. Pow2[WordBits] - 1
    BY TakenIs
  <1> HIDE DEF o
  <1>6. o.op \in Unsigned => o.arg \in Nat /\ Arg = o.arg
    BY <1>1, <1>3, UlebReads
  <1>7. o.op \in Signed => o.arg \in Int /\ Arg = o.arg % Pow2[WordBits]
    BY <1>2, <1>4, SlebReads
  <1> QED
    BY <1>5, <1>6, <1>7, <1>8 DEF o

LEMMA MeantRegs ==
    ASSUME NEW p \in Programs, NEW k \in DOMAIN p, NEW r \in Regs
    PROVE  Meant(r, p[k]) \in Regs
  <1> DEFINE o == p[k]
  <1>1. o.op \in Unsigned => o.arg \in Nat
    BY NumbersAssumption, UlebReads
  <1>2. o.op \in Signed => o.arg \in Int
    BY NumbersAssumption, SlebReads
  <1>3. /\ o.op = "fixed_advance_pc" => o.arg \in Nat
        /\ o.op = "special" => o.arg \in Nat
        /\ o.op = "set_address" => o.arg \in 0 .. Pow2[WordBits] - 1
    BY ProgramsAssumption, HeaderAssumption
  <1>4. AdjMax \in Nat
    BY HeaderAssumption DEF AdjMax
  <1> HIDE DEF o
  <1>5. r.addr \in Int /\ r.file \in Int /\ r.line \in Int /\ r.col \in Int
    BY DEF Regs
  <1>7. CASE o.op \in {"advance_pc", "fixed_advance_pc"}
    <2>1. Address(r.addr + o.arg) \in 0 .. Pow2[WordBits] - 1
      <3>1. r.addr + o.arg \in Int
        BY <1>1, <1>3, <1>5, <1>7 DEF Unsigned
      <3> QED
        BY <3>1, AddressIn
    <2>2. Meant(r, o) = [r EXCEPT !.addr = Address(r.addr + o.arg)]
      BY <1>7 DEF Meant
    <2> QED
      BY <2>1, <2>2 DEF Regs, o
  <1>8. CASE o.op = "const_add_pc"
    <2>1. Address(r.addr + Moves(AdjMax)[2]) \in 0 .. Pow2[WordBits] - 1
      <3>1. PICK d : d = Moves(AdjMax)[2] /\ d \in Nat
        BY <1>4, MovesIs
      <3>2. r.addr + d \in Int
        BY <1>5, <3>1
      <3> QED
        BY <3>1, <3>2, AddressIn
    <2>2. Meant(r, o) = [r EXCEPT !.addr = Address(r.addr + Moves(AdjMax)[2])]
      BY <1>8 DEF Meant
    <2> QED
      BY <2>1, <2>2 DEF Regs, o
  <1>9. CASE o.op = "special"
    <2> DEFINE d == Moves(o.arg)[2]
               l == Moves(o.arg)[1]
    <2>1. d \in Nat /\ l \in Int
      <3> DEFINE a == o.arg
      <3>1. a \in Nat /\ LineBase \in Int
        BY <1>3, <1>9, HeaderAssumption
      <3> HIDE DEF a
      <3>2. /\ Moves(a)[1] = LineBase + (a % LineRange) /\ a % LineRange \in Nat
            /\ Moves(a)[2] = a \div LineRange /\ a \div LineRange \in Nat
        BY <3>1, MovesIs
      <3>3. Moves(a)[1] \in Int /\ Moves(a)[2] \in Nat
        BY <3>1, <3>2
      <3> QED
        BY <3>3 DEF a
    <2>2. Meant(r, o) = [r EXCEPT !.addr = Address(r.addr + d), !.line = Line(r.line + l)]
      BY <1>9 DEF Meant
    <2> HIDE DEF d, l
    <2>3. Address(r.addr + d) \in 0 .. Pow2[WordBits] - 1 /\ Line(r.line + l) \in 0 .. RegMod - 1
      BY <1>5, <2>1, LineIn, AddressIn
    <2> QED
      BY <2>2, <2>3 DEF Regs, o
  <1>10. CASE o.op = "advance_line"
    <2>1. Line(r.line + o.arg) \in 0 .. RegMod - 1
      BY <1>2, <1>5, <1>10, LineIn DEF Signed
    <2>2. Meant(r, o) = [r EXCEPT !.line = Line(r.line + o.arg)]
      BY <1>10 DEF Meant
    <2> QED
      BY <2>1, <2>2 DEF Regs, o
  <1>11. CASE o.op = "set_file"
    <2>1. Meant(r, o) = [r EXCEPT !.file = o.arg] /\ o.arg \in Int
      BY <1>1, <1>11 DEF Meant, Unsigned
    <2> QED
      BY <2>1 DEF Regs, o
  <1>12. CASE o.op = "set_column"
    <2>1. o.arg \in Int
      BY <1>1, <1>12 DEF Unsigned
    <2>2. Meant(r, o) = [r EXCEPT !.col = Column(o.arg)] /\ Column(o.arg) \in 0 .. RegMod - 1
      BY <1>12, <2>1, ColumnIn DEF Meant, Column
    <2> QED
      BY <2>2 DEF Regs, o
  <1>13. CASE o.op = "set_address"
    <2>1. Meant(r, o) = [r EXCEPT !.addr = o.arg] /\ o.arg \in 0 .. Pow2[WordBits] - 1
      BY <1>3, <1>13 DEF Meant
    <2> QED
      BY <2>1 DEF Regs, o
  <1>14. CASE o.op = "end_sequence"
    BY <1>14, ResetIn DEF Meant, o
  <1>15. CASE o.op \notin {"advance_pc", "fixed_advance_pc", "const_add_pc", "special", "advance_line",
                           "set_file", "set_column", "set_address", "end_sequence"}
    BY <1>15 DEF Meant, o
  <1> QED
    BY <1>7, <1>8, <1>9, <1>10, <1>11, <1>12, <1>13, <1>14, <1>15

LEMMA ProgramIs ==
    ASSUME NEW p \in Programs
    PROVE  /\ Len(p) \in Nat \ {0} /\ DOMAIN p = 1 .. Len(p)
           /\ p[Len(p)].op = "end_sequence" /\ p[Len(p)].size = 3
           /\ \A k \in 1 .. Len(p) : p[k].size \in Nat \ {0}
  <1>1. p \in Seq(ToSet(p)) /\ p # <<>>
    BY ProgramsAssumption
  <1>2. Len(p) \in Nat \ {0} /\ DOMAIN p = 1 .. Len(p)
    BY <1>1
  <1> QED
    BY <1>2, ProgramsAssumption

\* f holds what is meant to be in the registers before each operation of p.
RunOf(f, p) ==
    /\ f \in [1 .. Len(p) + 1 -> Regs]
    /\ f[1] = Reset
    /\ \A k \in 1 .. Len(p) : f[k + 1] = Meant(f[k], p[k])

LEMMA RegistersAre ==
    ASSUME NEW p \in Programs
    PROVE  RunOf(Registers(p), p)
  <1> DEFINE n == Len(p)
             step == [k \in 1 .. n |-> [r \in Regs |-> Meant(r, p[k])]]
             Is(h) == h = [k \in 1 .. n + 1 |-> IF k = 1 THEN Reset ELSE Meant(h[k - 1], p[k - 1])]
             R == Registers(p)
  <1>1. n \in Nat /\ DOMAIN p = 1 .. n
    BY ProgramIs
  <1>2. Reset \in Regs
    BY ResetIn
  <1>3. step \in [1 .. n -> [Regs -> Regs]]
    BY <1>1, MeantRegs
  <1>4. \A k \in 1 .. n : \A r \in Regs : step[k][r] = Meant(r, p[k])
    OBVIOUS
  <1>5. R = CHOOSE h : Is(h)
    BY DEF Registers
  <1> HIDE DEF step, n, R
  <1>6. PICK f : IteratedTo(f, n, Reset, step, Regs)
    <2>1. step \in SteppingTo(n, Regs)
      BY <1>3 DEF SteppingTo
    <2> QED
      BY <1>1, <1>2, <2>1, IteratesTo
  <1>7. Is(f)
    <2> DEFINE r == [k \in 1 .. n + 1 |-> IF k = 1 THEN Reset ELSE Meant(f[k - 1], p[k - 1])]
    <2>1. ASSUME NEW k \in 1 .. n + 1 PROVE f[k] = r[k]
      <3>1. CASE k = 1
        BY <1>6, <3>1 DEF IteratedTo
      <3>2. CASE k # 1
        <4>1. k - 1 \in 1 .. n /\ k - 1 \in 1 .. n + 1 /\ (k - 1) + 1 = k
          BY <1>1, <3>2
        <4>2. f[k] = step[k - 1][f[k - 1]] /\ f[k - 1] \in Regs
          BY <1>6, <4>1 DEF IteratedTo
        <4>3. f[k] = Meant(f[k - 1], p[k - 1])
          BY <1>4, <4>1, <4>2
        <4> QED
          BY <3>2, <4>3
      <3> QED
        BY <3>1, <3>2
    <2>2. f = [k \in 1 .. n + 1 |-> f[k]] /\ r = [k \in 1 .. n + 1 |-> r[k]]
      BY <1>6 DEF IteratedTo
    <2> HIDE DEF r
    <2>3. f = r
      BY <2>1, <2>2
    <2> QED
      BY <2>3 DEF r
  <1>8. Is(R)
    <2> HIDE DEF Is
    <2> QED
      BY <1>5, <1>7
  <1> DEFINE e == [k \in 1 .. n + 1 |-> IF k = 1 THEN Reset ELSE Meant(R[k - 1], p[k - 1])]
  <1>9. R = e
    BY <1>8
  <1>10. DOMAIN e = 1 .. n + 1 /\ \A k \in 1 .. n + 1 : e[k] = IF k = 1 THEN Reset ELSE Meant(R[k - 1], p[k - 1])
    OBVIOUS
  <1>11. R = [k \in 1 .. n + 1 |-> R[k]]
    BY <1>8
  <1> HIDE DEF e, Is
  <1>12. R[1] = Reset
    BY <1>1, <1>9, <1>10
  <1>13. ASSUME NEW k \in 1 .. n PROVE R[k + 1] = Meant(R[k], p[k])
    <2>1. k + 1 \in 1 .. n + 1 /\ k + 1 # 1 /\ (k + 1) - 1 = k
      BY <1>1
    <2> QED
      BY <1>9, <1>10, <2>1
  <1>14. ASSUME NEW k \in 1 .. n + 1 PROVE R[k] \in Regs
    <2> DEFINE T == {i \in 1 .. n + 1 : R[i] \notin Regs}
    <2>1. T = {}
      <3> SUFFICES ASSUME T # {} PROVE FALSE
        OBVIOUS
      <3>1. PICK i \in T : \A l \in T : i <= l
        <4>1. T \subseteq Nat
          OBVIOUS
        <4> HIDE DEF T
        <4> QED
          BY <4>1, Least
      <3>2. i # 1
        BY <1>2, <1>12
      <3>3. i - 1 \in 1 .. n /\ i - 1 \in 1 .. n + 1 /\ (i - 1) + 1 = i /\ ~ (i <= i - 1)
        BY <1>1, <3>2
      <3>4. R[i - 1] \in Regs
        BY <3>1, <3>3
      <3>5. R[i] = Meant(R[i - 1], p[i - 1])
        BY <1>13, <3>3
      <3>6. R[i] \in Regs
        BY <1>1, <3>3, <3>4, <3>5, MeantRegs
      <3> QED
        BY <3>6
    <2> QED
      BY <2>1
  <1> QED
    BY <1>11, <1>12, <1>13, <1>14 DEF RunOf, R, n

-----------------------------------------------------------------------------
(* The rows a program means.                                               *)

Places == [addr : Nat, file : Int, line : 0 .. RegMod - 1, col : 0 .. RegMod - 1]
Entries == [row : Places, end : BOOLEAN]

LEMMA RowIn ==
    ASSUME NEW r \in Regs
    PROVE  Row(r) \in Places /\ Row(r).addr = r.addr
  <1>1. NoFile \in Int /\ Unread \in Int
    BY DEF NoFile, Unread
  <1> QED
    BY <1>1 DEF Row, Regs, Places

LEMMA EmittedIn ==
    ASSUME NEW p \in Programs, NEW k \in 1 .. Len(p)
    PROVE  Emitted(p, Registers(p), k) \in Seq(Entries)
  <1> DEFINE R == Registers(p)
  <1>1. R[k] \in Regs /\ R[k + 1] \in Regs
    <2>1. Len(p) \in Nat /\ k \in 1 .. Len(p) + 1 /\ k + 1 \in 1 .. Len(p) + 1
      BY ProgramIs
    <2> QED
      BY <2>1, RegistersAre DEF RunOf
  <1> HIDE DEF R
  <1>2. [row |-> Row(R[k + 1]), end |-> FALSE] \in Entries /\ [row |-> Row(R[k]), end |-> TRUE] \in Entries
    BY <1>1, RowIn DEF Entries
  <1>3. \A e \in Entries : <<e>> \in Seq(Entries)
    OBVIOUS
  <1>4. <<>> \in Seq(Entries)
    OBVIOUS
  <1>5. \/ Emitted(p, R, k) = <<[row |-> Row(R[k + 1]), end |-> FALSE]>>
        \/ Emitted(p, R, k) = <<[row |-> Row(R[k]), end |-> TRUE]>>
        \/ Emitted(p, R, k) = <<>>
    BY DEF Emitted
  <1> QED
    BY <1>2, <1>3, <1>4, <1>5 DEF R

\* M holds the rows before each operation of p.
MatrixOf(M, p) ==
    /\ M \in [1 .. Len(p) + 1 -> Seq(Entries)]
    /\ M[1] = <<>>
    /\ \A k \in 1 .. Len(p) : M[k + 1] = M[k] \o Emitted(p, Registers(p), k)

LEMMA MatrixIs ==
    ASSUME NEW p \in Programs
    PROVE  MatrixOf(Matrix(p), p)
  <1> DEFINE n == Len(p)
             E(k) == Emitted(p, Registers(p), k)
             step == [k \in 1 .. n |-> [m \in Seq(Entries) |-> m \o E(k)]]
             Is(h) == h = [k \in 1 .. n + 1 |-> IF k = 1 THEN <<>> ELSE h[k - 1] \o E(k - 1)]
             M == Matrix(p)
  <1>1. n \in Nat
    BY ProgramIs
  <1>2. <<>> \in Seq(Entries)
    OBVIOUS
  <1>3. \A k \in 1 .. n : E(k) \in Seq(Entries)
    BY EmittedIn
  <1>4. M = CHOOSE h : Is(h)
    BY DEF Matrix
  <1> HIDE DEF n, E, M
  <1>5. step \in [1 .. n -> [Seq(Entries) -> Seq(Entries)]]
    BY <1>3
  <1>6. \A k \in 1 .. n : \A m \in Seq(Entries) : step[k][m] = m \o E(k)
    OBVIOUS
  <1> HIDE DEF step
  <1>7. PICK f : IteratedTo(f, n, <<>>, step, Seq(Entries))
    <2>1. step \in SteppingTo(n, Seq(Entries))
      BY <1>5 DEF SteppingTo
    <2> QED
      BY <1>1, <1>2, <2>1, IteratesTo
  <1>8. Is(f)
    <2> DEFINE r == [k \in 1 .. n + 1 |-> IF k = 1 THEN <<>> ELSE f[k - 1] \o E(k - 1)]
    <2>1. ASSUME NEW k \in 1 .. n + 1 PROVE f[k] = r[k]
      <3>1. CASE k = 1
        BY <1>7, <3>1 DEF IteratedTo
      <3>2. CASE k # 1
        <4>1. k - 1 \in 1 .. n /\ k - 1 \in 1 .. n + 1 /\ (k - 1) + 1 = k
          BY <1>1, <3>2
        <4>2. f[k] = step[k - 1][f[k - 1]] /\ f[k - 1] \in Seq(Entries)
          BY <1>7, <4>1 DEF IteratedTo
        <4>3. f[k] = f[k - 1] \o E(k - 1)
          BY <1>6, <4>1, <4>2
        <4> QED
          BY <3>2, <4>3
      <3> QED
        BY <3>1, <3>2
    <2>2. f = [k \in 1 .. n + 1 |-> f[k]] /\ r = [k \in 1 .. n + 1 |-> r[k]]
      BY <1>7 DEF IteratedTo
    <2> HIDE DEF r
    <2>3. f = r
      BY <2>1, <2>2
    <2> QED
      BY <2>3 DEF r
  <1>9. Is(M)
    <2> HIDE DEF Is
    <2> QED
      BY <1>4, <1>8
  <1> DEFINE e == [k \in 1 .. n + 1 |-> IF k = 1 THEN <<>> ELSE M[k - 1] \o E(k - 1)]
  <1>10. M = e
    BY <1>9
  <1>11. \A k \in 1 .. n + 1 : e[k] = IF k = 1 THEN <<>> ELSE M[k - 1] \o E(k - 1)
    OBVIOUS
  <1>12. M = [k \in 1 .. n + 1 |-> M[k]]
    BY <1>9
  <1> HIDE DEF e, Is
  <1>13. M[1] = <<>>
    BY <1>1, <1>10, <1>11
  <1>14. ASSUME NEW k \in 1 .. n PROVE M[k + 1] = M[k] \o E(k)
    <2>1. k + 1 \in 1 .. n + 1 /\ k + 1 # 1 /\ (k + 1) - 1 = k
      BY <1>1
    <2> QED
      BY <1>10, <1>11, <2>1
  <1>15. \A k \in 1 .. n + 1 : M[k] \in Seq(Entries)
    <2> DEFINE T == {i \in 1 .. n + 1 : M[i] \notin Seq(Entries)}
    <2>1. T = {}
      <3> SUFFICES ASSUME T # {} PROVE FALSE
        OBVIOUS
      <3>1. PICK i \in T : \A l \in T : i <= l
        <4>1. T \subseteq Nat
          OBVIOUS
        <4> HIDE DEF T
        <4> QED
          BY <4>1, Least
      <3>2. i # 1
        BY <1>2, <1>13
      <3>3. i - 1 \in 1 .. n /\ i - 1 \in 1 .. n + 1 /\ (i - 1) + 1 = i /\ ~ (i <= i - 1)
        BY <1>1, <3>2
      <3>4. M[i - 1] \in Seq(Entries)
        BY <3>1, <3>3
      <3>5. M[i] = M[i - 1] \o E(i - 1)
        BY <1>14, <3>3
      <3>6. M[i] \in Seq(Entries)
        BY <1>3, <3>3, <3>4, <3>5
      <3> QED
        BY <3>6
    <2> QED
      BY <2>1
  <1> QED
    BY <1>12, <1>13, <1>14, <1>15 DEF MatrixOf, M, n, E

-----------------------------------------------------------------------------
(* The map keeps the last row for each address.                            *)

\* What the map has for an entry of the matrix: the end of a sequence has no
\* file and no line.
Kept(m) ==
    IF m.end THEN [addr |-> m.row.addr, file |-> NoFile, line |-> 0, col |-> 0] ELSE m.row

\* Entry i of M is the last at its address.
Newest(M, i) == \A j \in DOMAIN M : M[j].row.addr = M[i].row.addr => j <= i

Keeps(rows, M) ==
    /\ DOMAIN rows = {M[i].row.addr : i \in DOMAIN M}
    /\ \A i \in DOMAIN M : Newest(M, i) => rows[M[i].row.addr] = Kept(M[i])

LEMMA KeepsNone == Keeps(NoRows, <<>>)
  BY DEF Keeps, NoRows

LEMMA KeepsNext ==
    ASSUME NEW M \in Seq(Entries), NEW rows, Keeps(rows, M), NEW m \in Entries, NEW r,
           r.addr = m.row.addr, Row(r) = Kept(m)
    PROVE  Keeps(Store(rows, r), M \o <<m>>)
  <1> DEFINE N == M \o <<m>>
             s == Store(rows, r)
             n == Len(M)
  <1>1. /\ n \in Nat /\ DOMAIN M = 1 .. n /\ DOMAIN N = 1 .. n + 1
        /\ N[n + 1] = m /\ \A i \in 1 .. n : N[i] = M[i]
    OBVIOUS
  <1>2. /\ DOMAIN s = DOMAIN rows \cup {r.addr}
        /\ s[r.addr] = Row(r)
        /\ \A a \in DOMAIN rows : a # r.addr => s[a] = rows[a]
    BY DEF Store
  <1> HIDE DEF N, s, n
  <1>3. DOMAIN s = {N[i].row.addr : i \in DOMAIN N}
    <2>1. ASSUME NEW a \in DOMAIN s PROVE \E i \in DOMAIN N : N[i].row.addr = a
      <3>1. CASE a = r.addr
        <4>1. n + 1 \in DOMAIN N
          BY <1>1
        <4> QED
          BY <1>1, <3>1, <4>1
      <3>2. CASE a # r.addr
        <4>1. PICK i \in DOMAIN M : a = M[i].row.addr
          BY <1>2, <3>2 DEF Keeps
        <4>2. i \in DOMAIN N /\ N[i] = M[i]
          BY <1>1, <4>1
        <4> QED
          BY <4>1, <4>2
      <3> QED
        BY <3>1, <3>2
    <2>2. ASSUME NEW i \in DOMAIN N PROVE N[i].row.addr \in DOMAIN s
      <3>1. CASE i = n + 1
        BY <1>1, <1>2, <3>1
      <3>2. CASE i # n + 1
        <4>1. i \in DOMAIN M /\ N[i] = M[i]
          BY <1>1, <3>2
        <4> QED
          BY <1>2, <4>1 DEF Keeps
      <3> QED
        BY <3>1, <3>2
    <2> QED
      BY <2>1, <2>2
  <1>4. ASSUME NEW i \in DOMAIN N, Newest(N, i) PROVE s[N[i].row.addr] = Kept(N[i])
    <2>1. CASE i = n + 1
      BY <1>1, <1>2, <2>1
    <2>2. CASE i # n + 1
      <3>1. i \in DOMAIN M /\ N[i] = M[i] /\ n + 1 \in DOMAIN N /\ ~ (n + 1 <= i)
        BY <1>1, <2>2
      <3>2. M[i].row.addr # r.addr
        BY <1>1, <1>4, <3>1 DEF Newest
      <3>3. Newest(M, i)
        <4> SUFFICES ASSUME NEW j \in DOMAIN M, M[j].row.addr = M[i].row.addr PROVE j <= i
          BY DEF Newest
        <4>1. j \in DOMAIN N /\ N[j] = M[j]
          BY <1>1
        <4> QED
          BY <1>4, <3>1, <4>1 DEF Newest
      <3>4. rows[M[i].row.addr] = Kept(M[i]) /\ M[i].row.addr \in DOMAIN rows
        BY <3>1, <3>3 DEF Keeps
      <3> QED
        BY <1>2, <3>1, <3>2, <3>4
    <2> QED
      BY <2>1, <2>2
  <1> QED
    BY <1>3, <1>4 DEF Keeps, N, s

-----------------------------------------------------------------------------
(* Looking up.                                                             *)

LEMMA NewestAt ==
    ASSUME NEW M \in Seq(Entries), NEW i \in DOMAIN M
    PROVE  \E j \in DOMAIN M : M[j].row.addr = M[i].row.addr /\ Newest(M, j)
  <1> DEFINE S == {j \in DOMAIN M : M[j].row.addr = M[i].row.addr}
  <1>1. Len(M) \in Nat /\ DOMAIN M = 1 .. Len(M)
    OBVIOUS
  <1>2. S \subseteq 0 .. Len(M) /\ S # {}
    BY <1>1
  <1>3. PICK j \in S : \A k \in S : k <= j
    <2> HIDE DEF S
    <2> QED
      BY <1>1, <1>2, Greatest
  <1> QED
    BY <1>3 DEF Newest

\* Entry i of M is what an address is looked up in: no other at or below it is
\* higher, or newer.
Nearest(M, i, a) ==
    /\ M[i].row.addr <= a
    /\ \A j \in DOMAIN M : M[j].row.addr <= a => M[j].row.addr <= M[i].row.addr
    /\ Newest(M, i)

LEMMA LooksUp ==
    ASSUME NEW M \in Seq(Entries), Keeps(out, M), NEW a \in Nat, Known(a)
    PROVE  \E i \in DOMAIN M : Nearest(M, i, a) /\ RowAt(a) = Kept(M[i])
  <1> DEFINE B == Below(a)
             b == Max(B)
  <1>1. DOMAIN out = {M[i].row.addr : i \in DOMAIN M}
    BY DEF Keeps
  <1>2. \A i \in DOMAIN M : M[i].row.addr \in Nat
    <2>1. \A i \in DOMAIN M : M[i] \in Entries
      OBVIOUS
    <2> QED
      BY <2>1 DEF Entries, Places
  <1>3. B \subseteq 0 .. a /\ B # {}
    BY <1>1, <1>2 DEF Below, Known
  <1>4. \E x \in B : \A y \in B : y <= x
    <2> HIDE DEF B
    <2> QED
      BY <1>3, Greatest
  <1>5. b \in B /\ \A y \in B : y <= b
    <2>1. \E x \in B : \A y \in B : x >= y
      BY <1>3, <1>4
    <2>2. b = CHOOSE x \in B : \A y \in B : x >= y
      BY DEF Max
    <2> HIDE DEF B, b
    <2>3. b \in B /\ \A y \in B : b >= y
      BY <2>1, <2>2
    <2> QED
      BY <1>3, <2>3
  <1>6. RowAt(a) = out[b]
    BY DEF RowAt
  <1>7. B = {x \in DOMAIN out : x <= a}
    BY DEF Below
  <1> HIDE DEF B, b
  <1>8. PICK k \in DOMAIN M : M[k].row.addr = b
    BY <1>1, <1>5, <1>7
  <1>9. PICK i \in DOMAIN M : M[i].row.addr = M[k].row.addr /\ Newest(M, i)
    BY <1>8, NewestAt
  <1>10. out[b] = Kept(M[i])
    BY <1>8, <1>9 DEF Keeps
  <1>11. Nearest(M, i, a)
    BY <1>1, <1>5, <1>7, <1>8, <1>9 DEF Nearest
  <1> QED
    BY <1>6, <1>10, <1>11

LEMMA KeptLine ==
    ASSUME NEW M \in Seq(Entries), NEW i \in DOMAIN M
    PROVE  /\ M[i].row.addr \in Nat
           /\ M[i].end \in BOOLEAN
           /\ M[i].end => Kept(M[i]).line = 0
           /\ ~ M[i].end => Kept(M[i]) = M[i].row
  <1>1. M[i] \in Entries
    OBVIOUS
  <1> QED
    BY <1>1 DEF Kept, Entries, Places

LEMMA LocatedIs ==
    ASSUME NEW M, NEW a, NEW i \in Covering(M, a),
           i = CHOOSE c \in Covering(M, a) : \A j \in Covering(M, a) : j <= c
    PROVE  Located(M, a) = IF M[i].row.line = 0 THEN Nothing ELSE M[i].row
  <1> DEFINE C == Covering(M, a)
             d == CHOOSE c \in C : \A j \in C : j <= c
  <1>1. Located(M, a) = IF C = {} THEN Nothing
                        ELSE IF M[d].row.line = 0 THEN Nothing ELSE M[d].row
    BY DEF Located
  <1>2. C # {} /\ i = d
    OBVIOUS
  <1> HIDE DEF C, d
  <1> QED
    BY <1>1, <1>2

\* Where rows ascend, the nearest entry covers the address, if it is not the
\* last, and no other does.
LEMMA NearestCovers ==
    ASSUME NEW M \in Seq(Entries), Ascending(M), NEW a \in Nat, NEW i \in DOMAIN M, Nearest(M, i, a),
           i = Len(M) => M[i].end
    PROVE  Located(M, a) = IF Kept(M[i]).line = 0 THEN Nothing ELSE Kept(M[i])
  <1> DEFINE n == Len(M)
             C == Covering(M, a)
  <1>1. n \in Nat /\ DOMAIN M = 1 .. n /\ i \in 1 .. n
    OBVIOUS
  <1>2. \A j \in DOMAIN M : M[j].row.addr \in Nat /\ M[j].end \in BOOLEAN
    BY KeptLine
  <1>3. \A c \in C :
            /\ c \in 1 .. n /\ c # n /\ ~ M[c].end
            /\ M[c].row.addr <= a /\ a < M[c + 1].row.addr /\ c + 1 \in 1 .. n
    BY <1>1 DEF Covering
  <1> HIDE DEF C, n
  <1>4. ASSUME NEW c \in C PROVE c = i /\ ~ M[c].end
    <2>1. /\ c \in 1 .. n /\ c # n /\ ~ M[c].end
          /\ M[c].row.addr <= a /\ a < M[c + 1].row.addr /\ c + 1 \in 1 .. n
      BY <1>3
    <2>2. ~ (c < i)
      <3> SUFFICES ASSUME c < i PROVE FALSE
        OBVIOUS
      <3>1. c + 1 = i \/ c + 1 < i
        BY <1>1, <2>1
      <3>2. M[c + 1].row.addr <= M[i].row.addr
        BY <1>1, <1>2, <2>1, <3>1 DEF Ascending
      <3> QED
        BY <1>1, <1>2, <2>1, <3>2, SMTT(30) DEF Nearest
    <2>3. ~ (i < c)
      <3> SUFFICES ASSUME i < c PROVE FALSE
        OBVIOUS
      <3>1. M[i].row.addr <= M[c].row.addr /\ M[c].row.addr <= M[i].row.addr
        BY <1>1, <2>1 DEF Ascending, Nearest
      <3>2. M[c].row.addr = M[i].row.addr
        BY <1>1, <1>2, <2>1, <3>1
      <3>3. c <= i
        BY <1>1, <2>1, <3>2 DEF Nearest, Newest
      <3> QED
        BY <1>1, <2>1, <3>3
    <2> QED
      BY <1>1, <2>1, <2>2, <2>3
  <1>5. CASE M[i].end
    <2>1. C = {}
      BY <1>4, <1>5
    <2>2. Located(M, a) = Nothing
      BY <2>1 DEF Located, C
    <2> QED
      BY <1>5, <2>2, KeptLine
  <1>6. CASE ~ M[i].end
    <2>1. i + 1 \in 1 .. n /\ i # n
      BY <1>1, <1>6 DEF n
    <2>2. a < M[i + 1].row.addr
      <3> SUFFICES ASSUME M[i + 1].row.addr <= a PROVE FALSE
        BY <1>1, <1>2, <2>1
      <3>1. M[i].row.addr <= M[i + 1].row.addr
        BY <1>1, <2>1 DEF Ascending
      <3>2. M[i + 1].row.addr <= M[i].row.addr
        BY <1>1, <2>1 DEF Nearest
      <3>3. M[i + 1].row.addr = M[i].row.addr
        BY <1>1, <1>2, <2>1, <3>1, <3>2
      <3>4. i + 1 <= i
        BY <1>1, <2>1, <3>3 DEF Nearest, Newest
      <3> QED
        BY <1>1, <3>4
    <2>3. i \in C
      BY <1>1, <1>6, <2>1, <2>2 DEF Covering, Nearest, C, n
    <2>4. C = {i}
      BY <1>4, <2>3
    <2>5. (CHOOSE c \in C : \A j \in C : j <= c) = i
      BY <1>1, <2>4
    <2>6. Located(M, a) = IF M[i].row.line = 0 THEN Nothing ELSE M[i].row
      BY <2>3, <2>5, LocatedIs DEF C
    <2> QED
      BY <1>6, <2>6, KeptLine
  <1> QED
    BY <1>2, <1>5, <1>6

\* Where the sequences are only apart, the nearest entry is the end of one, or
\* the last that covers the address.
LEMMA NearestApart ==
    ASSUME NEW M \in Seq(Entries), Apart(M), NEW a \in Addresses, NEW i \in DOMAIN M, Nearest(M, i, a),
           ~ M[i].end, i # Len(M)
    PROVE  Located(M, a) = IF Kept(M[i]).line = 0 THEN Nothing ELSE Kept(M[i])
  <1> DEFINE n == Len(M)
             C == Covering(M, a)
  <1>1. n \in Nat /\ DOMAIN M = 1 .. n /\ i \in 1 .. n /\ i + 1 \in 1 .. n /\ a \in Nat
    BY HeaderAssumption
  <1>2. \A j \in DOMAIN M : M[j].row.addr \in Nat /\ M[j].end \in BOOLEAN
    BY KeptLine
  <1>3. a < M[i + 1].row.addr
    <2> SUFFICES ASSUME M[i + 1].row.addr <= a PROVE FALSE
      BY <1>1, <1>2
    <2>1. SameSequence(M, i, i + 1)
      <3>1. \A k \in i .. (i + 1) - 1 : k = i
        BY <1>1
      <3> QED
        BY <1>1, <3>1 DEF SameSequence
    <2>2. M[i].row.addr <= M[i + 1].row.addr
      BY <1>1, <2>1 DEF Apart
    <2>3. M[i + 1].row.addr <= M[i].row.addr
      BY <1>1 DEF Nearest
    <2>4. M[i + 1].row.addr = M[i].row.addr
      BY <1>1, <1>2, <2>2, <2>3
    <2>5. i + 1 <= i
      BY <1>1, <2>4 DEF Nearest, Newest
    <2> QED
      BY <1>1, <2>5
  <1>4. i \in C
    BY <1>1, <1>3 DEF Covering, Nearest
  <1>5. ASSUME NEW c \in C PROVE c <= i
    <2>1. c \in 1 .. n /\ M[c].row.addr <= a
      BY <1>1 DEF Covering
    <2>2. SameSequence(M, i, c) \/ SameSequence(M, c, i)
      BY <1>4 DEF Apart
    <2>3. CASE SameSequence(M, c, i)
      BY <1>1, <2>1, <2>3 DEF SameSequence
    <2>4. CASE SameSequence(M, i, c)
      <3>1. M[i].row.addr <= M[c].row.addr
        BY <1>1, <2>1, <2>4 DEF Apart
      <3>2. M[c].row.addr <= M[i].row.addr
        BY <1>1, <2>1 DEF Nearest
      <3>3. M[c].row.addr = M[i].row.addr
        BY <1>1, <1>2, <2>1, <3>1, <3>2
      <3> QED
        BY <1>1, <2>1, <3>3 DEF Nearest, Newest
    <2> QED
      BY <2>2, <2>3, <2>4
  <1>6. \A c \in C : c \in 1 .. n
    BY <1>1 DEF Covering
  <1>7. (CHOOSE c \in C : \A j \in C : j <= c) = i
    <2> DEFINE d == CHOOSE c \in C : \A j \in C : j <= c
    <2> HIDE DEF C
    <2>1. d \in C /\ \A j \in C : j <= d
      BY <1>4, <1>5
    <2> HIDE DEF d
    <2>2. d = i
      BY <1>1, <1>4, <1>5, <1>6, <2>1
    <2> QED
      BY <2>2 DEF d
  <1>8. Located(M, a) = IF M[i].row.line = 0 THEN Nothing ELSE M[i].row
    BY <1>4, <1>7, LocatedIs
  <1> QED
    BY <1>8, KeptLine

-----------------------------------------------------------------------------
(* The invariant.                                                          *)

Reads ==
    /\ prog \in Programs
    /\ TypeOK
    /\ reg \in Held
    /\ status = "running" =>
          next <= Len(prog) /\ (Followed(prog, next - 1) => reg = Registers(prog)[next])

\* The rows that were emitted so far.
Told == IF status = "done" THEN Rows(prog) ELSE Matrix(prog)[next]

IInv ==
    /\ Reads
    /\ (status = "done" => TailRead(prog)) /\ Followed(prog, next - 1) => Keeps(out, Told)

\* A step adds no row, or one, to those emitted, and to the map.
Adds ==
    \/ status' # "done" /\ out' = out /\ Told' = Told
    \/ \E m \in Entries, r \in Regs :
          /\ out' = Store(out, r) /\ r.addr = m.row.addr /\ Row(r) = Kept(m)
          /\ (status' = "done" => TailRead(prog)) => Told' = Told \o <<m>>

Goes ==
    /\ Reads' /\ prog' = prog /\ status = "running"
    /\ Followed(prog, next' - 1) => Followed(prog, next - 1) /\ Adds /\ Told \in Seq(Entries)

LEMMA HeldIn == Held \subseteq Regs
  <1>1. \A x : x \in -(RegMod \div 2) .. (RegMod \div 2) - 1 => x \in Int
    OBVIOUS
  <1> QED
    BY <1>1 DEF Held, Regs

\* f[k] is how many bytes of the program are left at operation k.
LeftIn(f, p) ==
    /\ f[Len(p) + 1] = 0
    /\ \A k \in 1 .. Len(p) : f[k] = p[k].size + f[k + 1]

LEMMA RemainingIs ==
    ASSUME prog \in Programs
    PROVE  \E f : LeftIn(f, prog) /\ \A k \in 1 .. Len(prog) + 1 : Remaining(k) = f[k]
  <1>0. PICK p : p = prog /\ p \in Programs
    OBVIOUS
  <1> DEFINE n == Len(p)
             add == [k \in 1 .. n |-> [x \in Nat |-> p[n + 1 - k].size + x]]
             Is(h) == h = [i \in 1 .. n + 1 |-> IF i = n + 1 THEN 0 ELSE p[i].size + h[i + 1]]
             f == CHOOSE h : Is(h)
  <1>1. n \in Nat /\ \A k \in 1 .. n : p[k].size \in Nat /\ n + 1 - k \in 1 .. n
    BY <1>0, ProgramIs
  <1>2. \A k \in 1 .. Len(prog) + 1 : Remaining(k) = f[k]
    BY <1>0 DEF Remaining
  <1> HIDE DEF n, f
  <1>3. add \in SteppingTo(n, Nat)
    <2>1. \A k \in 1 .. n : p[n + 1 - k].size \in Nat
      BY <1>1
    <2> QED
      BY <2>1 DEF SteppingTo
  <1>4. \A k \in 1 .. n : \A x \in Nat : add[k][x] = p[n + 1 - k].size + x
    OBVIOUS
  <1> HIDE DEF add
  <1>5. PICK g : IteratedTo(g, n, 0, add, Nat)
    BY <1>1, <1>3, IteratesTo
  <1> DEFINE h == [i \in 1 .. n + 1 |-> g[n + 2 - i]]
  <1>6. Is(h)
    <2> DEFINE r == [i \in 1 .. n + 1 |-> IF i = n + 1 THEN 0 ELSE p[i].size + h[i + 1]]
    <2>1. ASSUME NEW i \in 1 .. n + 1 PROVE h[i] = r[i]
      <3>1. CASE i = n + 1
        <4>1. n + 2 - i = 1
          BY <1>1, <3>1
        <4> QED
          BY <1>5, <3>1, <4>1 DEF IteratedTo
      <3>2. CASE i # n + 1
        <4>1. /\ n + 1 - i \in 1 .. n /\ (n + 1 - i) + 1 = n + 2 - i /\ n + 2 - (i + 1) = n + 1 - i
              /\ i + 1 \in 1 .. n + 1 /\ n + 1 - i \in 1 .. n + 1 /\ n + 1 - (n + 1 - i) = i
          BY <1>1, <3>2
        <4>2. h[i] = g[n + 2 - i] /\ h[i + 1] = g[n + 1 - i] /\ r[i] = p[i].size + h[i + 1]
          BY <3>2, <4>1
        <4>3. g[n + 1 - i] \in Nat /\ g[(n + 1 - i) + 1] = add[n + 1 - i][g[n + 1 - i]]
          BY <1>5, <4>1 DEF IteratedTo
        <4> HIDE DEF h, r
        <4>4. add[n + 1 - i][g[n + 1 - i]] = p[i].size + g[n + 1 - i]
          BY <1>4, <4>1, <4>3
        <4> QED
          BY <4>1, <4>2, <4>3, <4>4
      <3> QED
        BY <3>1, <3>2
    <2>2. h = [i \in 1 .. n + 1 |-> h[i]] /\ r = [i \in 1 .. n + 1 |-> r[i]]
      OBVIOUS
    <2> HIDE DEF h, r
    <2>3. h = r
      BY <2>1, <2>2
    <2> QED
      BY <2>3 DEF r
  <1>7. Is(f)
    <2> HIDE DEF Is, h
    <2> QED
      BY <1>6 DEF f
  <1> HIDE DEF h
  <1> DEFINE e == [i \in 1 .. n + 1 |-> IF i = n + 1 THEN 0 ELSE p[i].size + f[i + 1]]
  <1>8. f = e
    BY <1>7
  <1>9. \A i \in 1 .. n + 1 : e[i] = IF i = n + 1 THEN 0 ELSE p[i].size + f[i + 1]
    OBVIOUS
  <1> HIDE DEF e, Is
  <1>10. f[n + 1] = 0
    BY <1>1, <1>8, <1>9
  <1>11. ASSUME NEW k \in 1 .. n PROVE f[k] = p[k].size + f[k + 1]
    <2>1. k \in 1 .. n + 1 /\ k # n + 1
      BY <1>1
    <2> QED
      BY <1>8, <1>9, <2>1
  <1>12. LeftIn(f, p)
    BY <1>10, <1>11 DEF LeftIn, n
  <1> QED
    BY <1>0, <1>2, <1>12

LEMMA LastLeft ==
    ASSUME prog \in Programs
    PROVE  /\ Remaining(Len(prog)) = 3
           /\ TailRead(prog) => \A k \in 1 .. Len(prog) - 1 : Remaining(k) \in Nat /\ Remaining(k) > 4
  <1>0. PICK p : p = prog /\ p \in Programs
    OBVIOUS
  <1>1. PICK f : LeftIn(f, p) /\ \A k \in 1 .. Len(p) + 1 : Remaining(k) = f[k]
    BY <1>0, RemainingIs
  <1> DEFINE n == Len(p)
  <1>2. n \in Nat \ {0} /\ p[n].size = 3 /\ \A k \in 1 .. n : p[k].size \in Nat \ {0}
    BY <1>0, ProgramIs
  <1>3. f[n] = 3 /\ f[n + 1] = 0
    <2>1. n \in 1 .. n
      BY <1>2
    <2> QED
      BY <1>1, <1>2, <2>1 DEF LeftIn
  <1>4. ASSUME TailRead(p), NEW k \in 1 .. n - 1 PROVE f[k] \in Nat /\ f[k] > 4
    <2> DEFINE Good(i) == f[i] \in Nat /\ f[i] > 4
               T == {i \in 1 .. n - 1 : ~ Good(n - i)}
    <2>1. T = {}
      <3> SUFFICES ASSUME T # {} PROVE FALSE
        OBVIOUS
      <3>1. PICK i \in T : \A l \in T : i <= l
        <4>1. T \subseteq Nat
          OBVIOUS
        <4> HIDE DEF T
        <4> QED
          BY <4>1, Least
      <3>2. i \in 1 .. n - 1 /\ ~ Good(n - i)
        OBVIOUS
      <3>3. n - i \in 1 .. n /\ (n - i) + 1 = n - (i - 1)
        BY <1>2, <3>2
      <3>4. f[n - i] = p[n - i].size + f[n - (i - 1)] /\ p[n - i].size \in Nat \ {0}
        BY <1>1, <1>2, <3>3 DEF LeftIn
      <3>5. CASE i = 1
        <4>1. p[n - 1].size > 1
          BY <1>4 DEF TailRead
        <4>2. n - (i - 1) = n
          BY <1>2, <3>5
        <4> QED
          BY <1>3, <3>2, <3>4, <3>5, <4>1, <4>2
      <3>6. CASE i # 1
        <4>1. i - 1 \in 1 .. n - 1 /\ ~ (i <= i - 1)
          BY <1>2, <3>2, <3>6
        <4>2. Good(n - (i - 1))
          BY <3>1, <4>1
        <4> QED
          BY <3>2, <3>4, <4>2
      <3> QED
        BY <3>5, <3>6
    <2>2. n - k \in 1 .. n - 1 /\ n - (n - k) = k
      BY <1>2
    <2>3. Good(n - (n - k))
      BY <2>1, <2>2
    <2> QED
      BY <2>2, <2>3
  <1>5. \A k \in 1 .. n : k \in 1 .. n + 1
    BY <1>2
  <1>6. \A k \in 1 .. n - 1 : k \in 1 .. n
    BY <1>2
  <1>7. n \in 1 .. n + 1
    BY <1>2
  <1> HIDE DEF n
  <1> QED
    BY <1>0, <1>1, <1>3, <1>4, <1>5, <1>6, <1>7 DEF n

\* What reading an operation says of where the program stands.
LEMMA ReadsOn ==
    ASSUME Reads, NEW op, Reading(op)
    PROVE  /\ prog' = prog /\ next' = next + 1 /\ status = "running"
           /\ Len(prog) \in Nat /\ next \in 1 .. Len(prog) - 1
           /\ next \in DOMAIN prog /\ Taken(prog[next]).op = op
           /\ Registers(prog)[next + 1] = Meant(Registers(prog)[next], prog[next])
           /\ Matrix(prog)[next + 1] = Matrix(prog)[next] \o Emitted(prog, Registers(prog), next)
           /\ Matrix(prog)[next] \in Seq(Entries)
           /\ Followed(prog, next) => Followed(prog, next - 1) /\ reg = Registers(prog)[next]
  <1>1. /\ prog \in Programs /\ prog' = prog /\ next' = next + 1 /\ status = "running"
        /\ next <= Len(prog) /\ Remaining(next) > 4 /\ Taken(prog[next]).op = op
        /\ next \in 1 .. Len(prog) + 1
        /\ Followed(prog, next - 1) => reg = Registers(prog)[next]
    BY DEF Reads, TypeOK, Reading
  <1>2. Len(prog) \in Nat \ {0} /\ DOMAIN prog = 1 .. Len(prog)
    BY <1>1, ProgramIs
  <1>3. next # Len(prog)
    BY <1>1, LastLeft
  <1>4. next \in 1 .. Len(prog) /\ next \in 1 .. Len(prog) + 1 /\ next \in 1 .. Len(prog) - 1
    <2>1. PICK n, k : n = Len(prog) /\ k = next
      OBVIOUS
    <2>2. n \in Nat /\ k \in 1 .. n + 1 /\ k <= n /\ k # n
      BY <1>1, <1>2, <1>3, <2>1
    <2>3. k \in 1 .. n /\ k \in 1 .. n + 1 /\ k \in 1 .. n - 1
      BY <2>2
    <2> QED
      BY <2>1, <2>3
  <1>5. RunOf(Registers(prog), prog)
    BY <1>1, RegistersAre
  <1>6. MatrixOf(Matrix(prog), prog)
    BY <1>1, MatrixIs
  <1>7. Registers(prog)[next + 1] = Meant(Registers(prog)[next], prog[next])
    BY <1>4, <1>5 DEF RunOf
  <1>8. /\ Matrix(prog)[next + 1] = Matrix(prog)[next] \o Emitted(prog, Registers(prog), next)
        /\ Matrix(prog)[next] \in Seq(Entries)
    BY <1>4, <1>6 DEF MatrixOf
  <1>9. Followed(prog, next) => Followed(prog, next - 1)
    <2>1. PICK k : k = next /\ k \in Nat
      BY <1>4
    <2>2. 1 .. k - 1 \subseteq 1 .. k
      BY <2>1
    <2> QED
      BY <2>1, <2>2 DEF Followed
  <1> QED
    BY <1>1, <1>2, <1>4, <1>7, <1>8, <1>9

\* Followed so far, what is read is the operation that was written; or what is
\* ignored is a byte of an operand.
LEMMA ReadsWritten ==
    ASSUME Reads, NEW op, Reading(op), Followed(prog, next)
    PROVE  /\ op # "ignored" => prog[next].op = op /\ Taken(prog[next]) = prog[next]
           /\ op = "ignored" => prog[next].op \in {"ignored", "operand"}
           /\ prog[next].op = "set_file" => prog[next].arg < FileCount
  <1>1. prog \in Programs /\ next \in DOMAIN prog /\ Taken(prog[next]).op = op /\ next \in 1 .. next
    <2>1. Len(prog) \in Nat /\ next \in 1 .. Len(prog) - 1
      BY ReadsOn
    <2>2. next \in 1 .. next
      BY <2>1
    <2> QED
      BY <2>2, ReadsOn DEF Reads
  <1>2. /\ prog[next].op = "operand" => Taken(prog[next]).op = "ignored"
        /\ prog[next].op = "set_file" => prog[next].arg < FileCount
    BY <1>1 DEF Followed
  <1>3. prog[next].op # "operand" => Taken(prog[next]) = prog[next]
    BY <1>1, TakenIs
  <1> QED
    BY <1>1, <1>2, <1>3

\* The operation emits no row, or puts in the map what the map should have.
EmitsMeant ==
    LET E == Emitted(prog, Registers(prog), next) IN
    \/ E = <<>> /\ out' = out
    \/ \E m \in Entries, r \in Regs :
          /\ E = <<m>> /\ out' = Store(out, r)
          /\ r.addr = m.row.addr /\ Row(r) = Kept(m)

LEMMA StoreIn ==
    ASSUME NEW rows, \A a \in DOMAIN rows : a \in Nat /\ rows[a].addr = a, NEW r \in Regs
    PROVE  \A a \in DOMAIN Store(rows, r) : a \in Nat /\ Store(rows, r)[a].addr = a
  <1> DEFINE s == Store(rows, r)
  <1>1. /\ DOMAIN s = DOMAIN rows \cup {r.addr}
        /\ s[r.addr] = Row(r)
        /\ \A a \in DOMAIN rows : a # r.addr => s[a] = rows[a]
    BY DEF Store
  <1>2. r.addr \in Nat /\ Row(r).addr = r.addr
    BY DEF Regs, Row
  <1> HIDE DEF s
  <1>3. ASSUME NEW a \in DOMAIN s PROVE a \in Nat /\ s[a].addr = a
    BY <1>1, <1>2
  <1> QED
    BY <1>3 DEF s

\* An operation that does what it means, as far as the program is followed.
LEMMA OperationGoes ==
    ASSUME Reads, NEW op, Reading(op), reg' \in Held,
           out' = out \/ \E r \in Regs : out' = Store(out, r),
           status' \in {"running", "failed", "astray"},
           Followed(prog, next) => reg' = Meant(reg, prog[next]) /\ EmitsMeant
    PROVE  Goes
  <1>1. /\ prog' = prog /\ next' = next + 1 /\ status = "running"
        /\ Len(prog) \in Nat /\ next \in 1 .. Len(prog) - 1 /\ next \in DOMAIN prog
        /\ Registers(prog)[next + 1] = Meant(Registers(prog)[next], prog[next])
        /\ Matrix(prog)[next + 1] = Matrix(prog)[next] \o Emitted(prog, Registers(prog), next)
        /\ Matrix(prog)[next] \in Seq(Entries)
        /\ Followed(prog, next) => Followed(prog, next - 1) /\ reg = Registers(prog)[next]
    BY ReadsOn
  <1>2. prog \in Programs /\ TypeOK
    BY DEF Reads
  <1>3. next' - 1 = next
    BY <1>1
  <1>4. reg' \in Held /\ prog' \in Programs
    BY <1>1, <1>2
  <1>5. (status = "running")' =>
            (next <= Len(prog) /\ (Followed(prog, next - 1) => reg = Registers(prog)[next]))'
    <2>1. next' <= Len(prog')
      BY <1>1
    <2>2. Followed(prog', next' - 1) => Followed(prog, next)
      BY <1>1, <1>3
    <2>3. Followed(prog, next) => reg' = Registers(prog')[next']
      BY <1>1
    <2> QED
      BY <2>1, <2>2, <2>3
  <1>6. ASSUME Followed(prog, next) PROVE Adds
    <2>0. EmitsMeant
      BY <1>6
    <2>1. PICK M, E, n : /\ M = Matrix(prog)[next] /\ E = Emitted(prog, Registers(prog), next)
                         /\ n = Matrix(prog)[next + 1]
      OBVIOUS
    <2>2. n = M \o E /\ M \in Seq(Entries) /\ Told = M /\ Told' = n
      BY <1>1, <2>1 DEF Told
    <2>3. CASE E = <<>> /\ out' = out
      <3>1. M \o <<>> = M
        BY <2>2
      <3> QED
        BY <2>2, <2>3, <3>1 DEF Adds
    <2>4. CASE ~ (E = <<>> /\ out' = out)
      <3>1. PICK m \in Entries, r \in Regs :
                /\ E = <<m>> /\ out' = Store(out, r)
                /\ r.addr = m.row.addr /\ Row(r) = Kept(m)
        BY <2>0, <2>1, <2>4 DEF EmitsMeant
      <3>2. Told' = Told \o <<m>>
        BY <2>2, <3>1
      <3> QED
        BY <3>1, <3>2 DEF Adds
    <2> QED
      BY <2>3, <2>4
  <1>7. Told \in Seq(Entries)
    BY <1>1 DEF Told
  <1>8. \A a \in DOMAIN out' : a \in Nat /\ out'[a].addr = a
    <2>1. PICK R : R = out /\ \A a \in DOMAIN R : a \in Nat /\ R[a].addr = a
      BY <1>2 DEF TypeOK
    <2>2. CASE out' = out
      BY <2>1, <2>2
    <2>3. CASE out' # out
      <3>1. PICK r \in Regs : out' = Store(out, r)
        BY <2>3
      <3>2. \A a \in DOMAIN Store(R, r) : a \in Nat /\ Store(R, r)[a].addr = a
        BY <2>1, StoreIn
      <3> QED
        BY <2>1, <3>1, <3>2
    <2> QED
      BY <2>2, <2>3
  <1>9. TypeOK'
    <2>1. next' \in 1 .. Len(prog') + 1
      BY <1>1
    <2> QED
      BY <1>4, <1>8, <2>1 DEF TypeOK, Held
  <1>10. Reads'
    BY <1>4, <1>5, <1>9 DEF Reads
  <1>11. Followed(prog, next' - 1) => Followed(prog, next)
    BY <1>3
  <1> QED
    BY <1>1, <1>6, <1>7, <1>10, <1>11 DEF Goes

\* Each operation does what it means.
LEMMA Quiet ==
    ASSUME Reads, NEW op, Reading(op), op \notin {"copy", "special", "end_sequence"}, reg' \in Held,
           Followed(prog, next) => reg' = Meant(reg, prog[next]), out' = out,
           status' \in {"running", "failed", "astray"}
    PROVE  Goes
  <1>1. ASSUME Followed(prog, next) PROVE EmitsMeant
    <2>1. prog[next].op = op \/ prog[next].op \in {"ignored", "operand"}
      BY <1>1, ReadsWritten
    <2>2. Emitted(prog, Registers(prog), next) = <<>>
      BY <2>1 DEF Emitted
    <2> QED
      BY <2>2 DEF EmitsMeant
  <1> QED
    BY <1>1, OperationGoes

LEMMA CopyGoes ==
    ASSUME Reads, Copy
    PROVE  Goes
  <1> DEFINE m == [row |-> Row(Registers(prog)[next + 1]), end |-> FALSE]
  <1>1. Reading("copy") /\ out' = Store(out, reg) /\ status' = status /\ reg' = reg
    BY DEF Copy, Emits
  <1>2. reg \in Held /\ reg \in Regs /\ status = "running"
    BY <1>1, ReadsOn, HeldIn DEF Reads
  <1>3. ASSUME Followed(prog, next) PROVE reg' = Meant(reg, prog[next]) /\ EmitsMeant
    <2>1. prog[next].op = "copy" /\ Registers(prog)[next + 1] = Meant(reg, prog[next])
      BY <1>1, <1>3, ReadsOn, ReadsWritten
    <2>2. Meant(reg, prog[next]) = reg
      BY <2>1 DEF Meant
    <2>3. Emitted(prog, Registers(prog), next) = <<m>>
      BY <2>1 DEF Emitted
    <2>4. m.row = Row(reg) /\ Kept(m) = Row(reg) /\ m \in Entries /\ m.row.addr = reg.addr
      BY <1>2, <2>1, <2>2, RowIn DEF Kept, Entries
    <2> HIDE DEF m
    <2>5. EmitsMeant
      BY <1>1, <1>2, <2>3, <2>4 DEF EmitsMeant
    <2> QED
      BY <1>1, <2>2, <2>5
  <1> HIDE DEF m
  <1> QED
    BY <1>1, <1>2, <1>3, OperationGoes

LEMMA SpecialGoes ==
    ASSUME Reads, Special
    PROVE  Goes
  <1> DEFINE m == [row |-> Row(Registers(prog)[next + 1]), end |-> FALSE]
             o == prog[next]
  <1>1. /\ Reading("special") /\ out' = Store(out, reg') /\ status' = status
        /\ reg' = [reg EXCEPT !.addr = Address(@ + (Arg \div LineRange)),
                              !.line = Line(@ + LineBase + (Arg % LineRange))]
    BY DEF Special, Emits
  <1>2. status = "running" /\ next \in DOMAIN prog /\ Taken(o).op = "special"
    BY <1>1, ReadsOn
  <1>3. prog \in Programs /\ reg \in Held
    BY DEF Reads
  <1>4. Arg = Taken(o).arg /\ Arg \in Nat
    BY <1>2, <1>3, ArgReads DEF Signed
  <1>5. PICK a, l, d : a = Arg /\ l = reg.line /\ d = reg.addr /\ a \in Nat /\ l \in Int /\ d \in Int
    BY <1>3, <1>4 DEF Held
  <1>6. /\ Moves(a)[1] = LineBase + (a % LineRange) /\ Moves(a)[2] = a \div LineRange
        /\ a % LineRange \in Nat /\ a \div LineRange \in Nat
    BY <1>5, MovesIs
  <1>7. reg' \in Held
    <2>1. d + (a \div LineRange) \in Int /\ l + LineBase + (a % LineRange) \in Int
      BY <1>5, <1>6, HeaderAssumption
    <2>2. /\ Address(d + (a \div LineRange)) \in 0 .. Pow2[WordBits] - 1
          /\ Line(l + LineBase + (a % LineRange)) \in 0 .. RegMod - 1
      BY <2>1, AddressIn, LineIn
    <2>3. reg' = [reg EXCEPT !.addr = Address(d + (a \div LineRange)),
                             !.line = Line(l + LineBase + (a % LineRange))]
      BY <1>1, <1>5
    <2> QED
      BY <1>3, <2>2, <2>3 DEF Held
  <1>8. PICK r : r = reg' /\ r \in Regs
    BY <1>7, HeldIn
  <1>9. ASSUME Followed(prog, next) PROVE reg' = Meant(reg, o) /\ EmitsMeant
    <2>1. o.op = "special" /\ o.arg = a /\ Registers(prog)[next + 1] = Meant(reg, o)
      BY <1>1, <1>4, <1>5, <1>9, ReadsOn, ReadsWritten
    <2>2. Meant(reg, o) = [reg EXCEPT !.addr = Address(@ + Moves(o.arg)[2]), !.line = Line(@ + Moves(o.arg)[1])]
      BY <2>1 DEF Meant
    <2>3. reg' = Meant(reg, o)
      <3>1. l + LineBase + (a % LineRange) = l + Moves(a)[1]
        BY <1>5, <1>6, HeaderAssumption
      <3> QED
        BY <1>1, <1>5, <1>6, <2>1, <2>2, <3>1
    <2>4. Emitted(prog, Registers(prog), next) = <<m>>
      BY <2>1 DEF Emitted
    <2>5. m.row = Row(r) /\ Kept(m) = Row(r) /\ m \in Entries /\ m.row.addr = r.addr
      BY <1>8, <2>1, <2>3, RowIn DEF Kept, Entries
    <2> HIDE DEF m, o
    <2>6. EmitsMeant
      BY <1>1, <1>8, <2>4, <2>5 DEF EmitsMeant
    <2> QED
      BY <2>3, <2>6
  <1> HIDE DEF m
  <1> QED
    BY <1>1, <1>2, <1>7, <1>8, <1>9, OperationGoes

\* The row of an end of sequence at the address of register set r.
Ending(r) == [addr |-> r.addr, file |-> -1, line |-> 0, col |-> 0]

LEMMA EndingIs ==
    ASSUME NEW r \in Regs
    PROVE  LET m == [row |-> Row(r), end |-> TRUE] IN
           /\ Ending(r) \in Regs /\ Ending(r) \in Held /\ m \in Entries
           /\ Ending(r).addr = m.row.addr /\ Row(Ending(r)) = Kept(m)
  <1>1. 0 \in 0 .. RegMod - 1 /\ -1 \in -(RegMod \div 2) .. (RegMod \div 2) - 1
    BY HalfIs
  <1>2. Ending(r) \in Regs /\ Ending(r) \in Held
    BY <1>1 DEF Ending, Regs, Held
  <1>3. [row |-> Row(r), end |-> TRUE] \in Entries
    BY RowIn DEF Entries
  <1>4. Row(Ending(r)) = [addr |-> r.addr, file |-> NoFile, line |-> 0, col |-> 0]
    BY DEF Row, Ending
  <1>5. Row(r).addr = r.addr
    BY RowIn
  <1> QED
    BY <1>2, <1>3, <1>4, <1>5 DEF Kept, Ending

LEMMA EndSequenceGoes ==
    ASSUME Reads, EndSequence
    PROVE  Goes
  <1> DEFINE m == [row |-> Row(reg), end |-> TRUE]
  <1>1. Reading("end_sequence") /\ out' = Store(out, Ending(reg)) /\ status' = status /\ reg' = Reset
    BY DEF EndSequence, Emits, Sentinel, Ending
  <1>2. status = "running" /\ reg \in Regs
    BY <1>1, ReadsOn, HeldIn DEF Reads
  <1>3. Ending(reg) \in Regs /\ m \in Entries /\ Ending(reg).addr = m.row.addr /\ Row(Ending(reg)) = Kept(m)
    BY <1>2, EndingIs
  <1>4. ASSUME Followed(prog, next) PROVE reg' = Meant(reg, prog[next]) /\ EmitsMeant
    <2>1. prog[next].op = "end_sequence" /\ reg = Registers(prog)[next]
      BY <1>1, <1>4, ReadsOn, ReadsWritten
    <2>2. Meant(reg, prog[next]) = Reset
      BY <2>1 DEF Meant
    <2>3. Emitted(prog, Registers(prog), next) = <<m>>
      BY <2>1 DEF Emitted
    <2> HIDE DEF m
    <2>4. EmitsMeant
      BY <1>1, <1>3, <2>3 DEF EmitsMeant
    <2> QED
      BY <1>1, <2>2, <2>4
  <1> HIDE DEF m
  <1> QED
    BY <1>1, <1>2, <1>3, <1>4, ResetIn, OperationGoes

\* The operations that emit nothing and have their number as it was written.
LEMMA ArgIs ==
    ASSUME Reads, NEW op, Reading(op)
    PROVE  /\ prog \in Programs /\ next \in DOMAIN prog /\ status = "running"
           /\ op \notin Signed => Arg = Taken(prog[next]).arg
           /\ op \in Unsigned \cup {"fixed_advance_pc"} => Arg \in Nat
           /\ op = "set_address" => Arg \in 0 .. Pow2[WordBits] - 1
  <1>1. prog \in Programs /\ next \in DOMAIN prog /\ Taken(prog[next]).op = op /\ status = "running"
    BY ReadsOn DEF Reads
  <1> QED
    BY <1>1, ArgReads DEF Signed, Unsigned

LEMMA MovedTo ==
    ASSUME Reads, NEW x \in Nat
    PROVE  [reg EXCEPT !.addr = Address(@ + x)] \in Held
  <1>1. PICK r : r = reg /\ r \in Held
    BY DEF Reads
  <1>2. r.addr + x \in Int
    BY <1>1 DEF Held
  <1>3. Address(r.addr + x) \in 0 .. Pow2[WordBits] - 1
    BY <1>2, AddressIn
  <1>4. [r EXCEPT !.addr = Address(r.addr + x)] \in Held
    BY <1>1, <1>3 DEF Held
  <1> QED
    BY <1>1, <1>4

LEMMA AdvancePcGoes ==
    ASSUME Reads, AdvancePc
    PROVE  Goes
  <1>1. ASSUME NEW op \in {"advance_pc", "fixed_advance_pc"}, Reading(op), Sets([reg EXCEPT !.addr = Address(@ + Arg)])
        PROVE  Goes
    <2>1. Arg = Taken(prog[next]).arg /\ Arg \in Nat /\ status = "running"
      BY <1>1, ArgIs DEF Signed, Unsigned
    <2>2. reg' \in Held
      BY <1>1, <2>1, MovedTo DEF Sets
    <2>3. ASSUME Followed(prog, next) PROVE reg' = Meant(reg, prog[next])
      <3>1. prog[next].op = op /\ Taken(prog[next]) = prog[next]
        BY <1>1, <2>3, ReadsWritten
      <3> QED
        BY <1>1, <2>1, <3>1 DEF Sets, Meant
    <2> QED
      BY <1>1, <2>1, <2>2, <2>3, Quiet DEF Sets
  <1>2. CASE Reading("const_add_pc") /\ Sets([reg EXCEPT !.addr = Address(@ + (AdjMax \div LineRange))])
    <2>1. status = "running"
      BY <1>2, ArgIs
    <2>2. Moves(AdjMax)[2] = AdjMax \div LineRange /\ AdjMax \div LineRange \in Nat
      <3>1. AdjMax \in Nat
        BY HeaderAssumption DEF AdjMax
      <3> QED
        BY <3>1, MovesIs
    <2>3. reg' \in Held
      BY <1>2, <2>2, MovedTo DEF Sets
    <2>4. ASSUME Followed(prog, next) PROVE reg' = Meant(reg, prog[next])
      <3>1. prog[next].op = "const_add_pc"
        BY <1>2, <2>4, ReadsWritten
      <3> QED
        BY <1>2, <2>2, <3>1 DEF Sets, Meant
    <2> QED
      BY <1>2, <2>1, <2>3, <2>4, Quiet DEF Sets
  <1> QED
    BY <1>1, <1>2 DEF AdvancePc

LEMMA AdvanceLineGoes ==
    ASSUME Reads, AdvanceLine
    PROVE  Goes
  <1>1. /\ Reading("advance_line") /\ reg' = [reg EXCEPT !.line = Line(@ + Arg)]
        /\ out' = out /\ status' = status
    BY DEF AdvanceLine, Sets
  <1>2. prog \in Programs /\ next \in DOMAIN prog /\ Taken(prog[next]).op = "advance_line" /\ status = "running"
    BY <1>1, ReadsOn DEF Reads
  <1>3. PICK a, l, r : /\ a = Taken(prog[next]).arg /\ a \in Int /\ Arg = a % Pow2[WordBits]
                       /\ r = reg /\ r \in Held /\ l = r.line /\ l \in Int
    <2>1. Taken(prog[next]).arg \in Int /\ Arg = Taken(prog[next]).arg % Pow2[WordBits]
      BY <1>2, ArgReads DEF Signed
    <2>2. reg \in Held /\ reg.line \in Int
      BY DEF Reads, Held
    <2> QED
      BY <2>1, <2>2
  <1>4. Line(l + (a % Pow2[WordBits])) = Line(l + a)
    BY <1>3, LineSame
  <1>5. reg' = [r EXCEPT !.line = Line(l + a)]
    BY <1>1, <1>3, <1>4
  <1>6. reg' \in Held
    <2>1. Line(l + a) \in 0 .. RegMod - 1
      BY <1>3, LineIn
    <2> QED
      BY <1>3, <1>5, <2>1 DEF Held
  <1>7. ASSUME Followed(prog, next) PROVE reg' = Meant(reg, prog[next])
    <2>1. prog[next].op = "advance_line" /\ prog[next].arg = a
      BY <1>1, <1>3, <1>7, ReadsWritten
    <2> QED
      BY <1>3, <1>5, <2>1 DEF Meant
  <1> QED
    BY <1>1, <1>2, <1>6, <1>7, Quiet

LEMMA SetsGo ==
    ASSUME Reads, SetFile \/ SetColumn \/ SetAddress
    PROVE  Goes
  <1>0. PICK r : r = reg /\ r \in Held
    BY DEF Reads
  <1>1. CASE SetFile
    <2>1. Reading("set_file") /\ Arg = Taken(prog[next]).arg /\ Arg \in Nat /\ status = "running"
      BY <1>1, ArgIs DEF Signed, Unsigned, SetFile
    <2>2. PICK a : a = Arg /\ a \in Nat
      BY <2>1
    <2>3. /\ FileIndex(a) \in -(RegMod \div 2) .. (RegMod \div 2) - 1
          /\ a < FileCount => FileIndex(a) = a
      BY <2>2, FileIndexIs
    <2>4. reg' = [r EXCEPT !.file = FileIndex(a)] /\ reg' \in Held
      BY <1>0, <1>1, <2>2, <2>3 DEF SetFile, Sets, Held
    <2>5. ASSUME Followed(prog, next) PROVE reg' = Meant(reg, prog[next])
      <3>1. prog[next].op = "set_file" /\ prog[next].arg = a /\ a < FileCount
        BY <2>1, <2>2, <2>5, ReadsWritten
      <3> QED
        BY <1>0, <2>3, <2>4, <3>1 DEF Meant
    <2> QED
      BY <1>1, <2>1, <2>4, <2>5, Quiet DEF SetFile, Sets
  <1>2. CASE SetColumn
    <2>1. Reading("set_column") /\ Arg = Taken(prog[next]).arg /\ Arg \in Nat /\ status = "running"
      BY <1>2, ArgIs DEF Signed, Unsigned, SetColumn
    <2>2. PICK a : a = Arg /\ a \in Nat
      BY <2>1
    <2>3. Column(a) \in 0 .. RegMod - 1
      BY <2>2, ColumnIn
    <2>4. reg' = [r EXCEPT !.col = Column(a)] /\ reg' \in Held
      BY <1>0, <1>2, <2>2, <2>3 DEF SetColumn, Sets, Held
    <2>5. ASSUME Followed(prog, next) PROVE reg' = Meant(reg, prog[next])
      <3>1. prog[next].op = "set_column" /\ prog[next].arg = a
        BY <2>1, <2>2, <2>5, ReadsWritten
      <3> QED
        BY <1>0, <2>4, <3>1 DEF Meant, Column
    <2> QED
      BY <1>2, <2>1, <2>4, <2>5, Quiet DEF SetColumn, Sets
  <1>3. CASE SetAddress
    <2>1. /\ Reading("set_address") /\ Arg = Taken(prog[next]).arg /\ Arg \in 0 .. Pow2[WordBits] - 1
          /\ status = "running"
      BY <1>3, ArgIs DEF Signed, SetAddress
    <2>2. reg' = [r EXCEPT !.addr = Arg] /\ reg' \in Held
      BY <1>0, <1>3, <2>1 DEF SetAddress, Sets, Held
    <2>3. ASSUME Followed(prog, next) PROVE reg' = Meant(reg, prog[next])
      <3>1. prog[next].op = "set_address" /\ prog[next].arg = Arg
        BY <2>1, <2>3, ReadsWritten
      <3> QED
        BY <1>0, <2>2, <3>1 DEF Meant
    <2> QED
      BY <1>3, <2>1, <2>2, <2>3, Quiet DEF SetAddress, Sets
  <1> QED
    BY <1>1, <1>2, <1>3

\* The operations that move nothing, and those that the code goes astray at.
LEMMA OthersGo ==
    ASSUME Reads, Ignored \/ Unknown \/ Astray
    PROVE  Goes
  <1>1. PICK op : op \in {"ignored", "set_isa", "unknown", "set_discriminator", "astray"} /\ Reading(op)
    BY DEF Ignored, Unknown, Astray
  <1>2. reg' = reg /\ out' = out /\ status' \in {"running", "failed", "astray"}
    <2>1. status = "running"
      BY <1>1, ReadsOn
    <2> QED
      BY <2>1 DEF Ignored, Unknown, Astray, Sets
  <1>3. reg' \in Held
    BY <1>2 DEF Reads
  <1>4. ASSUME Followed(prog, next) PROVE reg' = Meant(reg, prog[next])
    <2>1. prog[next].op \in {"ignored", "set_isa", "unknown", "set_discriminator", "astray", "operand"}
      BY <1>1, <1>4, ReadsWritten
    <2> QED
      BY <1>2, <2>1 DEF Meant
  <1> QED
    BY <1>1, <1>2, <1>3, <1>4, Quiet

\* The operation that is lost, if one is, is the last end of a sequence, and
\* its row is made up for.
LEMMA FinishGoes ==
    ASSUME Reads, Finish
    PROVE  Goes
  <1>1. /\ status = "running" /\ Remaining(next) <= 4 /\ reg' = Ending(reg) /\ out' = Store(out, Ending(reg))
        /\ status' = "done" /\ prog' = prog /\ next' = next
    BY DEF Finish, Sentinel, Ending
  <1>2. /\ prog \in Programs /\ reg \in Regs /\ TypeOK /\ next <= Len(prog)
        /\ Followed(prog, next - 1) => reg = Registers(prog)[next]
    BY <1>1, HeldIn DEF Reads
  <1>3. Ending(reg) \in Held /\ Ending(reg) \in Regs
    BY <1>2, EndingIs
  <1>4. TypeOK'
    <2>1. PICK R, r : R = out /\ r = Ending(reg) /\ r \in Regs /\ \A a \in DOMAIN R : a \in Nat /\ R[a].addr = a
      BY <1>2, <1>3 DEF TypeOK
    <2>2. \A a \in DOMAIN Store(R, r) : a \in Nat /\ Store(R, r)[a].addr = a
      BY <2>1, StoreIn
    <2>3. \A a \in DOMAIN out' : a \in Nat /\ out'[a].addr = a
      BY <1>1, <2>1, <2>2
    <2>4. reg' \in Held /\ next' \in 1 .. Len(prog') + 1
      BY <1>1, <1>2, <1>3 DEF TypeOK
    <2> QED
      BY <1>1, <2>3, <2>4 DEF TypeOK, Held
  <1>5. PICK p, n, M, r : p = prog /\ n = next /\ M = Matrix(prog)[next] /\ r = reg /\ p \in Programs /\ r \in Regs
    BY <1>2
  <1> DEFINE m == [row |-> Row(r), end |-> TRUE]
  <1>6. Ending(r) \in Regs /\ m \in Entries /\ Ending(r).addr = m.row.addr /\ Row(Ending(r)) = Kept(m)
    BY <1>5, EndingIs
  <1>7. Told = M /\ M \in Seq(Entries) /\ Told' = Rows(p)
    <2>1. Told = M /\ Told' = Rows(p)
      BY <1>1, <1>5 DEF Told
    <2>2. n \in 1 .. Len(p) + 1
      BY <1>2, <1>5 DEF TypeOK
    <2> QED
      BY <1>5, <2>1, <2>2, MatrixIs DEF MatrixOf
  <1>8. ASSUME TailRead(prog), Followed(prog, next - 1) PROVE Rows(p) = M \o <<m>>
    <2>1. Len(p) \in Nat \ {0} /\ p[Len(p)].op = "end_sequence"
      BY <1>5, ProgramIs
    <2>2. n \in 1 .. Len(p) + 1 /\ n <= Len(p)
      BY <1>2, <1>5 DEF TypeOK
    <2>3. \A k \in 1 .. Len(p) - 1 : Remaining(k) \in Nat /\ Remaining(k) > 4
      BY <1>2, <1>5, <1>8, LastLeft
    <2>4. n = Len(p)
      <3> SUFFICES ASSUME n # Len(p) PROVE FALSE
        OBVIOUS
      <3>1. n \in 1 .. Len(p) - 1
        BY <2>1, <2>2
      <3>2. Remaining(n) \in Nat /\ Remaining(n) > 4
        BY <2>3, <3>1
      <3>3. Remaining(n) <= 4
        BY <1>1, <1>5
      <3> QED
        BY <3>2, <3>3
    <2>5. Emitted(p, Registers(p), Len(p)) = <<m>>
      BY <1>2, <1>5, <1>8, <2>1, <2>4 DEF Emitted
    <2>6. Len(p) \in 1 .. Len(p)
      BY <2>1
    <2>7. Matrix(p)[Len(p) + 1] = Matrix(p)[Len(p)] \o Emitted(p, Registers(p), Len(p))
      BY <1>5, <2>6, MatrixIs DEF MatrixOf
    <2> HIDE DEF m
    <2> QED
      BY <1>5, <2>4, <2>5, <2>7 DEF Rows
  <1> HIDE DEF m
  <1>9. Followed(prog, next - 1) => Adds
    BY <1>1, <1>5, <1>6, <1>7, <1>8 DEF Adds
  <1>10. Reads'
    BY <1>1, <1>2, <1>3, <1>4 DEF Reads
  <1> QED
    BY <1>1, <1>7, <1>9, <1>10 DEF Goes

\* Every step reads on, and adds what it emits.
LEMMA NextGoes ==
    ASSUME Reads, Next
    PROVE  Goes
  BY CopyGoes, SpecialGoes, EndSequenceGoes, AdvancePcGoes, AdvanceLineGoes, SetsGo, OthersGo, FinishGoes
  DEF Next

LEMMA InitKeeps ==
    ASSUME Init
    PROVE  IInv
  <1>1. prog \in Programs /\ next = 1 /\ reg = Reset /\ out = NoRows /\ status = "running"
    BY DEF Init
  <1>2. PICK p : p = prog /\ p \in Programs
    BY <1>1
  <1>3. Len(p) \in Nat \ {0}
    BY <1>2, ProgramIs
  <1>4. Reset \in Held
    BY ResetIn
  <1>5. Registers(p)[1] = Reset
    BY <1>2, RegistersAre DEF RunOf
  <1>6. Matrix(p)[1] = <<>>
    BY <1>2, MatrixIs DEF MatrixOf
  <1>7. DOMAIN NoRows = {}
    BY DEF NoRows
  <1>8. TypeOK
    BY <1>1, <1>2, <1>3, <1>4, <1>7 DEF TypeOK, Held
  <1> QED
    BY <1>1, <1>2, <1>3, <1>4, <1>5, <1>6, <1>8, KeepsNone DEF IInv, Reads, Told

\* A line program's registers are those the standard means, and its map has
\* the last row for each address, of those that were read so far.
THEOREM Invariant == Spec => []IInv
  <1>1. Init => IInv
    BY InitKeeps
  <1>2. IInv /\ [Next]_vars => IInv'
    <2> SUFFICES ASSUME IInv, [Next]_vars
                 PROVE  IInv'
      OBVIOUS
    <2>1. CASE Next
      <3>1. Goes
        BY <2>1, NextGoes DEF IInv
      <3>2. ASSUME ((status = "done" => TailRead(prog)) /\ Followed(prog, next - 1))'
            PROVE  Keeps(out', Told')
        <4>1. (status' = "done" => TailRead(prog)) /\ Followed(prog, next' - 1)
          BY <3>1, <3>2 DEF Goes, TailRead
        <4>2. PICK M, R : M = Told /\ R = out /\ M \in Seq(Entries) /\ Keeps(R, M)
          BY <3>1, <4>1 DEF IInv, Goes
        <4>3. CASE out' = out /\ Told' = Told
          BY <4>2, <4>3
        <4>4. CASE ~ (out' = out /\ Told' = Told)
          <5>1. PICK m \in Entries, r \in Regs :
                    /\ out' = Store(out, r) /\ r.addr = m.row.addr /\ Row(r) = Kept(m)
                    /\ Told' = Told \o <<m>>
            BY <3>1, <4>1, <4>4 DEF Goes, Adds
          <5>2. Keeps(Store(R, r), M \o <<m>>)
            BY <4>2, <5>1, KeepsNext
          <5> QED
            BY <4>2, <5>1, <5>2
        <4> QED
          BY <4>3, <4>4
      <3> QED
        BY <3>1, <3>2 DEF Goes, IInv
    <2>2. CASE UNCHANGED vars
      BY <2>2 DEF vars, IInv, Reads, Told, TypeOK, Remaining, TailRead, Followed
    <2> QED
      BY <2>1, <2>2
  <1> QED
    BY <1>1, <1>2, PTL DEF Spec

\* Every variable keeps its type: above all, line counts stay in their word,
\* though lines are added to with a sign (DWARF.h:127-129, 184-186), and every
\* row is where its address says (lines 109-114).
THEOREM TypeCorrect == Spec => []TypeOK
  <1>1. IInv => TypeOK
    BY DEF IInv, Reads, Told
  <1> QED
    BY <1>1, Invariant, PTL

\* Every number in LEB128 reads as what was written, for every width of the
\* word and of the groups, and every number of groups that fits
\* (Cursor.h:92-120).
THEOREM NumbersRead == Spec => []OperandRead
  <1>1. IInv => OperandRead
    <2> SUFFICES ASSUME IInv, status = "running", next <= Len(prog)
                 PROVE  Arg % Pow2[WordBits] = Taken(prog[next]).arg % Pow2[WordBits]
      BY DEF OperandRead
    <2>1. prog \in Programs /\ next \in 1 .. Len(prog) + 1
      BY DEF IInv, Reads, Told, TypeOK
    <2>2. next \in DOMAIN prog
      <3>1. PICK n, k : n = Len(prog) /\ k = next /\ n \in Nat /\ k \in 1 .. n + 1 /\ k <= n
        BY <2>1, ProgramIs
      <3>2. k \in 1 .. n
        BY <3>1
      <3> QED
        BY <2>1, <3>1, <3>2, ProgramIs
    <2>3. CASE Taken(prog[next]).op \notin Signed
      BY <2>1, <2>2, <2>3, ArgReads
    <2>4. CASE Taken(prog[next]).op \in Signed
      <3> DEFINE m == Pow2[WordBits]
      <3>1. PICK a : a = Taken(prog[next]).arg /\ a \in Int /\ Arg = a % m
        BY <2>1, <2>2, <2>4, ArgReads
      <3>2. m \in Nat \ {0}
        BY WidthAssumption, PowPositive
      <3> HIDE DEF m
      <3>3. a % m \in 0 .. m - 1
        BY <3>1, <3>2, Divided
      <3>4. (m * 0 + (a % m)) % m = a % m
        BY <3>2, <3>3, DividedOnce
      <3>5. m * 0 + (a % m) = a % m
        BY <3>2, <3>3
      <3> QED
        BY <3>1, <3>4, <3>5 DEF m
    <2> QED
      BY <2>3, <2>4
  <1> QED
    BY <1>1, Invariant, PTL

-----------------------------------------------------------------------------
(* What is located.                                                        *)

LEMMA RowsEnd ==
    ASSUME NEW p \in Programs
    PROVE  Rows(p) \in Seq(Entries) /\ Rows(p)[Len(Rows(p))].end
  <1>1. Len(p) \in Nat \ {0} /\ p[Len(p)].op = "end_sequence"
    BY ProgramIs
  <1>2. Len(p) \in 1 .. Len(p) /\ Len(p) \in 1 .. Len(p) + 1 /\ Len(p) + 1 \in 1 .. Len(p) + 1
    BY <1>1
  <1> DEFINE M == Matrix(p)[Len(p)]
             m == [row |-> Row(Registers(p)[Len(p)]), end |-> TRUE]
  <1>3. M \in Seq(Entries) /\ Rows(p) \in Seq(Entries) /\ Rows(p) = M \o Emitted(p, Registers(p), Len(p))
    BY <1>2, MatrixIs DEF MatrixOf, Rows
  <1>4. Emitted(p, Registers(p), Len(p)) = <<m>>
    BY <1>1 DEF Emitted
  <1>5. m.end
    OBVIOUS
  <1> HIDE DEF M, m
  <1>6. Len(M \o <<m>>) = Len(M) + 1 /\ (M \o <<m>>)[Len(M) + 1] = m
    BY <1>3
  <1> QED
    BY <1>3, <1>4, <1>5, <1>6

LEMMA FollowedSoFar ==
    ASSUME Reads, Followed(prog, Len(prog))
    PROVE  Followed(prog, next - 1)
  <1>1. PICK n, k : n = Len(prog) /\ k = next /\ n \in Nat /\ k \in 1 .. n + 1
    BY ProgramIs DEF Reads, TypeOK
  <1>2. 1 .. k - 1 \subseteq 1 .. n
    BY <1>1
  <1> QED
    BY <1>1, <1>2 DEF Followed

\* Once the program is read, an address is located in the row whose code it
\* belongs to, when the sequences come in the order of their addresses: for
\* every such program that the code follows (no operand of set_isa that does
\* anything as an operation, files in their table), every address and every
\* header (DWARF.h:61-204, StackTrace.h:77-94).
THEOREM LocatesAll == Spec => []LocatesEvery
  <1>1. IInv => LocatesEvery
    <2> SUFFICES ASSUME IInv, status = "done", TailRead(prog), Followed(prog, Len(prog)), Ascending(Rows(prog)),
                        NEW a \in Addresses, Known(a)
                 PROVE  FindLocation(a) = Located(Rows(prog), a)
      BY DEF LocatesEvery
    <2>1. PICK p, M : p = prog /\ p \in Programs /\ M = Rows(prog)
      BY DEF IInv, Reads, Told
    <2>2. M \in Seq(Entries) /\ M[Len(M)].end /\ Keeps(out, M) /\ Ascending(M) /\ a \in Nat
      BY <2>1, RowsEnd, FollowedSoFar, HeaderAssumption DEF IInv, Reads, Told
    <2>3. PICK i \in DOMAIN M : Nearest(M, i, a) /\ RowAt(a) = Kept(M[i])
      BY <2>2, LooksUp
    <2>4. Located(M, a) = IF Kept(M[i]).line = 0 THEN Nothing ELSE Kept(M[i])
      BY <2>2, <2>3, NearestCovers
    <2> QED
      BY <2>1, <2>3, <2>4 DEF FindLocation
  <1> QED
    BY <1>1, Invariant, PTL

\* In whatever order the sequences come, an address is never located in a row
\* that is not its own (DWARF.h:112, where one row takes another's place), if
\* the code follows the program.
THEOREM MisplacesNone == Spec => []NeverMisplaces
  <1>1. IInv => NeverMisplaces
    <2> SUFFICES ASSUME IInv, status = "done", TailRead(prog), Followed(prog, Len(prog)), Apart(Rows(prog)),
                        NEW a \in Addresses, Known(a)
                 PROVE  FindLocation(a) \in {Nothing, Located(Rows(prog), a)}
      BY DEF NeverMisplaces
    <2>1. PICK p, M : p = prog /\ p \in Programs /\ M = Rows(prog)
      BY DEF IInv, Reads, Told
    <2>2. M \in Seq(Entries) /\ M[Len(M)].end /\ Keeps(out, M) /\ Apart(M) /\ a \in Nat
      BY <2>1, RowsEnd, FollowedSoFar, HeaderAssumption DEF IInv, Reads, Told
    <2>3. PICK i \in DOMAIN M : Nearest(M, i, a) /\ RowAt(a) = Kept(M[i])
      BY <2>2, LooksUp
    <2>4. CASE M[i].end
      <3>1. Kept(M[i]).line = 0
        BY <2>2, <2>4, KeptLine
      <3> QED
        BY <2>3, <3>1 DEF FindLocation
    <2>5. CASE ~ M[i].end
      <3>1. i # Len(M)
        BY <2>2, <2>5
      <3>2. Located(M, a) = IF Kept(M[i]).line = 0 THEN Nothing ELSE Kept(M[i])
        BY <2>2, <2>3, <2>5, <3>1, NearestApart
      <3> QED
        BY <2>1, <2>3, <3>2 DEF FindLocation
    <2> QED
      BY <2>4, <2>5
  <1> QED
    BY <1>1, Invariant, PTL

\* As far as a program is read, and so where an operation that is not known
\* breaks it off, the code up to its last row is located (StackTrace.h:69-75).
THEOREM PartLocated == Spec => []PartLocates
  <1>1. IInv => PartLocates
    <2> SUFFICES ASSUME IInv, status # "done", Followed(prog, next - 1), Ascending(Matrix(prog)[next]),
                        NEW a \in Addresses, Known(a), a < Max(DOMAIN out)
                 PROVE  FindLocation(a) = Located(Matrix(prog)[next], a)
      BY DEF PartLocates
    <2>1. PICK p, M : p = prog /\ p \in Programs /\ M = Matrix(prog)[next]
      BY DEF IInv, Reads, Told
    <2>2. M \in Seq(Entries) /\ Keeps(out, M) /\ Ascending(M) /\ a \in Nat
      <3>1. next \in 1 .. Len(p) + 1
        BY <2>1 DEF IInv, Reads, Told, TypeOK
      <3> QED
        BY <2>1, <3>1, MatrixIs, HeaderAssumption DEF IInv, Reads, Told, MatrixOf
    <2>3. PICK i \in DOMAIN M : Nearest(M, i, a) /\ RowAt(a) = Kept(M[i])
      BY <2>2, LooksUp
    <2>4. i # Len(M)
      <3> SUFFICES ASSUME i = Len(M) PROVE FALSE
        OBVIOUS
      <3>1. \A k \in DOMAIN M : M[k].row.addr \in Nat /\ M[k].row.addr <= M[i].row.addr
        <4>1. \A k \in DOMAIN M : M[k].row.addr \in Nat
          BY <2>2, KeptLine
        <4>2. \A k \in DOMAIN M : k = i \/ k < i
          BY <2>2
        <4> QED
          BY <2>2, <4>1, <4>2 DEF Ascending
      <3> DEFINE D == DOMAIN out
                 x == Max(D)
      <3>2. D = {M[k].row.addr : k \in DOMAIN M}
        BY <2>2 DEF Keeps
      <3>3. M[i].row.addr \in D /\ \A y \in D : y \in Nat /\ M[i].row.addr >= y
        BY <3>1, <3>2
      <3>4. x = CHOOSE z \in D : \A y \in D : z >= y
        BY DEF Max
      <3>5. a < x
        OBVIOUS
      <3> HIDE DEF D, x
      <3>6. x \in D
        BY <3>3, <3>4
      <3>7. x <= M[i].row.addr /\ M[i].row.addr <= a
        BY <2>3, <3>3, <3>6 DEF Nearest
      <3> QED
        BY <2>2, <3>3, <3>5, <3>6, <3>7
    <2>5. Located(M, a) = IF Kept(M[i]).line = 0 THEN Nothing ELSE Kept(M[i])
      BY <2>2, <2>3, <2>4, NearestCovers
    <2> QED
      BY <2>1, <2>3, <2>5 DEF FindLocation
  <1> QED
    BY <1>1, Invariant, PTL

=============================================================================
