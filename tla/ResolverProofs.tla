--------------------------- MODULE ResolverProofs ---------------------------
(***************************************************************************)
(* Theorems about MachO and Resolver, for any files, line programs, slides *)
(* and traces: every section of a file is found, and a frame is located by *)
(* the rows of its own image or not at all.                                *)
(*                                                                         *)
(* Sections.  What FileBytes lays out begins with each load command where  *)
(* the sizes before it add up to (Begins), and no two things are kept at   *)
(* one position, so what the walk reads of a command is what was written   *)
(* of it (CommandKeeps, FileKeeps).  By induction on the commands, the     *)
(* walk stands at the beginning of each with the sections before it found  *)
(* (Walks).                                                                *)
(*                                                                         *)
(* Locations.  The rows of all files come into one map, and any of them    *)
(* may overwrite another's.  So the invariant says of each row in the map  *)
(* whose it is: Traced, each is what some file opened before means, all of *)
(* whose rows are there; Loaded, those of the file looked in are as that   *)
(* file means them; Pending, the frame's own file is still to be looked in *)
(* or has nothing; Right, the frames done are located.  The row nearest to *)
(* an address then is of the image it is in, as no other image begins      *)
(* within the code between (WellPlaced).                                   *)
(***************************************************************************)
EXTENDS Resolver, LineProofs

-----------------------------------------------------------------------------
(* Where load commands are.                                                *)

LEMMA CommandIs ==
    ASSUME NEW cmds, WellFormed(cmds)
    PROVE  /\ Len(cmds) \in Nat /\ DOMAIN cmds = 1 .. Len(cmds)
           /\ \A k \in 1 .. Len(cmds) :
                 /\ SectionsOf(cmds[k]) \in Seq(ToSet(SectionsOf(cmds[k])))
                 /\ Len(SectionsOf(cmds[k])) \in Nat
                 /\ DOMAIN SectionsOf(cmds[k]) = 1 .. Len(SectionsOf(cmds[k]))
                 /\ \A x \in ToSet(SectionsOf(cmds[k])) : x = [name |-> x.name, contents |-> x.contents]
                 /\ SizeOf(cmds[k]) \in Nat /\ SizeOf(cmds[k]) >= 8
                 /\ cmds[k].is = "segment" =>
                       SizeOf(cmds[k]) = 72 + 80 * Len(SectionsOf(cmds[k])) /\ SectionsOf(cmds[k]) = cmds[k].sections
                 /\ cmds[k].is # "segment" => SizeOf(cmds[k]) = cmds[k].size /\ SectionsOf(cmds[k]) = <<>>
  <1>1. cmds \in Seq(ToSet(cmds))
    BY DEF WellFormed
  <1>2. Len(cmds) \in Nat /\ DOMAIN cmds = 1 .. Len(cmds)
    BY <1>1
  <1>3. ASSUME NEW k \in 1 .. Len(cmds), cmds[k].is = "segment"
        PROVE  /\ SectionsOf(cmds[k]) = cmds[k].sections
               /\ cmds[k].sections \in Seq(ToSet(cmds[k].sections))
               /\ \A x \in ToSet(cmds[k].sections) : x = [name |-> x.name, contents |-> x.contents]
               /\ SizeOf(cmds[k]) = 72 + 80 * Len(cmds[k].sections)
    BY <1>2, <1>3 DEF WellFormed, SectionsOf, SizeOf
  <1>4. ASSUME NEW k \in 1 .. Len(cmds), cmds[k].is # "segment"
        PROVE  /\ SectionsOf(cmds[k]) = <<>> /\ SizeOf(cmds[k]) = cmds[k].size
               /\ cmds[k].size \in Nat /\ cmds[k].size >= 8
    BY <1>2, <1>4 DEF WellFormed, SectionsOf, SizeOf
  <1>5. ToSet(<<>>) = {} /\ <<>> \in Seq({}) /\ Len(<<>>) = 0 /\ DOMAIN <<>> = 1 .. 0
    BY DEF ToSet
  <1>6. ASSUME NEW k \in 1 .. Len(cmds)
        PROVE  /\ SectionsOf(cmds[k]) \in Seq(ToSet(SectionsOf(cmds[k])))
               /\ \A x \in ToSet(SectionsOf(cmds[k])) : x = [name |-> x.name, contents |-> x.contents]
    BY <1>3, <1>4, <1>5
  <1>7. ASSUME NEW k \in 1 .. Len(cmds)
        PROVE  /\ Len(SectionsOf(cmds[k])) \in Nat
               /\ DOMAIN SectionsOf(cmds[k]) = 1 .. Len(SectionsOf(cmds[k]))
    BY <1>6
  <1>8. ASSUME NEW k \in 1 .. Len(cmds)
        PROVE  SizeOf(cmds[k]) \in Nat /\ SizeOf(cmds[k]) >= 8
    <2>1. CASE cmds[k].is = "segment"
      <3>1. PICK n : n = Len(cmds[k].sections) /\ n \in Nat
        BY <1>3, <1>7, <2>1
      <3> QED
        BY <1>3, <2>1, <3>1
    <2>2. CASE cmds[k].is # "segment"
      BY <1>4, <2>2
    <2> QED
      BY <2>1, <2>2
  <1> QED
    BY <1>2, <1>3, <1>4, <1>6, <1>7, <1>8

BeginsOf(B, cmds) ==
    /\ B \in [1 .. Len(cmds) + 1 -> Nat]
    /\ B[1] = 32
    /\ \A k \in 1 .. Len(cmds) : B[k + 1] = B[k] + SizeOf(cmds[k])

LEMMA BeginsAre ==
    ASSUME NEW cmds, WellFormed(cmds)
    PROVE  BeginsOf(Begins(cmds), cmds)
  <1> DEFINE n == Len(cmds)
             step == [k \in 1 .. n |-> [x \in Nat |-> x + SizeOf(cmds[k])]]
             Is(h) == h = [k \in 1 .. n + 1 |-> IF k = 1 THEN 32 ELSE h[k - 1] + SizeOf(cmds[k - 1])]
             B == Begins(cmds)
  <1>1. n \in Nat /\ \A k \in 1 .. n : SizeOf(cmds[k]) \in Nat
    BY CommandIs
  <1>2. step \in [1 .. n -> [Nat -> Nat]]
    BY <1>1
  <1>3. \A k \in 1 .. n : \A x \in Nat : step[k][x] = x + SizeOf(cmds[k])
    OBVIOUS
  <1>4. B = CHOOSE h : Is(h)
    BY DEF Begins
  <1> HIDE DEF step, n, B
  <1>5. PICK f : IteratedTo(f, n, 32, step, Nat)
    <2>1. step \in SteppingTo(n, Nat)
      BY <1>2 DEF SteppingTo
    <2> QED
      BY <1>1, <2>1, IteratesTo
  <1>6. Is(f)
    <2> DEFINE r == [k \in 1 .. n + 1 |-> IF k = 1 THEN 32 ELSE f[k - 1] + SizeOf(cmds[k - 1])]
    <2>1. ASSUME NEW k \in 1 .. n + 1 PROVE f[k] = r[k]
      <3>1. CASE k = 1
        BY <1>5, <3>1 DEF IteratedTo
      <3>2. CASE k # 1
        <4>1. k - 1 \in 1 .. n /\ k - 1 \in 1 .. n + 1 /\ (k - 1) + 1 = k
          BY <1>1, <3>2
        <4>2. f[k] = step[k - 1][f[k - 1]] /\ f[k - 1] \in Nat
          BY <1>5, <4>1 DEF IteratedTo
        <4> QED
          BY <1>3, <3>2, <4>1, <4>2
      <3> QED
        BY <3>1, <3>2
    <2>2. f = [k \in 1 .. n + 1 |-> f[k]] /\ r = [k \in 1 .. n + 1 |-> r[k]]
      BY <1>5 DEF IteratedTo
    <2> HIDE DEF r
    <2>3. f = r
      BY <2>1, <2>2
    <2> QED
      BY <2>3 DEF r
  <1>7. Is(B)
    <2> HIDE DEF Is
    <2> QED
      BY <1>4, <1>6
  <1> DEFINE e == [k \in 1 .. n + 1 |-> IF k = 1 THEN 32 ELSE B[k - 1] + SizeOf(cmds[k - 1])]
  <1>8. B = e
    BY <1>7
  <1>9. \A k \in 1 .. n + 1 : e[k] = IF k = 1 THEN 32 ELSE B[k - 1] + SizeOf(cmds[k - 1])
    OBVIOUS
  <1>10. B = [k \in 1 .. n + 1 |-> B[k]]
    BY <1>7
  <1> HIDE DEF e, Is
  <1>11. B[1] = 32
    BY <1>1, <1>8, <1>9
  <1>12. ASSUME NEW k \in 1 .. n PROVE B[k + 1] = B[k] + SizeOf(cmds[k])
    <2>1. k + 1 \in 1 .. n + 1 /\ k + 1 # 1 /\ (k + 1) - 1 = k
      BY <1>1
    <2> QED
      BY <1>8, <1>9, <2>1
  <1>13. ASSUME NEW k \in 1 .. n + 1 PROVE B[k] \in Nat
    <2> DEFINE T == {i \in 1 .. n + 1 : B[i] \notin Nat}
    <2>1. T = {}
      <3> SUFFICES ASSUME T # {} PROVE FALSE
        OBVIOUS
      <3>1. PICK i \in T : \A l \in T : i <= l
        <4>1. T \subseteq Nat
          OBVIOUS
        <4> HIDE DEF T
        <4> QED
          BY <4>1, Least
      <3>2. i # 1
        BY <1>11
      <3>3. i - 1 \in 1 .. n /\ i - 1 \in 1 .. n + 1 /\ (i - 1) + 1 = i /\ ~ (i <= i - 1)
        BY <1>1, <3>2
      <3>4. B[i - 1] \in Nat
        BY <3>1, <3>3
      <3>5. B[i] \in Nat
        BY <1>1, <1>12, <3>3, <3>4
      <3> QED
        BY <3>5
    <2> QED
      BY <2>1
  <1> QED
    BY <1>10, <1>11, <1>12, <1>13 DEF BeginsOf, B, n

\* The commands come one after the other.
LEMMA BeginsRise ==
    ASSUME NEW cmds, WellFormed(cmds), NEW k \in 1 .. Len(cmds), NEW l \in k + 1 .. Len(cmds) + 1
    PROVE  Begins(cmds)[k] >= 32 /\ Begins(cmds)[k] + SizeOf(cmds[k]) <= Begins(cmds)[l]
  <1> DEFINE n == Len(cmds)
             B == Begins(cmds)
  <1>1. n \in Nat /\ \A j \in 1 .. n : SizeOf(cmds[j]) \in Nat
    BY CommandIs
  <1>2. /\ B \in [1 .. n + 1 -> Nat] /\ B[1] = 32
        /\ \A j \in 1 .. n : B[j + 1] = B[j] + SizeOf(cmds[j])
    BY BeginsAre DEF BeginsOf
  <1>3. k \in 1 .. n /\ l \in k + 1 .. n + 1
    OBVIOUS
  <1> HIDE DEF n, B
  <1>4. ASSUME NEW j \in 1 .. n + 1 PROVE B[j] >= 32
    <2> DEFINE T == {i \in 1 .. n + 1 : ~ (B[i] >= 32)}
    <2>1. T = {}
      <3> SUFFICES ASSUME T # {} PROVE FALSE
        OBVIOUS
      <3>1. PICK i \in T : \A m \in T : i <= m
        <4>1. T \subseteq Nat
          OBVIOUS
        <4> HIDE DEF T
        <4> QED
          BY <4>1, Least
      <3>2. i # 1
        BY <1>2
      <3>3. i - 1 \in 1 .. n /\ i - 1 \in 1 .. n + 1 /\ (i - 1) + 1 = i /\ ~ (i <= i - 1)
        BY <1>1, <3>2
      <3>4. B[i - 1] >= 32 /\ B[i - 1] \in Nat
        BY <1>2, <3>1, <3>3
      <3>5. B[i] = B[i - 1] + SizeOf(cmds[i - 1]) /\ SizeOf(cmds[i - 1]) \in Nat
        BY <1>1, <1>2, <3>3
      <3> QED
        BY <3>4, <3>5
    <2> QED
      BY <2>1
  <1>5. B[k] + SizeOf(cmds[k]) <= B[l]
    <2> DEFINE T == {i \in k + 1 .. n + 1 : ~ (B[k] + SizeOf(cmds[k]) <= B[i])}
    <2>1. T = {}
      <3> SUFFICES ASSUME T # {} PROVE FALSE
        OBVIOUS
      <3>1. PICK i \in T : \A m \in T : i <= m
        <4>1. T \subseteq Nat
          BY <1>3
        <4> HIDE DEF T
        <4> QED
          BY <4>1, Least
      <3>2. B[k + 1] = B[k] + SizeOf(cmds[k]) /\ k + 1 \in 1 .. n + 1 /\ B[k + 1] \in Nat
        BY <1>1, <1>2, <1>3
      <3>3. i # k + 1
        BY <3>2
      <3>4. i - 1 \in k + 1 .. n + 1 /\ i - 1 \in 1 .. n /\ i - 1 \in 1 .. n + 1 /\ (i - 1) + 1 = i /\ ~ (i <= i - 1)
        BY <1>1, <1>3, <3>3
      <3>5. B[k] + SizeOf(cmds[k]) <= B[i - 1] /\ B[i - 1] \in Nat /\ B[k] \in Nat /\ SizeOf(cmds[k]) \in Nat
        <4>1. i - 1 \notin T
          BY <3>1, <3>4
        <4>2. B[k] + SizeOf(cmds[k]) <= B[i - 1]
          BY <3>4, <4>1
        <4>3. k \in 1 .. n + 1
          BY <1>1, <1>3
        <4> QED
          BY <1>1, <1>2, <1>3, <3>4, <4>2, <4>3
      <3>6. B[i] = B[i - 1] + SizeOf(cmds[i - 1]) /\ SizeOf(cmds[i - 1]) \in Nat
        BY <1>1, <1>2, <3>4
      <3> QED
        BY <3>5, <3>6
    <2>2. l \in k + 1 .. n + 1
      BY <1>3
    <2> QED
      BY <2>1, <2>2
  <1> QED
    BY <1>1, <1>3, <1>4, <1>5 DEF B, n

\* The sections there may be.
SectionsIn(cmds) == UNION {ToSet(SectionsOf(cmds[k])) : k \in 1 .. Len(cmds)}

BeforeOf(S, cmds) ==
    /\ S \in [1 .. Len(cmds) + 1 -> Seq(SectionsIn(cmds))]
    /\ S[1] = <<>>
    /\ \A k \in 1 .. Len(cmds) : S[k + 1] = S[k] \o SectionsOf(cmds[k])

LEMMA SectionsAre ==
    ASSUME NEW cmds, WellFormed(cmds), NEW k \in 1 .. Len(cmds)
    PROVE  SectionsOf(cmds[k]) \in Seq(SectionsIn(cmds))
  <1>1. PICK s, V : s = SectionsOf(cmds[k]) /\ V = ToSet(s) /\ s \in Seq(V)
    BY CommandIs
  <1>2. V \subseteq SectionsIn(cmds)
    BY <1>1 DEF SectionsIn
  <1> QED
    BY <1>1, <1>2

LEMMA BeforeAre ==
    ASSUME NEW cmds, WellFormed(cmds)
    PROVE  BeforeOf(Before(cmds), cmds)
  <1> DEFINE n == Len(cmds)
             U == SectionsIn(cmds)
             step == [k \in 1 .. n |-> [x \in Seq(U) |-> x \o SectionsOf(cmds[k])]]
             Is(h) == h = [k \in 1 .. n + 1 |-> IF k = 1 THEN <<>> ELSE h[k - 1] \o SectionsOf(cmds[k - 1])]
             B == Before(cmds)
  <1>1. n \in Nat /\ \A k \in 1 .. n : SectionsOf(cmds[k]) \in Seq(U)
    BY CommandIs, SectionsAre
  <1> HIDE DEF U
  <1>2. step \in [1 .. n -> [Seq(U) -> Seq(U)]]
    <2>1. ASSUME NEW k \in 1 .. n, NEW x \in Seq(U) PROVE x \o SectionsOf(cmds[k]) \in Seq(U)
      <3>1. PICK s : s = SectionsOf(cmds[k]) /\ s \in Seq(U)
        BY <1>1
      <3> QED
        BY <3>1
    <2> QED
      BY <2>1
  <1>3. \A k \in 1 .. n : \A x \in Seq(U) : step[k][x] = x \o SectionsOf(cmds[k])
    OBVIOUS
  <1>4. B = CHOOSE h : Is(h)
    BY DEF Before
  <1> HIDE DEF step, n, B
  <1>5. PICK f : IteratedTo(f, n, <<>>, step, Seq(U))
    <2>1. step \in SteppingTo(n, Seq(U))
      BY <1>2 DEF SteppingTo
    <2>2. <<>> \in Seq(U)
      OBVIOUS
    <2> QED
      BY <1>1, <2>1, <2>2, IteratesTo
  <1>6. Is(f)
    <2> DEFINE r == [k \in 1 .. n + 1 |-> IF k = 1 THEN <<>> ELSE f[k - 1] \o SectionsOf(cmds[k - 1])]
    <2>1. ASSUME NEW k \in 1 .. n + 1 PROVE f[k] = r[k]
      <3>1. CASE k = 1
        BY <1>5, <3>1 DEF IteratedTo
      <3>2. CASE k # 1
        <4>1. k - 1 \in 1 .. n /\ k - 1 \in 1 .. n + 1 /\ (k - 1) + 1 = k
          BY <1>1, <3>2
        <4>2. f[k] = step[k - 1][f[k - 1]] /\ f[k - 1] \in Seq(U)
          BY <1>5, <4>1 DEF IteratedTo
        <4>3. f[k] = f[k - 1] \o SectionsOf(cmds[k - 1])
          BY <1>3, <4>1, <4>2
        <4> QED
          BY <3>2, <4>3
      <3> QED
        BY <3>1, <3>2
    <2>2. f = [k \in 1 .. n + 1 |-> f[k]] /\ r = [k \in 1 .. n + 1 |-> r[k]]
      BY <1>5 DEF IteratedTo
    <2> HIDE DEF r
    <2>3. f = r
      BY <2>1, <2>2
    <2> QED
      BY <2>3 DEF r
  <1>7. Is(B)
    <2> HIDE DEF Is
    <2> QED
      BY <1>4, <1>6
  <1> DEFINE e == [k \in 1 .. n + 1 |-> IF k = 1 THEN <<>> ELSE B[k - 1] \o SectionsOf(cmds[k - 1])]
  <1>8. B = e
    BY <1>7
  <1>9. \A k \in 1 .. n + 1 : e[k] = IF k = 1 THEN <<>> ELSE B[k - 1] \o SectionsOf(cmds[k - 1])
    OBVIOUS
  <1>10. B = [k \in 1 .. n + 1 |-> B[k]]
    BY <1>7
  <1> HIDE DEF e, Is
  <1>11. B[1] = <<>>
    BY <1>1, <1>8, <1>9
  <1>12. ASSUME NEW k \in 1 .. n PROVE B[k + 1] = B[k] \o SectionsOf(cmds[k])
    <2>1. k + 1 \in 1 .. n + 1 /\ k + 1 # 1 /\ (k + 1) - 1 = k
      BY <1>1
    <2> QED
      BY <1>8, <1>9, <2>1
  <1>13. ASSUME NEW k \in 1 .. n + 1 PROVE B[k] \in Seq(U)
    <2> DEFINE T == {i \in 1 .. n + 1 : B[i] \notin Seq(U)}
    <2>1. T = {}
      <3> SUFFICES ASSUME T # {} PROVE FALSE
        OBVIOUS
      <3>1. PICK i \in T : \A l \in T : i <= l
        <4>1. T \subseteq Nat
          OBVIOUS
        <4> HIDE DEF T
        <4> QED
          BY <4>1, Least
      <3>2. i # 1
        <4>1. <<>> \in Seq(U)
          OBVIOUS
        <4> QED
          BY <1>11, <4>1
      <3>3. i - 1 \in 1 .. n /\ i - 1 \in 1 .. n + 1 /\ (i - 1) + 1 = i /\ ~ (i <= i - 1)
        BY <1>1, <3>2
      <3>4. PICK b, s : b = B[i - 1] /\ s = SectionsOf(cmds[i - 1]) /\ b \in Seq(U) /\ s \in Seq(U)
        BY <1>1, <3>1, <3>3
      <3>5. B[i] = b \o s
        BY <1>12, <3>3, <3>4
      <3>6. b \o s \in Seq(U)
        BY <3>4
      <3> QED
        BY <3>5, <3>6
    <2> QED
      BY <2>1
  <1> QED
    BY <1>10, <1>11, <1>12, <1>13 DEF BeforeOf, B, n, U

\* What comes before a command comes first of all.
LEMMA BeforeFirst ==
    ASSUME NEW cmds, WellFormed(cmds), NEW k \in 1 .. Len(cmds) + 1
    PROVE  /\ Len(Before(cmds)[k]) \in Nat /\ Len(AllSections(cmds)) \in Nat
           /\ Len(Before(cmds)[k]) <= Len(AllSections(cmds))
           /\ \A m \in 1 .. Len(Before(cmds)[k]) : AllSections(cmds)[m] = Before(cmds)[k][m]
  <1> DEFINE n == Len(cmds)
             U == SectionsIn(cmds)
             S == Before(cmds)
             First(j) == /\ Len(S[k]) <= Len(S[j])
                         /\ \A m \in 1 .. Len(S[k]) : S[j][m] = S[k][m]
  <1>1. n \in Nat /\ k \in 1 .. n + 1 /\ \A j \in 1 .. n : SectionsOf(cmds[j]) \in Seq(U)
    BY CommandIs, SectionsAre
  <1>2. /\ S \in [1 .. n + 1 -> Seq(U)]
        /\ \A j \in 1 .. n : S[j + 1] = S[j] \o SectionsOf(cmds[j])
    BY BeforeAre DEF BeforeOf
  <1> HIDE DEF n, U, S
  <1>3. ASSUME NEW j \in k .. n + 1 PROVE First(j)
    <2> DEFINE T == {i \in k .. n + 1 : ~ First(i)}
    <2>1. T = {}
      <3> SUFFICES ASSUME T # {} PROVE FALSE
        OBVIOUS
      <3>1. PICK i \in T : \A m \in T : i <= m
        <4>1. T \subseteq Nat
          BY <1>1
        <4> HIDE DEF T
        <4> QED
          BY <4>1, Least
      <3>2. i # k
        <4>1. Len(S[k]) \in Nat
          <5>1. S[k] \in Seq(U)
            BY <1>1, <1>2
          <5> QED
            BY <5>1
        <4>2. First(k)
          BY <4>1
        <4> QED
          BY <4>2
      <3>3. i - 1 \in k .. n + 1 /\ i - 1 \in 1 .. n /\ i - 1 \in 1 .. n + 1 /\ (i - 1) + 1 = i /\ ~ (i <= i - 1)
        BY <1>1, <3>2
      <3>4. First(i - 1)
        <4>1. i - 1 \notin T
          BY <3>1, <3>3
        <4> QED
          BY <3>3, <4>1
      <3>5. PICK b, s : b = S[i - 1] /\ s = SectionsOf(cmds[i - 1]) /\ b \in Seq(U) /\ s \in Seq(U)
        BY <1>1, <1>2, <3>3
      <3>6. PICK c : c = S[k] /\ c \in Seq(U)
        BY <1>1, <1>2
      <3>7. S[i] = b \o s
        BY <1>2, <3>3, <3>5
      <3>8. Len(c) <= Len(b) /\ \A m \in 1 .. Len(c) : b[m] = c[m]
        BY <3>4, <3>5, <3>6
      <3>9. Len(c) <= Len(b \o s) /\ \A m \in 1 .. Len(c) : (b \o s)[m] = c[m]
        <4>1. Len(b) \in Nat /\ Len(s) \in Nat /\ Len(c) \in Nat
          BY <3>5, <3>6
        <4>2. b \in Seq(U) /\ s \in Seq(U)
          BY <3>5
        <4>3. /\ Len(b \o s) = Len(b) + Len(s)
              /\ \A m \in 1 .. Len(b) + Len(s) : (b \o s)[m] = IF m <= Len(b) THEN b[m] ELSE s[m - Len(b)]
          BY <4>2, ConcatProperties
        <4> QED
          BY <3>8, <4>1, <4>3
      <3> QED
        BY <3>6, <3>7, <3>9
    <2> QED
      BY <2>1
  <1>4. n + 1 \in k .. n + 1 /\ n + 1 \in 1 .. n + 1
    BY <1>1
  <1>5. First(n + 1) /\ S[k] \in Seq(U) /\ S[n + 1] \in Seq(U)
    BY <1>1, <1>2, <1>3, <1>4
  <1>6. AllSections(cmds) = S[n + 1]
    BY DEF AllSections, S, n
  <1>7. Len(S[k]) \in Nat /\ Len(S[n + 1]) \in Nat
    BY <1>5
  <1> QED
    BY <1>5, <1>6, <1>7 DEF S

-----------------------------------------------------------------------------
(* What is kept where.                                                     *)

LEMMA HeadersApart ==
    ASSUME NEW i \in Nat \ {0}, NEW j \in Nat \ {0}
    PROVE  /\ Header(i) \in Nat /\ Header(i) >= 72
           /\ Header(i) = Header(j) => i = j
           /\ Header(i) # Header(j) + 48
           /\ Header(i) + 48 = Header(j) + 48 => i = j
           /\ i <= j => Header(i) + 48 < 72 + 80 * j
  BY DEF Header

LEMMA CommandKeeps ==
    ASSUME NEW cmds, WellFormed(cmds), NEW k \in 1 .. Len(cmds), NEW c, NEW b, b = CommandBytes(cmds[k], c)
    PROVE  /\ \A q \in DOMAIN b : q \in Nat /\ q < SizeOf(cmds[k])
           /\ 0 \in DOMAIN b /\ b[0] = IF cmds[k].is = "segment" THEN 25 ELSE 2
           /\ 4 \in DOMAIN b /\ b[4] = SizeOf(cmds[k])
           /\ cmds[k].is = "segment" => 64 \in DOMAIN b /\ b[64] = Len(SectionsOf(cmds[k]))
           /\ \A i \in 1 .. Len(SectionsOf(cmds[k])) :
                 /\ Header(i) \in DOMAIN b /\ b[Header(i)] = SectionsOf(cmds[k])[i].name
                 /\ Header(i) + 48 \in DOMAIN b /\ b[Header(i) + 48] = c + i
  <1> DEFINE cmd == cmds[k]
             is == DOMAIN SectionsOf(cmd)
             At(q) == CHOOSE i \in is : q \in {Header(i), Header(i) + 48}
             D == {0, 4} \cup (IF cmd.is = "segment" THEN {64} ELSE {})
                     \cup UNION {{Header(i), Header(i) + 48} : i \in is}
             V(q) == CASE q = 0  -> IF cmd.is = "segment" THEN 25 ELSE 2
                       [] q = 4  -> SizeOf(cmd)
                       [] q = 64 -> Len(cmd.sections)
                       [] OTHER  -> IF q = Header(At(q)) THEN cmd.sections[At(q)].name ELSE c + At(q)
  <1>1. b = [q \in D |-> V(q)]
    BY DEF CommandBytes
  <1>2. PICK n : /\ n = Len(SectionsOf(cmd)) /\ n \in Nat /\ is = 1 .. n
                 /\ cmd.is = "segment" => SectionsOf(cmd) = cmd.sections /\ SizeOf(cmd) = 72 + 80 * n
                 /\ cmd.is # "segment" => is = {}
                 /\ SizeOf(cmd) \in Nat /\ SizeOf(cmd) >= 8
    <2>1. DOMAIN <<>> = {}
      OBVIOUS
    <2> QED
      BY CommandIs, <2>1
  <1> HIDE DEF is
  <1>3. ASSUME NEW i \in is
        PROVE  /\ i \in Nat \ {0} /\ i <= n /\ cmd.is = "segment"
               /\ Header(i) \in Nat /\ Header(i) >= 72 /\ Header(i) + 48 < SizeOf(cmd)
               /\ At(Header(i)) = i /\ At(Header(i) + 48) = i
    <2>1. i \in Nat \ {0} /\ i <= n /\ n \in Nat \ {0} /\ cmd.is = "segment"
      BY <1>2
    <2>2. Header(i) \in Nat /\ Header(i) >= 72 /\ Header(i) + 48 < SizeOf(cmd)
      BY <1>2, <2>1, HeadersApart
    <2>3. ASSUME NEW q \in {Header(i), Header(i) + 48} PROVE At(q) = i
      <3>1. ASSUME NEW j \in is, q \in {Header(j), Header(j) + 48} PROVE j = i
        <4>1. j \in Nat \ {0}
          BY <1>2
        <4> QED
          BY <2>1, <3>1, <4>1, HeadersApart
      <3> QED
        BY <3>1
    <2> QED
      BY <2>1, <2>2, <2>3
  <1>4. DOMAIN b = D /\ \A q \in D : b[q] = V(q)
    BY <1>1
  <1> HIDE DEF At, cmd
  <1>5. 0 \in D /\ 4 \in D /\ (cmd.is = "segment" => 64 \in D)
        /\ \A i \in is : Header(i) \in D /\ Header(i) + 48 \in D
    OBVIOUS
  <1>6. \A q \in D : \/ q \in {0, 4}
                     \/ cmd.is = "segment" /\ q = 64
                     \/ \E i \in is : q \in {Header(i), Header(i) + 48}
    <2> SUFFICES ASSUME NEW q \in D
                 PROVE  \/ q \in {0, 4}
                        \/ cmd.is = "segment" /\ q = 64
                        \/ \E i \in is : q \in {Header(i), Header(i) + 48}
      OBVIOUS
    <2> DEFINE X == IF cmd.is = "segment" THEN {64} ELSE {}
               Y == UNION {{Header(i), Header(i) + 48} : i \in is}
    <2>1. q \in X => cmd.is = "segment" /\ q = 64
      OBVIOUS
    <2>2. q \in Y => \E i \in is : q \in {Header(i), Header(i) + 48}
      OBVIOUS
    <2>3. q \in {0, 4} \/ q \in X \/ q \in Y
      OBVIOUS
    <2> HIDE DEF X, Y, D
    <2> QED
      BY <2>1, <2>2, <2>3
  <1>7. V(0) = (IF cmd.is = "segment" THEN 25 ELSE 2) /\ V(4) = SizeOf(cmd) /\ V(64) = Len(cmd.sections)
    OBVIOUS
  <1>8. ASSUME NEW i \in is
        PROVE  V(Header(i)) = cmd.sections[i].name /\ V(Header(i) + 48) = c + i
    <2>1. PICK h : h = Header(i) /\ h \in Nat /\ h >= 72 /\ At(h) = i /\ At(h + 48) = i
      BY <1>3
    <2>2. h # 0 /\ h # 4 /\ h # 64 /\ h + 48 # 0 /\ h + 48 # 4 /\ h + 48 # 64 /\ h + 48 # h
      BY <2>1
    <2>3. V(h) = cmd.sections[i].name
      BY <2>1, <2>2
    <2>4. V(h + 48) = c + i
      BY <2>1, <2>2
    <2> QED
      BY <2>1, <2>3, <2>4
  <1> HIDE DEF D, V
  <1>9. ASSUME NEW q \in DOMAIN b PROVE q \in Nat /\ q < SizeOf(cmd)
    <2>1. CASE q \in {0, 4}
      BY <1>2, <2>1
    <2>2. CASE cmd.is = "segment" /\ q = 64
      BY <1>2, <2>2
    <2>3. CASE \E i \in is : q \in {Header(i), Header(i) + 48}
      <3>1. PICK i \in is : q \in {Header(i), Header(i) + 48}
        BY <2>3
      <3> QED
        BY <1>2, <1>3, <3>1
    <2> QED
      BY <1>4, <1>6, <2>1, <2>2, <2>3
  <1>10. cmd.is = "segment" => 64 \in DOMAIN b /\ b[64] = Len(SectionsOf(cmd))
    BY <1>2, <1>4, <1>5, <1>7
  <1>11. ASSUME NEW i \in 1 .. n
         PROVE  /\ Header(i) \in DOMAIN b /\ b[Header(i)] = SectionsOf(cmd)[i].name
                /\ Header(i) + 48 \in DOMAIN b /\ b[Header(i) + 48] = c + i
    BY <1>2, <1>3, <1>4, <1>5, <1>8
  <1>12. 0 \in DOMAIN b /\ b[0] = (IF cmd.is = "segment" THEN 25 ELSE 2) /\ 4 \in DOMAIN b /\ b[4] = SizeOf(cmd)
    BY <1>4, <1>5, <1>7
  <1> QED
    BY <1>2, <1>9, <1>10, <1>11, <1>12 DEF cmd

\* What is kept in command k of a file, counted from where it begins.
BytesOf(cmds, k) == CommandBytes(cmds[k], Begins(cmds)[Len(cmds) + 1] + Len(Before(cmds)[k]))

LEMMA FileKeeps ==
    ASSUME NEW cmds, WellFormed(cmds), NEW f, f = FileBytes(cmds)
    PROVE  /\ 0 \in DOMAIN f /\ f[0] = kMagic /\ 16 \in DOMAIN f /\ f[16] = Len(cmds)
           /\ \A k \in 1 .. Len(cmds) : \A q \in DOMAIN BytesOf(cmds, k) :
                 /\ Begins(cmds)[k] + q \in DOMAIN f
                 /\ f[Begins(cmds)[k] + q] = BytesOf(cmds, k)[q]
           /\ \A i \in 1 .. Len(AllSections(cmds)) :
                 /\ Begins(cmds)[Len(cmds) + 1] + i \in DOMAIN f
                 /\ f[Begins(cmds)[Len(cmds) + 1] + i] = AllSections(cmds)[i].contents
  <1> DEFINE n == Len(cmds)
             B == Begins(cmds)
             end == B[n + 1]
             all == AllSections(cmds)
             Bytes(k) == BytesOf(cmds, k)
             In(p) == CHOOSE k \in DOMAIN cmds : B[k] <= p /\ p < B[k + 1]
             D == {0, 16} \cup {end + i : i \in DOMAIN all}
                     \cup UNION {{B[k] + q : q \in DOMAIN Bytes(k)} : k \in DOMAIN cmds}
             V(p) == CASE p = 0  -> kMagic
                       [] p = 16 -> n
                       [] p > end -> all[p - end].contents
                       [] OTHER   -> Bytes(In(p))[p - B[In(p)]]
  <1>1. f = [p \in D |-> V(p)]
    BY DEF FileBytes, BytesOf
  <1>2. n \in Nat /\ DOMAIN cmds = 1 .. n /\ DOMAIN all = 1 .. Len(all) /\ Len(all) \in Nat
        /\ \A k \in 1 .. n : SizeOf(cmds[k]) \in Nat
    <2>1. n \in Nat /\ n + 1 \in 1 .. n + 1
      BY CommandIs
    <2>2. all \in Seq(SectionsIn(cmds))
      BY <2>1, BeforeAre DEF BeforeOf, AllSections
    <2> HIDE DEF all
    <2>3. DOMAIN all = 1 .. Len(all) /\ Len(all) \in Nat
      BY <2>2
    <2> QED
      BY <2>1, <2>3, CommandIs
  <1>3. B \in [1 .. n + 1 -> Nat] /\ B[1] = 32 /\ \A k \in 1 .. n : B[k + 1] = B[k] + SizeOf(cmds[k])
    BY BeginsAre DEF BeginsOf
  <1>4. \A k \in 1 .. n : \A l \in k + 1 .. n + 1 : B[k] >= 32 /\ B[k] + SizeOf(cmds[k]) <= B[l]
    BY BeginsRise
  <1>5. \A k \in 1 .. n : \A q \in DOMAIN Bytes(k) : q \in Nat /\ q < SizeOf(cmds[k])
    BY CommandKeeps DEF BytesOf
  <1>6. DOMAIN f = D /\ \A p \in D : f[p] = V(p)
    BY <1>1
  <1>7. /\ 0 \in D /\ 16 \in D /\ (\A i \in 1 .. Len(all) : end + i \in D)
        /\ \A k \in 1 .. n : \A q \in DOMAIN Bytes(k) : B[k] + q \in D
    <2>1. ASSUME NEW k \in 1 .. n, NEW q \in DOMAIN Bytes(k) PROVE B[k] + q \in D
      <3>1. B[k] + q \in {B[k] + r : r \in DOMAIN Bytes(k)} /\ k \in DOMAIN cmds
        BY <1>2
      <3> QED
        BY <3>1
    <2>2. ASSUME NEW i \in 1 .. Len(all) PROVE end + i \in D
      <3>1. i \in DOMAIN all
        BY <1>2
      <3> DEFINE E == {end + j : j \in DOMAIN all}
      <3>2. end + i \in E
        BY <3>1
      <3> DEFINE Y == UNION {{B[k] + q : q \in DOMAIN Bytes(k)} : k \in DOMAIN cmds}
      <3>3. D = {0, 16} \cup E \cup Y
        OBVIOUS
      <3> HIDE DEF D, E, Y
      <3> QED
        BY <3>2, <3>3
    <2> QED
      BY <2>1, <2>2
  <1>8. end \in Nat /\ end >= 32
    <2>1. n + 1 \in 1 .. n + 1
      BY <1>2
    <2>2. CASE n = 0
      BY <1>3, <2>2
    <2>3. CASE n # 0
      <3>1. 1 \in 1 .. n /\ n + 1 \in 1 + 1 .. n + 1 /\ 1 \in 1 .. n + 1
        BY <1>2, <2>3
      <3>2. B[1] >= 32 /\ B[1] + SizeOf(cmds[1]) <= B[n + 1] /\ SizeOf(cmds[1]) \in Nat
        BY <1>2, <1>4, <3>1
      <3> QED
        BY <1>3, <2>1, <3>1, <3>2
    <2> QED
      BY <2>2, <2>3
  <1> HIDE DEF n, B, all, Bytes, D
  <1>9. V(0) = kMagic /\ V(16) = n
    <2>1. ~ (0 > end) /\ ~ (16 > end)
      BY <1>8
    <2> QED
      BY <2>1
  <1>10. ASSUME NEW i \in 1 .. Len(all) PROVE V(end + i) = all[i].contents
    <2>1. end + i # 0 /\ end + i # 16 /\ end + i > end /\ (end + i) - end = i
      BY <1>2, <1>8
    <2> QED
      BY <2>1
  <1>11. ASSUME NEW k \in 1 .. n, NEW q \in DOMAIN Bytes(k) PROVE V(B[k] + q) = Bytes(k)[q]
    <2>1. PICK p, s : /\ p = B[k] + q /\ s = SizeOf(cmds[k]) /\ s \in Nat /\ q \in Nat /\ q < s
                      /\ B[k] \in Nat /\ B[k + 1] = B[k] + s /\ k + 1 \in 1 .. n + 1 /\ k \in 1 .. n + 1
      <3>1. k + 1 \in 1 .. n + 1 /\ k \in 1 .. n + 1
        BY <1>2
      <3>2. q \in Nat /\ q < SizeOf(cmds[k]) /\ SizeOf(cmds[k]) \in Nat
        BY <1>2, <1>5
      <3>3. B[k] \in Nat /\ B[k + 1] = B[k] + SizeOf(cmds[k])
        BY <1>3, <3>1
      <3> QED
        BY <3>1, <3>2, <3>3
    <2>2. B[k] >= 32 /\ B[k + 1] <= end
      <3>1. k + 1 \in k + 1 .. n + 1 /\ n + 1 \in k + 1 .. n + 1
        BY <1>2
      <3>2. B[k] >= 32 /\ B[k] + SizeOf(cmds[k]) <= B[n + 1]
        BY <1>4, <3>1
      <3> QED
        BY <2>1, <3>2
    <2>3. ASSUME NEW l \in 1 .. n, B[l] <= p, p < B[l + 1] PROVE l = k
      <3>1. B[l] \in Nat /\ B[l + 1] \in Nat /\ B[l + 1] = B[l] + SizeOf(cmds[l]) /\ SizeOf(cmds[l]) \in Nat
        <4>1. l \in 1 .. n + 1 /\ l + 1 \in 1 .. n + 1
          BY <1>2
        <4> QED
          BY <1>2, <1>3, <4>1
      <3>2. CASE l < k
        <4>1. k \in l + 1 .. n + 1
          BY <1>2, <3>2
        <4>2. B[l] + SizeOf(cmds[l]) <= B[k]
          BY <1>4, <4>1
        <4> QED
          BY <2>1, <2>3, <3>1, <4>2
      <3>3. CASE k < l
        <4>1. l \in k + 1 .. n + 1
          BY <1>2, <3>3
        <4>2. B[k] + SizeOf(cmds[k]) <= B[l]
          BY <1>4, <4>1
        <4> QED
          BY <2>1, <2>3, <3>1, <4>2
      <3> QED
        BY <1>2, <3>2, <3>3
    <2>4. B[k] <= p /\ p < B[k + 1]
      BY <2>1
    <2>5. In(p) = k
      BY <1>2, <2>3, <2>4
    <2>6. p # 0 /\ p # 16 /\ ~ (p > end) /\ p - B[k] = q
      BY <1>8, <2>1, <2>2, <2>4
    <2> HIDE DEF In
    <2>7. V(p) = Bytes(k)[q]
      BY <2>5, <2>6
    <2> QED
      BY <2>1, <2>7
  <1> HIDE DEF V
  <1>12. 0 \in DOMAIN f /\ f[0] = kMagic /\ 16 \in DOMAIN f /\ f[16] = n
    BY <1>6, <1>7, <1>9
  <1>13. \A k \in 1 .. n : \A q \in DOMAIN Bytes(k) : B[k] + q \in DOMAIN f /\ f[B[k] + q] = Bytes(k)[q]
    BY <1>6, <1>7, <1>11
  <1>14. \A i \in 1 .. Len(all) : end + i \in DOMAIN f /\ f[end + i] = all[i].contents
    BY <1>6, <1>7, <1>10
  <1> QED
    BY <1>12, <1>13, <1>14 DEF n, B, all, Bytes

-----------------------------------------------------------------------------
(* The walk through the load commands.                                     *)

Cursors == [base : Int, size : Int, offset : Int]

\* The cursor of the walk, when it has got to position p.
Walker(p) == [base |-> 32, size |-> -32, offset |-> p - 32]

LEMMA WalkerIs ==
    ASSUME NEW p \in Int, NEW m \in Int
    PROVE  /\ Position(Walker(p)) = p
           /\ Skip(Walker(p), m) = Walker(p + m)
           /\ Copied(Walker(p)) \in Cursors
           /\ Position(Copied(Walker(p))) = p
           /\ Position(Plus(Copied(Walker(p)), m)) = p + m
  <1>1. Position(Walker(p)) = p
    BY DEF Position, Walker
  <1>2. Skip(Walker(p), m) = Walker(p + m)
    <2>1. p - 32 + m = p + m - 32
      OBVIOUS
    <2> QED
      BY <2>1 DEF Skip, Walker
  <1>3. Copied(Walker(p)) = [base |-> p, size |-> -32 - (p - 32), offset |-> 0]
    BY <1>1 DEF Copied, Window, Walker
  <1>4. Plus(Copied(Walker(p)), m) = [base |-> p + m, size |-> -32 - (p - 32) - m, offset |-> 0]
    BY <1>3 DEF Plus, Window
  <1> QED
    BY <1>1, <1>2, <1>3, <1>4 DEF Cursors, Position

LEMMA FromStart ==
    ASSUME NEW m \in Int
    PROVE  /\ Position(FileStart) = 0 /\ Position(Plus(FileStart, m)) = m
           /\ Plus(FileStart, 32) = Walker(32)
  BY DEF FileStart, Plus, Window, Position, Walker

\* s is a cursor for each section of command k.
FoundIn(s, cmds, k) ==
    /\ s \in Seq(Cursors)
    /\ Len(s) = Len(SectionsOf(cmds[k]))
    /\ \A i \in 1 .. Len(s) : s[i] = Copied(Walker(Begins(cmds)[k] + Header(i)))

LEMMA Finds ==
    ASSUME NEW cmds, WellFormed(cmds), NEW f, f = FileBytes(cmds), NEW k \in 1 .. Len(cmds),
           NEW w, w.cur = Walker(Begins(cmds)[k]), w.found \in Seq(Cursors)
    PROVE  /\ Command(f, w).cur = Walker(Begins(cmds)[k + 1])
           /\ \E s : Command(f, w).found = w.found \o s /\ FoundIn(s, cmds, k)
  <1>1. PICK p, b, n, size : /\ p = Begins(cmds)[k] /\ b = BytesOf(cmds, k)
                             /\ n = Len(SectionsOf(cmds[k])) /\ size = SizeOf(cmds[k])
    OBVIOUS
  <1>2. p \in Nat /\ n \in Nat /\ size \in Nat /\ Begins(cmds)[k + 1] = p + size
    <2>1. Len(cmds) \in Nat
      BY CommandIs
    <2>2. k \in 1 .. Len(cmds) + 1
      BY <2>1
    <2>3. Begins(cmds)[k] \in Nat /\ Begins(cmds)[k + 1] = Begins(cmds)[k] + SizeOf(cmds[k])
      BY <2>2, BeginsAre DEF BeginsOf
    <2>4. n \in Nat /\ size \in Nat
      BY <1>1, CommandIs
    <2> QED
      BY <1>1, <2>3, <2>4
  <1>3. \A q \in DOMAIN b : p + q \in DOMAIN f /\ f[p + q] = b[q]
    BY <1>1, FileKeeps
  <1>4. /\ 0 \in DOMAIN b /\ b[0] = (IF cmds[k].is = "segment" THEN 25 ELSE 2)
        /\ 4 \in DOMAIN b /\ b[4] = size
        /\ cmds[k].is = "segment" => 64 \in DOMAIN b /\ b[64] = n /\ size = 72 + 80 * n
        /\ cmds[k].is # "segment" => n = 0
    <2>1. cmds[k].is = "segment" => SizeOf(cmds[k]) = 72 + 80 * Len(SectionsOf(cmds[k]))
      BY CommandIs
    <2>2. cmds[k].is # "segment" => SectionsOf(cmds[k]) = <<>>
      BY CommandIs
    <2>3. Len(<<>>) = 0
      OBVIOUS
    <2>4. PICK c : b = CommandBytes(cmds[k], c)
      BY <1>1 DEF BytesOf
    <2>5. /\ 0 \in DOMAIN b /\ b[0] = (IF cmds[k].is = "segment" THEN 25 ELSE 2)
          /\ 4 \in DOMAIN b /\ b[4] = SizeOf(cmds[k])
          /\ cmds[k].is = "segment" => 64 \in DOMAIN b /\ b[64] = Len(SectionsOf(cmds[k]))
      <3>1. 0 \in DOMAIN b /\ b[0] = (IF cmds[k].is = "segment" THEN 25 ELSE 2)
        BY <2>4, CommandKeeps
      <3>2. 4 \in DOMAIN b /\ b[4] = SizeOf(cmds[k])
        BY <2>4, CommandKeeps
      <3>3. cmds[k].is = "segment" => 64 \in DOMAIN b /\ b[64] = Len(SectionsOf(cmds[k]))
        BY <2>4, CommandKeeps
      <3> QED
        BY <3>1, <3>2, <3>3
    <2> QED
      BY <1>1, <2>1, <2>2, <2>3, <2>5
  <1> DEFINE cmd      == Peek(f, w.cur)
             cmdSize  == Peek(f, Skip(w.cur, 4))
             read     == Skip(w.cur, 8)
             nsects   == Peek(f, Skip(read, 56))
             Start(i) == Skip(read, 56 + 4 + 4 + kSectionHeaderSize * i)
             s        == [i \in 1 .. nsects |-> Copied(Start(i - 1))]
  <1>5. w.cur = Walker(p) /\ Skip(w.cur, 4) = Walker(p + 4) /\ read = Walker(p + 8)
        /\ Skip(read, 56) = Walker(p + 8 + 56)
        /\ \A m \in Int : Skip(read, m) = Walker(p + 8 + m)
    <2>1. w.cur = Walker(p) /\ p \in Int
      BY <1>1, <1>2
    <2>2. Skip(w.cur, 4) = Walker(p + 4) /\ read = Walker(p + 8)
      <3>1. \A m \in Int : Skip(Walker(p), m) = Walker(p + m)
        BY <2>1, WalkerIs
      <3>2. Skip(Walker(p), 4) = Walker(p + 4) /\ Skip(Walker(p), 8) = Walker(p + 8)
        BY <3>1
      <3> HIDE DEF Start, s, cmd, cmdSize, nsects
      <3> QED
        BY <2>1, <3>2
    <2>3. \A m \in Int : Skip(read, m) = Walker(p + 8 + m)
      BY <2>1, <2>2, WalkerIs
    <2> QED
      BY <2>1, <2>2, <2>3
  <1>6. cmd = b[0] /\ cmdSize = b[4]
    <2>1. Position(w.cur) = p + 0 /\ Position(Skip(w.cur, 4)) = p + 4
      BY <1>2, <1>5, WalkerIs
    <2> QED
      BY <1>3, <1>4, <2>1 DEF Peek
  <1>7. CASE cmds[k].is = "segment"
    <2>1. nsects = n
      <3>1. Position(Skip(read, 56)) = p + 64
        <4>1. p + 8 + 56 = p + 64 /\ p + 64 \in Int
          BY <1>2
        <4> QED
          BY <1>5, <4>1, WalkerIs
      <3> QED
        BY <1>3, <1>4, <1>7, <3>1 DEF Peek
    <2>2. \A i \in Nat : Start(i) = Walker(p + 72 + 80 * i)
      <3>1. ASSUME NEW i \in Nat PROVE Start(i) = Walker(p + 72 + 80 * i)
        <4>1. 56 + 4 + 4 + kSectionHeaderSize * i \in Int
              /\ p + 8 + (56 + 4 + 4 + kSectionHeaderSize * i) = p + 72 + 80 * i
          BY <1>2 DEF kSectionHeaderSize
        <4> QED
          BY <1>5, <4>1
      <3> QED
        BY <3>1
    <2>3. Command(f, w) = [cur |-> Start(nsects), found |-> w.found \o s]
      BY <1>4, <1>6, <1>7 DEF Command, kLoadSegment64
    <2> HIDE DEF Start, nsects
    <2>4. \A i \in 1 .. n : s[i] = Copied(Walker(p + Header(i))) /\ s[i] \in Cursors
      <3>1. ASSUME NEW i \in 1 .. n PROVE s[i] = Copied(Walker(p + Header(i))) /\ s[i] \in Cursors
        <4>1. i - 1 \in Nat /\ p + 72 + 80 * (i - 1) = p + Header(i) /\ p + Header(i) \in Int
          BY <1>2 DEF Header
        <4>2. s[i] = Copied(Start(i - 1)) /\ Start(i - 1) = Walker(p + Header(i))
          BY <2>1, <2>2, <4>1
        <4> QED
          BY <4>1, <4>2, WalkerIs, ZenonT(30)
      <3> QED
        BY <3>1
    <2>5. s = [i \in 1 .. n |-> s[i]]
      BY <2>1
    <2> HIDE DEF s
    <2>6. s \in Seq(Cursors) /\ Len(s) = n
      BY <1>2, <2>4, <2>5
    <2>7. Start(nsects) = Walker(Begins(cmds)[k + 1])
      <3>1. p + 72 + 80 * n = p + size
        BY <1>2, <1>4, <1>7
      <3> QED
        BY <1>2, <2>1, <2>2, <3>1
    <2>8. FoundIn(s, cmds, k)
      BY <1>1, <2>4, <2>6 DEF FoundIn
    <2>9. PICK x, c : x = w.found \o s /\ c = Start(nsects) /\ Command(f, w) = [cur |-> c, found |-> x]
      BY <2>3
    <2>10. Command(f, w).cur = c /\ Command(f, w).found = w.found \o s
      BY <2>9
    <2> QED
      BY <2>7, <2>8, <2>9, <2>10
  <1>8. CASE cmds[k].is # "segment"
    <2>1. Command(f, w) = [cur |-> Skip(read, cmdSize - 8), found |-> w.found]
      BY <1>4, <1>6, <1>8 DEF Command, kLoadSegment64
    <2>2. Skip(read, cmdSize - 8) = Walker(p + size)
      <3>1. cmdSize - 8 \in Int /\ p + 8 + (cmdSize - 8) = p + size
        BY <1>2, <1>4, <1>6
      <3> QED
        BY <1>5, <3>1
    <2>3. w.found \o <<>> = w.found /\ <<>> \in Seq(Cursors) /\ Len(<<>>) = 0
      OBVIOUS
    <2>4. PICK s0 \in Seq(Cursors) : s0 = <<>> /\ Len(s0) = 0 /\ w.found \o s0 = w.found
      BY <2>3
    <2>5. /\ Command(f, w).cur = Walker(Begins(cmds)[k + 1]) /\ Command(f, w).found = w.found \o s0
          /\ Len(s0) = Len(SectionsOf(cmds[k]))
      BY <1>1, <1>2, <1>4, <1>8, <2>1, <2>2, <2>4
    <2>6. \A i \in 1 .. Len(s0) : s0[i] = Copied(Walker(Begins(cmds)[k] + Header(i)))
      BY <2>4
    <2>7. FoundIn(s0, cmds, k)
      BY <2>5, <2>6 DEF FoundIn
    <2> QED
      BY <2>5, <2>7
  <1> QED
    BY <1>7, <1>8

LEMMA Opens0 ==
    ASSUME NEW cmds, WellFormed(cmds), NEW f, f = FileBytes(cmds)
    PROVE  Peek(f, FileStart) = kMagic /\ LoadCommands(f) = Len(cmds)
  <1>1. 0 \in DOMAIN f /\ f[0] = kMagic /\ 16 \in DOMAIN f /\ f[16] = Len(cmds)
    BY FileKeeps
  <1>2. Position(FileStart) = 0 /\ Position(Plus(FileStart, 16)) = 16
    BY FromStart
  <1> QED
    BY <1>1, <1>2 DEF Peek, LoadCommands

\* The walk: where it is and what it has found after each command.
WalkOf(W, cmds, f) ==
    /\ W[0] = [cur |-> Walker(32), found |-> <<>>]
    /\ \A k \in 1 .. Len(cmds) : W[k] = Command(f, W[k - 1])

LEMMA Walks ==
    ASSUME NEW cmds, WellFormed(cmds), NEW f, f = FileBytes(cmds)
    PROVE  \E W : WalkOf(W, cmds, f) /\ Sections(f) = W[Len(cmds)].found
  <1> DEFINE n == Len(cmds)
             B == Begins(cmds)
             S == [cur : Cursors, found : Seq(Cursors)]
             a == [cur |-> Walker(32), found |-> <<>>]
             step == [k \in 1 .. n |-> [w \in S |-> IF w.cur = Walker(B[k]) THEN Command(f, w) ELSE w]]
             Is(h) == h = [k \in 0 .. n |-> IF k = 0 THEN a ELSE Command(f, h[k - 1])]
             W == CHOOSE h : Is(h)
  <1>1. n \in Nat /\ B[1] = 32 /\ \A k \in 1 .. n + 1 : B[k] \in Int
    BY CommandIs, BeginsAre DEF BeginsOf
  <1>2. \A p \in Int : Walker(p) \in Cursors
    BY DEF Walker, Cursors
  <1>3. a \in S
    BY <1>2
  <1>4. ASSUME NEW k \in 1 .. n, NEW w \in S, w.cur = Walker(B[k])
        PROVE  Command(f, w) \in S /\ Command(f, w).cur = Walker(B[k + 1])
    <2>1. w.found \in Seq(Cursors)
      OBVIOUS
    <2>2. Command(f, w).cur = Walker(B[k + 1])
      BY <1>4, <2>1, Finds
    <2>3. PICK s : Command(f, w).found = w.found \o s /\ FoundIn(s, cmds, k)
      BY <1>4, <2>1, Finds
    <2>4. w.found \o s \in Seq(Cursors)
      BY <2>1, <2>3, ConcatProperties DEF FoundIn
    <2>5. Command(f, w) = [cur |-> Command(f, w).cur, found |-> Command(f, w).found]
      BY DEF Command
    <2>6. Walker(B[k + 1]) \in Cursors
      <3>1. k + 1 \in 1 .. n + 1
        BY <1>1
      <3> QED
        BY <1>1, <1>2, <3>1
    <2> QED
      BY <2>2, <2>3, <2>4, <2>5, <2>6
  <1> HIDE DEF n, B, S, a
  <1>5. step \in [1 .. n -> [S -> S]]
    BY <1>4
  <1>6. \A k \in 1 .. n : \A w \in S : w.cur = Walker(B[k]) => step[k][w] = Command(f, w)
    OBVIOUS
  <1> HIDE DEF step
  <1>7. PICK g : IteratedTo(g, n, a, step, S)
    <2>1. step \in SteppingTo(n, S)
      BY <1>5 DEF SteppingTo
    <2> QED
      BY <1>1, <1>3, <2>1, IteratesTo
  <1>8. /\ \A k \in 1 .. n + 1 : g[k] \in S
        /\ g[1] = a /\ \A k \in 1 .. n : g[k + 1] = step[k][g[k]]
    BY <1>7 DEF IteratedTo
  <1>9. ASSUME NEW k \in 1 .. n PROVE g[k].cur = Walker(B[k])
    <2> DEFINE T == {i \in 1 .. n : ~ (g[i].cur = Walker(B[i]))}
    <2>1. T = {}
      <3> SUFFICES ASSUME T # {} PROVE FALSE
        OBVIOUS
      <3>1. PICK i \in T : \A m \in T : i <= m
        <4>1. T \subseteq Nat
          OBVIOUS
        <4> HIDE DEF T
        <4> QED
          BY <4>1, Least
      <3>2. i # 1
        BY <1>1, <1>8 DEF a
      <3>3. i - 1 \in 1 .. n /\ i - 1 \in 1 .. n + 1 /\ (i - 1) + 1 = i /\ ~ (i <= i - 1)
        BY <1>1, <3>2
      <3>4. g[i - 1].cur = Walker(B[i - 1])
        BY <3>1, <3>3
      <3>5. g[i] = Command(f, g[i - 1])
        BY <1>6, <1>8, <3>3, <3>4
      <3>6. g[i].cur = Walker(B[i])
        BY <1>4, <1>8, <3>3, <3>4, <3>5
      <3> QED
        BY <3>6
    <2> QED
      BY <2>1
  <1>10. \A k \in 1 .. n : g[k + 1] = Command(f, g[k])
    <2>1. ASSUME NEW k \in 1 .. n PROVE g[k + 1] = Command(f, g[k])
      <3>1. k \in 1 .. n + 1
        BY <1>1
      <3> QED
        BY <1>6, <1>8, <1>9, <3>1
    <2> QED
      BY <2>1
  <1> DEFINE h == [k \in 0 .. n |-> g[k + 1]]
  <1>11. Is(h)
    <2> DEFINE r == [k \in 0 .. n |-> IF k = 0 THEN a ELSE Command(f, h[k - 1])]
    <2>1. ASSUME NEW k \in 0 .. n PROVE h[k] = r[k]
      <3>1. CASE k = 0
        BY <1>8, <3>1
      <3>2. CASE k # 0
        <4>1. k \in 1 .. n /\ k - 1 \in 0 .. n /\ (k - 1) + 1 = k
          BY <1>1, <3>2
        <4>2. h[k] = g[k + 1] /\ h[k - 1] = g[k]
          BY <4>1
        <4>3. r[k] = Command(f, h[k - 1])
          BY <3>2
        <4> HIDE DEF h, r
        <4> QED
          BY <1>10, <4>1, <4>2, <4>3
      <3> QED
        BY <3>1, <3>2
    <2>2. r = [k \in 0 .. n |-> r[k]] /\ h = [k \in 0 .. n |-> h[k]]
      OBVIOUS
    <2> HIDE DEF r, h
    <2>3. h = r
      BY <2>1, <2>2
    <2> QED
      BY <2>3 DEF r
  <1>12. Is(W)
    <2> HIDE DEF Is, h
    <2> QED
      BY <1>11
  <1>13. Sections(f) = W[n].found
    <2>1. LoadCommands(f) = n
      BY Opens0 DEF n
    <2>2. Plus(FileStart, 32) = Walker(32)
      BY FromStart
    <2> HIDE DEF W
    <2> QED
      BY <2>1, <2>2 DEF Sections, W, a
  <1> DEFINE e == [k \in 0 .. n |-> IF k = 0 THEN a ELSE Command(f, W[k - 1])]
  <1>14. W = e
    BY <1>12
  <1>15. e[0] = a /\ \A k \in 1 .. n : e[k] = Command(f, W[k - 1])
    BY <1>1
  <1> HIDE DEF e, W
  <1> QED
    BY <1>13, <1>14, <1>15 DEF WalkOf, n, a

LEMMA SectionReads ==
    ASSUME NEW cmds, WellFormed(cmds), NEW f, f = FileBytes(cmds), NEW k \in 1 .. Len(cmds),
           NEW i \in 1 .. Len(SectionsOf(cmds[k])), NEW m, m = Len(Before(cmds)[k]) + i,
           NEW c, c = Copied(Walker(Begins(cmds)[k] + Header(i)))
    PROVE  /\ m \in 1 .. Len(AllSections(cmds))
           /\ Name(f, c) = AllSections(cmds)[m].name
           /\ Contents(f, c) = AllSections(cmds)[m].contents
  <1>1. PICK n, p, end, all, b, before, own :
            /\ n = Len(cmds) /\ p = Begins(cmds)[k] /\ end = Begins(cmds)[n + 1] /\ all = AllSections(cmds)
            /\ b = BytesOf(cmds, k) /\ before = Before(cmds)[k] /\ own = SectionsOf(cmds[k])
    OBVIOUS
  <1>2. n \in Nat /\ k \in 1 .. n /\ k \in 1 .. n + 1 /\ k + 1 \in 1 .. n + 1 /\ n + 1 \in 1 .. n + 1
    BY <1>1, CommandIs
  <1>3. p \in Nat /\ end \in Nat
    BY <1>1, <1>2, BeginsAre DEF BeginsOf
  <1>4. before \in Seq(SectionsIn(cmds)) /\ own \in Seq(SectionsIn(cmds)) /\ Before(cmds)[k + 1] = before \o own
    BY <1>1, <1>2, BeforeAre, SectionsAre DEF BeforeOf
  <1>5. Len(before) \in Nat /\ Len(own) \in Nat /\ i \in 1 .. Len(own) /\ m = Len(before) + i
    BY <1>1, <1>4
  <1>6. /\ Len(before \o own) = Len(before) + Len(own)
        /\ \A j \in 1 .. Len(before) + Len(own) :
              (before \o own)[j] = IF j <= Len(before) THEN before[j] ELSE own[j - Len(before)]
    BY <1>4, ConcatProperties
  <1>7. m \in 1 .. Len(before \o own) /\ (before \o own)[m] = own[i] /\ m \in Nat
    <2>1. m \in 1 .. Len(before) + Len(own) /\ ~ (m <= Len(before)) /\ m - Len(before) = i
      BY <1>5
    <2> QED
      BY <1>5, <1>6, <2>1, SMTT(30)
  <1>8. m \in 1 .. Len(all) /\ all[m] = own[i]
    <2>1. /\ Len(before \o own) \in Nat /\ Len(all) \in Nat /\ Len(before \o own) <= Len(all)
          /\ \A j \in 1 .. Len(before \o own) : all[j] = (before \o own)[j]
      <3>1. PICK l, s : l = k + 1 /\ l \in 1 .. Len(cmds) + 1 /\ s = before \o own /\ Before(cmds)[l] = s
        BY <1>1, <1>2, <1>4
      <3>2. /\ Len(s) \in Nat /\ Len(all) \in Nat /\ Len(s) <= Len(all)
            /\ \A j \in 1 .. Len(s) : all[j] = s[j]
        BY <1>1, <3>1, BeforeFirst
      <3> QED
        BY <3>1, <3>2
    <2> QED
      BY <1>7, <2>1, SMTT(30)
  <1>9. PICK h : h = Header(i) /\ h \in Nat
    <2>1. i \in Nat \ {0}
      BY <1>5
    <2> QED
      BY <2>1, HeadersApart
  <1>10. /\ h \in DOMAIN b /\ b[h] = own[i].name
         /\ h + 48 \in DOMAIN b /\ b[h + 48] = end + Len(before) + i
    <2>1. b = CommandBytes(cmds[k], end + Len(before))
      BY <1>1 DEF BytesOf
    <2> QED
      BY <1>1, <1>9, <2>1, CommandKeeps
  <1>11. \A q \in DOMAIN b : p + q \in DOMAIN f /\ f[p + q] = b[q]
    BY <1>1, FileKeeps
  <1>12. end + m \in DOMAIN f /\ f[end + m] = all[m].contents
    BY <1>1, <1>8, FileKeeps
  <1>13. Position(c) = p + h /\ Position(Plus(c, 48)) = p + h + 48
    <2>1. p + h \in Int /\ c = Copied(Walker(p + h))
      BY <1>1, <1>3, <1>9
    <2>2. \A x \in Int : Position(c) = p + h /\ Position(Plus(c, x)) = p + h + x
      BY <2>1, WalkerIs
    <2> QED
      BY <2>2
  <1>14. Name(f, c) = own[i].name
    BY <1>10, <1>11, <1>13 DEF Name, Peek
  <1>15. Peek(f, Plus(c, 48)) = end + m
    <2>1. p + h + 48 = p + (h + 48) /\ end + Len(before) + i = end + m
      <3>1. PICK x, y : x = Len(before) /\ y = i /\ x \in Nat /\ y \in Nat /\ m = x + y
        BY <1>5
      <3>2. end + x + y = end + (x + y)
        BY <1>3, <3>1
      <3>3. p + h + 48 = p + (h + 48)
        BY <1>3, <1>9
      <3> QED
        BY <3>1, <3>2, <3>3
    <2> QED
      BY <1>10, <1>11, <1>13, <2>1 DEF Peek
  <1>16. Contents(f, c) = all[m].contents
    <2>1. end + m \in Int
      BY <1>3, <1>7
    <2>2. Position(Plus(FileStart, end + m)) = end + m
      BY <2>1, FromStart
    <2> QED
      BY <1>12, <1>15, <2>2 DEF Contents, Peek
  <1> QED
    BY <1>1, <1>8, <1>14, <1>16

\* s is a cursor for each of the first sections, and reads it.
ReadsFirst(s, cmds, f) ==
    \A m \in 1 .. Len(s) :
        Name(f, s[m]) = AllSections(cmds)[m].name /\ Contents(f, s[m]) = AllSections(cmds)[m].contents

LEMMA SectionsRead ==
    ASSUME NEW cmds, WellFormed(cmds), NEW f, f = FileBytes(cmds)
    PROVE  /\ Sections(f) \in Seq(Cursors) /\ Len(Sections(f)) = Len(AllSections(cmds))
           /\ ReadsFirst(Sections(f), cmds, f)
  <1>1. PICK W : WalkOf(W, cmds, f) /\ Sections(f) = W[Len(cmds)].found
    BY Walks
  <1> DEFINE n == Len(cmds)
             B == Begins(cmds)
             S == Before(cmds)
             Good(k) == /\ W[k].cur = Walker(B[k + 1])
                        /\ W[k].found \in Seq(Cursors) /\ Len(W[k].found) = Len(S[k + 1])
                        /\ ReadsFirst(W[k].found, cmds, f)
  <1>2. n \in Nat /\ B[1] = 32
    BY CommandIs, BeginsAre DEF BeginsOf
  <1>3. /\ \A k \in 1 .. n + 1 : S[k] \in Seq(SectionsIn(cmds))
        /\ S[1] = <<>> /\ \A k \in 1 .. n : S[k + 1] = S[k] \o SectionsOf(cmds[k])
    BY BeforeAre DEF BeforeOf
  <1>4. W[0] = [cur |-> Walker(32), found |-> <<>>] /\ \A k \in 1 .. n : W[k] = Command(f, W[k - 1])
    BY <1>1 DEF WalkOf
  <1> HIDE DEF n, B, S
  <1>5. Good(0)
    <2>1. Len(<<>>) = 0 /\ <<>> \in Seq(Cursors)
      OBVIOUS
    <2>2. W[0].cur = Walker(32) /\ W[0].found = <<>> /\ 0 + 1 = 1
      BY <1>4
    <2>3. ReadsFirst(<<>>, cmds, f)
      BY <2>1 DEF ReadsFirst
    <2> QED
      BY <1>2, <1>3, <2>1, <2>2, <2>3
  <1>6. ASSUME NEW k \in 1 .. n, Good(k - 1) PROVE Good(k)
    <2>1. PICK w, v : w = W[k - 1] /\ v = w.found
      OBVIOUS
    <2>2. w.cur = Walker(B[k]) /\ v \in Seq(Cursors) /\ Len(v) = Len(S[k]) /\ ReadsFirst(v, cmds, f)
          /\ W[k] = Command(f, w)
      <3>1. k - 1 + 1 = k
        BY <1>2
      <3> QED
        BY <1>4, <1>6, <2>1, <3>1
    <2>3. W[k].cur = Walker(B[k + 1])
      BY <2>1, <2>2, Finds DEF n, B
    <2>4. PICK s : W[k].found = v \o s /\ FoundIn(s, cmds, k)
      <3>1. k \in 1 .. Len(cmds) /\ w.cur = Walker(Begins(cmds)[k]) /\ w.found \in Seq(Cursors)
        BY <2>1, <2>2 DEF n, B
      <3>2. \E s : Command(f, w).found = w.found \o s /\ FoundIn(s, cmds, k)
        BY <3>1, Finds
      <3> QED
        BY <2>1, <2>2, <3>2
    <2>5. PICK own : own = SectionsOf(cmds[k]) /\ own \in Seq(SectionsIn(cmds))
      BY SectionsAre DEF n
    <2>6. /\ s \in Seq(Cursors) /\ Len(s) = Len(own)
          /\ \A i \in 1 .. Len(s) : s[i] = Copied(Walker(B[k] + Header(i)))
      BY <2>4, <2>5 DEF FoundIn, B
    <2>7. /\ v \o s \in Seq(Cursors) /\ Len(v \o s) = Len(v) + Len(s)
          /\ \A j \in 1 .. Len(v) + Len(s) : (v \o s)[j] = IF j <= Len(v) THEN v[j] ELSE s[j - Len(v)]
      <3>1. v \in Seq(Cursors) /\ s \in Seq(Cursors)
        BY <2>2, <2>6
      <3> QED
        BY <3>1, ConcatProperties
    <2>8. S[k + 1] = S[k] \o own /\ Len(S[k] \o own) = Len(S[k]) + Len(own)
      <3>1. k \in 1 .. n + 1
        BY <1>2
      <3>2. S[k] \in Seq(SectionsIn(cmds))
        BY <1>3, <3>1
      <3>3. Len(S[k] \o own) = Len(S[k]) + Len(own)
        BY <2>5, <3>2, ConcatProperties
      <3> QED
        BY <1>3, <2>5, <3>3
    <2>9. Len(v) \in Nat /\ Len(s) \in Nat
      BY <2>2, <2>6
    <2>10. ASSUME NEW m \in 1 .. Len(v \o s)
           PROVE  /\ Name(f, (v \o s)[m]) = AllSections(cmds)[m].name
                  /\ Contents(f, (v \o s)[m]) = AllSections(cmds)[m].contents
      <3>1. CASE m <= Len(v)
        <4>1. (v \o s)[m] = v[m] /\ m \in 1 .. Len(v)
          BY <2>7, <2>9, <3>1
        <4> QED
          BY <2>2, <4>1 DEF ReadsFirst
      <3>2. CASE ~ (m <= Len(v))
        <4>1. PICK i : i = m - Len(v) /\ i \in 1 .. Len(s) /\ (v \o s)[m] = s[i] /\ m = Len(v) + i
          BY <2>7, <2>9, <3>2
        <4>2. k \in 1 .. Len(cmds) /\ i \in 1 .. Len(SectionsOf(cmds[k])) /\ m = Len(Before(cmds)[k]) + i
          BY <2>2, <2>5, <2>6, <4>1 DEF n, S
        <4>3. PICK c : c = s[i] /\ c = Copied(Walker(Begins(cmds)[k] + Header(i)))
          BY <2>6, <4>1 DEF B
        <4>4. Name(f, c) = AllSections(cmds)[m].name /\ Contents(f, c) = AllSections(cmds)[m].contents
          BY <4>2, <4>3, SectionReads
        <4> QED
          BY <4>1, <4>3, <4>4
      <3> QED
        BY <3>1, <3>2
    <2>11. ReadsFirst(v \o s, cmds, f)
      BY <2>10 DEF ReadsFirst
    <2> QED
      BY <2>2, <2>3, <2>4, <2>6, <2>7, <2>8, <2>11
  <1>7. Good(n)
    <2> DEFINE T == {i \in 0 .. n : ~ Good(i)}
    <2>1. T = {}
      <3> SUFFICES ASSUME T # {} PROVE FALSE
        OBVIOUS
      <3>1. PICK i \in T : \A m \in T : i <= m
        <4>1. T \subseteq Nat
          OBVIOUS
        <4> HIDE DEF T
        <4> QED
          BY <4>1, Least
      <3>2. i # 0
        BY <1>5
      <3>3. i \in 1 .. n /\ i - 1 \in 0 .. n /\ ~ (i <= i - 1)
        BY <1>2, <3>2
      <3>4. Good(i - 1)
        <4>1. i - 1 \notin T
          BY <3>1, <3>3
        <4> QED
          BY <3>3, <4>1
      <3> HIDE DEF Good
      <3>5. Good(i)
        BY <1>6, <3>3, <3>4
      <3> QED
        BY <3>5
    <2>2. n \in 0 .. n
      BY <1>2
    <2> QED
      BY <2>1, <2>2
  <1> QED
    BY <1>1, <1>7 DEF n, S, AllSections

\* What the sections are in terms of the load commands.
LEMMA SectionIn ==
    ASSUME NEW cmds, WellFormed(cmds), NEW m \in 1 .. Len(AllSections(cmds))
    PROVE  /\ Len(AllSections(cmds)) \in Nat /\ DOMAIN AllSections(cmds) = 1 .. Len(AllSections(cmds))
           /\ \E k \in DOMAIN cmds : AllSections(cmds)[m] \in ToSet(SectionsOf(cmds[k]))
           /\ AllSections(cmds)[m] =
                 [name |-> AllSections(cmds)[m].name, contents |-> AllSections(cmds)[m].contents]
  <1>1. Len(cmds) \in Nat /\ DOMAIN cmds = 1 .. Len(cmds)
    BY CommandIs
  <1>2. PICK all : all = AllSections(cmds) /\ all \in Seq(SectionsIn(cmds))
    <2>1. Len(cmds) + 1 \in 1 .. Len(cmds) + 1
      BY <1>1
    <2> QED
      BY <2>1, BeforeAre DEF BeforeOf, AllSections
  <1>3. Len(all) \in Nat /\ DOMAIN all = 1 .. Len(all) /\ all[m] \in SectionsIn(cmds)
    BY <1>2
  <1>4. PICK k \in 1 .. Len(cmds) : all[m] \in ToSet(SectionsOf(cmds[k]))
    BY <1>3 DEF SectionsIn
  <1>5. all[m] = [name |-> all[m].name, contents |-> all[m].contents]
    BY <1>4, CommandIs
  <1> QED
    BY <1>1, <1>2, <1>3, <1>4, <1>5

\* The debugging sections of a file are found just if there are some, and the
\* line program is the one that is meant.
LEMMA LineFound ==
    ASSUME NEW s \in Setups, NEW n \in DOMAIN s.layout, NEW cmds, cmds = s.layout[n],
           NEW f, f = FileBytes(cmds), NEW p, p = ProgramIn(AllSections(cmds))
    PROVE  /\ DebugLine(f) = IF p = <<>> THEN <<>> ELSE <<p>>
           /\ p # <<>> => p \in Programs
  <1> DEFINE all == AllSections(cmds)
             found == Sections(f)
             N(x) == {k \in DOMAIN found : Name(f, found[k]) = x}
             M(x) == {k \in DOMAIN all : all[k].name = x}
  <1>0. /\ WellFormed(cmds)
        /\ \A k \in DOMAIN cmds : \A x \in ToSet(SectionsOf(cmds[k])) :
              x.name = "debug_line" => x.contents \in Programs
    BY LayoutAssumption
  <1>1. Len(all) \in Nat /\ DOMAIN all = 1 .. Len(all)
    <2>1. Len(cmds) \in Nat
      BY <1>0, CommandIs
    <2>2. Len(cmds) + 1 \in 1 .. Len(cmds) + 1
      BY <2>1
    <2>3. all \in Seq(SectionsIn(cmds))
      BY <1>0, <2>2, BeforeAre DEF BeforeOf, AllSections
    <2> HIDE DEF all
    <2> QED
      BY <2>3
  <1>2. found \in Seq(Cursors) /\ Len(found) = Len(all) /\ ReadsFirst(found, cmds, f)
    BY <1>0, SectionsRead
  <1>3. DOMAIN found = 1 .. Len(all)
    <2> HIDE DEF found
    <2> QED
      BY <1>2
  <1>4. \A k \in 1 .. Len(all) : Name(f, found[k]) = all[k].name /\ Contents(f, found[k]) = all[k].contents
    BY <1>2 DEF ReadsFirst
  <1> HIDE DEF all, found
  <1>5. \A x : N(x) = M(x)
    BY <1>1, <1>3, <1>4
  <1>6. ASSUME M("debug_line") # {}
        PROVE  Max(M("debug_line")) \in 1 .. Len(all) /\ all[Max(M("debug_line"))].name = "debug_line"
    <2> DEFINE T == M("debug_line")
    <2>1. T \subseteq 0 .. Len(all) /\ T # {}
      BY <1>1, <1>6
    <2>2. \E i \in T : \A j \in T : j <= i
      <3> HIDE DEF T
      <3> QED
        BY <1>1, <2>1, Greatest
    <2>3. \A i, j \in T : i \in Nat /\ j \in Nat
      BY <1>1
    <2>4. Max(T) \in T
      <3> HIDE DEF T
      <3> QED
        BY <2>2, <2>3 DEF Max
    <2> QED
      BY <1>1, <2>4
  <1>7. p = IF M("debug_line") # {} /\ M("debug_line_str") # {}
            THEN all[Max(M("debug_line"))].contents ELSE <<>>
    BY DEF ProgramIn, all
  <1>8. DebugLine(f) = IF N("debug_line") # {} /\ N("debug_line_str") # {}
                       THEN <<Contents(f, found[Max(N("debug_line"))])>> ELSE <<>>
    BY DEF DebugLine, found
  <1>9. DebugLine(f) = IF M("debug_line") # {} /\ M("debug_line_str") # {}
                       THEN <<Contents(f, found[Max(M("debug_line"))])>> ELSE <<>>
    <2>1. PICK X, Y : X = N("debug_line") /\ X = M("debug_line") /\ Y = N("debug_line_str") /\ Y = M("debug_line_str")
      BY <1>5
    <2> HIDE DEF N, M
    <2> QED
      BY <1>8, <2>1
  <1> HIDE DEF N, M
  <1>10. CASE ~ (M("debug_line") # {} /\ M("debug_line_str") # {})
    BY <1>7, <1>9, <1>10
  <1>11. CASE M("debug_line") # {} /\ M("debug_line_str") # {}
    <2>1. PICK m : m = Max(M("debug_line")) /\ m \in 1 .. Len(all) /\ all[m].name = "debug_line"
      BY <1>6, <1>11
    <2>2. p = all[m].contents /\ DebugLine(f) = <<Contents(f, found[m])>>
      BY <1>7, <1>9, <1>11, <2>1
    <2>3. PICK k \in DOMAIN cmds : all[m] \in ToSet(SectionsOf(cmds[k]))
      BY <1>0, <2>1, SectionIn DEF all
    <2>4. p \in Programs
      BY <1>0, <2>1, <2>2, <2>3
    <2>5. p # <<>>
      BY <2>4, ProgramsAssumption
    <2>6. Contents(f, found[m]) = p
      BY <1>4, <2>1, <2>2
    <2> QED
      BY <2>2, <2>4, <2>5, <2>6
  <1> QED
    BY <1>10, <1>11

-----------------------------------------------------------------------------
(* The resolver: types.                                                    *)

\* There is such a setup.
Made ==
    \E s \in Setups :
        /\ layout = s.layout
        /\ disk = [n \in DOMAIN layout |-> FileBytes(layout[n])]
        /\ slide \in s.slides /\ trace \in s.traces

LEMMA FilesMade ==
    ASSUME Made
    PROVE  /\ DOMAIN disk = DOMAIN layout
           /\ \A n \in DOMAIN disk :
                 /\ n \in Image \X {"itself", "dSYM"}
                 /\ WellFormed(layout[n]) /\ disk[n] = FileBytes(layout[n]) /\ Opens(n)
                 /\ DebugLine(disk[n]) = IF ProgramOf(n) = <<>> THEN <<>> ELSE <<ProgramOf(n)>>
           /\ \A n : ProgramOf(n) # <<>> => n \in DOMAIN disk /\ ProgramOf(n) \in Programs
  <1>1. PICK s \in Setups : layout = s.layout /\ disk = [n \in DOMAIN layout |-> FileBytes(layout[n])]
    BY DEF Made
  <1>2. DOMAIN disk = DOMAIN layout
    BY <1>1
  <1>3. ASSUME NEW n \in DOMAIN disk
        PROVE  /\ n \in Image \X {"itself", "dSYM"}
               /\ WellFormed(layout[n]) /\ disk[n] = FileBytes(layout[n]) /\ Opens(n)
               /\ DebugLine(disk[n]) = IF ProgramOf(n) = <<>> THEN <<>> ELSE <<ProgramOf(n)>>
               /\ ProgramOf(n) # <<>> => ProgramOf(n) \in Programs
    <2>1. PICK cmds, f, p : cmds = layout[n] /\ f = disk[n] /\ p = ProgramIn(AllSections(cmds))
      OBVIOUS
    <2>2. n \in DOMAIN s.layout /\ cmds = s.layout[n] /\ f = FileBytes(cmds)
      BY <1>1, <1>2, <2>1
    <2>3. ProgramOf(n) = p
      BY <2>1 DEF ProgramOf
    <2>4. n \in Image \X {"itself", "dSYM"} /\ WellFormed(cmds)
      BY <2>2, LayoutAssumption
    <2>5. Opens(n)
      BY <2>1, <2>2, <2>4, Opens0 DEF Opens
    <2>6. /\ DebugLine(f) = IF p = <<>> THEN <<>> ELSE <<p>>
          /\ p # <<>> => p \in Programs
      BY <2>1, <2>2, LineFound
    <2> QED
      BY <2>1, <2>2, <2>3, <2>4, <2>5, <2>6
  <1>4. \A n : ProgramOf(n) # <<>> => n \in DOMAIN disk
    BY DEF ProgramOf
  <1> QED
    BY <1>2, <1>3, <1>4

LEMMA TraceMade ==
    ASSUME Made
    PROVE  /\ slide \in [Image -> Int]
           /\ Len(trace) \in Nat /\ DOMAIN trace = 1 .. Len(trace)
           /\ \A k \in 1 .. Len(trace) :
                 trace[k].image # NoImage => trace[k].image \in Image /\ trace[k].at \in 0 .. AddressMod - 1
  <1>1. PICK s \in Setups : s.slides \subseteq [Image -> Int] /\ slide \in s.slides /\ trace \in s.traces
    BY TraceAssumption DEF Made
  <1>4. PICK t : t = trace /\ t \in s.traces
    BY <1>1
  <1>2. /\ t \in Seq(ToSet(t))
        /\ \A x \in ToSet(t) : x.image # NoImage => x.image \in Image /\ x.at \in 0 .. AddressMod - 1
    BY <1>4, TraceAssumption
  <1>3. Len(t) \in Nat /\ DOMAIN t = 1 .. Len(t) /\ \A k \in 1 .. Len(t) : t[k] \in ToSet(t)
    BY <1>2
  <1> QED
    BY <1>1, <1>2, <1>3, <1>4

\* Whatever it is a sequence of.
IsSeq(s) == \E S : s \in Seq(S)

LEMMA Appends ==
    ASSUME NEW s, IsSeq(s), NEW x
    PROVE  /\ Len(s) \in Nat /\ DOMAIN s = 1 .. Len(s)
           /\ IsSeq(Append(s, x)) /\ Len(Append(s, x)) = Len(s) + 1
           /\ DOMAIN Append(s, x) = 1 .. Len(s) + 1
           /\ Append(s, x)[Len(s) + 1] = x
           /\ \A k \in 1 .. Len(s) : Append(s, x)[k] = s[k]
  <1>1. PICK S : s \in Seq(S)
    BY DEF IsSeq
  <1>2. PICK T : S \subseteq T /\ x \in T
    <2>1. S \subseteq S \cup {x} /\ x \in S \cup {x}
      OBVIOUS
    <2> QED
      BY <2>1
  <1>4. s \in Seq(T)
    BY <1>1, <1>2
  <1>3. Append(s, x) \in Seq(T)
    BY <1>2, <1>4
  <1> QED
    BY <1>2, <1>3, <1>4 DEF IsSeq

\* Rows are where their addresses say.
Placed(rows) == \A a \in DOMAIN rows : a \in Nat /\ rows[a].addr = a

Types ==
    /\ Made
    /\ doing \in {"frame", "binary", "program", "lookup"}
    /\ binaries \in Seq(DOMAIN disk) /\ bin \in 0 .. Len(binaries) + 1
    /\ IsSeq(located) /\ Len(located) <= Len(trace)
    /\ Placed(out)

\* What has been come to.
Stage ==
    /\ doing # "frame" => bin > 0 /\ Len(located) < Len(trace) /\ Frame.image # NoImage
    /\ doing \in {"program", "lookup"} => bin <= Len(binaries)
    /\ doing = "program" => Reads /\ prog = ProgramOf(binaries[bin]) /\ prog # <<>>

LEMMA ResolverInitTyped ==
    ASSUME ResolverInit
    PROVE  Types /\ Stage
  <1>1. PICK s \in Setups : /\ layout = s.layout
                            /\ disk = [n \in DOMAIN layout |-> FileBytes(layout[n])]
                            /\ slide \in s.slides /\ trace \in s.traces
    BY DEF ResolverInit
  <1>2. Made
    BY <1>1 DEF Made
  <1>3. doing = "frame" /\ binaries = <<>> /\ bin = 0 /\ located = <<>> /\ out = NoRows
    BY DEF ResolverInit
  <1>4. <<>> \in Seq(DOMAIN disk) /\ Len(<<>>) = 0 /\ IsSeq(<<>>)
    BY DEF IsSeq
  <1>5. Len(trace) \in Nat
    BY <1>2, TraceMade
  <1>6. Placed(NoRows)
    BY DEF Placed, NoRows
  <1> QED
    BY <1>2, <1>3, <1>4, <1>5, <1>6 DEF Types, Stage

LEMMA MadeStays ==
    ASSUME Made, Chosen
    PROVE  Made'
  BY DEF Made, Chosen

LEMMA ProgramStays ==
    ASSUME Chosen, NEW n
    PROVE  ProgramOf(n)' = ProgramOf(n)
  BY DEF Chosen, ProgramOf

\* The evaluation of a line program begins.
LEMMA Begins0 ==
    ASSUME NEW p \in Programs, prog' = p, next' = 1, reg' = Reset, status' = "running", out' = out, Placed(out)
    PROVE  Reads' /\ Matrix(p)[1] = <<>>
  <1>1. Len(p) \in Nat \ {0}
    BY ProgramIs
  <1>2. Reset \in Held
    BY ResetIn
  <1>3. Registers(p)[1] = Reset
    BY RegistersAre DEF RunOf
  <1>4. Matrix(p)[1] = <<>>
    BY MatrixIs DEF MatrixOf
  <1> QED
    BY <1>1, <1>2, <1>3, <1>4 DEF Reads, TypeOK, Held, Placed

\* What each step leaves alone or makes.
LEMMA UnresolvedTyped ==
    ASSUME Types, Stage, Unresolved
    PROVE  Types' /\ Stage'
  <1>1. /\ doing = "frame" /\ Len(located) < Len(trace) /\ located' = Append(located, Nothing) /\ Chosen
        /\ out' = out /\ doing' = doing /\ binaries' = binaries /\ bin' = bin
    BY DEF Unresolved, vars
  <1>2. Made' /\ disk' = disk /\ trace' = trace
    BY <1>1, MadeStays DEF Types, Chosen
  <1>3. IsSeq(located') /\ Len(located') = Len(located) + 1 /\ Len(located) \in Nat
    BY <1>1, Appends DEF Types
  <1>4. Len(trace) \in Nat
    BY TraceMade DEF Types
  <1> QED
    BY <1>1, <1>2, <1>3, <1>4 DEF Types, Stage

LEMMA FindBinariesTyped ==
    ASSUME Types, Stage, FindBinaries
    PROVE  Types' /\ Stage'
  <1>1. /\ doing = "frame" /\ Len(located) < Len(trace) /\ Frame.image # NoImage
        /\ binaries' = binaries \o Opened(ImageFile(Frame.image)) \o Opened(DsymFile(Frame.image))
        /\ bin' = 1 /\ doing' = "binary" /\ Chosen /\ out' = out /\ located' = located
    BY DEF FindBinaries, vars
  <1>2. Made' /\ disk' = disk /\ trace' = trace
    BY <1>1, MadeStays DEF Types, Chosen
  <1>3. \A n : Opened(n) \in Seq(DOMAIN disk)
    <2>1. ASSUME NEW n PROVE Opened(n) \in Seq(DOMAIN disk)
      <3>1. \/ Opened(n) = <<>>
            \/ Opened(n) = <<n>> /\ n \in DOMAIN disk
        BY DEF Opened, Opens
      <3>2. <<>> \in Seq(DOMAIN disk) /\ (n \in DOMAIN disk => <<n>> \in Seq(DOMAIN disk))
        OBVIOUS
      <3> QED
        BY <3>1, <3>2
    <2> QED
      BY <2>1
  <1>4. binaries' \in Seq(DOMAIN disk)
    <2>1. PICK b, x, y, D : /\ b = binaries /\ x = Opened(ImageFile(Frame.image)) /\ y = Opened(DsymFile(Frame.image))
                            /\ D = DOMAIN disk
      OBVIOUS
    <2>2. b \in Seq(D) /\ x \in Seq(D) /\ y \in Seq(D)
      BY <1>3, <2>1 DEF Types
    <2>3. b \o x \in Seq(D)
      BY <2>2, ConcatProperties
    <2>4. b \o x \o y \in Seq(D)
      BY <2>2, <2>3, ConcatProperties
    <2> QED
      BY <1>1, <2>1, <2>4
  <1>5. Len(binaries') \in Nat
    BY <1>4
  <1>6. bin' \in 0 .. Len(binaries') + 1 /\ bin' > 0
    BY <1>1, <1>5
  <1>7. Frame' = Frame
    BY <1>1, <1>2 DEF Frame
  <1> QED
    BY <1>1, <1>2, <1>4, <1>6, <1>7 DEF Types, Stage

LEMMA BinariesAre ==
    ASSUME Types
    PROVE  /\ Len(binaries) \in Nat /\ DOMAIN binaries = 1 .. Len(binaries) /\ bin \in Nat
           /\ \A b \in 1 .. Len(binaries) : binaries[b] \in DOMAIN disk
  <1>1. PICK s, D : s = binaries /\ D = DOMAIN disk /\ s \in Seq(D)
    BY DEF Types
  <1>2. Len(s) \in Nat /\ DOMAIN s = 1 .. Len(s) /\ \A b \in 1 .. Len(s) : s[b] \in D
    BY <1>1
  <1> QED
    BY <1>1, <1>2 DEF Types

\* The file that is looked in.
LEMMA BinaryIs ==
    ASSUME Types, Stage, doing \in {"binary", "program", "lookup"}, bin <= Len(binaries)
    PROVE  bin \in DOMAIN binaries /\ bin \in 1 .. Len(binaries) /\ binaries[bin] \in DOMAIN disk
  <1>1. bin \in 1 .. Len(binaries)
    BY BinariesAre DEF Stage
  <1> QED
    BY <1>1, BinariesAre

LEMMA GetLocationsTyped ==
    ASSUME Types, Stage, GetLocations
    PROVE  Types' /\ Stage'
  <1>1. /\ doing = "binary" /\ bin <= Len(binaries) /\ Chosen
        /\ binaries' = binaries /\ bin' = bin /\ located' = located
    BY DEF GetLocations
  <1>2. Made' /\ disk' = disk /\ trace' = trace
    BY <1>1, MadeStays DEF Types, Chosen
  <1>3. Frame' = Frame
    BY <1>1, <1>2 DEF Frame
  <1>4. PICK n, p : /\ n = binaries[bin] /\ p = ProgramOf(n) /\ n \in DOMAIN disk
                    /\ DebugLine(disk[n]) = (IF p = <<>> THEN <<>> ELSE <<p>>)
                    /\ p # <<>> => p \in Programs
    BY <1>1, BinaryIs, FilesMade DEF Types
  <1>5. CASE p = <<>>
    <2>1. DebugLine(disk[n]) = <<>>
      BY <1>4, <1>5
    <2>2. doing' = "lookup" /\ out' = out
      BY <1>4, <2>1 DEF GetLocations, vars
    <2> QED
      BY <1>1, <1>2, <1>3, <2>2 DEF Types, Stage
  <1>6. CASE p # <<>>
    <2>1. DebugLine(disk[n]) = <<p>> /\ <<p>> # <<>> /\ <<p>>[1] = p
      BY <1>4, <1>6
    <2>2. prog' = p /\ next' = 1 /\ reg' = Reset /\ status' = "running" /\ doing' = "program" /\ out' = out
      BY <1>4, <2>1 DEF GetLocations
    <2>3. Reads'
      BY <1>4, <1>6, <2>2, Begins0 DEF Types
    <2>4. ProgramOf(binaries[bin])' = p
      <3>1. ProgramOf(n)' = ProgramOf(n)
        BY <1>1, ProgramStays
      <3> QED
        BY <1>1, <1>4, <3>1 DEF ProgramOf, Chosen
    <2> QED
      BY <1>1, <1>2, <1>3, <1>6, <2>2, <2>3, <2>4 DEF Types, Stage
  <1> QED
    BY <1>5, <1>6

LEMMA EvalTyped ==
    ASSUME Types, Stage, EvalLineProg
    PROVE  Types' /\ Stage' /\ Goes
  <1>1. doing = "program" /\ Next /\ UNCHANGED resolverVars
    BY DEF EvalLineProg
  <1>2. Goes
    BY <1>1, NextGoes DEF Stage
  <1>3. Reads' /\ prog' = prog
    BY <1>2 DEF Goes
  <1>4. Placed(out)'
    BY <1>3 DEF Reads, TypeOK, Placed
  <1> QED
    BY <1>1, <1>2, <1>3, <1>4 DEF Types, Stage, Made, Frame, ProgramOf, resolverVars

LEMMA EvaluatedTyped ==
    ASSUME Types, Stage, Evaluated
    PROVE  Types' /\ Stage'
  <1>1. /\ doing = "program" /\ doing' = "lookup" /\ disk' = disk /\ layout' = layout /\ trace' = trace
        /\ slide' = slide /\ binaries' = binaries /\ bin' = bin /\ located' = located /\ out' = out
    BY DEF Evaluated, Chosen, vars
  <1> QED
    BY <1>1 DEF Types, Stage, Made, Frame

LEMMA LookupTyped ==
    ASSUME Types, Stage, Lookup
    PROVE  Types' /\ Stage'
  <1>1. doing = "lookup" /\ out' = out /\ binaries' = binaries /\ Chosen
    BY DEF Lookup, vars
  <1>2. NextBinary \/ \E loc : Locate(loc)
    BY DEF Lookup
  <1>3. Made' /\ disk' = disk /\ trace' = trace
    BY <1>1, MadeStays DEF Types, Chosen
  <1>4. bin \in 1 .. Len(binaries) /\ Len(binaries) \in Nat
    BY <1>1, BinaryIs, BinariesAre DEF Stage
  <1>5. CASE NextBinary
    <2>1. bin' = bin + 1 /\ doing' = "binary" /\ located' = located
      BY <1>5 DEF NextBinary
    <2>2. Frame' = Frame
      BY <1>3, <2>1 DEF Frame
    <2>3. bin' \in 0 .. Len(binaries') + 1 /\ bin' > 0
      BY <1>1, <1>4, <2>1
    <2> QED
      BY <1>1, <1>3, <2>1, <2>2, <2>3 DEF Types, Stage
  <1>6. ASSUME NEW loc, Locate(loc) PROVE Types' /\ Stage'
    <2>1. located' = Append(located, loc) /\ doing' = "frame" /\ bin' = bin
      BY <1>6 DEF Locate
    <2>2. IsSeq(located') /\ Len(located') = Len(located) + 1 /\ Len(located) \in Nat
      BY <2>1, Appends DEF Types
    <2>3. Len(trace) \in Nat /\ Len(located) < Len(trace)
      BY <1>1, TraceMade DEF Types, Stage
    <2> QED
      BY <1>1, <1>3, <2>1, <2>2, <2>3 DEF Types, Stage
  <1> QED
    BY <1>2, <1>5, <1>6

LEMMA NotFoundTyped ==
    ASSUME Types, Stage, NotFound
    PROVE  Types' /\ Stage'
  <1>1. /\ doing = "binary" /\ out' = out /\ binaries' = binaries /\ Chosen
        /\ located' = Append(located, Nothing) /\ doing' = "frame" /\ bin' = bin
    BY DEF NotFound, vars, Locate
  <1>2. Made' /\ disk' = disk /\ trace' = trace
    BY <1>1, MadeStays DEF Types, Chosen
  <1>3. IsSeq(located') /\ Len(located') = Len(located) + 1 /\ Len(located) \in Nat
    BY <1>1, Appends DEF Types
  <1>4. Len(trace) \in Nat /\ Len(located) < Len(trace)
    BY <1>1, TraceMade DEF Types, Stage
  <1> QED
    BY <1>1, <1>2, <1>3, <1>4 DEF Types, Stage

LEMMA ResolverNextTyped ==
    ASSUME Types, Stage, [ResolverNext]_<<vars, resolverVars>>
    PROVE  Types' /\ Stage'
  <1>1. CASE UNCHANGED <<vars, resolverVars>>
    BY <1>1 DEF vars, resolverVars, Types, Stage, Made, Frame, ProgramOf, Reads, TypeOK, Followed
  <1>2. CASE Resolved
    <2>1. UNCHANGED <<vars, resolverVars>>
      BY <1>2 DEF Resolved
    <2> QED
      BY <1>1, <2>1
  <1> QED
    BY <1>1, <1>2, UnresolvedTyped, FindBinariesTyped, GetLocationsTyped, EvalTyped, EvaluatedTyped,
       LookupTyped, NotFoundTyped DEF ResolverNext

\* The files looked in are files there are, and rows are where their addresses
\* say, whatever the files, the slides and the trace (StackTrace.h:40-94).
THEOREM ResolverTypeCorrect == ResolverSpec => []ResolverTypeOK
  <1>1. ResolverInit => Types /\ Stage
    BY ResolverInitTyped
  <1>2. (Types /\ Stage) /\ [ResolverNext]_<<vars, resolverVars>> => (Types /\ Stage)'
    BY ResolverNextTyped
  <1>3. Types /\ Stage => ResolverTypeOK
    <2> SUFFICES ASSUME Types PROVE ResolverTypeOK
      OBVIOUS
    <2> QED
      BY BinariesAre DEF Types, Placed, ResolverTypeOK
  <1> QED
    BY <1>1, <1>2, <1>3, PTL DEF ResolverSpec

\* The sections of every file are found, in order, with their contents, for
\* every list of load commands (MachO64.h:70-97).
THEOREM SectionsAllFound == ResolverSpec => []SectionsFound
  <1>1. ResolverInit => Types /\ Stage
    BY ResolverInitTyped
  <1>2. (Types /\ Stage) /\ [ResolverNext]_<<vars, resolverVars>> => (Types /\ Stage)'
    BY ResolverNextTyped
  <1>3. Types => SectionsFound
    <2> SUFFICES ASSUME Types, NEW n \in DOMAIN disk
                 PROVE  AllSections(layout[n]) =
                           [k \in DOMAIN Sections(disk[n]) |->
                              [name |-> Name(disk[n], Sections(disk[n])[k]),
                               contents |-> Contents(disk[n], Sections(disk[n])[k])]]
      BY DEF SectionsFound
    <2>1. PICK f, cmds : f = disk[n] /\ cmds = layout[n] /\ WellFormed(cmds) /\ f = FileBytes(cmds)
      BY FilesMade DEF Types
    <2>2. PICK s, all : s = Sections(f) /\ all = AllSections(cmds)
      OBVIOUS
    <2>3. s \in Seq(Cursors) /\ Len(s) = Len(all) /\ ReadsFirst(s, cmds, f)
      BY <2>1, <2>2, SectionsRead
    <2>4. Len(all) \in Nat /\ all = [k \in 1 .. Len(all) |-> all[k]]
      <3>1. Len(cmds) \in Nat
        BY <2>1, CommandIs
      <3>2. Len(cmds) + 1 \in 1 .. Len(cmds) + 1
        BY <3>1
      <3>3. all \in Seq(SectionsIn(cmds))
        BY <2>1, <2>2, <3>2, BeforeAre DEF BeforeOf, AllSections
      <3> QED
        BY <3>3
    <2>5. DOMAIN s = 1 .. Len(all)
      BY <2>3
    <2>6. ASSUME NEW k \in 1 .. Len(all)
          PROVE  all[k] = [name |-> Name(f, s[k]), contents |-> Contents(f, s[k])]
      <3>1. Name(f, s[k]) = all[k].name /\ Contents(f, s[k]) = all[k].contents
        BY <2>2, <2>3 DEF ReadsFirst
      <3>2. all[k] = [name |-> all[k].name, contents |-> all[k].contents]
        BY <2>1, <2>2, SectionIn
      <3> QED
        BY <3>1, <3>2
    <2>7. all = [k \in 1 .. Len(all) |-> [name |-> Name(f, s[k]), contents |-> Contents(f, s[k])]]
      BY <2>4, <2>6
    <2> QED
      BY <2>1, <2>2, <2>5, <2>7
  <1> QED
    BY <1>1, <1>2, <1>3, PTL DEF ResolverSpec

-----------------------------------------------------------------------------
(* The resolver: what is located.                                          *)

Addrs(M) == {M[i].row.addr : i \in DOMAIN M}

\* The map holds all rows of M, each as the last at its address has it.
Holds(rows, M) ==
    /\ Addrs(M) \subseteq DOMAIN rows
    /\ \A i \in DOMAIN M : Newest(M, i) => rows[M[i].row.addr] = Kept(M[i])

LEMMA HoldsNone == \A rows : Holds(rows, <<>>)
  BY DEF Holds, Addrs

LEMMA HoldsNext ==
    ASSUME NEW M \in Seq(Entries), NEW rows, Holds(rows, M), NEW m \in Entries, NEW r,
           r.addr = m.row.addr, Row(r) = Kept(m)
    PROVE  /\ Holds(Store(rows, r), M \o <<m>>)
           /\ Addrs(M \o <<m>>) = Addrs(M) \cup {r.addr}
  <1> DEFINE some == [a \in Addrs(M) |-> rows[a]]
             N == M \o <<m>>
  <1>1. Keeps(some, M)
    <2>1. \A i \in DOMAIN M : M[i].row.addr \in Addrs(M)
      BY DEF Addrs
    <2> QED
      BY <2>1 DEF Keeps, Holds, Addrs
  <1>2. DOMAIN some = Addrs(M) /\ \A a \in Addrs(M) : some[a] = rows[a]
    OBVIOUS
  <1> HIDE DEF some
  <1>3. Keeps(Store(some, r), N)
    BY <1>1, KeepsNext
  <1> HIDE DEF N
  <1>4. DOMAIN Store(some, r) = Addrs(M) \cup {r.addr} /\ DOMAIN Store(rows, r) = DOMAIN rows \cup {r.addr}
        /\ \A a \in Addrs(M) \cup {r.addr} : Store(some, r)[a] = Store(rows, r)[a]
    BY <1>2 DEF Store, Holds
  <1>5. Addrs(N) = Addrs(M) \cup {r.addr}
    BY <1>3, <1>4 DEF Keeps, Addrs
  <1>6. \A i \in DOMAIN N : N[i].row.addr \in Addrs(N)
    BY DEF Addrs
  <1>7. \A i \in DOMAIN N : Newest(N, i) => Store(rows, r)[N[i].row.addr] = Kept(N[i])
    BY <1>3, <1>4, <1>5, <1>6 DEF Keeps
  <1>8. Addrs(N) \subseteq DOMAIN Store(rows, r)
    BY <1>4, <1>5 DEF Holds
  <1> QED
    BY <1>5, <1>7, <1>8 DEF Holds, N

\* The row at a is one that program p means, all of whose rows the map has.
Origin(rows, p, a) ==
    /\ p # <<>> /\ Addrs(Rows(p)) \subseteq DOMAIN rows
    /\ \E i \in DOMAIN Rows(p) :
          Newest(Rows(p), i) /\ Rows(p)[i].row.addr = a /\ rows[a] = Kept(Rows(p)[i])

\* A map that holds what a program means has its rows.
LEMMA HeldFrom ==
    ASSUME NEW p \in Programs, NEW rows, Holds(rows, Rows(p)), NEW a \in Addrs(Rows(p))
    PROVE  Origin(rows, p, a)
  <1>1. PICK M : M = Rows(p) /\ M \in Seq(Entries)
    BY RowsEnd
  <1>2. PICK i \in DOMAIN M : M[i].row.addr = a
    BY <1>1 DEF Addrs
  <1>3. PICK j \in DOMAIN M : M[j].row.addr = M[i].row.addr /\ Newest(M, j)
    BY <1>1, <1>2, NewestAt
  <1>4. rows[M[j].row.addr] = Kept(M[j])
    BY <1>1, <1>3 DEF Holds
  <1>5. p # <<>>
    BY ProgramsAssumption
  <1> QED
    BY <1>1, <1>2, <1>3, <1>4, <1>5 DEF Origin, Holds

\* The rows in the map near a row of M are rows of M.
LEMMA NearestFrom ==
    ASSUME NEW p \in Programs, NEW rows, Addrs(Rows(p)) \subseteq DOMAIN rows, NEW a \in Nat,
           NEW b \in DOMAIN rows, b <= a, \A c \in DOMAIN rows : c <= a => c <= b,
           NEW i \in DOMAIN Rows(p), Newest(Rows(p), i), Rows(p)[i].row.addr = b, rows[b] = Kept(Rows(p)[i]),
           Ascending(Rows(p))
    PROVE  Located(Rows(p), a) = IF rows[b].line = 0 THEN Nothing ELSE rows[b]
  <1>1. PICK M : M = Rows(p) /\ M \in Seq(Entries) /\ M[Len(M)].end
    BY RowsEnd
  <1>2. \A j \in DOMAIN M : M[j].row.addr \in DOMAIN rows
    BY <1>1 DEF Addrs
  <1>3. Nearest(M, i, a)
    BY <1>1, <1>2 DEF Nearest
  <1>4. Located(M, a) = IF Kept(M[i]).line = 0 THEN Nothing ELSE Kept(M[i])
    BY <1>1, <1>3, NearestCovers
  <1> QED
    BY <1>1, <1>4

\* What is so for each file, each image and each frame.  None of it changes.
Progs  == [n \in DOMAIN disk |-> ProgramOf(n)]
Files  == [i \in Image |-> DebugFiles(i)]
RowsIn == [i \in Image |-> RowsOf(i)]
Backs  == [k \in DOMAIN trace |-> SlidBack(trace[k])]
Seen   == {i \in Debugged : Found(i)}
Shows  == [k \in DOMAIN trace |->
              LET i == trace[k].image IN
              IF i \in Seen /\ slide[i] = slide[Main] THEN Located(RowsIn[i], trace[k].at) ELSE Nothing]

LEMMA AllStay ==
    ASSUME Chosen
    PROVE  Progs' = Progs /\ Files' = Files /\ RowsIn' = RowsIn /\ Backs' = Backs /\ Seen' = Seen /\ Shows' = Shows
  <1>1. disk' = disk /\ layout' = layout /\ slide' = slide /\ trace' = trace
    BY DEF Chosen
  <1>2. Progs' = Progs
    BY <1>1 DEF Progs, ProgramOf
  <1>3. Files' = Files
    BY <1>1 DEF Files, DebugFiles, ProgramOf
  <1>4. RowsIn' = RowsIn
    BY <1>1 DEF RowsIn, RowsOf, DebugFiles, ProgramOf
  <1>5. Backs' = Backs
    BY <1>1 DEF Backs, SlidBack
  <1>6. Seen' = Seen
    BY <1>1 DEF Seen, Debugged, Found, DebugFiles, ProgramOf
  <1>7. Shows' = Shows
    BY <1>1, <1>4, <1>6 DEF Shows
  <1> QED
    BY <1>2, <1>3, <1>4, <1>5, <1>6, <1>7

LEMMA PlacedStays ==
    ASSUME Chosen
    PROVE  WellPlaced' <=> WellPlaced
  <1>1. disk' = disk /\ layout' = layout /\ slide' = slide /\ trace' = trace
    BY DEF Chosen
  <1> QED
    BY <1>1 DEF WellPlaced, RowsOf, Debugged, SlidBack, DebugFiles, ProgramOf

\* A file with debugging data is the one that some image has.
LEMMA FileIs ==
    ASSUME Made, WellPlaced, NEW n \in DOMAIN disk, Progs[n] # <<>>, NEW i, i = n[1]
    PROVE  /\ i \in Image /\ i \in Debugged /\ n \in Files[i] /\ Files[i] = {n}
           /\ Progs[n] \in Programs /\ RowsIn[i] = Rows(Progs[n]) /\ RowsOf(i) = Rows(Progs[n])
           /\ ReadWhole(Progs[n]) /\ Ascending(Rows(Progs[n]))
           /\ n = ImageFile(i) \/ i \in Slashed => i \in Seen
  <1>1. Progs[n] = ProgramOf(n)
    BY DEF Progs
  <1>2. n \in Image \X {"itself", "dSYM"} /\ ProgramOf(n) \in Programs
    BY <1>1, FilesMade
  <1>3. i \in Image /\ n \in {ImageFile(i), <<i, "dSYM">>}
    BY <1>2 DEF ImageFile
  <1>4. n \in DebugFiles(i)
    BY <1>1, <1>3 DEF DebugFiles
  <1>5. i \in Debugged /\ Files[i] = DebugFiles(i) /\ RowsIn[i] = RowsOf(i)
    BY <1>3, <1>4 DEF Debugged, Files, RowsIn
  <1>6. /\ \A m, l \in DebugFiles(i) : m = l
        /\ ReadWhole(ProgramOf(n))
        /\ Ascending(RowsOf(i))
    BY <1>4, <1>5 DEF WellPlaced
  <1>7. DebugFiles(i) = {n}
    BY <1>4, <1>6
  <1>8. RowsOf(i) = Rows(ProgramOf(n))
    BY <1>7 DEF RowsOf
  <1>9. n = ImageFile(i) \/ i \in Slashed => i \in Seen
    BY <1>5, <1>7 DEF Seen, Found
  <1> QED
    BY <1>1, <1>2, <1>3, <1>4, <1>5, <1>6, <1>7, <1>8, <1>9

LEMMA ImageIs ==
    ASSUME Made, NEW i \in Debugged, NEW n \in DebugFiles(i)
    PROVE  i \in Image /\ n \in Files[i] /\ Files[i] = DebugFiles(i) /\ n \in DOMAIN disk /\ Progs[n] # <<>> /\ n[1] = i
  <1>1. i \in Image /\ ProgramOf(n) # <<>> /\ n \in {ImageFile(i), <<i, "dSYM">>}
    BY DEF Debugged, DebugFiles
  <1>2. n \in DOMAIN disk
    BY <1>1, FilesMade
  <1>3. n[1] = i
    BY <1>1 DEF ImageFile
  <1> QED
    BY <1>1, <1>2, <1>3 DEF Files, Progs

LEMMA BackIs ==
    ASSUME Made, NEW k \in DOMAIN trace, trace[k].image # NoImage
    PROVE  /\ Backs[k] \in Nat /\ Backs[k] = SlidBack(trace[k])
           /\ slide[trace[k].image] = slide[Main] => Backs[k] = trace[k].at
  <1>1. PICK i, a, s, t : /\ i = trace[k].image /\ a = trace[k].at /\ s = slide[i] /\ t = slide[Main]
                          /\ Backs[k] = (a + s - t) % AddressMod /\ Backs[k] = SlidBack(trace[k])
    BY DEF Backs, SlidBack
  <1>2. i \in Image /\ a \in 0 .. AddressMod - 1 /\ s \in Int /\ t \in Int /\ AddressMod \in Nat \ {0}
    BY <1>1, TraceMade, ImageAssumption
  <1>3. PICK x : x = a + s - t /\ x \in Int
    BY <1>2
  <1>4. x % AddressMod \in Nat
    BY <1>2, <1>3, Divided
  <1>5. ASSUME s = t PROVE x % AddressMod = a
    <2>1. x = AddressMod * 0 + a
      BY <1>2, <1>3, <1>5
    <2> QED
      BY <1>2, <2>1, DividedOnce
  <1> QED
    BY <1>1, <1>3, <1>4, <1>5

Current == Len(located) + 1

\* Each file opened is an image itself, or is in the .dSYM of one whose name
\* leads there.
Origins == \A b \in DOMAIN binaries : binaries[b] = ImageFile(binaries[b][1]) \/ binaries[b][1] \in Slashed

\* Every row in the map is of the program being read, or one that a file opened
\* before means, whose rows are all there.
Traced ==
    \A a \in DOMAIN out :
        \/ doing = "program" /\ a \in Addrs(Told)
        \/ \E b \in DOMAIN binaries : Origin(out, Progs[binaries[b]], a)

\* The rows of the file looked in are as it means them.
Loaded ==
    /\ doing = "program" => status \notin {"failed", "astray"} /\ Holds(out, Told)
    /\ doing = "lookup" /\ Progs[binaries[bin]] # <<>> => Holds(out, Rows(Progs[binaries[bin]]))

\* The frame's own file is among those to look in; if that is done, there was
\* nothing to be found in it.
Pending ==
    LET i == trace[Current].image IN
    doing # "frame" /\ i \in Seen =>
        /\ \E b \in DOMAIN binaries : binaries[b] \in Files[i]
        /\ defined => \A b \in 1 .. bin - 1 :
                         binaries[b] \in Files[i] => Located(RowsIn[i], Backs[Current]) = Nothing

\* The frames done are located as they should be.
Right == defined => \A k \in DOMAIN located : located[k] = Shows[k]

LEMMA CurrentIs ==
    ASSUME Types, Stage, doing # "frame"
    PROVE  /\ Current \in DOMAIN trace /\ Current \in Nat /\ Len(located) \in Nat
           /\ Frame = trace[Current] /\ trace[Current].image # NoImage /\ trace[Current].image \in Image
           /\ Backs[Current] \in Nat /\ SlidBack(Frame) = Backs[Current]
  <1>1. PICK m, n : m = Len(located) /\ n = Len(trace) /\ m \in Nat /\ n \in Nat /\ m < n /\ DOMAIN trace = 1 .. n
    BY Appends, TraceMade DEF Types, Stage
  <1>2. m + 1 \in 1 .. n
    BY <1>1
  <1>3. Current \in DOMAIN trace /\ Current \in Nat
    BY <1>1, <1>2 DEF Current
  <1>4. Frame = trace[Current] /\ trace[Current].image # NoImage
    BY DEF Frame, Current, Stage
  <1>5. trace[Current].image \in Image
    BY <1>1, <1>3, <1>4, TraceMade DEF Types
  <1>6. Backs[Current] \in Nat /\ Backs[Current] = SlidBack(trace[Current])
    BY <1>3, <1>4, BackIs DEF Types
  <1> QED
    BY <1>1, <1>3, <1>4, <1>5, <1>6

\* The row that is looked up.
LEMMA RowFound ==
    ASSUME Placed(out), NEW a \in Nat, Known(a)
    PROVE  \E b \in DOMAIN out :
              /\ b \in Nat /\ b <= a /\ RowAt(a) = out[b]
              /\ \A c \in DOMAIN out : c \in Nat /\ (c <= a => c <= b)
  <1>1. PICK S : S = Below(a) /\ S # {} /\ S \subseteq DOMAIN out
    BY DEF Known, Below
  <1>2. \A c \in DOMAIN out : c \in Nat
    BY DEF Placed
  <1>3. S \subseteq 0 .. a /\ \A c \in DOMAIN out : c <= a => c \in S
    BY <1>1, <1>2 DEF Below
  <1>4. PICK b \in S : \A c \in S : c <= b
    BY <1>1, <1>3, Greatest
  <1>5. Max(S) \in S /\ \A c \in S : c <= Max(S)
    BY <1>3, <1>4 DEF Max
  <1> QED
    BY <1>1, <1>2, <1>3, <1>5 DEF RowAt

LEMMA TracedFrom ==
    ASSUME Types, Traced, doing = "lookup", WellPlaced, NEW b \in DOMAIN out
    PROVE  \E n \in DOMAIN disk :
              /\ \E l \in DOMAIN binaries : n = binaries[l]
              /\ Progs[n] # <<>> /\ Origin(out, Progs[n], b)
  <1>1. PICK l \in DOMAIN binaries : Origin(out, Progs[binaries[l]], b)
    BY DEF Traced
  <1>2. PICK n : n = binaries[l] /\ n \in DOMAIN disk
    BY BinariesAre
  <1> QED
    BY <1>1, <1>2 DEF Origin

\* Whatever is found is what should be found for the frame.
LEMMA FoundRight ==
    ASSUME Types, Stage, WellPlaced, Origins, Traced, doing = "lookup",
           NEW a, a = Backs[Current], Known(a), FindLocation(a) # Nothing
    PROVE  FindLocation(a) = Shows[Current]
  <1>1. PICK k, x : /\ k = Current /\ x = trace[k] /\ k \in DOMAIN trace /\ x.image # NoImage /\ a \in Nat
                    /\ a = SlidBack(x)
    BY CurrentIs
  <1>2. PICK b \in DOMAIN out :
              /\ b \in Nat /\ b <= a /\ RowAt(a) = out[b]
              /\ \A c \in DOMAIN out : c \in Nat /\ (c <= a => c <= b)
    BY <1>1, RowFound DEF Types
  <1>3. FindLocation(a) = out[b] /\ out[b].line # 0
    BY <1>2 DEF FindLocation
  <1>4. PICK n \in DOMAIN disk : /\ \E l \in DOMAIN binaries : n = binaries[l]
                                 /\ Progs[n] # <<>> /\ Origin(out, Progs[n], b)
    BY TracedFrom
  <1>5. PICK p, i : p = Progs[n] /\ i = n[1]
    OBVIOUS
  <1>6. /\ i \in Image /\ i \in Debugged /\ p \in Programs /\ RowsIn[i] = Rows(p) /\ RowsOf(i) = Rows(p)
        /\ Ascending(Rows(p)) /\ (n = ImageFile(i) \/ i \in Slashed => i \in Seen)
    BY <1>4, <1>5, FileIs DEF Types
  <1>7. PICK j \in DOMAIN Rows(p) : Newest(Rows(p), j) /\ Rows(p)[j].row.addr = b /\ out[b] = Kept(Rows(p)[j])
    BY <1>4, <1>5 DEF Origin
  <1>8. Addrs(Rows(p)) \subseteq DOMAIN out
    BY <1>4, <1>5 DEF Origin
  <1>9. Located(Rows(p), a) = out[b]
    <2>1. Located(Rows(p), a) = IF out[b].line = 0 THEN Nothing ELSE out[b]
      BY <1>1, <1>2, <1>6, <1>7, <1>8, NearestFrom
    <2> QED
      BY <1>3, <2>1
  <1>10. PICK m : m \in Covering(RowsOf(i), a)
    <2>1. Covering(Rows(p), a) # {}
      <3> SUFFICES ASSUME Covering(Rows(p), a) = {} PROVE FALSE
        OBVIOUS
      <3>1. Located(Rows(p), a) = Nothing
        BY DEF Located
      <3> QED
        BY <1>3, <1>9, <3>1
    <2> QED
      BY <1>6, <2>1
  <1>11. i = x.image /\ slide[i] = slide[Main]
    BY <1>1, <1>6, <1>10 DEF WellPlaced
  <1>12. i \in Seen
    BY <1>4, <1>5, <1>6 DEF Origins
  <1>13. a = x.at
    BY <1>1, <1>11, BackIs DEF Types
  <1>14. Shows[k] = Located(RowsIn[i], x.at)
    BY <1>1, <1>11, <1>12 DEF Shows
  <1> QED
    BY <1>1, <1>3, <1>6, <1>9, <1>13, <1>14

\* If nothing is found in the frame's own file, there is nothing.
LEMMA NothingRight ==
    ASSUME Types, Stage, WellPlaced, Traced, Loaded, doing = "lookup",
           NEW a, a = Backs[Current], NEW i, i = trace[Current].image, i \in Seen,
           binaries[bin] \in Files[i], Known(a) => FindLocation(a) = Nothing
    PROVE  Located(RowsIn[i], a) = Nothing
  <1>1. PICK k, x : /\ k = Current /\ x = trace[k] /\ k \in DOMAIN trace /\ x.image # NoImage /\ a \in Nat
                    /\ a = SlidBack(x) /\ i = x.image /\ i \in Image
    BY CurrentIs
  <1>2. PICK n, p : n = binaries[bin] /\ p = Progs[n] /\ n \in Files[i]
    OBVIOUS
  <1>3. n \in DOMAIN disk /\ p # <<>> /\ n[1] = i /\ i \in Debugged
    <2>1. i \in Debugged
      BY DEF Seen
    <2>2. n \in DebugFiles(i)
      BY <1>1, <1>2 DEF Files
    <2> QED
      BY <1>2, <2>1, <2>2, ImageIs DEF Types
  <1>4. /\ p \in Programs /\ RowsIn[i] = Rows(p) /\ RowsOf(i) = Rows(p) /\ Ascending(Rows(p)) /\ Files[i] = {n}
    BY <1>2, <1>3, FileIs DEF Types
  <1>5. Holds(out, Rows(p))
    BY <1>2, <1>3 DEF Loaded
  <1>6. PICK M : M = Rows(p) /\ M \in Seq(Entries)
    BY <1>4, RowsEnd
  <1>7. CASE Covering(M, a) = {}
    BY <1>4, <1>6, <1>7 DEF Located
  <1>8. CASE Covering(M, a) # {}
    <2>1. PICK m : m \in Covering(M, a)
      BY <1>8
    <2>2. m \in DOMAIN M /\ M[m].row.addr <= a
      BY <2>1 DEF Covering
    <2>3. M[m].row.addr \in Addrs(M) /\ Addrs(M) \subseteq DOMAIN out /\ M[m].row.addr \in DOMAIN out
      BY <1>5, <1>6, <2>2 DEF Addrs, Holds
    <2>4. Known(a)
      BY <2>2, <2>3 DEF Known, Below
    <2>5. PICK b \in DOMAIN out :
                /\ b \in Nat /\ b <= a /\ RowAt(a) = out[b]
                /\ \A c \in DOMAIN out : c \in Nat /\ (c <= a => c <= b)
      BY <1>1, <2>4, RowFound DEF Types
    <2>6. b \in Addrs(M)
      <3>1. PICK o \in DOMAIN disk : Progs[o] # <<>> /\ Origin(out, Progs[o], b)
        BY TracedFrom
      <3>2. PICK q, j : q = Progs[o] /\ j = o[1]
        OBVIOUS
      <3>3. j \in Debugged /\ RowsOf(j) = Rows(q) /\ o \in Files[j]
        BY <3>1, <3>2, FileIs DEF Types
      <3>4. PICK r \in DOMAIN Rows(q) : Rows(q)[r].row.addr = b
        BY <3>1, <3>2 DEF Origin
      <3>5. CASE j = i
        <4>1. q = p
          BY <1>2, <1>4, <3>2, <3>3, <3>5
        <4> QED
          BY <1>6, <3>4, <4>1 DEF Addrs
      <3>6. CASE j # i
        <4>1. ~ (M[m].row.addr < b /\ b <= a)
          <5>1. m \in Covering(RowsOf(i), a) /\ r \in DOMAIN RowsOf(j) /\ RowsOf(j)[r].row.addr = b
            BY <1>4, <1>6, <2>1, <3>3, <3>4
          <5>2. ~ (RowsOf(i)[m].row.addr < RowsOf(j)[r].row.addr /\ RowsOf(j)[r].row.addr <= SlidBack(x))
            BY <1>1, <1>3, <3>3, <3>6, <5>1 DEF WellPlaced
          <5> QED
            BY <1>1, <1>4, <1>6, <5>1, <5>2
        <4>2. M[m].row.addr = b
          <5>1. PICK c : c = M[m].row.addr /\ c \in DOMAIN out /\ c \in Nat /\ c <= a /\ c <= b /\ ~ (c < b /\ b <= a)
            BY <2>2, <2>3, <2>5, <4>1
          <5>2. c = b
            BY <2>5, <5>1
          <5> QED
            BY <5>1, <5>2
        <4> QED
          BY <2>3, <4>2
      <3> QED
        BY <3>5, <3>6
    <2>7. PICK e \in DOMAIN M : M[e].row.addr = b
      BY <2>6 DEF Addrs
    <2>8. PICK j \in DOMAIN M : M[j].row.addr = b /\ Newest(M, j)
      BY <1>6, <2>7, NewestAt
    <2>9. out[b] = Kept(M[j])
      BY <1>5, <1>6, <2>8 DEF Holds
    <2>10. Located(M, a) = IF out[b].line = 0 THEN Nothing ELSE out[b]
      <3>1. /\ j \in DOMAIN Rows(p) /\ Newest(Rows(p), j) /\ Rows(p)[j].row.addr = b
            /\ out[b] = Kept(Rows(p)[j]) /\ Addrs(Rows(p)) \subseteq DOMAIN out
        BY <1>6, <2>3, <2>8, <2>9
      <3>2. Located(Rows(p), a) = IF out[b].line = 0 THEN Nothing ELSE out[b]
        BY <1>1, <1>4, <2>5, <3>1, NearestFrom
      <3> QED
        BY <1>6, <3>2
    <2>11. FindLocation(a) = Nothing
      BY <2>4
    <2> QED
      BY <1>4, <1>6, <2>5, <2>10, <2>11 DEF FindLocation
  <1> QED
    BY <1>7, <1>8

\* What is kept up by each step, of a well-placed trace.
Keeping == Traced /\ Loaded /\ Pending /\ Right

\* v is s and some more, out of x.
Extends(v, s, x) ==
    /\ \A b \in DOMAIN s : b \in DOMAIN v /\ v[b] = s[b]
    /\ \A b \in DOMAIN x : \E c \in DOMAIN v : v[c] = x[b]
    /\ \A c \in DOMAIN v : (\E b \in DOMAIN s : v[c] = s[b]) \/ (\E b \in DOMAIN x : v[c] = x[b])

LEMMA ConcatExtends ==
    ASSUME NEW D, NEW s \in Seq(D), NEW x \in Seq(D)
    PROVE  s \o x \in Seq(D) /\ Extends(s \o x, s, x)
  <1>1. PICK v : v = s \o x /\ v \in Seq(D)
    BY ConcatProperties
  <1>2. PICK l, m : l = Len(s) /\ m = Len(x)
    OBVIOUS
  <1>3. l \in Nat /\ m \in Nat /\ DOMAIN s = 1 .. l /\ DOMAIN x = 1 .. m
    BY <1>2
  <1>4. Len(v) = l + m /\ \A b \in 1 .. l + m : v[b] = IF b <= l THEN s[b] ELSE x[b - l]
    BY <1>1, <1>2, ConcatProperties
  <1>5. DOMAIN v = 1 .. l + m
    BY <1>1, <1>4
  <1>6. ASSUME NEW b \in DOMAIN s PROVE b \in DOMAIN v /\ v[b] = s[b]
    BY <1>3, <1>4, <1>5
  <1>7. ASSUME NEW b \in DOMAIN x PROVE \E c \in DOMAIN v : v[c] = x[b]
    <2>1. PICK c : c = l + b /\ c \in 1 .. l + m /\ ~ (c <= l) /\ c - l = b
      BY <1>3
    <2>2. v[c] = x[c - l]
      BY <1>4, <2>1
    <2> QED
      BY <1>5, <2>1, <2>2
  <1>8. ASSUME NEW c \in DOMAIN v
        PROVE  (\E b \in DOMAIN s : v[c] = s[b]) \/ (\E b \in DOMAIN x : v[c] = x[b])
    <2>1. CASE c <= l
      BY <1>3, <1>4, <1>5, <2>1
    <2>2. CASE ~ (c <= l)
      <3>1. c - l \in 1 .. m
        BY <1>3, <1>5, <2>2
      <3> QED
        BY <1>3, <1>4, <1>5, <2>2, <3>1
    <2> QED
      BY <2>1, <2>2
  <1> QED
    BY <1>1, <1>6, <1>7, <1>8 DEF Extends

LEMMA OpenedIn ==
    ASSUME NEW n
    PROVE  /\ Opened(n) \in Seq(DOMAIN disk)
           /\ \A b \in DOMAIN Opened(n) : Opened(n)[b] = n
           /\ Opens(n) => \E b \in DOMAIN Opened(n) : Opened(n)[b] = n
  <1>1. CASE Opens(n)
    <2>1. Opened(n) = <<n>> /\ n \in DOMAIN disk
      BY <1>1 DEF Opened, Opens
    <2>2. DOMAIN <<n>> = {1} /\ <<n>>[1] = n /\ (n \in DOMAIN disk => <<n>> \in Seq(DOMAIN disk))
      OBVIOUS
    <2> QED
      BY <2>1, <2>2
  <1>2. CASE ~ Opens(n)
    <2>1. Opened(n) = <<>>
      BY <1>2 DEF Opened
    <2> QED
      BY <1>2, <2>1
  <1> QED
    BY <1>1, <1>2

LEMMA BinariesExtend ==
    ASSUME Types, NEW i, NEW v, v = binaries \o Opened(ImageFile(i)) \o Opened(DsymFile(i))
    PROVE  /\ \A b \in DOMAIN binaries : b \in DOMAIN v /\ v[b] = binaries[b]
           /\ \A n \in {ImageFile(i), DsymFile(i)} : Opens(n) => \E c \in DOMAIN v : v[c] = n
           /\ \A c \in DOMAIN v :
                 \/ \E b \in DOMAIN binaries : v[c] = binaries[b]
                 \/ v[c] \in DOMAIN disk /\ v[c] \in {ImageFile(i), DsymFile(i)}
  <1>1. PICK D, s, x, y, u : /\ D = DOMAIN disk /\ s = binaries /\ x = Opened(ImageFile(i)) /\ y = Opened(DsymFile(i))
                             /\ u = s \o x /\ v = u \o y
    OBVIOUS
  <1>2. s \in Seq(D) /\ x \in Seq(D) /\ y \in Seq(D)
    BY <1>1, OpenedIn DEF Types
  <1>3. u \in Seq(D) /\ Extends(u, s, x)
    BY <1>1, <1>2, ConcatExtends
  <1>4. v \in Seq(D) /\ Extends(v, u, y)
    BY <1>1, <1>2, <1>3, ConcatExtends
  <1>5. \A b \in DOMAIN s : b \in DOMAIN v /\ v[b] = s[b]
    BY <1>3, <1>4 DEF Extends
  <1>6. ASSUME NEW n \in {ImageFile(i), DsymFile(i)}, Opens(n) PROVE \E c \in DOMAIN v : v[c] = n
    <2>1. CASE n = ImageFile(i)
      <3>1. PICK b \in DOMAIN x : x[b] = n
        BY <1>1, <1>6, <2>1, OpenedIn
      <3>2. PICK c \in DOMAIN u : u[c] = n
        BY <1>3, <3>1 DEF Extends
      <3> QED
        BY <1>4, <3>2 DEF Extends
    <2>2. CASE n = DsymFile(i)
      <3>1. PICK b \in DOMAIN y : y[b] = n
        BY <1>1, <1>6, <2>2, OpenedIn
      <3> QED
        BY <1>4, <3>1 DEF Extends
    <2> QED
      BY <2>1, <2>2
  <1>7. ASSUME NEW c \in DOMAIN v
        PROVE  \/ \E b \in DOMAIN s : v[c] = s[b]
               \/ v[c] \in D /\ v[c] \in {ImageFile(i), DsymFile(i)}
    <2>1. v[c] \in D
      BY <1>4
    <2>2. \/ \E b \in DOMAIN s : v[c] = s[b]
          \/ \E b \in DOMAIN x : v[c] = x[b]
          \/ \E b \in DOMAIN y : v[c] = y[b]
      <3>1. \/ \E b \in DOMAIN u : v[c] = u[b]
            \/ \E b \in DOMAIN y : v[c] = y[b]
        BY <1>4 DEF Extends
      <3>2. ASSUME NEW b \in DOMAIN u
            PROVE  \/ \E d \in DOMAIN s : u[b] = s[d]
                   \/ \E d \in DOMAIN x : u[b] = x[d]
        BY <1>3 DEF Extends
      <3> QED
        BY <3>1, <3>2
    <2>3. /\ \A b \in DOMAIN x : x[b] = ImageFile(i)
          /\ \A b \in DOMAIN y : y[b] = DsymFile(i)
      BY <1>1, OpenedIn
    <2> QED
      BY <2>1, <2>2, <2>3
  <1> QED
    BY <1>1, <1>5, <1>6, <1>7

LEMMA OriginsStay ==
    ASSUME Types, Origins, [ResolverNext]_<<vars, resolverVars>>
    PROVE  Origins'
  <1>1. CASE binaries' = binaries
    BY <1>1 DEF Origins
  <1>2. CASE FindBinaries
    <2>1. PICK i, v : /\ binaries' = v /\ v = binaries \o Opened(ImageFile(i)) \o Opened(DsymFile(i))
      BY <1>2 DEF FindBinaries
    <2>2. ASSUME NEW c \in DOMAIN v PROVE v[c] = ImageFile(v[c][1]) \/ v[c][1] \in Slashed
      <3>1. CASE \E b \in DOMAIN binaries : v[c] = binaries[b]
        BY <3>1 DEF Origins
      <3>2. CASE v[c] \in DOMAIN disk /\ v[c] = ImageFile(i)
        BY <3>2 DEF ImageFile
      <3>3. CASE v[c] \in DOMAIN disk /\ v[c] = DsymFile(i)
        <4>1. v[c] \in Image \X {"itself", "dSYM"}
          BY <3>3, FilesMade DEF Types
        <4>2. i \in Slashed /\ v[c][1] = i
          <5>1. v[c][2] # "dSYM less a letter"
            BY <4>1
          <5>2. CASE i \in Slashed
            <6>1. v[c] = <<i, "dSYM">>
              BY <3>3, <5>2 DEF DsymFile
            <6> QED
              BY <5>2, <6>1
          <5>3. CASE i \notin Slashed
            <6>1. v[c] = <<i, "dSYM less a letter">>
              BY <3>3, <5>3 DEF DsymFile
            <6>2. <<i, "dSYM less a letter">>[2] = "dSYM less a letter"
              OBVIOUS
            <6> QED
              BY <5>1, <6>1, <6>2
          <5> QED
            BY <5>2, <5>3
        <4> QED
          BY <4>2
      <3>4. \/ \E b \in DOMAIN binaries : v[c] = binaries[b]
            \/ v[c] \in DOMAIN disk /\ v[c] \in {ImageFile(i), DsymFile(i)}
        BY <2>1, BinariesExtend
      <3> QED
        BY <3>1, <3>2, <3>3, <3>4
    <2> QED
      BY <2>1, <2>2 DEF Origins
  <1> QED
    BY <1>1, <1>2 DEF ResolverNext, Unresolved, GetLocations, EvalLineProg, Evaluated, Lookup, NotFound, Resolved,
       resolverVars

LEMMA TracedStays ==
    ASSUME Traced, Chosen, out' = out, doing # "program",
           \A b \in DOMAIN binaries : b \in DOMAIN binaries' /\ binaries'[b] = binaries[b]
    PROVE  Traced'
  <1>1. Progs' = Progs
    BY AllStay
  <1> SUFFICES ASSUME NEW a \in DOMAIN out
               PROVE  \E b \in DOMAIN binaries' : Origin(out', Progs'[binaries'[b]], a)
    BY DEF Traced
  <1>2. PICK b \in DOMAIN binaries : Origin(out, Progs[binaries[b]], a)
    BY DEF Traced
  <1> QED
    BY <1>1, <1>2

LEMMA RightAppends ==
    ASSUME Types, Right, Chosen, NEW loc, located' = Append(located, loc),
           defined' => defined /\ loc = Shows[Current]
    PROVE  Right'
  <1>1. Shows' = Shows
    BY AllStay
  <1>0. IsSeq(located)
    BY DEF Types
  <1>a. PICK n, s : n = Len(located) /\ s = Append(located, loc)
    OBVIOUS
  <1>2. /\ n = Len(located) /\ n \in Nat /\ s = Append(located, loc) /\ DOMAIN located = 1 .. n
        /\ DOMAIN s = 1 .. n + 1 /\ s[n + 1] = loc /\ \A k \in 1 .. n : s[k] = located[k]
    BY <1>0, <1>a, Appends
  <1> SUFFICES ASSUME defined', NEW k \in DOMAIN s PROVE s[k] = Shows[k]
    BY <1>1, <1>2 DEF Right
  <1>3. CASE k = n + 1
    BY <1>2, <1>3 DEF Current
  <1>4. CASE k # n + 1
    <2>1. k \in 1 .. n
      BY <1>2, <1>4
    <2> QED
      BY <1>2, <2>1 DEF Right
  <1> QED
    BY <1>3, <1>4

LEMMA RightStays ==
    ASSUME Right, Chosen, located' = located, defined' => defined
    PROVE  Right'
  BY AllStay DEF Right

LEMMA PendingStays ==
    ASSUME Pending, Chosen, doing # "frame", located' = located, binaries' = binaries, bin' = bin, defined' = defined
    PROVE  Pending'
  <1>1. Seen' = Seen /\ Files' = Files /\ RowsIn' = RowsIn /\ Backs' = Backs /\ trace' = trace
    BY AllStay DEF Chosen
  <1>2. Current' = Current
    BY DEF Current
  <1> QED
    BY <1>1, <1>2 DEF Pending

LEMMA InitKept ==
    ASSUME ResolverInit
    PROVE  Origins /\ Keeping
  <1>1. doing = "frame" /\ binaries = <<>> /\ located = <<>> /\ out = NoRows
    BY DEF ResolverInit
  <1>2. DOMAIN NoRows = {} /\ DOMAIN <<>> = {}
    BY DEF NoRows
  <1> QED
    BY <1>1, <1>2 DEF Origins, Keeping, Traced, Loaded, Pending, Right

LEMMA UnresolvedKeeps ==
    ASSUME Types, Stage, Keeping, Unresolved
    PROVE  Keeping'
  <1>1. /\ doing = "frame" /\ Len(located) < Len(trace) /\ located' = Append(located, Nothing) /\ Chosen
        /\ Frame.image = NoImage /\ defined' = defined
        /\ out' = out /\ doing' = doing /\ binaries' = binaries
    BY DEF Unresolved, vars
  <1>2. Traced' /\ Loaded' /\ Pending'
    BY <1>1, TracedStays DEF Keeping, Loaded, Pending
  <1>3. Nothing = Shows[Current]
    <2>1. PICK k : k = Current /\ k \in DOMAIN trace
      <3>1. PICK m, n : m = Len(located) /\ n = Len(trace) /\ m \in Nat /\ n \in Nat /\ m < n /\ DOMAIN trace = 1 .. n
        BY <1>1, Appends, TraceMade DEF Types
      <3>2. m + 1 \in 1 .. n
        BY <3>1
      <3> QED
        BY <3>1, <3>2 DEF Current
    <2>2. trace[k].image \notin Seen
      BY <1>1, <2>1, ImageAssumption DEF Seen, Debugged, Frame, Current
    <2> QED
      BY <2>1, <2>2 DEF Shows
  <1>4. Right'
    BY <1>1, <1>3, RightAppends DEF Keeping
  <1> QED
    BY <1>2, <1>4 DEF Keeping

LEMMA FindBinariesKeeps ==
    ASSUME Types, Stage, WellPlaced, Keeping, FindBinaries
    PROVE  Keeping'
  <1>1. PICK i, v : /\ doing = "frame" /\ Len(located) < Len(trace) /\ i = Frame.image
                    /\ binaries' = v /\ v = binaries \o Opened(ImageFile(i)) \o Opened(DsymFile(i))
                    /\ bin' = 1 /\ doing' = "binary" /\ Chosen /\ out' = out /\ located' = located /\ defined' = defined
    BY DEF FindBinaries, vars
  <1>2. /\ \A b \in DOMAIN binaries : b \in DOMAIN v /\ v[b] = binaries[b]
        /\ \A n \in {ImageFile(i), DsymFile(i)} : Opens(n) => \E c \in DOMAIN v : v[c] = n
    <2>1. v = binaries \o Opened(ImageFile(i)) \o Opened(DsymFile(i))
      BY <1>1
    <2>2. \A b \in DOMAIN binaries : b \in DOMAIN v /\ v[b] = binaries[b]
      BY <2>1, BinariesExtend
    <2>3. \A n \in {ImageFile(i), DsymFile(i)} : Opens(n) => \E c \in DOMAIN v : v[c] = n
      BY <2>1, BinariesExtend, ZenonT(30)
    <2> QED
      BY <2>2, <2>3
  <1>3. Traced' /\ Loaded' /\ Right'
    BY <1>1, <1>2, TracedStays, RightStays DEF Keeping, Loaded
  <1>4. Seen' = Seen /\ Files' = Files /\ trace' = trace /\ Current' = Current
    BY <1>1, AllStay DEF Chosen, Current
  <1>5. ASSUME i \in Seen PROVE \E c \in DOMAIN v : v[c] \in Files[i]
    <2>1. i \in Debugged /\ Found(i) /\ DebugFiles(i) # {}
      BY <1>5 DEF Seen, Debugged
    <2>2. PICK n : n \in DebugFiles(i)
      BY <2>1
    <2>3. n \in Files[i] /\ n \in DOMAIN disk /\ Opens(n)
      BY <2>1, <2>2, ImageIs, FilesMade DEF Types
    <2>4. n \in {ImageFile(i), DsymFile(i)}
      BY <2>1, <2>2 DEF Found, DebugFiles, DsymFile
    <2> QED
      BY <1>2, <2>3, <2>4
  <1>6. trace[Current].image = i
    BY <1>1 DEF Frame, Current
  <1>7. \A b \in 1 .. bin' - 1 : FALSE
    BY <1>1
  <1>8. Pending'
    BY <1>1, <1>4, <1>5, <1>6, <1>7 DEF Pending
  <1> QED
    BY <1>3, <1>8 DEF Keeping

LEMMA GetLocationsKeeps ==
    ASSUME Types, Stage, WellPlaced, Keeping, GetLocations
    PROVE  Keeping'
  <1>1. /\ doing = "binary" /\ bin <= Len(binaries) /\ Chosen /\ out' = out
        /\ binaries' = binaries /\ bin' = bin /\ located' = located /\ defined' = defined
    BY DEF GetLocations, vars
  <1>2. Traced' /\ Pending' /\ Right'
    BY <1>1, TracedStays, PendingStays, RightStays DEF Keeping
  <1>3. PICK n, p : /\ n = binaries[bin] /\ p = ProgramOf(n) /\ n \in DOMAIN disk
                    /\ DebugLine(disk[n]) = (IF p = <<>> THEN <<>> ELSE <<p>>)
                    /\ p # <<>> => p \in Programs
    BY <1>1, BinaryIs, FilesMade DEF Types
  <1>4. Progs' = Progs /\ Progs[n] = p
    BY <1>1, <1>3, AllStay DEF Progs
  <1>5. Loaded'
    <2>1. CASE p = <<>>
      <3>1. DebugLine(disk[n]) = <<>>
        BY <1>3, <2>1
      <3>2. doing' = "lookup"
        BY <1>3, <3>1 DEF GetLocations
      <3> QED
        BY <1>1, <1>3, <1>4, <2>1, <3>2 DEF Loaded
    <2>2. CASE p # <<>>
      <3>1. DebugLine(disk[n]) = <<p>> /\ <<p>> # <<>> /\ <<p>>[1] = p
        BY <1>3, <2>2
      <3>2. prog' = p /\ next' = 1 /\ reg' = Reset /\ status' = "running" /\ doing' = "program"
        BY <1>3, <3>1 DEF GetLocations
      <3>3. Matrix(p)[1] = <<>>
        BY <1>1, <1>3, <2>2, <3>2, Begins0 DEF Types
      <3>4. Told' = <<>>
        BY <3>2, <3>3 DEF Told
      <3> QED
        BY <3>2, <3>4, HoldsNone DEF Loaded
    <2> QED
      BY <2>1, <2>2
  <1> QED
    BY <1>2, <1>5 DEF Keeping

LEMMA Within ==
    ASSUME NEW n \in Nat, NEW k \in 1 .. n + 1
    PROVE  \A j \in 1 .. k - 1 : j \in 1 .. n
  OBVIOUS

\* A program that can be read whole is not broken off, and is followed.
LEMMA NotBroken ==
    ASSUME Reads, Next, ReadWhole(prog)
    PROVE  status' \notin {"failed", "astray"} /\ Followed(prog, next' - 1)
  <1>1. status = "running" /\ Reads' /\ prog' = prog
    BY NextGoes DEF Goes
  <1>2. ~ Unknown /\ ~ Astray
    <2> SUFFICES ASSUME NEW op \in {"unknown", "set_discriminator", "astray"}, Reading(op) PROVE FALSE
      BY DEF Unknown, Astray
    <2>1. PICK n, k : n = Len(prog) /\ k = next /\ n \in Nat /\ k \in 1 .. n - 1
      BY ReadsOn
    <2>2. 1 .. k \subseteq 1 .. n
      BY ONLY <2>1
    <2>3. Followed(prog, next)
      BY <2>1, <2>2 DEF ReadWhole, Followed
    <2>4. prog[next].op = op /\ next \in DOMAIN prog /\ prog \in Programs
      BY <2>3, ReadsOn, ReadsWritten DEF Reads
    <2> QED
      BY <2>4, ProgramsAssumption DEF ReadWhole
  <1>3. Followed(prog, next' - 1)
    <2>1. PICK n, k : n = Len(prog) /\ k = next' /\ n \in Nat /\ k \in 1 .. n + 1
      BY <1>1, ProgramIs DEF Reads, TypeOK
    <2>2. \A j \in 1 .. k - 1 : j \in 1 .. n
      BY <2>1, Within
    <2>3. Followed(prog, k - 1)
      BY <2>1, <2>2 DEF ReadWhole, Followed
    <2> QED
      BY <2>1, <2>3
  <1> QED
    BY <1>1, <1>2, <1>3 DEF Next, Copy, AdvancePc, AdvanceLine, SetFile, SetColumn, SetAddress, Ignored, Special,
       EndSequence, Finish, Sets, Emits

\* The line program that is read is that of the file looked in.
LEMMA ReadIs ==
    ASSUME Types, Stage, WellPlaced, doing = "program"
    PROVE  \E n \in DOMAIN disk :
              /\ bin \in DOMAIN binaries /\ binaries[bin] = n /\ Progs[n] = prog /\ prog \in Programs
              /\ prog # <<>> /\ Reads /\ ReadWhole(prog)
  <1>1. PICK n : n = binaries[bin] /\ n \in DOMAIN disk /\ bin \in DOMAIN binaries
    BY BinaryIs DEF Stage
  <1>2. prog = ProgramOf(n) /\ prog # <<>> /\ Reads
    BY <1>1 DEF Stage
  <1>3. Progs[n] = prog
    BY <1>1, <1>2 DEF Progs
  <1>4. PICK i : i = n[1]
    OBVIOUS
  <1>5. Progs[n] \in Programs /\ ReadWhole(Progs[n])
    BY <1>1, <1>2, <1>3, <1>4, FileIs DEF Types
  <1> QED
    BY <1>1, <1>2, <1>3, <1>5

\* What a row added does to rows of others.
LEMMA OriginOn ==
    ASSUME NEW rows, NEW more, NEW p, NEW a, Origin(rows, p, a),
           DOMAIN rows \subseteq DOMAIN more, more[a] = rows[a]
    PROVE  Origin(more, p, a)
  BY DEF Origin

LEMMA EvalKeeps ==
    ASSUME Types, Stage, WellPlaced, Keeping, EvalLineProg
    PROVE  Keeping'
  <1>1. /\ doing = "program" /\ Next /\ Chosen /\ doing' = doing /\ binaries' = binaries /\ bin' = bin
        /\ located' = located /\ defined' = defined
    BY DEF EvalLineProg, resolverVars, Chosen
  <1>2. Pending' /\ Right'
    BY <1>1, PendingStays, RightStays DEF Keeping
  <1>3. /\ Goes /\ Reads /\ TailRead(prog) /\ status' \notin {"failed", "astray"}
        /\ Adds /\ Told \in Seq(Entries)
    <2>1. Goes /\ Reads /\ ReadWhole(prog)
      BY <1>1, EvalTyped, ReadIs
    <2>2. status' \notin {"failed", "astray"} /\ Followed(prog, next' - 1)
      BY <1>1, <2>1, NotBroken
    <2> QED
      BY <2>1, <2>2 DEF Goes, ReadWhole
  <1>4. PICK M, N, R, S : /\ M = Told /\ N = Told' /\ R = out /\ S = out'
                          /\ M \in Seq(Entries) /\ Holds(R, M)
    BY <1>1, <1>3 DEF Goes, Keeping, Loaded
  <1>5. /\ Holds(S, N) /\ Addrs(M) \subseteq Addrs(N) /\ DOMAIN R \subseteq DOMAIN S
        /\ \A a \in DOMAIN S : a \in Addrs(N) \/ (a \in DOMAIN R /\ S[a] = R[a])
    <2>1. CASE S = R /\ N = M
      BY <1>4, <2>1
    <2>2. CASE ~ (S = R /\ N = M)
      <3>1. PICK m \in Entries, r \in Regs :
                /\ S = Store(R, r) /\ r.addr = m.row.addr /\ Row(r) = Kept(m)
                /\ N = M \o <<m>>
        BY <1>3, <1>4, <2>2 DEF Goes, Adds
      <3>2. Holds(S, N) /\ Addrs(N) = Addrs(M) \cup {r.addr}
        BY <1>4, <3>1, HoldsNext
      <3>3. /\ DOMAIN S = DOMAIN R \cup {r.addr}
            /\ \A a \in DOMAIN R : a # r.addr => S[a] = R[a]
        BY <3>1 DEF Store
      <3> QED
        BY <3>2, <3>3
    <2> QED
      BY <2>1, <2>2
  <1>6. Loaded'
    BY <1>1, <1>3, <1>4, <1>5 DEF Loaded
  <1>7. Traced'
    <2>1. Progs' = Progs
      BY <1>1, AllStay
    <2>2. ASSUME NEW a \in DOMAIN S, a \notin Addrs(N)
          PROVE  \E b \in DOMAIN binaries : Origin(S, Progs[binaries[b]], a)
      <3>1. a \in DOMAIN R /\ S[a] = R[a] /\ a \notin Addrs(M)
        BY <1>5, <2>2
      <3>2. PICK b \in DOMAIN binaries : Origin(R, Progs[binaries[b]], a)
        BY <1>4, <3>1 DEF Keeping, Traced
      <3>3. PICK p : p = Progs[binaries[b]]
        OBVIOUS
      <3>4. Origin(S, p, a)
        BY <1>5, <3>1, <3>2, <3>3, OriginOn
      <3> QED
        BY <3>3, <3>4
    <2> QED
      BY <1>1, <1>4, <2>1, <2>2 DEF Traced
  <1> QED
    BY <1>2, <1>6, <1>7 DEF Keeping

LEMMA EvaluatedKeeps ==
    ASSUME Types, Stage, WellPlaced, Keeping, Evaluated
    PROVE  Keeping'
  <1>1. /\ doing = "program" /\ status # "running" /\ Chosen /\ doing' = "lookup" /\ out' = out
        /\ binaries' = binaries /\ bin' = bin /\ located' = located /\ defined' = defined
    BY DEF Evaluated, vars
  <1>2. Pending' /\ Right'
    BY <1>1, PendingStays, RightStays DEF Keeping
  <1>3. PICK n \in DOMAIN disk : /\ bin \in DOMAIN binaries /\ binaries[bin] = n /\ Progs[n] = prog
                                 /\ prog \in Programs /\ prog # <<>> /\ Reads
    BY <1>1, ReadIs
  <1>4. status = "done" /\ Holds(out, Told)
    BY <1>1, <1>3 DEF Keeping, Loaded, Reads, TypeOK
  <1>5. PICK p, R : p = prog /\ R = out /\ p \in Programs /\ Told = Rows(p) /\ Holds(R, Rows(p))
    BY <1>3, <1>4 DEF Told
  <1>6. Progs' = Progs
    BY <1>1, AllStay
  <1>7. Loaded'
    BY <1>1, <1>3, <1>5, <1>6 DEF Loaded
  <1>8. Traced'
    <2>1. ASSUME NEW a \in DOMAIN R PROVE \E b \in DOMAIN binaries : Origin(R, Progs[binaries[b]], a)
      <3>1. CASE a \in Addrs(Told)
        <4>1. Origin(R, p, a)
          BY <1>5, <3>1, HeldFrom
        <4> QED
          BY <1>3, <1>5, <4>1
      <3>2. CASE a \notin Addrs(Told)
        BY <1>5, <3>2 DEF Keeping, Traced
      <3> QED
        BY <3>1, <3>2
    <2> QED
      BY <1>1, <1>5, <1>6, <2>1 DEF Traced
  <1> QED
    BY <1>2, <1>7, <1>8 DEF Keeping

LEMMA LookupKeeps ==
    ASSUME Types, Stage, WellPlaced, Origins, Keeping, Lookup
    PROVE  Keeping'
  <1>1. doing = "lookup" /\ Chosen /\ out' = out /\ binaries' = binaries
    BY DEF Lookup, vars
  <1>2. Traced'
    BY <1>1, TracedStays DEF Keeping
  <1>3. PICK a, known, loc :
           /\ a = SlidBack(Frame) /\ known = (out = NoRows \/ Known(a))
           /\ loc = IF Known(a) THEN FindLocation(a) ELSE Nothing
    OBVIOUS
  <1>4. /\ \/ known /\ (IF loc = Nothing THEN NextBinary ELSE Locate(loc))
           \/ ~known /\ (NextBinary \/ \E b \in DOMAIN out : Locate(out[b]))
        /\ defined' = (defined /\ known)
    BY <1>3 DEF Lookup
  <1>5. a = Backs[Current] /\ Seen' = Seen /\ Files' = Files /\ RowsIn' = RowsIn /\ Backs' = Backs /\ trace' = trace
    BY <1>1, <1>3, CurrentIs, AllStay DEF Chosen
  <1>6. CASE NextBinary /\ (defined' => defined /\ known /\ loc = Nothing)
    <2>1. bin' = bin + 1 /\ doing' = "binary" /\ located' = located /\ (defined' => defined)
      BY <1>6 DEF NextBinary
    <2>2. Loaded' /\ Right'
      BY <1>1, <2>1, RightStays DEF Keeping, Loaded
    <2>3. PICK i, k : i = trace[Current].image /\ k = Current /\ Current' = k
      BY <2>1 DEF Current
    <2>4. ASSUME i \in Seen PROVE \E b \in DOMAIN binaries : binaries[b] \in Files[i]
      BY <1>1, <2>3, <2>4 DEF Keeping, Pending
    <2>5. ASSUME i \in Seen, defined', NEW b \in 1 .. bin, binaries[b] \in Files[i]
          PROVE  Located(RowsIn[i], a) = Nothing
      <3>1. defined /\ known /\ loc = Nothing
        BY <1>6, <2>5
      <3>2. CASE b = bin
        <4>1. Known(a) => FindLocation(a) = Nothing
          BY <1>3, <3>1
        <4>2. binaries[bin] \in Files[i]
          BY <2>5, <3>2
        <4> QED
          BY <1>1, <1>5, <2>3, <2>5, <4>1, <4>2, NothingRight DEF Keeping
      <3>3. CASE b # bin
        <4>1. b \in 1 .. bin - 1
          BY <3>3, BinariesAre
        <4> QED
          BY <1>1, <1>5, <2>3, <2>5, <3>1, <4>1 DEF Keeping, Pending
      <3> QED
        BY <3>2, <3>3
    <2>6. bin' - 1 = bin
      BY <2>1, BinariesAre
    <2>7. Pending'
      BY <1>1, <1>5, <2>3, <2>4, <2>5, <2>6 DEF Pending
    <2> QED
      BY <1>2, <2>2, <2>7 DEF Keeping
  <1>7. ASSUME NEW l, Locate(l), defined' => defined /\ l = Shows[Current] PROVE Keeping'
    <2>1. located' = Append(located, l) /\ doing' = "frame"
      BY <1>7 DEF Locate
    <2>2. Right'
      BY <1>1, <1>7, <2>1, RightAppends DEF Keeping
    <2> QED
      BY <1>2, <2>1, <2>2 DEF Keeping, Loaded, Pending
  <1>8. CASE known
    <2>1. CASE loc = Nothing
      BY <1>4, <1>6, <1>8, <2>1
    <2>2. CASE loc # Nothing
      <3>1. Known(a) /\ FindLocation(a) = loc /\ FindLocation(a) # Nothing
        BY <1>3, <2>2
      <3>2. loc = Shows[Current]
        BY <1>1, <1>5, <3>1, FoundRight DEF Keeping
      <3>3. Locate(loc) /\ (defined' => defined)
        BY <1>4, <1>8, <2>2
      <3> QED
        BY <1>7, <3>2, <3>3
    <2> QED
      BY <2>1, <2>2
  <1>9. CASE ~ known
    <2>1. ~ defined'
      BY <1>4, <1>9
    <2>2. NextBinary \/ \E b \in DOMAIN out : Locate(out[b])
      BY <1>4, <1>9
    <2> QED
      BY <1>6, <1>7, <2>1, <2>2
  <1> QED
    BY <1>8, <1>9

LEMMA NotFoundKeeps ==
    ASSUME Types, Stage, WellPlaced, Keeping, NotFound
    PROVE  Keeping'
  <1>1. /\ doing = "binary" /\ bin > Len(binaries) /\ Chosen /\ out' = out /\ binaries' = binaries
        /\ located' = Append(located, Nothing) /\ doing' = "frame" /\ defined' = defined
    BY DEF NotFound, vars, Locate
  <1>2. Traced' /\ Loaded' /\ Pending'
    BY <1>1, TracedStays DEF Keeping, Loaded, Pending
  <1>3. ASSUME defined PROVE Nothing = Shows[Current]
    <2>1. PICK k, i : k = Current /\ i = trace[k].image /\ k \in DOMAIN trace /\ i # NoImage
      BY <1>1, CurrentIs
    <2>2. Shows[k] = IF i \in Seen /\ slide[i] = slide[Main] THEN Located(RowsIn[i], trace[k].at) ELSE Nothing
      BY <2>1 DEF Shows
    <2>3. CASE ~ (i \in Seen /\ slide[i] = slide[Main])
      BY <2>1, <2>2, <2>3
    <2>4. CASE i \in Seen /\ slide[i] = slide[Main]
      <3>1. PICK b \in DOMAIN binaries : binaries[b] \in Files[i]
        BY <1>1, <2>1, <2>4 DEF Keeping, Pending
      <3>2. b \in 1 .. bin - 1
        BY <1>1, BinariesAre
      <3>3. Located(RowsIn[i], Backs[k]) = Nothing
        BY <1>1, <1>3, <2>1, <2>4, <3>1, <3>2 DEF Keeping, Pending
      <3>4. Backs[k] = trace[k].at
        BY <2>1, <2>4, BackIs DEF Types
      <3> QED
        BY <2>1, <2>2, <2>4, <3>3, <3>4
    <2> QED
      BY <2>3, <2>4
  <1>4. Right'
    BY <1>1, <1>3, RightAppends DEF Keeping
  <1> QED
    BY <1>2, <1>4 DEF Keeping

LEMMA StutterKeeps ==
    ASSUME Keeping, UNCHANGED <<vars, resolverVars>>
    PROVE  Keeping'
  <1>1. /\ Chosen /\ out' = out /\ binaries' = binaries /\ bin' = bin /\ located' = located /\ doing' = doing
        /\ defined' = defined /\ status' = status /\ Told' = Told
    BY DEF vars, resolverVars, Chosen, Told
  <1>2. /\ Progs' = Progs /\ Files' = Files /\ RowsIn' = RowsIn /\ Backs' = Backs /\ Seen' = Seen
        /\ trace' = trace /\ Current' = Current
    BY <1>1, AllStay DEF Chosen, Current
  <1>3. Right'
    BY <1>1, RightStays DEF Keeping
  <1>4. Traced' /\ Loaded'
    BY <1>1, <1>2 DEF Keeping, Traced, Loaded
  <1>5. Pending'
    BY <1>1, <1>2 DEF Keeping, Pending
  <1> QED
    BY <1>3, <1>4, <1>5 DEF Keeping

LEMMA ChosenStays ==
    ASSUME [ResolverNext]_<<vars, resolverVars>>
    PROVE  Chosen
  BY DEF ResolverNext, Unresolved, FindBinaries, GetLocations, EvalLineProg, Evaluated, Lookup, NotFound, Resolved,
     resolverVars, Chosen

\* A frame in an image that is slid as the program is gets the row of that
\* image its code belongs to, and every other gets none, whatever the map has
\* gathered: for every list of load commands, slides and trace in which no image
\* is within another's code, and every line program, one to a .debug_line, that
\* the code reads to its end for what it is (StackTrace.h:40-139).
THEOREM LocatesItsOwn == ResolverSpec => []LocatesOwn
  <1> DEFINE RInv == Types /\ Stage /\ Origins /\ (WellPlaced => Keeping)
  <1>1. ResolverInit => RInv
    BY ResolverInitTyped, InitKept
  <1>2. RInv /\ [ResolverNext]_<<vars, resolverVars>> => RInv'
    <2> SUFFICES ASSUME Types, Stage, Origins, WellPlaced => Keeping, [ResolverNext]_<<vars, resolverVars>>
                 PROVE  RInv'
      OBVIOUS
    <2>1. Types' /\ Stage' /\ Origins'
      BY ResolverNextTyped, OriginsStay
    <2>2. ASSUME WellPlaced, Keeping PROVE Keeping'
      <3>1. CASE UNCHANGED <<vars, resolverVars>>
        BY <2>2, <3>1, StutterKeeps
      <3>2. CASE Unresolved
        BY <2>2, <3>2, UnresolvedKeeps
      <3>3. CASE FindBinaries
        BY <2>2, <3>3, FindBinariesKeeps
      <3>4. CASE GetLocations
        BY <2>2, <3>4, GetLocationsKeeps
      <3>5. CASE EvalLineProg
        BY <2>2, <3>5, EvalKeeps
      <3>6. CASE Evaluated
        BY <2>2, <3>6, EvaluatedKeeps
      <3>7. CASE Lookup
        BY <2>2, <3>7, LookupKeeps
      <3>8. CASE NotFound
        BY <2>2, <3>8, NotFoundKeeps
      <3>9. CASE Resolved
        <4>1. UNCHANGED <<vars, resolverVars>>
          BY <3>9 DEF Resolved
        <4> QED
          BY <3>1, <4>1
      <3> QED
        BY <3>1, <3>2, <3>3, <3>4, <3>5, <3>6, <3>7, <3>8, <3>9 DEF ResolverNext
    <2>3. WellPlaced' <=> WellPlaced
      BY ChosenStays, PlacedStays
    <2> QED
      BY <2>1, <2>2, <2>3
  <1>3. RInv => LocatesOwn
    <2> SUFFICES ASSUME RInv, defined, WellPlaced, NEW k \in DOMAIN located, NEW i, i = trace[k].image
                 PROVE  located[k] =
                           IF i \in Debugged /\ Found(i) /\ slide[i] = slide[Main]
                           THEN Located(RowsOf(i), trace[k].at) ELSE Nothing
      BY DEF LocatesOwn
    <2>1. located[k] = Shows[k]
      BY DEF Keeping, Right
    <2>2. k \in DOMAIN trace
      <3>1. PICK m, n : m = Len(located) /\ n = Len(trace) /\ m \in Nat /\ n \in Nat /\ m <= n
                        /\ DOMAIN located = 1 .. m /\ DOMAIN trace = 1 .. n
        BY Appends, TraceMade DEF Types
      <3> QED
        BY <3>1
    <2>3. i \in Seen <=> i \in Debugged /\ Found(i)
      BY DEF Seen
    <2>4. i \in Debugged => RowsIn[i] = RowsOf(i)
      BY DEF RowsIn, Debugged
    <2> QED
      BY <2>1, <2>2, <2>3, <2>4 DEF Shows
  <1> QED
    BY <1>1, <1>2, <1>3, PTL DEF ResolverSpec

=============================================================================
