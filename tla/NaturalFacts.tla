---------------------------- MODULE NaturalFacts ----------------------------
(* Facts about the natural numbers that proofs in several modules rest on. *)
EXTENDS Naturals, NaturalsInduction, WellFoundedInduction, TLAPS

\* Where an operator chooses the first position of some kind, there is one.
LEMMA Least ==
    ASSUME NEW S, S \subseteq Nat, S # {}
    PROVE  \E i \in S : \A j \in S : i <= j
  <1>1. PICK i \in S : \A j \in S : <<j, i>> \notin OpToRel(<, Nat)
    BY NatLessThanWellFounded, WFMin
  <1>2. \A j \in S : ~ (j < i)
    BY <1>1 DEF OpToRel
  <1> QED
    BY <1>2

LEMMA Greatest ==
    ASSUME NEW n \in Nat, NEW S, S \subseteq 0 .. n, S # {}
    PROVE  \E i \in S : \A j \in S : j <= i
  <1> DEFINE U == {m \in Nat : \A j \in S : j <= m}
  <1>1. U \subseteq Nat /\ n \in U
    OBVIOUS
  <1>2. PICK m \in U : \A k \in U : m <= k
    <2> HIDE DEF U
    <2> QED
      BY <1>1, Least
  <1>3. m \in Nat /\ \A j \in S : j \in Nat /\ j <= m
    OBVIOUS
  <1>4. m \in S
    <2> SUFFICES ASSUME m \notin S PROVE FALSE
      OBVIOUS
    <2>1. \A j \in S : j <= m - 1
      BY <1>3
    <2>2. m - 1 \in U
      <3>1. PICK j \in S : j \in Nat /\ j <= m - 1
        BY <1>3, <2>1
      <3>2. m - 1 \in Nat
        BY <1>3, <3>1
      <3> QED
        BY <2>1, <3>2
    <2> HIDE DEF U
    <2> QED
      BY <1>2, <1>3, <2>2
  <1> QED
    BY <1>3, <1>4

\* What may be done next, at each step.
Stepping(S) == [Nat -> [S -> S]]
SteppingTo(n, S) == [1 .. n -> [S -> S]]

\* h is the first m steps from a.
Steps(h, m, a, step, S) ==
    /\ h \in [0 .. m -> S]
    /\ h[0] = a
    /\ \A k \in 0 .. m - 1 : h[k + 1] = step[k][h[k]]

LEMMA StepsSame ==
    ASSUME NEW S, NEW a \in S, NEW step \in [Nat -> [S -> S]], NEW m \in Nat, NEW n \in Nat, m <= n,
           NEW f, NEW g, Steps(f, m, a, step, S), Steps(g, n, a, step, S)
    PROVE  \A k \in 0 .. m : f[k] = g[k]
  <1> DEFINE T == {k \in 0 .. m : f[k] # g[k]}
  <1> SUFFICES ASSUME T # {} PROVE FALSE
    OBVIOUS
  <1>1. T \subseteq Nat
    OBVIOUS
  <1>2. PICK k \in T : \A j \in T : k <= j
    <2> HIDE DEF T
    <2> QED
      BY <1>1, Least
  <1>3. k \in 0 .. m /\ f[k] # g[k]
    OBVIOUS
  <1>4. k # 0
    BY <1>3 DEF Steps
  <1>5. k - 1 \in 0 .. m /\ k - 1 \in 0 .. m - 1 /\ k - 1 \in 0 .. n - 1 /\ (k - 1) + 1 = k /\ ~ (k <= k - 1)
    BY <1>3, <1>4
  <1>6. f[k - 1] = g[k - 1]
    BY <1>2, <1>5
  <1> HIDE DEF T
  <1>7. f[k] = step[k - 1][f[k - 1]] /\ g[k] = step[k - 1][g[k - 1]]
    BY <1>5 DEF Steps
  <1> QED
    BY <1>3, <1>6, <1>7

LEMMA StepsSome ==
    ASSUME NEW S, NEW a \in S, NEW step \in [Nat -> [S -> S]], NEW n \in Nat
    PROVE  \E h : Steps(h, n, a, step, S)
  <1> DEFINE T == {m \in Nat : ~ \E h : Steps(h, m, a, step, S)}
  <1>1. T = {}
    <2> SUFFICES ASSUME T # {} PROVE FALSE
      OBVIOUS
    <2>1. T \subseteq Nat
      OBVIOUS
    <2>2. PICK m \in T : \A j \in T : m <= j
      <3> HIDE DEF T
      <3> QED
        BY <2>1, Least
    <2>3. m \in Nat /\ ~ \E h : Steps(h, m, a, step, S)
      OBVIOUS
    <2>4. CASE m = 0
      <3>1. Steps([k \in 0 .. 0 |-> a], 0, a, step, S)
        BY DEF Steps
      <3> QED
        BY <2>3, <2>4, <3>1
    <2>5. CASE m # 0
      <3>1. m - 1 \in Nat /\ ~ (m <= m - 1)
        BY <2>3, <2>5
      <3>2. PICK f : Steps(f, m - 1, a, step, S)
        BY <2>2, <3>1
      <3> HIDE DEF T
      <3> DEFINE v == step[m - 1][f[m - 1]]
                 g == [k \in 0 .. m |-> IF k = m THEN v ELSE f[k]]
      <3>3. v \in S
        <4>1. f[m - 1] \in S
          BY <3>1, <3>2 DEF Steps
        <4> QED
          BY <3>1, <4>1
      <3> HIDE DEF v
      <3>4. DOMAIN g = 0 .. m /\ g[m] = v /\ \A k \in 0 .. m - 1 : g[k] = f[k]
        BY <2>3, <3>1
      <3>5. g \in [0 .. m -> S]
        <4>1. \A k \in 0 .. m : k # m => f[k] \in S
          BY <2>3, <3>2 DEF Steps
        <4> QED
          BY <3>3, <4>1
      <3> HIDE DEF g
      <3>6. ASSUME NEW k \in 0 .. m - 1 PROVE g[k + 1] = step[k][g[k]]
        <4>1. CASE k = m - 1
          BY <2>3, <3>4, <4>1 DEF v
        <4>2. CASE k # m - 1
          <5>1. k \in 0 .. m - 1 - 1 /\ k + 1 \in 0 .. m - 1
            BY <2>3, <4>2
          <5>2. f[k + 1] = step[k][f[k]]
            BY <3>2, <5>1 DEF Steps
          <5> QED
            BY <3>4, <5>1, <5>2
        <4> QED
          BY <4>1, <4>2
      <3>7. g[0] = a
        BY <2>3, <2>5, <3>2, <3>4 DEF Steps
      <3>8. Steps(g, m, a, step, S)
        BY <3>5, <3>6, <3>7 DEF Steps
      <3> QED
        BY <2>3, <3>8
    <2> QED
      BY <2>4, <2>5
  <1> QED
    BY <1>1

\* f is what step makes of a, again and again.
Iterated(f, a, step, S) ==
    f \in [Nat -> S] /\ f[0] = a /\ \A k \in Nat : f[k + 1] = step[k][f[k]]

IteratedTo(f, n, a, step, S) ==
    f \in [1 .. n + 1 -> S] /\ f[1] = a /\ \A k \in 1 .. n : f[k + 1] = step[k][f[k]]

\* What is taken step by step from a exists.
LEMMA Iterates ==
    ASSUME NEW S, NEW a \in S, NEW step \in Stepping(S)
    PROVE  \E f : Iterated(f, a, step, S)
  <1>0. step \in [Nat -> [S -> S]]
    BY DEF Stepping
  <1> DEFINE H(m) == CHOOSE h : Steps(h, m, a, step, S)
             f == [m \in Nat |-> H(m)[m]]
  <1>1. \A m \in Nat : Steps(H(m), m, a, step, S)
    BY <1>0, StepsSome
  <1> HIDE DEF H
  <1>2. f \in [Nat -> S]
    <2>1. \A m \in Nat : H(m)[m] \in S
      BY <1>1 DEF Steps
    <2> QED
      BY <2>1
  <1>3. f[0] = a
    BY <1>1 DEF Steps
  <1>4. ASSUME NEW k \in Nat PROVE f[k + 1] = step[k][f[k]]
    <2>1. k + 1 \in Nat /\ k <= k + 1 /\ k \in 0 .. k /\ k \in 0 .. (k + 1) - 1
      OBVIOUS
    <2>2. Steps(H(k), k, a, step, S) /\ Steps(H(k + 1), k + 1, a, step, S)
      BY <1>1, <2>1
    <2>3. \A i \in 0 .. k : H(k)[i] = H(k + 1)[i]
      BY <1>0, <2>2, <2>1, StepsSame
    <2>4. H(k + 1)[k] = H(k)[k]
      BY <2>3, <2>1
    <2>5. H(k + 1)[k + 1] = step[k][H(k + 1)[k]]
      BY <1>1, <2>1 DEF Steps
    <2> QED
      BY <2>1, <2>4, <2>5
  <1> QED
    BY <1>2, <1>3, <1>4 DEF Iterated

LEMMA IteratesTo ==
    ASSUME NEW S, NEW a \in S, NEW n \in Nat, NEW step \in SteppingTo(n, S)
    PROVE  \E f : IteratedTo(f, n, a, step, S)
  <1> DEFINE same == [x \in S |-> x]
             st == [k \in Nat |-> IF k + 1 \in 1 .. n THEN step[k + 1] ELSE same]
  <1>1. same \in [S -> S]
    OBVIOUS
  <1> HIDE DEF same
  <1>2. st \in [Nat -> [S -> S]] /\ \A k \in 1 .. n : k - 1 \in Nat /\ st[k - 1] = step[k]
    BY <1>1 DEF SteppingTo
  <1> HIDE DEF st
  <1>3. PICK g : Iterated(g, a, st, S)
    <2>1. st \in Stepping(S)
      BY <1>2 DEF Stepping
    <2> QED
      BY <2>1, Iterates
  <1> DEFINE f == [k \in 1 .. n + 1 |-> g[k - 1]]
  <1>4. \A k \in 1 .. n + 1 : k - 1 \in Nat
    OBVIOUS
  <1>5. f \in [1 .. n + 1 -> S] /\ f[1] = a
    BY <1>3, <1>4 DEF Iterated
  <1>6. ASSUME NEW k \in 1 .. n PROVE f[k + 1] = step[k][f[k]]
    <2>1. k \in 1 .. n + 1 /\ k + 1 \in 1 .. n + 1 /\ (k + 1) - 1 = (k - 1) + 1 /\ k - 1 \in Nat
      OBVIOUS
    <2>2. f[k] = g[k - 1] /\ f[k + 1] = g[(k - 1) + 1]
      BY <2>1
    <2> QED
      BY <1>2, <1>3, <2>1, <2>2 DEF Iterated
  <1> QED
    BY <1>5, <1>6 DEF IteratedTo

=============================================================================
