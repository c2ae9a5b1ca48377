----------------------------- MODULE ListProofs -----------------------------
(***************************************************************************)
(* Theorems about LinkedList, for any lists, iterators, nodes and items:   *)
(* no sequence of pushes, copies and loops ever links nodes in a ring; a   *)
(* list holds what was pushed to it; and a loop over it misses nothing.    *)
(*                                                                         *)
(* A ring could close only where next_ is set: of a new node, to nodes     *)
(* already there, or of the last node, to a new one.  The first needs that *)
(* what is there does not lead to the new node, so the invariant IInv adds *)
(* that a node nobody owns points nowhere.                                 *)
(*                                                                         *)
(* What a list holds is read off along its chain, and the operators that   *)
(* do so are recursive in how many steps remain.  So HInv adds that every  *)
(* chain has an end that is a whole number of steps away (Ranked), that    *)
(* front_ leads to back_ and no further, that lists which share no node    *)
(* do not lead to each other's, so that a push to one is none to the       *)
(* other, and that an iterator stands on the chain of its list, with what  *)
(* it has met behind it and the rest ahead.                                *)
(***************************************************************************)
EXTENDS LinkedList, NaturalFacts, SequenceTheorems

NoRing(nx) == \A n \in Node : nx[n] # Null => n \notin Reached({nx[n]}, nx)

DeadPointNowhere == \A n \in Node : n \notin Alive => next[n] = Null

IInv == TypeOK /\ Acyclic /\ DeadPointNowhere

Links == [Node -> Node \cup {Null}]

-----------------------------------------------------------------------------
(* What handles lead to.                                                   *)

LEMMA ReachedLeast ==
    ASSUME NEW R, NEW nx, NEW S \in SUBSET Node, R \ {Null} \subseteq S, Closed(S, nx)
    PROVE  Reached(R, nx) \subseteq S
  BY DEF Reached

LEMMA ReachedRoots ==
    ASSUME NEW R \in SUBSET (Node \cup {Null}), NEW nx
    PROVE  R \ {Null} \subseteq Reached(R, nx) /\ Reached(R, nx) \subseteq Node
  BY DEF Reached

LEMMA ReachedClosed ==
    ASSUME NEW R, NEW nx \in Links
    PROVE  Closed(Reached(R, nx), nx)
  <1> SUFFICES ASSUME NEW n \in Reached(R, nx), nx[n] # Null
               PROVE  nx[n] \in Reached(R, nx)
    BY DEF Closed
  <1>1. n \in Node /\ nx[n] \in Node
    BY NullAssumption DEF Reached, Links
  <1>2. ASSUME NEW S \in SUBSET Node, R \ {Null} \subseteq S, Closed(S, nx)
        PROVE  nx[n] \in S
    <2>1. n \in S
      BY <1>2 DEF Reached
    <2> QED
      BY <1>2, <2>1 DEF Closed
  <1> QED
    BY <1>1, <1>2 DEF Reached

\* Destroying what nobody owns closes no ring, and leaves the dead without
\* a next_.
LEMMA SettleKeeps ==
    ASSUME NEW nx \in Links, NEW dt \in [Node -> Item \cup {Null}], NoRing(nx),
           Roots' \subseteq Node \cup {Null}, Settle(nx, dt)
    PROVE  /\ next' \in Links /\ data' \in [Node -> Item \cup {Null}]
           /\ Acyclic' /\ DeadPointNowhere'
  <1> DEFINE kept == Reached(Roots', nx)
  <1>0. kept \in SUBSET Node /\ Roots' \ {Null} \subseteq kept
    BY ReachedRoots
  <1>1. /\ next' = [n \in Node |-> IF n \in kept THEN nx[n] ELSE Null]
        /\ data' = [n \in Node |-> IF n \in kept THEN dt[n] ELSE Null]
    BY DEF Settle
  <1>2. next' \in Links /\ data' \in [Node -> Item \cup {Null}]
    BY <1>1 DEF Links
  <1>c. Closed(kept, nx)
    BY ReachedClosed
  <1> HIDE DEF kept
  <1>3. Acyclic'
    <2> SUFFICES ASSUME NEW n \in Node, next'[n] # Null
                 PROVE  n \notin Reached({next'[n]}, next')
      BY DEF Acyclic
    <2>1. next'[n] = nx[n] /\ nx[n] \in Node
      BY <1>1 DEF Links
    <2> DEFINE S == Reached({nx[n]}, nx)
    <2>2. S \in SUBSET Node /\ {nx[n]} \ {Null} \subseteq S /\ Closed(S, nx) /\ n \notin S
      BY <2>1, ReachedRoots, ReachedClosed DEF NoRing
    <2> HIDE DEF S
    <2>3. Closed(S, next')
      BY <1>1, <2>2 DEF Closed
    <2>4. Reached({next'[n]}, next') \subseteq S
      BY <2>1, <2>2, <2>3, ReachedLeast
    <2> QED
      BY <2>2, <2>4
  <1>4. DeadPointNowhere'
    <2> SUFFICES ASSUME NEW n \in Node, n \in kept PROVE n \in Alive'
      BY <1>1 DEF DeadPointNowhere
    <2>1. ASSUME NEW S \in SUBSET Node, Roots' \ {Null} \subseteq S, Closed(S, next')
          PROVE  n \in S
      <3>1. Closed(S \cap kept, nx)
        BY <1>1, <1>0, <1>c, <2>1 DEF Closed
      <3>2. Reached(Roots', nx) \subseteq S \cap kept
        BY <1>0, <2>1, <3>1, ReachedLeast
      <3> QED
        BY <3>2 DEF kept
    <2> QED
      BY <2>1 DEF Alive, Reached
  <1> QED
    BY <1>2, <1>3, <1>4

-----------------------------------------------------------------------------
(* The two ways to set a next_.                                            *)

\* A new first node points at a node that does not lead to it.
LEMMA LinkBefore ==
    ASSUME IInv, NEW n \in Node, n \notin Alive, NEW m \in Node \cup {Null},
           m # Null => m \in Alive
    PROVE  NoRing([next EXCEPT ![n] = m])
  <1> DEFINE nx == [next EXCEPT ![n] = m]
  <1>t. next \in Links /\ nx \in Links /\ Roots \subseteq Node \cup {Null}
    BY DEF IInv, TypeOK, Links, Roots
  <1>a. Alive \in SUBSET Node /\ Closed(Alive, next)
    BY <1>t, ReachedRoots, ReachedClosed DEF Alive
  <1>1. SUFFICES ASSUME NEW k \in Node, nx[k] # Null
                 PROVE  k \notin Reached({nx[k]}, nx)
    BY DEF NoRing
  <1>2. CASE k = n
    <2>1. nx[k] = m /\ m \in Alive
      BY <1>t, <1>1, <1>2 DEF Links
    <2>2. Closed(Alive, nx)
      BY <1>t, <1>a DEF Closed, Links
    <2>3. Reached({m}, nx) \subseteq Alive
      BY <1>a, <2>1, <2>2, ReachedLeast
    <2> QED
      BY <1>2, <2>1, <2>3
  <1>3. CASE k # n
    <2> DEFINE S == Reached({next[k]}, next)
    <2>1. nx[k] = next[k] /\ next[k] \in Node
      BY <1>t, <1>1, <1>3 DEF Links
    <2>2. S \in SUBSET Node /\ {next[k]} \ {Null} \subseteq S /\ Closed(S, next) /\ k \notin S
      BY <1>t, <1>1, <2>1, ReachedRoots, ReachedClosed DEF IInv, Acyclic
    <2>3. n \notin S
      <3>1. k \in Alive
        BY <1>1, <2>1 DEF IInv, DeadPointNowhere
      <3>2. {next[k]} \ {Null} \subseteq Alive
        BY <1>a, <2>1, <3>1 DEF Closed
      <3>3. S \subseteq Alive
        BY <1>a, <3>2, ReachedLeast
      <3> QED
        BY <3>3
    <2> HIDE DEF S
    <2>4. Closed(S, nx)
      BY <1>t, <2>2, <2>3 DEF Closed, Links
    <2>5. Reached({next[k]}, nx) \subseteq S
      BY <2>2, <2>4, ReachedLeast
    <2> QED
      BY <2>1, <2>2, <2>5
  <1> QED
    BY <1>2, <1>3

\* A new last node points nowhere.
LEMMA LinkAfter ==
    ASSUME IInv, NEW n \in Node, n \notin Alive, NEW b \in Alive
    PROVE  NoRing([next EXCEPT ![b] = n])
  <1> DEFINE nx == [next EXCEPT ![b] = n]
  <1>t. next \in Links /\ b \in Node /\ b # n /\ Roots \subseteq Node \cup {Null}
        /\ next[n] = Null
    <2>1. next \in Links /\ Roots \subseteq Node \cup {Null}
      BY DEF IInv, TypeOK, Links, Roots
    <2> QED
      BY <2>1, ReachedRoots DEF IInv, DeadPointNowhere, Alive
  <1>n. nx \in Links /\ nx[b] = n /\ nx[n] = Null /\ \A k \in Node : k # b => nx[k] = next[k]
    BY <1>t DEF Links
  <1> HIDE DEF nx
  <1>1. SUFFICES ASSUME NEW k \in Node, nx[k] # Null
                 PROVE  k \notin Reached({nx[k]}, nx)
    BY DEF NoRing, nx
  <1>2. CASE k = b
    <2>1. Closed({n}, nx)
      BY <1>n DEF Closed
    <2>2. Reached({n}, nx) \subseteq {n}
      BY <2>1, ReachedLeast
    <2> QED
      BY <1>t, <1>n, <1>2, <2>2
  <1>3. CASE k # b
    <2> DEFINE S == Reached({next[k]}, next)
    <2>1. nx[k] = next[k] /\ next[k] \in Node /\ k # n
      BY <1>t, <1>n, <1>1, <1>3 DEF Links
    <2>2. S \in SUBSET Node /\ {next[k]} \ {Null} \subseteq S /\ Closed(S, next) /\ k \notin S
      BY <1>t, <1>1, <2>1, ReachedRoots, ReachedClosed DEF IInv, Acyclic
    <2> HIDE DEF S
    <2>3. Closed(S \cup {n}, nx)
      BY <1>n, <2>2 DEF Closed
    <2>4. Reached({next[k]}, nx) \subseteq S \cup {n}
      BY <2>2, <2>3, ReachedLeast
    <2> QED
      BY <2>1, <2>2, <2>4
  <1> QED
    BY <1>2, <1>3

-----------------------------------------------------------------------------
(* The steps.                                                              *)

LEMMA Owned ==
    ASSUME TypeOK, NEW l \in List
    PROVE  /\ front[l] # Null => front[l] \in Alive
           /\ back[l] # Null => back[l] \in Alive
  <1>1. Roots \subseteq Node \cup {Null} /\ front[l] \in Roots /\ back[l] \in Roots
    BY DEF Roots, TypeOK
  <1> QED
    BY <1>1, ReachedRoots DEF Alive

LEMMA InitIInv == Init => IInv
  <1> SUFFICES ASSUME Init PROVE IInv
    OBVIOUS
  <1>1. TypeOK
    BY DEF Init, TypeOK
  <1> QED
    BY <1>1 DEF Init, IInv, Acyclic, DeadPointNowhere

LEMMA StepIInv == IInv /\ [Next]_vars => IInv'
  <1> SUFFICES ASSUME IInv, [Next]_vars PROVE IInv'
    OBVIOUS
  <1>t. TypeOK /\ next \in Links /\ data \in [Node -> Item \cup {Null}] /\ NoRing(next)
    BY DEF IInv, TypeOK, Links, Acyclic, NoRing
  \* The handles keep their types, and what they lead to is settled.
  <1>k. ASSUME NEW nx \in Links, NEW dt \in [Node -> Item \cup {Null}], NoRing(nx),
               Settle(nx, dt),
               front' \in [List -> Node \cup {Null}],
               back' \in [List -> Node \cup {Null}],
               cursor' \in [Iter -> Node \cup {Null}],
               shared' \subseteq List, over' \in [Iter -> List \cup {Null}]
        PROVE  IInv'
    <2>1. Roots' \subseteq Node \cup {Null}
      BY <1>k DEF Roots
    <2>2. next' \in Links /\ data' \in [Node -> Item \cup {Null}]
          /\ Acyclic' /\ DeadPointNowhere'
      BY <1>k, <2>1, SettleKeeps
    <2> QED
      BY <1>k, <2>2 DEF IInv, TypeOK, Links
  <1>1. ASSUME NEW l \in List, NEW x \in Item, PushFront(l, x) PROVE IInv'
    <2>1. PICK n \in Node \ Alive :
             /\ front' = [front EXCEPT ![l] = n]
             /\ back' = [back EXCEPT ![l] = IF @ = Null THEN n ELSE @]
             /\ cursor' = cursor
             /\ Settle([next EXCEPT ![n] = front[l]], [data EXCEPT ![n] = x])
             /\ UNCHANGED <<shared, over>>
      BY <1>1 DEF PushFront
    <2>2. front[l] \in Node \cup {Null} /\ (front[l] # Null => front[l] \in Alive)
      BY <1>t, Owned DEF TypeOK
    <2>3. NoRing([next EXCEPT ![n] = front[l]])
      BY <2>2, LinkBefore
    <2>4. /\ [next EXCEPT ![n] = front[l]] \in Links
          /\ [data EXCEPT ![n] = x] \in [Node -> Item \cup {Null}]
      BY <1>t, <2>2 DEF Links
    <2>5. /\ front' \in [List -> Node \cup {Null}]
          /\ back' \in [List -> Node \cup {Null}]
          /\ cursor' \in [Iter -> Node \cup {Null}]
          /\ shared' \subseteq List /\ over' \in [Iter -> List \cup {Null}]
      BY <1>t, <2>1 DEF TypeOK
    <2> QED
      BY <1>k, <2>1, <2>3, <2>4, <2>5
  <1>2. ASSUME NEW l \in List, NEW x \in Item, PushBack(l, x) PROVE IInv'
    <2>1. PICK n \in Node \ Alive :
             /\ front' = [front EXCEPT ![l] = IF @ = Null THEN n ELSE @]
             /\ back' = [back EXCEPT ![l] = n]
             /\ cursor' = cursor
             /\ Settle(IF back[l] = Null THEN next ELSE [next EXCEPT ![back[l]] = n],
                       [data EXCEPT ![n] = x])
             /\ UNCHANGED <<shared, over>>
      BY <1>2 DEF PushBack
    <2> DEFINE nx == IF back[l] = Null THEN next ELSE [next EXCEPT ![back[l]] = n]
    <2>2. NoRing(nx)
      <3>1. CASE back[l] = Null
        BY <1>t, <3>1
      <3>2. CASE back[l] # Null
        <4>1. NoRing([next EXCEPT ![back[l]] = n])
          BY <1>t, <3>2, Owned, LinkAfter
        <4> QED
          BY <3>2, <4>1
      <3> QED
        BY <3>1, <3>2
    <2>3. nx \in Links /\ [data EXCEPT ![n] = x] \in [Node -> Item \cup {Null}]
      BY <1>t DEF Links
    <2>4. /\ front' \in [List -> Node \cup {Null}]
          /\ back' \in [List -> Node \cup {Null}]
          /\ cursor' \in [Iter -> Node \cup {Null}]
          /\ shared' \subseteq List /\ over' \in [Iter -> List \cup {Null}]
      BY <1>t, <2>1 DEF TypeOK
    <2> HIDE DEF nx
    <2>5. Settle(nx, [data EXCEPT ![n] = x])
      BY <2>1 DEF nx
    <2> QED
      BY <1>k, <2>2, <2>3, <2>4, <2>5
  <1>3. ASSUME NEW l \in List, NEW r \in List, Copy(l, r) PROVE IInv'
    <2>1. Settle(next, data)
      BY <1>3 DEF Copy
    <2>2. /\ front' \in [List -> Node \cup {Null}]
          /\ back' \in [List -> Node \cup {Null}]
          /\ cursor' \in [Iter -> Node \cup {Null}]
          /\ shared' \subseteq List /\ over' \in [Iter -> List \cup {Null}]
      BY <1>t, <1>3 DEF Copy, Forget, TypeOK
    <2> QED
      BY <1>t, <1>k, <2>1, <2>2
  <1>4. ASSUME NEW l \in List, Destroy(l) PROVE IInv'
    <2>1. Settle(next, data)
      BY <1>4 DEF Destroy
    <2>2. /\ front' \in [List -> Node \cup {Null}]
          /\ back' \in [List -> Node \cup {Null}]
          /\ cursor' \in [Iter -> Node \cup {Null}]
          /\ shared' \subseteq List /\ over' \in [Iter -> List \cup {Null}]
      BY <1>t, <1>4 DEF Destroy, Forget, TypeOK
    <2> QED
      BY <1>t, <1>k, <2>1, <2>2
  <1>5. ASSUME NEW i \in Iter, NEW l \in List, Begin(i, l) PROVE IInv'
    <2>1. Settle(next, data)
      BY <1>5 DEF Begin
    <2>2. /\ front' \in [List -> Node \cup {Null}]
          /\ back' \in [List -> Node \cup {Null}]
          /\ cursor' \in [Iter -> Node \cup {Null}]
          /\ shared' \subseteq List /\ over' \in [Iter -> List \cup {Null}]
      BY <1>t, <1>5 DEF Begin, TypeOK
    <2> QED
      BY <1>t, <1>k, <2>1, <2>2
  <1>6. ASSUME NEW i \in Iter, Advance(i) PROVE IInv'
    <2>1. Settle(next, data)
      BY <1>6 DEF Advance
    <2>2. next[cursor[i]] \in Node \cup {Null}
      BY <1>t, <1>6 DEF Advance, TypeOK
    <2>3. /\ front' \in [List -> Node \cup {Null}]
          /\ back' \in [List -> Node \cup {Null}]
          /\ cursor' \in [Iter -> Node \cup {Null}]
          /\ shared' \subseteq List /\ over' \in [Iter -> List \cup {Null}]
      BY <1>t, <1>6, <2>2 DEF Advance, TypeOK
    <2> QED
      BY <1>t, <1>k, <2>1, <2>3
  <1>7. CASE UNCHANGED vars
    <2>1. TypeOK' /\ Acyclic'
      BY <1>7 DEF vars, IInv, TypeOK, Acyclic
    <2>2. DeadPointNowhere'
      BY <1>7 DEF vars, IInv, DeadPointNowhere, Alive, Roots
    <2> QED
      BY <2>1, <2>2 DEF IInv
  <1> QED
    BY <1>1, <1>2, <1>3, <1>4, <1>5, <1>6, <1>7 DEF Next

-----------------------------------------------------------------------------
(* The theorems.                                                           *)

\* Every handle and every next_ holds a node or none.
THEOREM TypeCorrect == Spec => []TypeOK
  <1>1. IInv => TypeOK
    BY DEF IInv
  <1> QED
    BY <1>1, InitIInv, StepIInv, PTL DEF Spec

\* Following next_ comes to an end, from any node, whatever lists share it:
\* every loop over a list terminates, and a list's nodes own none of their
\* owners, so they are all freed.
THEOREM NeverARing == Spec => []Acyclic
  <1>1. IInv => Acyclic
    BY DEF IInv
  <1> QED
    BY <1>1, InitIInv, StepIInv, PTL DEF Spec

-----------------------------------------------------------------------------
(* The items from a node on: From is the one function of its definition.   *)

Handle == Node \cup {Null}
Value == Item \cup {Null}

\* A measure of what is left of a chain.
Measures(r, nx) == r \in [Node -> Nat] /\ \A n \in Node : nx[n] # Null => r[nx[n]] < r[n]
Ranked(nx) == \E r : Measures(r, nx)

FromOf(nx, dt) ==
    CHOOSE f : f = [n \in Node \cup {Null} |-> IF n = Null THEN <<>> ELSE <<dt[n]>> \o f[nx[n]]]

LEMMA FromIs == From = FromOf(next, data) /\ From' = FromOf(next', data')
  BY DEF From, FromOf

\* f is what the definition says, as far as it goes.
Partly(f, nx, dt) ==
    /\ DOMAIN f \in SUBSET Handle /\ Null \in DOMAIN f
    /\ \A n \in DOMAIN f :
          IF n = Null THEN f[n] = <<>>
          ELSE nx[n] \in DOMAIN f /\ f[n] = <<dt[n]>> \o f[nx[n]]

\* Of the nodes with some property one has none after it.
LEMMA LastOf ==
    ASSUME NEW nx \in Links, Ranked(nx), NEW S \in SUBSET Node, S # {}
    PROVE  \E n \in S : nx[n] \notin S
  <1>1. PICK r : Measures(r, nx)
    BY DEF Ranked
  <1> DEFINE R == {r[n] : n \in S}
  <1>2. R \subseteq Nat /\ R # {}
    BY <1>1 DEF Measures
  <1>3. PICK k \in R : \A j \in R : k <= j
    <2> HIDE DEF R
    <2> QED
      BY <1>2, Least
  <1>4. PICK n \in S : k = r[n]
    BY <1>3
  <1>5. ASSUME nx[n] \in S PROVE FALSE
    <2>1. nx[n] \in Node /\ r[nx[n]] < r[n] /\ r[n] \in Nat /\ r[nx[n]] \in Nat
      BY <1>1, <1>5, NullAssumption DEF Measures
    <2>2. r[n] <= r[nx[n]]
      BY <1>3, <1>4, <1>5
    <2> QED
      BY <2>1, <2>2
  <1> QED
    BY <1>5

LEMMA PartlySame ==
    ASSUME NEW nx \in Links, Ranked(nx), NEW dt, NEW f, NEW g,
           Partly(f, nx, dt), Partly(g, nx, dt), NEW n \in DOMAIN f \cap DOMAIN g
    PROVE  f[n] = g[n]
  <1> DEFINE S == {m \in DOMAIN f \cap DOMAIN g : f[m] # g[m]}
  <1> SUFFICES ASSUME S # {} PROVE FALSE
    OBVIOUS
  <1>1. S \in SUBSET Node
    BY DEF Partly, Handle
  <1>2. PICK m \in S : nx[m] \notin S
    <2> HIDE DEF S
    <2> QED
      BY <1>1, LastOf
  <1>3. m \in Node /\ m # Null /\ nx[m] \in DOMAIN f \cap DOMAIN g
    BY <1>1, <1>2, NullAssumption DEF Partly
  <1> QED
    BY <1>2, <1>3 DEF Partly

LEMMA PartlyAll ==
    ASSUME NEW nx \in Links, Ranked(nx), NEW dt, NEW n \in Handle
    PROVE  \E f : Partly(f, nx, dt) /\ n \in DOMAIN f
  <1> DEFINE S == {m \in Node : ~ \E f : Partly(f, nx, dt) /\ m \in DOMAIN f}
  <1>1. \E f : Partly(f, nx, dt) /\ Null \in DOMAIN f
    <2> DEFINE f == [m \in {Null} |-> <<>>]
    <2>1. Partly(f, nx, dt)
      BY DEF Partly, Handle
    <2> QED
      BY <2>1
  <1>2. S = {}
    <2> SUFFICES ASSUME S # {} PROVE FALSE
      OBVIOUS
    <2>1. PICK m \in S : nx[m] \notin S
      <3>1. S \in SUBSET Node
        OBVIOUS
      <3> HIDE DEF S
      <3> QED
        BY <3>1, LastOf
    <2>2. nx[m] \in Handle /\ m \in Node /\ m # Null
      BY NullAssumption DEF Links, Handle
    <2>3. PICK f : Partly(f, nx, dt) /\ nx[m] \in DOMAIN f
      BY <1>1, <2>1, <2>2 DEF Handle
    <2>4. m \notin DOMAIN f
      BY <2>1, <2>3
    <2> DEFINE g == [k \in DOMAIN f \cup {m} |-> IF k = m THEN <<dt[m]>> \o f[nx[m]] ELSE f[k]]
    <2>5. DOMAIN g = DOMAIN f \cup {m} /\ g[m] = <<dt[m]>> \o f[nx[m]]
          /\ \A k \in DOMAIN f : g[k] = f[k]
      BY <2>4
    <2> HIDE DEF g
    <2>6. Partly(g, nx, dt)
      BY <2>2, <2>3, <2>5 DEF Partly, Handle
    <2> QED
      BY <2>1, <2>5, <2>6
  <1> QED
    BY <1>1, <1>2 DEF Handle

LEMMA FromEquation ==
    ASSUME NEW nx \in Links, Ranked(nx), NEW dt
    PROVE  /\ FromOf(nx, dt)[Null] = <<>>
           /\ \A n \in Node : FromOf(nx, dt)[n] = <<dt[n]>> \o FromOf(nx, dt)[nx[n]]
  <1> DEFINE At(n) == CHOOSE v : \E g : Partly(g, nx, dt) /\ n \in DOMAIN g /\ v = g[n]
             f == [n \in Node \cup {Null} |-> At(n)]
  <1>1. ASSUME NEW g, Partly(g, nx, dt), NEW n \in DOMAIN g
        PROVE  n \in Node \cup {Null} /\ f[n] = g[n]
    <2>1. n \in Node \cup {Null}
      BY <1>1 DEF Partly, Handle
    <2>2. PICK h : Partly(h, nx, dt) /\ n \in DOMAIN h /\ At(n) = h[n]
      BY <1>1
    <2> QED
      BY <1>1, <2>1, <2>2, PartlySame
  <1>2. ASSUME NEW n \in Node \cup {Null}
        PROVE  f[n] = IF n = Null THEN <<>> ELSE <<dt[n]>> \o f[nx[n]]
    <2>1. PICK g : Partly(g, nx, dt) /\ n \in DOMAIN g
      BY PartlyAll DEF Handle
    <2>2. f[n] = g[n]
      BY <1>1, <2>1
    <2>3. CASE n = Null
      BY <2>1, <2>2, <2>3 DEF Partly
    <2>4. CASE n # Null
      <3>1. nx[n] \in DOMAIN g /\ g[n] = <<dt[n]>> \o g[nx[n]]
        BY <2>1, <2>4 DEF Partly
      <3>2. f[nx[n]] = g[nx[n]]
        BY <1>1, <2>1, <3>1
      <3> QED
        BY <2>2, <2>4, <3>1, <3>2
    <2> QED
      BY <2>3, <2>4
  <1>d. f = [n \in Node \cup {Null} |-> f[n]]
    OBVIOUS
  <1> HIDE DEF f
  <1>3. f = [n \in Node \cup {Null} |-> IF n = Null THEN <<>> ELSE <<dt[n]>> \o f[nx[n]]]
    <2> DEFINE h == [n \in Node \cup {Null} |-> IF n = Null THEN <<>> ELSE <<dt[n]>> \o f[nx[n]]]
    <2>1. \A n \in Node \cup {Null} : h[n] = f[n]
      BY <1>2
    <2>2. h = [n \in Node \cup {Null} |-> h[n]]
      OBVIOUS
    <2> HIDE DEF h
    <2>3. h = f
      BY <1>d, <2>1, <2>2
    <2> QED
      BY <2>3 DEF h
  <1>4. FromOf(nx, dt) = [n \in Node \cup {Null} |->
                            IF n = Null THEN <<>> ELSE <<dt[n]>> \o FromOf(nx, dt)[nx[n]]]
    BY <1>3 DEF FromOf
  <1> QED
    BY <1>4, NullAssumption


LEMMA FromSeq ==
    ASSUME NEW nx \in Links, Ranked(nx), NEW dt \in [Node -> Value], NEW h \in Handle
    PROVE  FromOf(nx, dt)[h] \in Seq(Value)
  <1> DEFINE F == FromOf(nx, dt)
             S == {n \in Node : F[n] \notin Seq(Value)}
  <1>1. F[Null] = <<>> /\ \A n \in Node : F[n] = <<dt[n]>> \o F[nx[n]]
    BY FromEquation
  <1> HIDE DEF F
  <1>e. F[Null] \in Seq(Value)
    <2>1. <<>> \in Seq(Value)
      OBVIOUS
    <2> QED
      BY <1>1, <2>1
  <1>2. S = {}
    <2> SUFFICES ASSUME S # {} PROVE FALSE
      OBVIOUS
    <2>1. S \in SUBSET Node
      OBVIOUS
    <2>2. PICK m \in S : nx[m] \notin S
      <3> HIDE DEF S
      <3> QED
        BY <2>1, LastOf
    <2>3. F[nx[m]] \in Seq(Value)
      <3>1. CASE nx[m] = Null
        BY <1>e, <3>1
      <3>2. CASE nx[m] # Null
        <4>1. nx[m] \in Node
          BY <2>1, <3>2 DEF Links
        <4> QED
          BY <2>2, <4>1
      <3> QED
        BY <3>1, <3>2
    <2>4. dt[m] \in Value
      BY <2>1
    <2> DEFINE v == dt[m]
               w == F[nx[m]]
    <2>5. F[m] = <<v>> \o w /\ v \in Value /\ w \in Seq(Value)
      BY <1>1, <2>1, <2>3, <2>4
    <2> HIDE DEF v, w
    <2>6. F[m] \in Seq(Value)
      BY <2>5
    <2> QED
      BY <2>2, <2>6
  <1>3. F[h] \in Seq(Value)
    <2>1. \A n \in Node : F[n] \in Seq(Value)
      BY <1>2
    <2> QED
      BY <1>e, <2>1 DEF Handle
  <1> QED
    BY <1>3 DEF F

-----------------------------------------------------------------------------
(* What is reached, and read, when links change.                           *)

LEMMA ReachedWithin ==
    ASSUME NEW nx \in Links, NEW R \in SUBSET Handle, NEW S \in SUBSET Handle,
           R \ {Null} \subseteq Reached(S, nx)
    PROVE  Reached(R, nx) \subseteq Reached(S, nx)
  <1>1. Reached(S, nx) \in SUBSET Node /\ Closed(Reached(S, nx), nx)
    BY ReachedRoots, ReachedClosed DEF Handle
  <1> QED
    BY <1>1, ReachedLeast

\* A node leads to itself and to where its next_ leads.
LEMMA ReachedUnfold ==
    ASSUME NEW nx \in Links, NEW n \in Node
    PROVE  /\ n \in Reached({n}, nx)
           /\ Reached({n}, nx) \subseteq {n} \cup Reached({nx[n]}, nx)
           /\ Reached({nx[n]}, nx) \subseteq Reached({n}, nx)
  <1>1. n # Null /\ nx[n] \in Handle /\ {n} \in SUBSET Handle /\ {nx[n]} \in SUBSET Handle
    BY NullAssumption DEF Links, Handle
  <1>2. n \in Reached({n}, nx) /\ Closed(Reached({n}, nx), nx)
    BY <1>1, ReachedRoots, ReachedClosed DEF Handle
  <1>3. Reached({nx[n]}, nx) \subseteq Reached({n}, nx)
    BY <1>1, <1>2, ReachedWithin DEF Closed
  <1> DEFINE S == Reached({nx[n]}, nx)
  <1>4. S \in SUBSET Node /\ {nx[n]} \ {Null} \subseteq S /\ Closed(S, nx)
    BY <1>1, ReachedRoots, ReachedClosed DEF Handle
  <1> HIDE DEF S
  <1>5. Closed({n} \cup S, nx)
    BY <1>4 DEF Closed
  <1>6. Reached({n}, nx) \subseteq {n} \cup S
    BY <1>4, <1>5, ReachedLeast
  <1> QED
    BY <1>2, <1>3, <1>6 DEF S

LEMMA ReachedNull ==
    ASSUME NEW nx
    PROVE  Reached({Null}, nx) = {}
  <1>1. Closed({}, nx)
    BY DEF Closed
  <1> QED
    BY <1>1, ReachedLeast

\* Only the links of what is reached matter.
LEMMA ReachedSame ==
    ASSUME NEW nx \in Links, NEW ny \in Links, NEW R \in SUBSET Handle,
           \A n \in Reached(R, nx) : ny[n] = nx[n]
    PROVE  Reached(R, ny) = Reached(R, nx)
  <1> DEFINE S == Reached(R, nx)
             T == Reached(R, ny)
  <1>1. /\ S \in SUBSET Node /\ R \ {Null} \subseteq S /\ Closed(S, nx)
        /\ T \in SUBSET Node /\ R \ {Null} \subseteq T /\ Closed(T, ny)
        /\ \A n \in S : ny[n] = nx[n]
    BY ReachedRoots, ReachedClosed DEF Handle
  <1> HIDE DEF S, T
  <1>2. Closed(S, ny) /\ Closed(S \cap T, nx)
    BY <1>1 DEF Closed
  <1>3. T \subseteq S
    BY <1>1, <1>2, ReachedLeast DEF T
  <1>4. S \subseteq S \cap T
    BY <1>1, <1>2, ReachedLeast DEF S
  <1> QED
    BY <1>3, <1>4 DEF S, T

LEMMA FromSame ==
    ASSUME NEW nx \in Links, Ranked(nx), NEW ny \in Links, Ranked(ny),
           NEW dt, NEW du, NEW h \in Handle,
           \A n \in Reached({h}, nx) : ny[n] = nx[n] /\ du[n] = dt[n]
    PROVE  FromOf(ny, du)[h] = FromOf(nx, dt)[h]
  <1> DEFINE F == FromOf(nx, dt)
             G == FromOf(ny, du)
             C == Reached({h}, nx)
             S == {n \in C : G[n] # F[n]}
  <1>1. /\ F[Null] = <<>> /\ \A n \in Node : F[n] = <<dt[n]>> \o F[nx[n]]
        /\ G[Null] = <<>> /\ \A n \in Node : G[n] = <<du[n]>> \o G[ny[n]]
    <2> HIDE DEF F, G
    <2>1. F[Null] = <<>> /\ \A n \in Node : F[n] = <<dt[n]>> \o F[nx[n]]
      BY FromEquation DEF F
    <2>2. G[Null] = <<>> /\ \A n \in Node : G[n] = <<du[n]>> \o G[ny[n]]
      BY FromEquation DEF G
    <2> QED
      BY <2>1, <2>2
  <1> HIDE DEF F, G
  <1>2. C \in SUBSET Node /\ {h} \ {Null} \subseteq C /\ Closed(C, nx)
        /\ \A n \in C : ny[n] = nx[n] /\ du[n] = dt[n]
    BY ReachedRoots, ReachedClosed DEF Handle
  <1> HIDE DEF C
  <1>3. S = {}
    <2> SUFFICES ASSUME S # {} PROVE FALSE
      OBVIOUS
    <2>1. S \in SUBSET Node
      BY <1>2
    <2>2. PICK m \in S : nx[m] \notin S
      <3> HIDE DEF S
      <3> QED
        BY <2>1, LastOf
    <2>3. G[nx[m]] = F[nx[m]]
      BY <1>1, <1>2, <2>2 DEF Closed
    <2>4. m \in Node /\ ny[m] = nx[m] /\ du[m] = dt[m]
      BY <1>2, <2>1
    <2>5. F[m] = <<dt[m]>> \o F[nx[m]] /\ G[m] = <<dt[m]>> \o G[nx[m]]
      BY <1>1, <2>4
    <2> QED
      BY <2>2, <2>3, <2>5
  <1>4. G[h] = F[h]
    BY <1>1, <1>2, <1>3 DEF Handle
  <1> QED
    BY <1>4 DEF F, G

\* Of two nodes on one chain, the first leads to the other if that is the last.
LEMMA LeadsToEnd ==
    ASSUME NEW nx \in Links, NEW h \in Handle, NEW k \in Reached({h}, nx),
           NEW b \in Reached({h}, nx), nx[b] = Null
    PROVE  b \in Reached({k}, nx)
  <1> DEFINE C == Reached({h}, nx)
             T == {m \in C : b \in Reached({m}, nx)}
  <1>1. C \in SUBSET Node /\ {h} \ {Null} \subseteq C /\ Closed(C, nx)
    BY ReachedRoots, ReachedClosed DEF Handle
  <1>2. T \in SUBSET Node /\ {h} \ {Null} \subseteq T
    BY <1>1
  <1>3. ASSUME NEW m \in T, nx[m] # Null PROVE nx[m] \in T
    <2>1. nx[m] \in C /\ m \in Node /\ b # m
      BY <1>1, <1>3 DEF Closed
    <2>2. b \in Reached({nx[m]}, nx)
      BY <2>1, ReachedUnfold
    <2> QED
      BY <2>1, <2>2
  <1>4. Closed(T, nx)
    <2> HIDE DEF T
    <2> QED
      BY <1>3 DEF Closed
  <1>5. C \subseteq T
    <2> HIDE DEF T
    <2> QED
      BY <1>2, <1>4, ReachedLeast
  <1> QED
    BY <1>5

\* With a new last node, every item list on the chain ends in its item.
LEMMA FromAppend ==
    ASSUME NEW nx \in Links, Ranked(nx), NEW ny \in Links, Ranked(ny),
           NEW dt \in [Node -> Value], NEW du \in [Node -> Value],
           NEW h \in Handle, NEW b \in Reached({h}, nx), nx[b] = Null,
           NEW n \in Node, ny[b] = n, ny[n] = Null,
           \A k \in Reached({h}, nx) : (k # b => ny[k] = nx[k]) /\ du[k] = dt[k],
           NEW k \in Reached({h}, nx)
    PROVE  FromOf(ny, du)[k] = FromOf(nx, dt)[k] \o <<du[n]>>
  <1> DEFINE F == FromOf(nx, dt)
             G == FromOf(ny, du)
             C == Reached({h}, nx)
             x == du[n]
             S == {m \in C : G[m] # F[m] \o <<x>>}
  <1>1. /\ F[Null] = <<>> /\ \A m \in Node : F[m] = <<dt[m]>> \o F[nx[m]]
        /\ G[Null] = <<>> /\ \A m \in Node : G[m] = <<du[m]>> \o G[ny[m]]
    <2> HIDE DEF F, G
    <2>1. F[Null] = <<>> /\ \A m \in Node : F[m] = <<dt[m]>> \o F[nx[m]]
      BY FromEquation DEF F
    <2>2. G[Null] = <<>> /\ \A m \in Node : G[m] = <<du[m]>> \o G[ny[m]]
      BY FromEquation DEF G
    <2> QED
      BY <2>1, <2>2
  <1>2. \A m \in Handle : F[m] \in Seq(Value)
    BY FromSeq
  <1>3. x \in Value /\ \A m \in Node : dt[m] \in Value
    OBVIOUS
  <1>4. /\ C \in SUBSET Node /\ Closed(C, nx) /\ b \in C /\ k \in C
        /\ \A m \in C : (m # b => ny[m] = nx[m]) /\ du[m] = dt[m]
    <2>1. C \in SUBSET Node /\ Closed(C, nx)
      BY ReachedRoots, ReachedClosed DEF Handle
    <2> QED
      BY <2>1
  <1>5. \A m \in C : nx[m] = Null => m = b
    <2> SUFFICES ASSUME NEW m \in C, nx[m] = Null PROVE m = b
      OBVIOUS
    <2>1. b \in Reached({m}, nx)
      BY LeadsToEnd
    <2>2. m \in Node /\ Reached({nx[m]}, nx) = {}
      BY <1>4, ReachedNull
    <2> QED
      BY <2>1, <2>2, ReachedUnfold
  <1>6. <<>> \in Seq(Value) /\ <<x>> \in Seq(Value) /\ \A m \in Node : <<dt[m]>> \in Seq(Value)
    BY <1>3
  <1>x. x = du[n]
    OBVIOUS
  <1> HIDE DEF F, G, C, x
  <1>e. \A w \in Seq(Value) : w \o <<>> = w
    BY ConcatEmptySeq
  <1>7. G[n] = <<x>>
    <2>1. G[n] = <<du[n]>> \o G[ny[n]]
      BY <1>1
    <2>2. G[ny[n]] = <<>>
      BY <1>1
    <2>3. G[n] = <<x>> \o <<>>
      BY <1>x, <2>1, <2>2
    <2> QED
      BY <1>6, <1>e, <2>3
  <1>8. S = {}
    <2> SUFFICES ASSUME S # {} PROVE FALSE
      OBVIOUS
    <2>1. S \in SUBSET Node
      BY <1>4
    <2>2. PICK m \in S : nx[m] \notin S
      <3> HIDE DEF S
      <3> QED
        BY <2>1, LastOf
    <2>3. m \in C /\ m \in Node /\ G[m] # F[m] \o <<x>> /\ du[m] = dt[m]
      BY <1>4, <2>2
    <2>4. F[m] = <<dt[m]>> \o F[nx[m]] /\ G[m] = <<dt[m]>> \o G[ny[m]]
      BY <1>1, <2>3
    <2>5. CASE nx[m] = Null
      <3>1. m = b /\ G[m] = <<dt[m]>> \o <<x>>
        BY <1>5, <1>7, <2>3, <2>4, <2>5
      <3>2. F[m] = <<dt[m]>>
        <4>1. <<dt[m]>> \in Seq(Value) /\ F[m] = <<dt[m]>> \o <<>>
          BY <1>1, <1>6, <2>3, <2>4, <2>5
        <4> QED
          BY <1>e, <4>1
      <3> QED
        BY <2>3, <3>1, <3>2
    <2>6. CASE nx[m] # Null
      <3>1. nx[m] \in C /\ nx[m] \in Node
        BY <1>4, <2>3, <2>6 DEF Closed
      <3>2. m # b /\ ny[m] = nx[m] /\ G[nx[m]] = F[nx[m]] \o <<x>>
        BY <1>4, <2>2, <2>3, <2>6, <3>1
      <3>3. F[nx[m]] \in Seq(Value)
        BY <1>2, <3>1 DEF Handle
      <3>4. (<<dt[m]>> \o F[nx[m]]) \o <<x>> = <<dt[m]>> \o (F[nx[m]] \o <<x>>)
        <4>1. <<dt[m]>> \in Seq(Value) /\ <<x>> \in Seq(Value)
          BY <1>6, <2>3
        <4>2. \A s, t, u \in Seq(Value) : (s \o t) \o u = s \o (t \o u)
          BY ConcatAssociative
        <4> QED
          BY <3>3, <4>1, <4>2
      <3> QED
        BY <2>3, <2>4, <3>2, <3>4
    <2> QED
      BY <2>5, <2>6
  <1>9. G[k] = F[k] \o <<x>>
    BY <1>4, <1>8
  <1> QED
    BY <1>9 DEF F, G, x

\* The three ways links change keep a measure.
LEMMA RankedLess ==
    ASSUME NEW nx \in Links, Ranked(nx), NEW ny, \A n \in Node : ny[n] \in {nx[n], Null}
    PROVE  Ranked(ny)
  <1>1. PICK r : Measures(r, nx)
    BY DEF Ranked
  <1>2. Measures(r, ny)
    BY <1>1 DEF Measures
  <1> QED
    BY <1>2 DEF Ranked

LEMMA RankedBefore ==
    ASSUME NEW nx \in Links, Ranked(nx), NEW n \in Node, \A k \in Node : nx[k] # n,
           NEW m \in Handle, m # n
    PROVE  Ranked([nx EXCEPT ![n] = m])
  <1>1. PICK r : Measures(r, nx)
    BY DEF Ranked
  <1> DEFINE ny == [nx EXCEPT ![n] = m]
             q == [k \in Node |-> IF k # n THEN r[k] ELSE IF m = Null THEN 0 ELSE r[m] + 1]
  <1>2. ny[n] = m /\ \A k \in Node : k # n => ny[k] = nx[k]
    BY DEF Links
  <1>3. r \in [Node -> Nat] /\ \A k \in Node : nx[k] # Null => r[nx[k]] < r[k]
    BY <1>1 DEF Measures
  <1>4. q \in [Node -> Nat]
    BY <1>3 DEF Handle
  <1>5. ASSUME NEW k \in Node, ny[k] # Null PROVE q[ny[k]] < q[k]
    <2>1. CASE k = n
      <3>1. ny[k] = m /\ m \in Node /\ r[m] \in Nat
        BY <1>2, <1>3, <1>5, <2>1 DEF Handle
      <3>2. q[m] = r[m] /\ q[k] = r[m] + 1
        BY <1>5, <2>1, <3>1
      <3> QED
        BY <3>1, <3>2
    <2>2. CASE k # n
      <3>1. ny[k] = nx[k] /\ nx[k] # n /\ nx[k] \in Node
        BY <1>2, <1>5, <2>2 DEF Links
      <3>2. q[nx[k]] = r[nx[k]] /\ q[k] = r[k]
        BY <2>2, <3>1
      <3> QED
        BY <1>3, <1>5, <3>1, <3>2
    <2> QED
      BY <2>1, <2>2
  <1> HIDE DEF ny, q
  <1>6. Measures(q, ny)
    BY <1>4, <1>5 DEF Measures
  <1> QED
    BY <1>6 DEF Ranked, ny

LEMMA RankedAfter ==
    ASSUME NEW nx \in Links, Ranked(nx), NEW n \in Node, nx[n] = Null, NEW b \in Node, b # n
    PROVE  Ranked([nx EXCEPT ![b] = n])
  <1>1. PICK r : Measures(r, nx)
    BY DEF Ranked
  <1> DEFINE ny == [nx EXCEPT ![b] = n]
             q == [k \in Node |-> IF k = n THEN 0 ELSE r[k] + 1]
  <1>2. ny[b] = n /\ \A k \in Node : k # b => ny[k] = nx[k]
    BY DEF Links
  <1>3. r \in [Node -> Nat] /\ \A k \in Node : nx[k] # Null => r[nx[k]] < r[k]
    BY <1>1 DEF Measures
  <1>4. q \in [Node -> Nat]
    BY <1>3
  <1>5. ASSUME NEW k \in Node, ny[k] # Null PROVE q[ny[k]] < q[k]
    <2>1. k # n /\ q[k] = r[k] + 1 /\ r[k] \in Nat
      BY <1>2, <1>3, <1>5
    <2>2. CASE ny[k] = n
      BY <2>1, <2>2
    <2>3. CASE ny[k] # n
      <3>1. ny[k] = nx[k] /\ nx[k] \in Node
        BY <1>2, <1>5, <2>3 DEF Links
      <3>2. q[nx[k]] = r[nx[k]] + 1 /\ r[nx[k]] \in Nat /\ r[nx[k]] < r[k]
        BY <1>3, <1>5, <2>3, <3>1
      <3> QED
        BY <2>1, <3>1, <3>2
    <2> QED
      BY <2>2, <2>3
  <1> HIDE DEF ny, q
  <1>6. Measures(q, ny)
    BY <1>4, <1>5 DEF Measures
  <1> QED
    BY <1>6 DEF Ranked, ny

-----------------------------------------------------------------------------
(* What a list holds and an iterator has ahead, given the links and data.  *)

\* A list with these ends holds the items p.
Held(f, b, p, nx, dt) ==
    /\ f = Null <=> b = Null
    /\ f # Null => b \in Reached({f}, nx) /\ nx[b] = Null
    /\ FromOf(nx, dt)[f] = p

\* An iterator at c, past the items s, is on the chain from f: it skipped none.
Ahead(c, s, f, nx, dt) ==
    c # Null =>
        /\ c \in Reached({f}, nx)
        /\ \E u \in Seq(Value) : FromOf(nx, dt)[f] = u \o (s \o FromOf(nx, dt)[c])

\* The lists that share with no other hold what was pushed, in nodes that no
\* other list leads to.
Lists(fr, bk, pu, sh, nx, dt) ==
    \A l \in List \ sh :
        /\ Held(fr[l], bk[l], pu[l], nx, dt)
        /\ \A m \in List \ {l} : Reached({fr[l]}, nx) \cap Reached({fr[m], bk[m]}, nx) = {}

Loops(fr, cu, ov, sn, sh, nx, dt) ==
    \A i \in Iter : ov[i] \in List \ sh => Ahead(cu[i], sn[i], fr[ov[i]], nx, dt)

Histories == pushed \in [List -> Seq(Value)] /\ seen \in [Iter -> Seq(Value)]

HInv ==
    /\ IInv
    /\ Histories
    /\ Ranked(next)
    /\ Lists(front, back, pushed, shared, next, data)
    /\ Loops(front, cursor, over, seen, shared, next, data)

LEMMA HeldSame ==
    ASSUME NEW nx \in Links, Ranked(nx), NEW ny \in Links, Ranked(ny), NEW dt, NEW du,
           NEW f \in Handle, NEW b, NEW p, Held(f, b, p, nx, dt),
           \A n \in Reached({f}, nx) : ny[n] = nx[n] /\ du[n] = dt[n]
    PROVE  Held(f, b, p, ny, du)
  <1>1. {f} \in SUBSET Handle
    OBVIOUS
  <1>2. Reached({f}, ny) = Reached({f}, nx)
    BY <1>1, ReachedSame
  <1>3. FromOf(ny, du)[f] = FromOf(nx, dt)[f]
    BY FromSame
  <1> QED
    BY <1>2, <1>3 DEF Held

LEMMA AheadSame ==
    ASSUME NEW nx \in Links, Ranked(nx), NEW ny \in Links, Ranked(ny), NEW dt, NEW du,
           NEW f \in Handle, NEW c \in Handle, NEW s, Ahead(c, s, f, nx, dt),
           \A n \in Reached({f}, nx) : ny[n] = nx[n] /\ du[n] = dt[n]
    PROVE  Ahead(c, s, f, ny, du)
  <1> SUFFICES ASSUME c # Null PROVE Ahead(c, s, f, ny, du)
    BY DEF Ahead
  <1>1. {f} \in SUBSET Handle /\ {c} \in SUBSET Handle
    OBVIOUS
  <1>2. Reached({f}, ny) = Reached({f}, nx)
    BY <1>1, ReachedSame
  <1>3. FromOf(ny, du)[f] = FromOf(nx, dt)[f]
    BY FromSame
  <1>4. c \in Reached({f}, nx)
    BY DEF Ahead
  <1>5. Reached({c}, nx) \subseteq Reached({f}, nx)
    BY <1>1, <1>4, ReachedWithin
  <1>6. FromOf(ny, du)[c] = FromOf(nx, dt)[c]
    BY <1>5, FromSame
  <1> QED
    BY <1>2, <1>3, <1>4, <1>6 DEF Ahead

\* What the lists hold stays when their nodes do.
LEMMA ListsSame ==
    ASSUME NEW nx \in Links, Ranked(nx), NEW ny \in Links, Ranked(ny), NEW dt, NEW du,
           NEW fr \in [List -> Handle], NEW bk \in [List -> Handle], NEW pu, NEW sh,
           Lists(fr, bk, pu, sh, nx, dt),
           \A l \in List : \A n \in Reached({fr[l], bk[l]}, nx) : ny[n] = nx[n] /\ du[n] = dt[n]
    PROVE  Lists(fr, bk, pu, sh, ny, du)
  <1> SUFFICES ASSUME NEW l \in List \ sh
               PROVE  /\ Held(fr[l], bk[l], pu[l], ny, du)
                      /\ \A m \in List \ {l} :
                            Reached({fr[l]}, ny) \cap Reached({fr[m], bk[m]}, ny) = {}
    BY DEF Lists
  <1>1. \A m \in List : {fr[m], bk[m]} \in SUBSET Handle /\ {fr[m]} \in SUBSET Handle
                        /\ fr[m] \in Handle
    OBVIOUS
  <1>2. \A m \in List : Reached({fr[m], bk[m]}, ny) = Reached({fr[m], bk[m]}, nx)
    BY <1>1, ReachedSame
  <1>3. Reached({fr[l]}, nx) \subseteq Reached({fr[l], bk[l]}, nx)
    <2>1. {fr[l]} \ {Null} \subseteq Reached({fr[l], bk[l]}, nx)
      BY <1>1, ReachedRoots DEF Handle
    <2> QED
      BY <1>1, <2>1, ReachedWithin
  <1>4. \A n \in Reached({fr[l]}, nx) : ny[n] = nx[n] /\ du[n] = dt[n]
    BY <1>3
  <1>5. Reached({fr[l]}, ny) = Reached({fr[l]}, nx)
    BY <1>1, <1>4, ReachedSame
  <1>6. Held(fr[l], bk[l], pu[l], ny, du)
    <2>1. Held(fr[l], bk[l], pu[l], nx, dt)
      BY DEF Lists
    <2> QED
      BY <1>1, <1>4, <2>1, HeldSame
  <1>7. \A m \in List \ {l} : Reached({fr[l]}, nx) \cap Reached({fr[m], bk[m]}, nx) = {}
    BY DEF Lists
  <1> QED
    BY <1>2, <1>5, <1>6, <1>7

LEMMA LoopsSame ==
    ASSUME NEW nx \in Links, Ranked(nx), NEW ny \in Links, Ranked(ny), NEW dt, NEW du,
           NEW fr \in [List -> Handle], NEW bk \in [List -> Handle],
           NEW cu \in [Iter -> Handle], NEW ov, NEW sn, NEW sh,
           Loops(fr, cu, ov, sn, sh, nx, dt),
           \A l \in List : \A n \in Reached({fr[l], bk[l]}, nx) : ny[n] = nx[n] /\ du[n] = dt[n]
    PROVE  Loops(fr, cu, ov, sn, sh, ny, du)
  <1> SUFFICES ASSUME NEW i \in Iter, ov[i] \in List \ sh
               PROVE  Ahead(cu[i], sn[i], fr[ov[i]], ny, du)
    BY DEF Loops
  <1> DEFINE l == ov[i]
  <1>1. /\ l \in List /\ fr[l] \in Handle /\ bk[l] \in Handle /\ cu[i] \in Handle
        /\ Ahead(cu[i], sn[i], fr[l], nx, dt)
        /\ \A n \in Reached({fr[l], bk[l]}, nx) : ny[n] = nx[n] /\ du[n] = dt[n]
    BY DEF Loops
  <1> HIDE DEF l
  <1>2. {fr[l], bk[l]} \in SUBSET Handle /\ {fr[l]} \in SUBSET Handle
    BY <1>1
  <1>3. {fr[l]} \ {Null} \subseteq Reached({fr[l], bk[l]}, nx)
    BY <1>2, ReachedRoots DEF Handle
  <1>4. Reached({fr[l]}, nx) \subseteq Reached({fr[l], bk[l]}, nx)
    BY <1>2, <1>3, ReachedWithin
  <1>s. \A n \in Reached({fr[l]}, nx) : ny[n] = nx[n] /\ du[n] = dt[n]
    BY <1>1, <1>4
  <1>5. Ahead(cu[i], sn[i], fr[l], ny, du)
    BY <1>1, <1>s, AheadSame
  <1> QED
    BY <1>5 DEF l

\* An operation that leaves the lists in order before what it orphaned is
\* destroyed leaves them so.
LEMMA Settled ==
    ASSUME IInv', Histories', NEW nx \in Links, NEW dt \in [Node -> Value], Ranked(nx),
           Settle(nx, dt),
           Lists(front', back', pushed', shared', nx, dt),
           Loops(front', cursor', over', seen', shared', nx, dt)
    PROVE  HInv'
  <1> DEFINE kept == Reached(Roots', nx)
  <1>1. /\ front' \in [List -> Handle] /\ back' \in [List -> Handle]
        /\ cursor' \in [Iter -> Handle]
        /\ next' \in Links
    BY DEF IInv, TypeOK, Handle, Links
  <1>2. Roots' \in SUBSET Handle
    BY <1>1 DEF Roots
  <1>3. kept \in SUBSET Node
    BY <1>2, ReachedRoots DEF Handle
  <1>4. /\ next' = [n \in Node |-> IF n \in kept THEN nx[n] ELSE Null]
        /\ data' = [n \in Node |-> IF n \in kept THEN dt[n] ELSE Null]
    BY DEF Settle
  <1>5. \A l \in List : Reached({front'[l], back'[l]}, nx) \subseteq kept
    <2> SUFFICES ASSUME NEW l \in List
                 PROVE  Reached({front'[l], back'[l]}, nx) \subseteq kept
      OBVIOUS
    <2>1. {front'[l], back'[l]} \in SUBSET Handle /\ {front'[l], back'[l]} \subseteq Roots'
      BY <1>1 DEF Roots
    <2>2. {front'[l], back'[l]} \ {Null} \subseteq kept
      BY <1>2, <2>1, ReachedRoots DEF Handle
    <2> QED
      BY <1>2, <2>1, <2>2, ReachedWithin
  <1> HIDE DEF kept
  <1>6. \A l \in List : \A n \in Reached({front'[l], back'[l]}, nx) :
            next'[n] = nx[n] /\ data'[n] = dt[n]
    BY <1>3, <1>4, <1>5
  <1>7. Ranked(next')
    <2>1. \A n \in Node : next'[n] \in {nx[n], Null}
      BY <1>4
    <2> QED
      BY <2>1, RankedLess
  <1>8. Lists(front', back', pushed', shared', next', data')
    BY <1>1, <1>6, <1>7, ListsSame
  <1>9. Loops(front', cursor', over', seen', shared', next', data')
    BY <1>1, <1>6, <1>7, LoopsSame
  <1> QED
    BY <1>7, <1>8, <1>9 DEF HInv, Ranked

-----------------------------------------------------------------------------
(* The steps again.                                                        *)

LEMMA Given ==
    ASSUME HInv
    PROVE  /\ front \in [List -> Handle] /\ back \in [List -> Handle]
           /\ cursor \in [Iter -> Handle]
           /\ next \in Links /\ data \in [Node -> Value] /\ Ranked(next)
           /\ shared \subseteq List /\ over \in [Iter -> List \cup {Null}]
           /\ pushed \in [List -> Seq(Value)] /\ seen \in [Iter -> Seq(Value)]
           /\ Lists(front, back, pushed, shared, next, data)
           /\ Loops(front, cursor, over, seen, shared, next, data)
  BY DEF HInv, IInv, TypeOK, Histories, Handle, Value, Links

\* A node that nobody owns has no link to it or from it, and no list leads to it.
LEMMA Fresh ==
    ASSUME HInv, NEW n \in Node \ Alive
    PROVE  /\ next[n] = Null
           /\ \A k \in Node : next[k] # n
           /\ \A l \in List : n \notin Reached({front[l], back[l]}, next)
  <1>1. /\ front \in [List -> Handle] /\ back \in [List -> Handle]
        /\ next \in Links /\ Roots \in SUBSET Handle
    BY Given DEF Roots
  <1>2. Closed(Alive, next)
    BY <1>1, ReachedClosed DEF Alive
  <1>3. DeadPointNowhere
    BY DEF HInv, IInv
  <1>4. \A k \in Node : next[k] # n
    BY <1>2, <1>3, NullAssumption DEF Closed, DeadPointNowhere
  <1>5. ASSUME NEW l \in List PROVE n \notin Reached({front[l], back[l]}, next)
    <2>1. {front[l], back[l]} \in SUBSET Handle /\ {front[l], back[l]} \subseteq Roots
      BY <1>1 DEF Roots
    <2>2. {front[l], back[l]} \ {Null} \subseteq Alive
      BY <1>1, <2>1, ReachedRoots DEF Handle, Alive
    <2>3. Reached({front[l], back[l]}, next) \subseteq Alive
      BY <1>1, <2>1, <2>2, ReachedWithin DEF Alive
    <2> QED
      BY <2>3
  <1> QED
    BY <1>3, <1>4, <1>5 DEF DeadPointNowhere

LEMMA InitHInv == Init => HInv
  <1> SUFFICES ASSUME Init PROVE HInv
    OBVIOUS
  <1>1. IInv
    BY InitIInv
  <1>2. <<>> \in Seq(Value)
    OBVIOUS
  <1>3. Histories
    BY <1>2 DEF Init, Histories
  <1>4. next \in Links /\ \A n \in Node : next[n] = Null
    BY DEF Init, Links
  <1>5. Ranked(next)
    <2>1. Measures([n \in Node |-> 0], next)
      BY <1>4 DEF Measures
    <2> QED
      BY <2>1 DEF Ranked
  <1>6. FromOf(next, data)[Null] = <<>>
    BY <1>4, <1>5, FromEquation
  <1>7. Lists(front, back, pushed, shared, next, data)
    BY <1>6, ReachedNull DEF Init, Lists, Held
  <1>8. Loops(front, cursor, over, seen, shared, next, data)
    BY DEF Init, Loops, Ahead
  <1> QED
    BY <1>1, <1>3, <1>5, <1>7, <1>8 DEF HInv

LEMMA CopyHolds ==
    ASSUME HInv, IInv', NEW l \in List, NEW r \in List, Copy(l, r)
    PROVE  HInv'
  <1>g. /\ front \in [List -> Handle] /\ back \in [List -> Handle]
        /\ next \in Links /\ data \in [Node -> Value] /\ Ranked(next)
        /\ pushed \in [List -> Seq(Value)] /\ seen \in [Iter -> Seq(Value)]
        /\ Lists(front, back, pushed, shared, next, data)
        /\ Loops(front, cursor, over, seen, shared, next, data)
    BY Given
  <1>1. /\ \A m \in List \ {l} : front'[m] = front[m] /\ back'[m] = back[m] /\ pushed'[m] = pushed[m]
        /\ front'[l] = front[r] /\ back'[l] = back[r]
        /\ shared' = shared \cup {l, r} /\ cursor' = cursor /\ seen' = seen /\ l # r
        /\ \A i \in Iter : over'[i] = over[i] \/ over'[i] = Null
    BY <1>g DEF Copy, Forget
  <1>2. Histories'
    BY <1>g DEF Copy, Histories
  <1>3. Lists(front', back', pushed', shared', next, data)
    <2> SUFFICES ASSUME NEW k \in List \ shared'
                 PROVE  /\ Held(front'[k], back'[k], pushed'[k], next, data)
                        /\ \A m \in List \ {k} :
                              Reached({front'[k]}, next) \cap Reached({front'[m], back'[m]}, next) = {}
      BY DEF Lists
    <2>1. k \in List \ shared /\ k # l /\ k # r
      BY <1>1
    <2>2. /\ Held(front[k], back[k], pushed[k], next, data)
          /\ \A m \in List \ {k} :
                Reached({front[k]}, next) \cap Reached({front[m], back[m]}, next) = {}
      BY <1>g, <2>1 DEF Lists
    <2> QED
      BY <1>1, <2>1, <2>2
  <1>4. Loops(front', cursor', over', seen', shared', next, data)
    <2> SUFFICES ASSUME NEW i \in Iter, over'[i] \in List \ shared'
                 PROVE  Ahead(cursor'[i], seen'[i], front'[over'[i]], next, data)
      BY DEF Loops
    <2>1. over'[i] = over[i] /\ over[i] \in List \ shared /\ over[i] # l
      BY <1>1, NullAssumption
    <2> QED
      BY <1>g, <1>1, <2>1 DEF Loops
  <1>5. Settle(next, data)
    BY DEF Copy
  <1> QED
    BY <1>g, <1>2, <1>3, <1>4, <1>5, Settled

LEMMA DestroyHolds ==
    ASSUME HInv, IInv', NEW l \in List, Destroy(l)
    PROVE  HInv'
  <1>g. /\ front \in [List -> Handle] /\ back \in [List -> Handle]
        /\ next \in Links /\ data \in [Node -> Value] /\ Ranked(next)
        /\ pushed \in [List -> Seq(Value)] /\ seen \in [Iter -> Seq(Value)]
        /\ Lists(front, back, pushed, shared, next, data)
        /\ Loops(front, cursor, over, seen, shared, next, data)
    BY Given
  <1>1. /\ \A m \in List \ {l} : front'[m] = front[m] /\ back'[m] = back[m] /\ pushed'[m] = pushed[m]
        /\ front'[l] = Null /\ back'[l] = Null /\ pushed'[l] = <<>>
        /\ shared' = shared \ {l} /\ cursor' = cursor /\ seen' = seen
        /\ \A i \in Iter : (over'[i] = over[i] /\ over[i] # l) \/ over'[i] = Null
    BY <1>g DEF Destroy, Forget
  <1>2. Histories'
    <2>1. <<>> \in Seq(Value)
      OBVIOUS
    <2> QED
      BY <1>g, <2>1 DEF Destroy, Histories
  <1>n. Reached({Null}, next) = {} /\ {Null, Null} = {Null} /\ FromOf(next, data)[Null] = <<>>
    BY <1>g, ReachedNull, FromEquation
  <1>3. Lists(front', back', pushed', shared', next, data)
    <2> SUFFICES ASSUME NEW k \in List \ shared'
                 PROVE  /\ Held(front'[k], back'[k], pushed'[k], next, data)
                        /\ \A m \in List \ {k} :
                              Reached({front'[k]}, next) \cap Reached({front'[m], back'[m]}, next) = {}
      BY DEF Lists
    <2>1. CASE k = l
      <3>1. Held(Null, Null, <<>>, next, data)
        BY <1>n DEF Held
      <3> QED
        BY <1>1, <1>n, <2>1, <3>1
    <2>2. CASE k # l
      <3>1. k \in List \ shared
        BY <1>1, <2>2
      <3>2. /\ Held(front[k], back[k], pushed[k], next, data)
            /\ \A m \in List \ {k} :
                  Reached({front[k]}, next) \cap Reached({front[m], back[m]}, next) = {}
        BY <1>g, <3>1 DEF Lists
      <3>3. ASSUME NEW m \in List \ {k}
            PROVE  Reached({front'[k]}, next) \cap Reached({front'[m], back'[m]}, next) = {}
        BY <1>1, <1>n, <2>2, <3>2
      <3> QED
        BY <1>1, <2>2, <3>2, <3>3
    <2> QED
      BY <2>1, <2>2
  <1>4. Loops(front', cursor', over', seen', shared', next, data)
    <2> SUFFICES ASSUME NEW i \in Iter, over'[i] \in List \ shared'
                 PROVE  Ahead(cursor'[i], seen'[i], front'[over'[i]], next, data)
      BY DEF Loops
    <2>1. over'[i] = over[i] /\ over[i] \in List \ shared /\ over[i] # l
      BY <1>1, NullAssumption
    <2> QED
      BY <1>g, <1>1, <2>1 DEF Loops
  <1>5. Settle(next, data)
    BY DEF Destroy
  <1> QED
    BY <1>g, <1>2, <1>3, <1>4, <1>5, Settled

LEMMA BeginHolds ==
    ASSUME HInv, IInv', NEW i \in Iter, NEW l \in List, Begin(i, l)
    PROVE  HInv'
  <1>g. /\ front \in [List -> Handle] /\ back \in [List -> Handle]
        /\ cursor \in [Iter -> Handle] /\ over \in [Iter -> List \cup {Null}]
        /\ next \in Links /\ data \in [Node -> Value] /\ Ranked(next)
        /\ pushed \in [List -> Seq(Value)] /\ seen \in [Iter -> Seq(Value)]
        /\ Lists(front, back, pushed, shared, next, data)
        /\ Loops(front, cursor, over, seen, shared, next, data)
    BY Given
  <1>1. /\ front' = front /\ back' = back /\ pushed' = pushed /\ shared' = shared
        /\ cursor'[i] = front[l] /\ over'[i] = l /\ seen'[i] = <<>>
        /\ \A j \in Iter \ {i} : cursor'[j] = cursor[j] /\ over'[j] = over[j] /\ seen'[j] = seen[j]
    BY <1>g DEF Begin
  <1>2. <<>> \in Seq(Value)
    OBVIOUS
  <1>3. Histories'
    BY <1>g, <1>2 DEF Begin, Histories
  <1>4. Loops(front', cursor', over', seen', shared', next, data)
    <2> SUFFICES ASSUME NEW j \in Iter, over'[j] \in List \ shared'
                 PROVE  Ahead(cursor'[j], seen'[j], front'[over'[j]], next, data)
      BY DEF Loops
    <2>1. CASE j = i
      <3> DEFINE f == front[l]
                 F == FromOf(next, data)
      <3>0. f \in Handle
        BY <1>g
      <3> HIDE DEF f
      <3>1. {f} \in SUBSET Handle /\ F[f] \in Seq(Value)
        BY <1>g, <3>0, FromSeq
      <3>2. f # Null => f \in Reached({f}, next)
        BY <3>1, ReachedRoots DEF Handle
      <3> HIDE DEF F
      <3>3. \A w \in Seq(Value) : <<>> \o w = w
        BY ConcatEmptySeq
      <3>4. F[f] = <<>> \o (<<>> \o F[f])
        BY <3>1, <3>3
      <3>5. Ahead(f, <<>>, f, next, data)
        BY <1>2, <3>2, <3>4 DEF Ahead, F
      <3> QED
        BY <1>1, <2>1, <3>5 DEF f
    <2>2. CASE j # i
      BY <1>g, <1>1, <2>2 DEF Loops
    <2> QED
      BY <2>1, <2>2
  <1>5. Settle(next, data)
    BY DEF Begin
  <1>6. Lists(front', back', pushed', shared', next, data)
    BY <1>g, <1>1
  <1> QED
    BY <1>g, <1>3, <1>4, <1>5, <1>6, Settled

LEMMA AdvanceHolds ==
    ASSUME HInv, IInv', NEW i \in Iter, Advance(i)
    PROVE  HInv'
  <1>g. /\ front \in [List -> Handle] /\ back \in [List -> Handle]
        /\ cursor \in [Iter -> Handle]
        /\ next \in Links /\ data \in [Node -> Value] /\ Ranked(next)
        /\ pushed \in [List -> Seq(Value)] /\ seen \in [Iter -> Seq(Value)]
        /\ Lists(front, back, pushed, shared, next, data)
        /\ Loops(front, cursor, over, seen, shared, next, data)
    BY Given
  <1> DEFINE c == cursor[i]
             d == data[c]
  <1>c. c \in Node /\ next[c] \in Handle /\ d \in Value
    BY <1>g DEF Advance, Links, Handle
  <1>1. /\ front' = front /\ back' = back /\ pushed' = pushed /\ shared' = shared /\ over' = over
        /\ cursor'[i] = next[c] /\ seen'[i] = Append(seen[i], d)
        /\ \A j \in Iter \ {i} : cursor'[j] = cursor[j] /\ seen'[j] = seen[j]
    BY <1>g DEF Advance
  <1>3. Histories'
    <2>1. Append(seen[i], d) \in Seq(Value)
      BY <1>g, <1>c
    <2>2. seen' = [seen EXCEPT ![i] = Append(seen[i], d)]
      BY DEF Advance
    <2> HIDE DEF d
    <2> QED
      BY <1>g, <1>1, <2>1, <2>2 DEF Histories
  <1> HIDE DEF c, d
  <1>4. Loops(front', cursor', over', seen', shared', next, data)
    <2> SUFFICES ASSUME NEW j \in Iter, over'[j] \in List \ shared'
                 PROVE  Ahead(cursor'[j], seen'[j], front'[over'[j]], next, data)
      BY DEF Loops
    <2>1. CASE j = i
      <3> DEFINE f == front[over[i]]
                 F == FromOf(next, data)
                 s == seen[i]
                 e == next[c]
      <3> SUFFICES Ahead(e, Append(s, d), f, next, data)
        BY <1>1, <2>1
      <3>1. f \in Handle /\ e \in Handle /\ s \in Seq(Value) /\ c \in Handle
        BY <1>g, <1>c, <1>1, <2>1 DEF Handle
      <3>2. Ahead(c, s, f, next, data)
        BY <1>g, <1>1, <2>1 DEF Loops, c
      <3> HIDE DEF f, s, e
      <3>3. c # Null
        BY <1>c, NullAssumption
      <3>4. c \in Reached({f}, next)
        BY <3>2, <3>3 DEF Ahead
      <3>5. PICK u \in Seq(Value) : F[f] = u \o (s \o F[c])
        BY <3>2, <3>3 DEF Ahead
      <3>6. F[e] \in Seq(Value)
        BY <1>g, <3>1, FromSeq
      <3>7. F[c] = <<d>> \o F[e]
        BY <1>g, <1>c, FromEquation DEF d, e
      <3>8. e # Null => e \in Reached({f}, next)
        <4>1. Closed(Reached({f}, next), next)
          BY <1>g, ReachedClosed
        <4> QED
          BY <3>4, <4>1 DEF Closed, e
      <3> HIDE DEF F
      <3>9. F[f] = u \o (Append(s, d) \o F[e])
        <4>1. <<d>> \in Seq(Value) /\ Append(s, d) = s \o <<d>>
          BY <1>c, <3>1
        <4>2. \A p, q, w \in Seq(Value) : (p \o q) \o w = p \o (q \o w)
          BY ConcatAssociative
        <4>3. (s \o <<d>>) \o F[e] = s \o (<<d>> \o F[e])
          BY <3>1, <3>6, <4>1, <4>2
        <4> QED
          BY <3>5, <3>7, <4>1, <4>3
      <3> QED
        BY <3>8, <3>9 DEF Ahead, F
    <2>2. CASE j # i
      BY <1>g, <1>1, <2>2 DEF Loops
    <2> QED
      BY <2>1, <2>2
  <1>5. Settle(next, data)
    BY DEF Advance
  <1>6. Lists(front', back', pushed', shared', next, data)
    BY <1>g, <1>1
  <1> QED
    BY <1>g, <1>3, <1>4, <1>5, <1>6, Settled

LEMMA PushFrontHolds ==
    ASSUME HInv, IInv', NEW l \in List, NEW x \in Item, PushFront(l, x)
    PROVE  HInv'
  <1>g. /\ front \in [List -> Handle] /\ back \in [List -> Handle]
        /\ cursor \in [Iter -> Handle]
        /\ next \in Links /\ data \in [Node -> Value] /\ Ranked(next)
        /\ pushed \in [List -> Seq(Value)] /\ seen \in [Iter -> Seq(Value)]
        /\ Lists(front, back, pushed, shared, next, data)
        /\ Loops(front, cursor, over, seen, shared, next, data)
    BY Given
  <1>1. PICK n \in Node \ Alive :
           /\ front' = [front EXCEPT ![l] = n]
           /\ back' = [back EXCEPT ![l] = IF back[l] = Null THEN n ELSE back[l]]
           /\ cursor' = cursor
           /\ Settle([next EXCEPT ![n] = front[l]], [data EXCEPT ![n] = x])
           /\ pushed' = [pushed EXCEPT ![l] = <<x>> \o pushed[l]]
           /\ shared' = shared /\ over' = over /\ seen' = seen
    BY DEF PushFront
  <1> DEFINE f == front[l]
             nx == [next EXCEPT ![n] = f]
             dt == [data EXCEPT ![n] = x]
             F == FromOf(nx, dt)
  <1>x. x \in Value /\ n \in Node /\ n # Null /\ f \in Handle
    BY <1>g, NullAssumption DEF Value
  <1>2. /\ nx \in Links /\ nx[n] = f /\ \A k \in Node \ {n} : nx[k] = next[k]
        /\ dt \in [Node -> Value] /\ dt[n] = x /\ \A k \in Node \ {n} : dt[k] = data[k]
    BY <1>g, <1>x DEF Links, Handle
  <1>3. /\ next[n] = Null /\ \A k \in Node : next[k] # n
        /\ \A m \in List : n \notin Reached({front[m], back[m]}, next)
    BY Fresh
  <1>h. \A m \in List : {front[m], back[m]} \in SUBSET Handle /\ {front[m]} \in SUBSET Handle
    BY <1>g
  <1>4. f # n
    <2>1. f # Null => f \in Reached({front[l], back[l]}, next)
      BY <1>h, ReachedRoots DEF Handle
    <2> QED
      BY <1>3, <1>x, <2>1
  <1>5. Ranked(nx)
    BY <1>g, <1>3, <1>4, <1>x, RankedBefore
  <1>6. Settle(nx, dt)
    BY <1>1
  <1> HIDE DEF nx, dt
  \* The new node, which no list leads to, changes no list.
  <1>7. \A m \in List : \A k \in Reached({front[m], back[m]}, next) :
            nx[k] = next[k] /\ dt[k] = data[k]
    BY <1>2, <1>3, <1>h, ReachedRoots DEF Handle
  <1>8. /\ Lists(front, back, pushed, shared, nx, dt)
        /\ Loops(front, cursor, over, seen, shared, nx, dt)
    <2>t. /\ next \in Links /\ Ranked(next) /\ nx \in Links /\ Ranked(nx)
          /\ front \in [List -> Handle] /\ back \in [List -> Handle]
          /\ cursor \in [Iter -> Handle]
      BY <1>g, <1>2, <1>5
    <2>1. Lists(front, back, pushed, shared, nx, dt)
      BY <1>g, <1>7, <2>t, ListsSame
    <2>l. Loops(front, cursor, over, seen, shared, next, data)
      BY <1>g
    <2>2. Loops(front, cursor, over, seen, shared, nx, dt)
      BY <1>7, <2>t, <2>l, LoopsSame, ZenonT(30)
    <2> QED
      BY <2>1, <2>2
  <1>9. \A m \in List : n \notin Reached({front[m], back[m]}, nx)
    <2> SUFFICES ASSUME NEW m \in List PROVE n \notin Reached({front[m], back[m]}, nx)
      OBVIOUS
    <2>1. Reached({front[m], back[m]}, nx) = Reached({front[m], back[m]}, next)
      BY <1>g, <1>2, <1>7, <1>h, ReachedSame
    <2> QED
      BY <1>3, <2>1
  \* The list's front_ becomes the new node.
  <1>10. /\ front'[l] = n /\ back'[l] = (IF back[l] = Null THEN n ELSE back[l])
         /\ pushed'[l] = <<x>> \o pushed[l]
         /\ \A m \in List \ {l} :
               front'[m] = front[m] /\ back'[m] = back[m] /\ pushed'[m] = pushed[m]
    BY <1>1, <1>g
  <1>11. Reached({n}, nx) \subseteq {n} \cup Reached({f}, nx)
         /\ Reached({f}, nx) \subseteq Reached({n}, nx) /\ n \in Reached({n}, nx)
    BY <1>2, <1>x, ReachedUnfold
  <1>12. Reached({front'[l], back'[l]}, nx) \subseteq {n} \cup Reached({f, back[l]}, nx)
    <2> DEFINE S == Reached({f, back[l]}, nx)
    <2>1. {f, back[l]} \in SUBSET Handle
      BY <1>h
    <2>2. S \in SUBSET Node /\ {f, back[l]} \ {Null} \subseteq S /\ Closed(S, nx)
      BY <1>2, <2>1, ReachedRoots, ReachedClosed DEF Handle
    <2> HIDE DEF S
    <2>3. Closed({n} \cup S, nx)
      BY <1>2, <2>2 DEF Closed
    <2>4. {front'[l], back'[l]} \ {Null} \subseteq {n} \cup S
      BY <1>10, <2>2
    <2>5. Reached({front'[l], back'[l]}, nx) \subseteq {n} \cup S
      BY <1>x, <2>2, <2>3, <2>4, ReachedLeast
    <2> QED
      BY <2>5 DEF S
  <1>13. F[n] = <<x>> \o F[f] /\ F[f] \in Seq(Value) /\ F[Null] = <<>>
    <2>1. F[f] \in Seq(Value)
      BY <1>2, <1>5, <1>x, FromSeq
    <2>2. F[Null] = <<>> /\ \A k \in Node : F[k] = <<dt[k]>> \o F[nx[k]]
      BY <1>2, <1>5, FromEquation
    <2> HIDE DEF F, f
    <2> QED
      BY <1>2, <1>x, <2>1, <2>2
  <1>14. Histories'
    <2>1. <<x>> \o pushed[l] \in Seq(Value)
      BY <1>g, <1>x
    <2> QED
      BY <1>1, <1>g, <2>1 DEF Histories
  <1>15. Lists(front', back', pushed', shared', nx, dt)
    <2> SUFFICES ASSUME NEW k \in List \ shared
                 PROVE  /\ Held(front'[k], back'[k], pushed'[k], nx, dt)
                        /\ \A m \in List \ {k} :
                              Reached({front'[k]}, nx) \cap Reached({front'[m], back'[m]}, nx) = {}
      BY <1>1 DEF Lists
    <2>1. /\ Held(front[k], back[k], pushed[k], nx, dt)
          /\ \A m \in List \ {k} :
                Reached({front[k]}, nx) \cap Reached({front[m], back[m]}, nx) = {}
      BY <1>8 DEF Lists
    <2>2. CASE k = l
      <3>1. /\ f = Null <=> back[l] = Null
            /\ f # Null => back[l] \in Reached({f}, nx) /\ nx[back[l]] = Null
            /\ F[f] = pushed[l]
        BY <2>1, <2>2 DEF Held
      <3>2. F[n] = pushed'[l]
        BY <1>10, <1>13, <3>1
      <3>3. back'[l] \in Reached({n}, nx) /\ nx[back'[l]] = Null /\ back'[l] # Null
        <4> HIDE DEF F
        <4>1. CASE f = Null
          BY <1>2, <1>10, <1>11, <1>x, <3>1, <4>1
        <4>2. CASE f # Null
          BY <1>10, <1>11, <3>1, <4>2
        <4> QED
          BY <4>1, <4>2
      <3>4. Held(n, back'[l], pushed'[l], nx, dt)
        BY <1>x, <3>2, <3>3 DEF Held
      <3>5. ASSUME NEW m \in List \ {l}
            PROVE  Reached({n}, nx) \cap Reached({front'[m], back'[m]}, nx) = {}
        BY <1>9, <1>10, <1>11, <2>1, <2>2
      <3> QED
        BY <1>10, <2>2, <3>4, <3>5
    <2>3. CASE k # l
      <3>1. n \notin Reached({front[k]}, nx)
        <4>1. {front[k]} \ {Null} \subseteq Reached({front[k], back[k]}, nx)
          BY <1>h, ReachedRoots DEF Handle
        <4>2. Reached({front[k]}, nx) \subseteq Reached({front[k], back[k]}, nx)
          BY <1>2, <1>h, <4>1, ReachedWithin
        <4> QED
          BY <1>9, <4>2
      <3>2. ASSUME NEW m \in List \ {k}
            PROVE  Reached({front'[k]}, nx) \cap Reached({front'[m], back'[m]}, nx) = {}
        <4>1. CASE m = l
          <5>1. Reached({front[k]}, nx) \cap Reached({f, back[l]}, nx) = {}
            BY <2>1, <4>1
          <5> QED
            BY <1>10, <1>12, <2>3, <3>1, <4>1, <5>1
        <4>2. CASE m # l
          BY <1>10, <2>1, <2>3, <4>2
        <4> QED
          BY <4>1, <4>2
      <3> QED
        BY <1>10, <2>1, <2>3, <3>2
    <2> QED
      BY <2>2, <2>3
  <1>16. Loops(front', cursor', over', seen', shared', nx, dt)
    <2> SUFFICES ASSUME NEW i \in Iter, over[i] \in List \ shared
                 PROVE  Ahead(cursor[i], seen[i], front'[over[i]], nx, dt)
      BY <1>1 DEF Loops
    <2>1. Ahead(cursor[i], seen[i], front[over[i]], nx, dt)
      BY <1>8 DEF Loops
    <2>2. CASE over[i] = l
      <3> DEFINE c == cursor[i]
                 s == seen[i]
      <3> SUFFICES ASSUME c # Null PROVE Ahead(c, s, n, nx, dt)
        BY <1>10, <2>2 DEF Ahead
      <3>1. c \in Reached({f}, nx)
        BY <2>1, <2>2 DEF Ahead
      <3>2. PICK u \in Seq(Value) : F[f] = u \o (s \o F[c])
        BY <2>1, <2>2 DEF Ahead
      <3>3. F[c] \in Seq(Value)
        BY <1>2, <1>5, <1>g, FromSeq
      <3>4. s \in Seq(Value)
        BY <1>g
      <3> HIDE DEF F, c, s, f
      <3>5. <<x>> \in Seq(Value) /\ <<x>> \o u \in Seq(Value)
        BY <1>x
      <3>6. F[n] = (<<x>> \o u) \o (s \o F[c])
        <4>1. \A p, q, w \in Seq(Value) : (p \o q) \o w = p \o (q \o w)
          BY ConcatAssociative
        <4>2. s \o F[c] \in Seq(Value)
          BY <3>3, <3>4
        <4>3. F[n] = <<x>> \o (u \o (s \o F[c]))
          BY <1>13, <3>2
        <4> QED
          BY <3>5, <4>1, <4>2, <4>3, ZenonT(30)
      <3> QED
        BY <1>11, <3>1, <3>5, <3>6 DEF Ahead, F
    <2>3. CASE over[i] # l
      BY <1>10, <2>1, <2>3
    <2> QED
      BY <2>2, <2>3
  <1> QED
    BY <1>2, <1>5, <1>6, <1>14, <1>15, <1>16, Settled

\* Into an empty list: the new node is first and last.
LEMMA PushFirstHolds ==
    ASSUME HInv, IInv', NEW l \in List, NEW x \in Item, NEW n \in Node \ Alive, back[l] = Null,
           front' = [front EXCEPT ![l] = IF front[l] = Null THEN n ELSE front[l]],
           back' = [back EXCEPT ![l] = n], cursor' = cursor,
           Settle(next, [data EXCEPT ![n] = x]),
           pushed' = [pushed EXCEPT ![l] = Append(pushed[l], x)],
           UNCHANGED <<shared, over, seen>>
    PROVE  HInv'
  <1>g. /\ front \in [List -> Handle] /\ back \in [List -> Handle]
        /\ cursor \in [Iter -> Handle]
        /\ next \in Links /\ data \in [Node -> Value] /\ Ranked(next)
        /\ pushed \in [List -> Seq(Value)] /\ seen \in [Iter -> Seq(Value)]
        /\ Lists(front, back, pushed, shared, next, data)
        /\ Loops(front, cursor, over, seen, shared, next, data)
    BY Given
  <1> DEFINE dt == [data EXCEPT ![n] = x]
             F == FromOf(next, dt)
  <1>x. x \in Value /\ n \in Node /\ n # Null
    BY NullAssumption DEF Value
  <1>2. dt \in [Node -> Value] /\ dt[n] = x /\ \A k \in Node \ {n} : dt[k] = data[k]
    BY <1>g, <1>x
  <1>6. Settle(next, dt)
    OBVIOUS
  <1> HIDE DEF dt
  <1>3. /\ next[n] = Null /\ \A m \in List : n \notin Reached({front[m], back[m]}, next)
    BY Fresh
  <1>h. \A m \in List : {front[m], back[m]} \in SUBSET Handle /\ {front[m]} \in SUBSET Handle
    BY <1>g
  <1>7. \A m \in List : \A k \in Reached({front[m], back[m]}, next) :
            next[k] = next[k] /\ dt[k] = data[k]
    BY <1>2, <1>3, <1>h, ReachedRoots DEF Handle
  <1>8. /\ Lists(front, back, pushed, shared, next, dt)
        /\ Loops(front, cursor, over, seen, shared, next, dt)
    <2>t. /\ next \in Links /\ Ranked(next)
          /\ front \in [List -> Handle] /\ back \in [List -> Handle]
          /\ cursor \in [Iter -> Handle]
      BY <1>g
    <2>1. Lists(front, back, pushed, shared, next, dt)
      BY <1>g, <1>7, <2>t, ListsSame
    <2>l. Loops(front, cursor, over, seen, shared, next, data)
      BY <1>g
    <2>2. Loops(front, cursor, over, seen, shared, next, dt)
      BY <1>7, <2>t, <2>l, LoopsSame
    <2> QED
      BY <2>1, <2>2
  <1>9. /\ front'[l] = (IF front[l] = Null THEN n ELSE front[l]) /\ back'[l] = n
        /\ pushed'[l] = Append(pushed[l], x)
        /\ \A m \in List \ {l} :
              front'[m] = front[m] /\ back'[m] = back[m] /\ pushed'[m] = pushed[m]
    BY <1>g
  <1>10. /\ n \in Reached({n}, next) /\ Reached({n}, next) \subseteq {n}
    <2>1. Reached({n}, next) \subseteq {n} \cup Reached({next[n]}, next) /\ n \in Reached({n}, next)
      BY <1>g, <1>x, ReachedUnfold
    <2> QED
      BY <1>3, <2>1, ReachedNull
  <1>11. Reached({front'[l], back'[l]}, next) \subseteq {n} \cup Reached({front[l], back[l]}, next)
    <2> DEFINE S == Reached({front[l], back[l]}, next)
    <2>1. S \in SUBSET Node /\ {front[l], back[l]} \ {Null} \subseteq S /\ Closed(S, next)
      BY <1>g, <1>h, ReachedRoots, ReachedClosed DEF Handle
    <2> HIDE DEF S
    <2>2. Closed({n} \cup S, next)
      BY <1>3, <2>1 DEF Closed
    <2>3. {front'[l], back'[l]} \ {Null} \subseteq {n} \cup S
      BY <1>9, <2>1
    <2>4. Reached({front'[l], back'[l]}, next) \subseteq {n} \cup S
      BY <1>x, <2>1, <2>2, <2>3, ReachedLeast
    <2> QED
      BY <2>4 DEF S
  <1>12. F[n] = <<x>>
    <2>1. F[Null] = <<>> /\ \A k \in Node : F[k] = <<dt[k]>> \o F[next[k]]
      BY <1>2, <1>g, FromEquation
    <2> HIDE DEF F
    <2>2. F[n] = <<dt[n]>> \o F[next[n]]
      BY <1>x, <2>1
    <2>3. F[next[n]] = <<>>
      BY <1>3, <2>1
    <2>4. F[n] = <<x>> \o <<>>
      BY <1>2, <2>2, <2>3
    <2>5. <<x>> \in Seq(Value)
      BY <1>x
    <2> QED
      BY <2>4, <2>5, ConcatEmptySeq
  <1>13. Histories'
    <2>1. Append(pushed[l], x) \in Seq(Value)
      BY <1>g, <1>x
    <2> QED
      BY <1>g, <2>1 DEF Histories
  <1>14. Lists(front', back', pushed', shared', next, dt)
    <2> SUFFICES ASSUME NEW k \in List \ shared
                 PROVE  /\ Held(front'[k], back'[k], pushed'[k], next, dt)
                        /\ \A m \in List \ {k} :
                              Reached({front'[k]}, next) \cap Reached({front'[m], back'[m]}, next) = {}
      BY DEF Lists
    <2>1. /\ Held(front[k], back[k], pushed[k], next, dt)
          /\ \A m \in List \ {k} :
                Reached({front[k]}, next) \cap Reached({front[m], back[m]}, next) = {}
      BY <1>8 DEF Lists
    <2>2. CASE k = l
      <3>1. front[l] = Null /\ F[Null] = pushed[l]
        BY <2>1, <2>2 DEF Held
      <3>2. F[Null] = <<>>
        BY <1>2, <1>g, FromEquation
      <3> HIDE DEF F
      <3>3. pushed'[l] = <<x>>
        BY <1>9, <3>1, <3>2
      <3>4. Held(n, n, pushed'[l], next, dt)
        BY <1>3, <1>10, <1>12, <1>x, <3>3 DEF Held, F
      <3>5. ASSUME NEW m \in List \ {l}
            PROVE  Reached({n}, next) \cap Reached({front'[m], back'[m]}, next) = {}
        BY <1>3, <1>9, <1>10
      <3> QED
        BY <1>9, <2>2, <3>1, <3>4, <3>5
    <2>3. CASE k # l
      <3>1. n \notin Reached({front[k]}, next)
        <4>1. {front[k]} \ {Null} \subseteq Reached({front[k], back[k]}, next)
          BY <1>h, ReachedRoots DEF Handle
        <4>2. Reached({front[k]}, next) \subseteq Reached({front[k], back[k]}, next)
          <5>1. next \in Links /\ {front[k]} \in SUBSET Handle /\ {front[k], back[k]} \in SUBSET Handle
            BY <1>g, <1>h
          <5> QED
            BY <4>1, <5>1, ReachedWithin, ZenonT(30)
        <4> QED
          BY <1>3, <4>2
      <3>2. ASSUME NEW m \in List \ {k}
            PROVE  Reached({front'[k]}, next) \cap Reached({front'[m], back'[m]}, next) = {}
        <4>1. CASE m = l
          <5>1. Reached({front[k]}, next) \cap Reached({front[l], back[l]}, next) = {}
            BY <2>1, <4>1
          <5> QED
            BY <1>9, <1>11, <2>3, <3>1, <4>1, <5>1
        <4>2. CASE m # l
          BY <1>9, <2>1, <2>3, <4>2
        <4> QED
          BY <4>1, <4>2
      <3> QED
        BY <1>9, <2>1, <2>3, <3>2
    <2> QED
      BY <2>2, <2>3
  <1>15. Loops(front', cursor', over', seen', shared', next, dt)
    <2> SUFFICES ASSUME NEW i \in Iter, over[i] \in List \ shared
                 PROVE  Ahead(cursor[i], seen[i], front'[over[i]], next, dt)
      BY DEF Loops
    <2>1. Ahead(cursor[i], seen[i], front[over[i]], next, dt)
      BY <1>8 DEF Loops
    <2>2. CASE over[i] = l
      <3>1. front[l] = Null
        BY <1>8, <2>2 DEF Lists, Held
      <3>2. cursor[i] = Null
        BY <2>1, <2>2, <3>1, ReachedNull DEF Ahead
      <3> QED
        BY <3>2 DEF Ahead
    <2>3. CASE over[i] # l
      BY <1>9, <2>1, <2>3
    <2> QED
      BY <2>2, <2>3
  <1> QED
    BY <1>2, <1>6, <1>13, <1>14, <1>15, <1>g, Settled

\* After the last node of a list that has one.
LEMMA PushLastHolds ==
    ASSUME HInv, IInv', NEW l \in List, NEW x \in Item, NEW n \in Node \ Alive, back[l] # Null,
           front' = [front EXCEPT ![l] = IF front[l] = Null THEN n ELSE front[l]],
           back' = [back EXCEPT ![l] = n], cursor' = cursor,
           Settle([next EXCEPT ![back[l]] = n], [data EXCEPT ![n] = x]),
           pushed' = [pushed EXCEPT ![l] = Append(pushed[l], x)],
           UNCHANGED <<shared, over, seen>>
    PROVE  HInv'
  <1>g. /\ front \in [List -> Handle] /\ back \in [List -> Handle]
        /\ cursor \in [Iter -> Handle]
        /\ next \in Links /\ data \in [Node -> Value] /\ Ranked(next)
        /\ pushed \in [List -> Seq(Value)] /\ seen \in [Iter -> Seq(Value)]
        /\ Lists(front, back, pushed, shared, next, data)
        /\ Loops(front, cursor, over, seen, shared, next, data)
    BY Given
  <1> DEFINE b == back[l]
             nx == [next EXCEPT ![b] = n]
             dt == [data EXCEPT ![n] = x]
             N(m) == Reached({front[m], back[m]}, next)
             C(m) == Reached({front[m]}, next)
  <1>h. \A m \in List : {front[m], back[m]} \in SUBSET Handle /\ {front[m]} \in SUBSET Handle
    BY <1>g
  <1>3. /\ next[n] = Null /\ \A m \in List : n \notin N(m)
    BY Fresh
  <1>n. \A m \in List : /\ N(m) \in SUBSET Node /\ {front[m], back[m]} \ {Null} \subseteq N(m)
                        /\ Closed(N(m), next) /\ C(m) \subseteq N(m)
    <2> SUFFICES ASSUME NEW m \in List
                 PROVE  /\ N(m) \in SUBSET Node /\ {front[m], back[m]} \ {Null} \subseteq N(m)
                        /\ Closed(N(m), next) /\ C(m) \subseteq N(m)
      OBVIOUS
    <2>1. next \in Links /\ {front[m]} \in SUBSET Handle /\ {front[m], back[m]} \in SUBSET Handle
      BY <1>g, <1>h
    <2>2. N(m) \in SUBSET Node /\ {front[m], back[m]} \ {Null} \subseteq N(m) /\ Closed(N(m), next)
      BY <2>1, ReachedRoots, ReachedClosed DEF Handle
    <2>3. {front[m]} \ {Null} \subseteq Reached({front[m], back[m]}, next)
      BY <2>2
    <2>4. C(m) \subseteq N(m)
      BY <2>1, <2>3, ReachedWithin
    <2> QED
      BY <2>2, <2>4
  <1>x. x \in Value /\ n \in Node /\ n # Null /\ b \in N(l) /\ b \in Node /\ b # n
    BY <1>g, <1>3, <1>n, NullAssumption DEF Value
  <1>2. /\ nx \in Links /\ nx[b] = n /\ nx[n] = Null /\ \A k \in Node \ {b} : nx[k] = next[k]
        /\ dt \in [Node -> Value] /\ dt[n] = x /\ \A k \in Node \ {n} : dt[k] = data[k]
    BY <1>g, <1>3, <1>x DEF Links
  <1>5. Ranked(nx)
    BY <1>g, <1>3, <1>x, RankedAfter
  <1>6. Settle(nx, dt)
    OBVIOUS
  <1>9. /\ front'[l] = (IF front[l] = Null THEN n ELSE front[l]) /\ back'[l] = n
        /\ pushed'[l] = Append(pushed[l], x)
        /\ \A m \in List \ {l} :
              front'[m] = front[m] /\ back'[m] = back[m] /\ pushed'[m] = pushed[m]
    BY <1>g
  <1> HIDE DEF b, nx, dt
  <1>7. \A m \in List : Reached({front'[m], back'[m]}, nx) \subseteq {n} \cup N(m)
    <2> SUFFICES ASSUME NEW m \in List
                 PROVE  Reached({front'[m], back'[m]}, nx) \subseteq {n} \cup N(m)
      OBVIOUS
    <2> DEFINE S == N(m)
    <2>1. S \in SUBSET Node /\ {front[m], back[m]} \ {Null} \subseteq S /\ Closed(S, next)
      BY <1>n
    <2> HIDE DEF S
    <2>2. Closed({n} \cup S, nx)
      BY <1>2, <2>1 DEF Closed
    <2>3. {front'[m], back'[m]} \ {Null} \subseteq {n} \cup S
      BY <1>9, <2>1
    <2>4. Reached({front'[m], back'[m]}, nx) \subseteq {n} \cup S
      BY <1>x, <2>1, <2>2, <2>3, ReachedLeast
    <2> QED
      BY <2>4 DEF S
  \* The other lists that share with none do not lead to the last node.
  <1>8. ASSUME NEW k \in List \ shared, k # l
        PROVE  /\ \A j \in C(k) : nx[j] = next[j] /\ dt[j] = data[j]
               /\ Reached({front[k]}, nx) = C(k) /\ n \notin C(k)
               /\ \A m \in List \ {k} : C(k) \cap N(m) = {}
    <2>1. \A m \in List \ {k} : C(k) \cap N(m) = {}
      BY <1>g DEF Lists
    <2>2. b \notin C(k) /\ n \notin C(k) /\ C(k) \subseteq Node
      <3>1. C(k) \cap N(l) = {}
        BY <1>8, <2>1
      <3>2. C(k) \subseteq N(k) /\ N(k) \subseteq Node /\ n \notin N(k)
        BY <1>3, <1>n
      <3> QED
        BY <1>x, <3>1, <3>2
    <2>3. \A j \in C(k) : nx[j] = next[j] /\ dt[j] = data[j]
      <3> HIDE DEF C
      <3> QED
        BY <1>2, <2>2
    <2>4. Reached({front[k]}, nx) = C(k)
      <3>1. next \in Links /\ nx \in Links /\ {front[k]} \in SUBSET Handle
        BY <1>g, <1>2, <1>h
      <3> QED
        BY <2>3, <3>1, ReachedSame
    <2> QED
      BY <2>1, <2>2, <2>3, <2>4
  \* What was reached still is.
  <1>10. next[b] = Null => C(l) \subseteq Reached({front[l]}, nx)
    <2> SUFFICES ASSUME next[b] = Null PROVE C(l) \subseteq Reached({front[l]}, nx)
      OBVIOUS
    <2> DEFINE S == Reached({front[l]}, nx)
    <2>1. nx \in Links /\ {front[l]} \in SUBSET Handle
      BY <1>2, <1>h
    <2>2. S \in SUBSET Node /\ {front[l]} \ {Null} \subseteq S /\ Closed(S, nx)
      BY <2>1, ReachedRoots, ReachedClosed DEF Handle
    <2> HIDE DEF S
    <2>3. Closed(S, next)
      BY <1>2, <2>2 DEF Closed
    <2>4. C(l) \subseteq S
      BY <2>2, <2>3, ReachedLeast
    <2> QED
      BY <2>4 DEF S
  <1>13. Histories'
    <2>1. Append(pushed[l], x) \in Seq(Value)
      BY <1>g, <1>x
    <2> QED
      BY <1>g, <2>1 DEF Histories
  \* The list itself, if it shares with none.
  <1>l. ASSUME l \notin shared
        PROVE  /\ front[l] # Null /\ b \in C(l) /\ next[b] = Null
               /\ FromOf(next, data)[front[l]] = pushed[l]
               /\ \A k \in C(l) : FromOf(nx, dt)[k] = FromOf(next, data)[k] \o <<x>>
    <2>1. /\ front[l] # Null /\ b \in C(l) /\ next[b] = Null
          /\ FromOf(next, data)[front[l]] = pushed[l]
      BY <1>g, <1>l, <1>x, NullAssumption DEF Lists, Held, b
    <2>2. C(l) \subseteq Node \ {n}
      BY <1>3, <1>n
    <2>3. \A k \in C(l) : (k # b => nx[k] = next[k]) /\ dt[k] = data[k]
      <3> HIDE DEF C
      <3> QED
        BY <1>2, <2>2
    <2>4. front[l] \in Handle
      BY <1>g
    <2>5. ASSUME NEW k \in C(l) PROVE FromOf(nx, dt)[k] = FromOf(next, data)[k] \o <<dt[n]>>
      <3>1. next \in Links /\ data \in [Node -> Value] /\ Ranked(next) /\ nx[n] = Null
            /\ nx \in Links /\ dt \in [Node -> Value] /\ nx[b] = n
        BY <1>g, <1>2
      <3>2. b \in Reached({front[l]}, next) /\ next[b] = Null /\ n \in Node
        BY <1>x, <2>1
      <3> QED
        BY <1>5, <2>3, <2>4, <3>1, <3>2, FromAppend, SMTT(30)
    <2> QED
      BY <1>2, <2>1, <2>5
  <1>14. Lists(front', back', pushed', shared', nx, dt)
    <2> SUFFICES ASSUME NEW k \in List \ shared
                 PROVE  /\ Held(front'[k], back'[k], pushed'[k], nx, dt)
                        /\ \A m \in List \ {k} :
                              Reached({front'[k]}, nx) \cap Reached({front'[m], back'[m]}, nx) = {}
      BY DEF Lists
    <2>2. CASE k = l
      <3> DEFINE f == front[l]
      <3>1. /\ f # Null /\ b \in C(l) /\ next[b] = Null /\ FromOf(next, data)[f] = pushed[l]
            /\ f \in C(l) /\ front'[l] = f
            /\ \A j \in C(l) : FromOf(nx, dt)[j] = FromOf(next, data)[j] \o <<x>>
        <4>1. {f} \in SUBSET Handle /\ f # Null
          BY <1>h, <1>l, <2>2
        <4>2. f \in C(l)
          BY <4>1, ReachedRoots DEF Handle
        <4> QED
          BY <1>9, <1>l, <2>2, <4>2
      <3>2. n \in Reached({f}, nx)
        <4>1. b \in Reached({f}, nx)
          BY <1>10, <3>1
        <4>2. Closed(Reached({f}, nx), nx)
          BY <1>2, ReachedClosed
        <4> QED
          BY <1>2, <1>x, <4>1, <4>2 DEF Closed
      <3>3. FromOf(nx, dt)[f] = pushed'[l]
        <4>1. Append(pushed[l], x) = pushed[l] \o <<x>>
          BY <1>g, <1>x
        <4> QED
          BY <1>9, <3>1, <4>1
      <3>4. Held(front'[l], back'[l], pushed'[l], nx, dt)
        BY <1>2, <1>9, <1>x, <3>1, <3>2, <3>3 DEF Held
      <3>5. ASSUME NEW m \in List \ {l}
            PROVE  Reached({front'[l]}, nx) \cap Reached({front'[m], back'[m]}, nx) = {}
        <4>1. C(l) \cap N(m) = {}
          BY <1>g, <2>2 DEF Lists
        <4>2. \A j \in N(m) : nx[j] = next[j]
          BY <1>2, <1>n, <3>1, <4>1
        <4>3. Reached({front[m], back[m]}, nx) = N(m)
          <5>1. next \in Links /\ nx \in Links /\ {front[m], back[m]} \in SUBSET Handle
            BY <1>g, <1>2, <1>h
          <5> QED
            BY <4>2, <5>1, ReachedSame
        <4>4. Reached({f}, nx) \subseteq {n} \cup C(l)
          <5> DEFINE S == C(l)
          <5>1. S \in SUBSET Node /\ {f} \ {Null} \subseteq S /\ Closed(S, next)
            BY <1>g, <1>h, ReachedRoots, ReachedClosed DEF Handle
          <5> HIDE DEF S, C, f
          <5>2. Closed({n} \cup S, nx)
            BY <1>2, <5>1 DEF Closed
          <5>3. Reached({f}, nx) \subseteq {n} \cup S
            BY <1>x, <5>1, <5>2, ReachedLeast
          <5> QED
            BY <5>3 DEF S
        <4>5. n \notin N(m)
          BY <1>3
        <4> QED
          BY <1>9, <3>1, <4>1, <4>3, <4>4, <4>5
      <3> QED
        BY <2>2, <3>4, <3>5
    <2>3. CASE k # l
      <3>1. /\ \A j \in C(k) : nx[j] = next[j] /\ dt[j] = data[j]
            /\ Reached({front[k]}, nx) = C(k) /\ n \notin C(k)
            /\ \A m \in List \ {k} : C(k) \cap N(m) = {}
        BY <1>8, <2>3
      <3>2. Held(front[k], back[k], pushed[k], next, data)
        BY <1>g DEF Lists
      <3>3. Held(front[k], back[k], pushed[k], nx, dt)
        <4>1. next \in Links /\ nx \in Links /\ front[k] \in Handle /\ Ranked(next)
          BY <1>g, <1>2
        <4> QED
          BY <1>5, <3>1, <3>2, <4>1, HeldSame
      <3> QED
        BY <1>7, <1>9, <2>3, <3>1, <3>3, ZenonT(30)
    <2> QED
      BY <2>2, <2>3
  <1>15. Loops(front', cursor', over', seen', shared', nx, dt)
    <2> SUFFICES ASSUME NEW i \in Iter, over[i] \in List \ shared
                 PROVE  Ahead(cursor[i], seen[i], front'[over[i]], nx, dt)
      BY DEF Loops
    <2>1. Ahead(cursor[i], seen[i], front[over[i]], next, data)
      BY <1>g DEF Loops
    <2>2. CASE over[i] = l
      <3> DEFINE c == cursor[i]
                 s == seen[i]
                 f == front[l]
                 F == FromOf(next, data)
                 G == FromOf(nx, dt)
      <3>f. front'[l] = f /\ f # Null
        BY <1>9, <1>l, <2>2
      <3> SUFFICES ASSUME c # Null PROVE Ahead(c, s, f, nx, dt)
        BY <2>2, <3>f DEF Ahead
      <3>1. c \in C(l)
        BY <2>1, <2>2 DEF Ahead
      <3>2. PICK u \in Seq(Value) : F[f] = u \o (s \o F[c])
        BY <2>1, <2>2 DEF Ahead
      <3>3. F[c] \in Seq(Value) /\ s \in Seq(Value) /\ <<x>> \in Seq(Value)
        <4>1. c \in Handle
          BY <1>g
        <4>2. F[c] \in Seq(Value)
          BY <1>g, <4>1, FromSeq
        <4> HIDE DEF F
        <4> QED
          BY <1>g, <1>x, <4>2
      <3>4. f \in C(l)
        <4>1. {f} \in SUBSET Handle
          BY <1>h
        <4> QED
          BY <3>f, <4>1, ReachedRoots DEF Handle
      <3>5. G[f] = F[f] \o <<x>> /\ G[c] = F[c] \o <<x>>
        BY <1>l, <2>2, <3>1, <3>4
      <3>6. c \in Reached({f}, nx)
        BY <1>10, <1>l, <2>2, <3>1
      <3> HIDE DEF F, G, c, s, f
      <3>7. G[f] = u \o (s \o G[c])
        <4>1. \A p, q, w \in Seq(Value) : (p \o q) \o w = p \o (q \o w)
          BY ConcatAssociative
        <4>2. \A p, q \in Seq(Value) : p \o q \in Seq(Value)
          OBVIOUS
        <4>s. s \o F[c] \in Seq(Value)
          BY <3>3, <4>2
        <4>3. (u \o (s \o F[c])) \o <<x>> = u \o ((s \o F[c]) \o <<x>>)
          BY <3>3, <4>1, <4>s, ZenonT(30)
        <4>4. (s \o F[c]) \o <<x>> = s \o (F[c] \o <<x>>)
          BY <3>3, <4>1, ZenonT(30)
        <4> QED
          BY <3>2, <3>5, <4>3, <4>4
      <3> QED
        BY <3>6, <3>7 DEF Ahead, G
    <2>3. CASE over[i] # l
      <3> DEFINE k == over[i]
      <3>1. \A j \in C(k) : nx[j] = next[j] /\ dt[j] = data[j]
        BY <1>8, <2>3
      <3>2. next \in Links /\ nx \in Links /\ front[k] \in Handle /\ cursor[i] \in Handle
            /\ Ranked(next)
        BY <1>g, <1>2
      <3>3. Ahead(cursor[i], seen[i], front[k], nx, dt)
        BY <1>5, <2>1, <3>1, <3>2, AheadSame
      <3> QED
        BY <1>9, <2>3, <3>3
    <2> QED
      BY <2>2, <2>3
  <1> QED
    BY <1>2, <1>5, <1>6, <1>13, <1>14, <1>15, Settled

LEMMA StepHInv == HInv /\ [Next]_vars => HInv'
  <1> SUFFICES ASSUME HInv, [Next]_vars PROVE HInv'
    OBVIOUS
  <1>i. IInv'
    BY StepIInv DEF HInv
  <1>1. ASSUME NEW l \in List, NEW x \in Item, PushFront(l, x) PROVE HInv'
    BY <1>i, <1>1, PushFrontHolds
  <1>2. ASSUME NEW l \in List, NEW x \in Item, PushBack(l, x) PROVE HInv'
    <2>1. PICK n \in Node \ Alive :
             /\ front' = [front EXCEPT ![l] = IF front[l] = Null THEN n ELSE front[l]]
             /\ back' = [back EXCEPT ![l] = n]
             /\ cursor' = cursor
             /\ Settle(IF back[l] = Null THEN next ELSE [next EXCEPT ![back[l]] = n],
                       [data EXCEPT ![n] = x])
             /\ pushed' = [pushed EXCEPT ![l] = Append(pushed[l], x)]
             /\ UNCHANGED <<shared, over, seen>>
      BY <1>2 DEF PushBack
    <2>2. CASE back[l] = Null
      <3>1. Settle(next, [data EXCEPT ![n] = x])
        BY <2>1, <2>2
      <3> QED
        BY <1>i, <2>1, <2>2, <3>1, PushFirstHolds
    <2>3. CASE back[l] # Null
      <3>1. Settle([next EXCEPT ![back[l]] = n], [data EXCEPT ![n] = x])
        BY <2>1, <2>3
      <3> QED
        BY <1>i, <2>1, <2>3, <3>1, PushLastHolds
    <2> QED
      BY <2>2, <2>3
  <1>3. ASSUME NEW l \in List, NEW r \in List, Copy(l, r) PROVE HInv'
    BY <1>i, <1>3, CopyHolds
  <1>4. ASSUME NEW l \in List, Destroy(l) PROVE HInv'
    BY <1>i, <1>4, DestroyHolds
  <1>5. ASSUME NEW i \in Iter, NEW l \in List, Begin(i, l) PROVE HInv'
    BY <1>i, <1>5, BeginHolds
  <1>6. ASSUME NEW i \in Iter, Advance(i) PROVE HInv'
    BY <1>i, <1>6, AdvanceHolds
  <1>7. CASE UNCHANGED vars
    <2>1. /\ front' = front /\ back' = back /\ cursor' = cursor /\ data' = data /\ next' = next
          /\ pushed' = pushed /\ shared' = shared /\ over' = over /\ seen' = seen
      BY <1>7 DEF vars
    <2>2. Histories' /\ Ranked(next')
      BY <2>1 DEF HInv, Histories
    <2> QED
      BY <1>i, <2>1, <2>2 DEF HInv, Ranked
  <1> QED
    BY <1>1, <1>2, <1>3, <1>4, <1>5, <1>6, <1>7 DEF Next

LEMMA SuffixOf ==
    ASSUME NEW S, NEW u \in Seq(S), NEW w \in Seq(S)
    PROVE  IsSuffix(w, u \o w)
  <1> DEFINE t == u \o w
             n == Len(w)
             p == Reverse(w)
             q == Reverse(t)
  <1>1. t \in Seq(S) /\ Len(t) = Len(u) + n /\ n \in Nat /\ Len(u) \in Nat
        /\ \A i \in 1 .. Len(u) + n : t[i] = IF i <= Len(u) THEN u[i] ELSE w[i - Len(u)]
    BY ConcatProperties, LenProperties
  <1>2. \A i \in 1 .. n : w[i] \in S
    BY ElementOfSeq
  <1>3. \A i \in 1 .. Len(t) : t[i] \in S
    BY <1>1, ElementOfSeq
  <1>4. p = [i \in 1 .. n |-> w[n - i + 1]] /\ q = [i \in 1 .. Len(t) |-> t[Len(t) - i + 1]]
    BY DEF Reverse
  <1> HIDE DEF t, n, p, q
  <1>5. p \in Seq(S) /\ Len(p) = n
    BY <1>1, <1>2, <1>4
  <1>6. q \in Seq(S) /\ Len(q) = Len(t)
    BY <1>1, <1>3, <1>4
  <1>7. \A i \in 1 .. n : p[i] = q[i] /\ p[i] \in S /\ q[i] \in S
    <2> SUFFICES ASSUME NEW i \in 1 .. n PROVE p[i] = q[i] /\ p[i] \in S
      OBVIOUS
    <2>1. p[i] = w[n - i + 1] /\ q[i] = t[Len(t) - i + 1]
      BY <1>1, <1>4
    <2>2. n - i + 1 \in 1 .. n /\ Len(t) - i + 1 \in 1 .. Len(u) + n
          /\ ~ (Len(t) - i + 1 <= Len(u)) /\ Len(t) - i + 1 - Len(u) = n - i + 1
      BY <1>1
    <2> QED
      BY <1>1, <1>2, <2>1, <2>2, SMTT(30)
  <1>8. SubSeq(p, 1, n) = SubSeq(q, 1, n)
    <2>1. /\ SubSeq(p, 1, n) \in Seq(S) /\ Len(SubSeq(p, 1, n)) = n
          /\ \A i \in 1 .. n : SubSeq(p, 1, n)[i] = p[i]
      BY <1>1, <1>5, <1>7
    <2>2. /\ SubSeq(q, 1, n) \in Seq(S) /\ Len(SubSeq(q, 1, n)) = n
          /\ \A i \in 1 .. n : SubSeq(q, 1, n)[i] = q[i]
      BY <1>1, <1>6, <1>7
    <2>3. \A i \in 1 .. n : SubSeq(p, 1, n)[i] = SubSeq(q, 1, n)[i]
      BY <1>7, <2>1, <2>2
    <2> QED
      BY <2>1, <2>2, <2>3, SeqEqual
  <1>9. IsPrefix(p, q)
    BY <1>1, <1>5, <1>6, <1>8 DEF IsPrefix
  <1> QED
    BY <1>9 DEF IsSuffix, p, q, t

\* A list that shares no nodes holds what was pushed onto it, in order, ending
\* at back_, whatever the other lists and the iterators went through.
THEOREM ListsHoldPushed == Spec => []HoldsPushed
  <1>1. HInv => HoldsPushed
    <2> SUFFICES ASSUME HInv, NEW l \in List \ shared
                 PROVE  /\ Items(l) = pushed[l]
                        /\ front[l] # Null => back[l] \in Reached({front[l]}, next)
                                              /\ next[back[l]] = Null
      BY DEF HoldsPushed
    <2>1. Held(front[l], back[l], pushed[l], next, data)
      BY DEF HInv, Lists
    <2> QED
      BY <2>1, FromIs DEF Held, Items
  <1> QED
    BY <1>1, InitHInv, StepHInv, PTL DEF Spec

\* Pushes onto a list that shares no nodes never mislead an iterator over it:
\* it goes past every item there was and every item pushed behind it.
THEOREM LoopsSkipNothing == Spec => []IteratesAll
  <1>1. HInv => IteratesAll
    <2> SUFFICES ASSUME HInv, NEW i \in Iter, over[i] \in List \ shared, cursor[i] # Null
                 PROVE  IsSuffix(seen[i] \o From[cursor[i]], Items(over[i]))
      BY DEF IteratesAll
    <2> DEFINE F == FromOf(next, data)
               c == cursor[i]
               s == seen[i]
    <2>1. Ahead(c, s, front[over[i]], next, data)
      BY DEF HInv, Loops
    <2>2. PICK u \in Seq(Value) : F[front[over[i]]] = u \o (s \o F[c])
      BY <2>1 DEF Ahead
    <2>3. s \in Seq(Value) /\ F[c] \in Seq(Value)
      <3>1. c \in Handle /\ next \in Links /\ data \in [Node -> Value] /\ Ranked(next)
            /\ s \in Seq(Value)
        BY Given
      <3> HIDE DEF c
      <3> QED
        BY <3>1, FromSeq
    <2>4. From = F
      BY FromIs
    <2> HIDE DEF F, c, s
    <2>5. s \o F[c] \in Seq(Value)
      BY <2>3
    <2>6. IsSuffix(s \o F[c], u \o (s \o F[c]))
      BY <2>5, SuffixOf
    <2> QED
      BY <2>2, <2>4, <2>6 DEF Items, c, s
  <1> QED
    BY <1>1, InitHInv, StepHInv, PTL DEF Spec

=============================================================================
