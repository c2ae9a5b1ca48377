-------------------------- MODULE GeneratorProofs --------------------------
(***************************************************************************)
(* Theorems about Generator, for any variables, loops, coroutines and      *)
(* bodies that loop at most once: only what is suspended is resumed, what  *)
(* is looped over is kept, and what is yielded is delivered once and in    *)
(* order.                                                                  *)
(*                                                                         *)
(* None of these is inductive, nor all of them together.  A coroutine that *)
(* has yielded and will come to its loop resumes what it loops over with   *)
(* no question asked (Generator.h:84), so the invariant says that the      *)
(* chain it will resume was kept free for it: the caller that began a loop *)
(* over it saw to that, and no later begin() may take from the chain.  And *)
(* a value that is yielded passes through every coroutine that relays it,  *)
(* so the invariant says which loop carries it and that it is the last its *)
(* coroutine has yielded.                                                  *)
(***************************************************************************)
EXTENDS Generator, NaturalFacts

-----------------------------------------------------------------------------
(* What a coroutine loops over, and what that loops over.                  *)

ChainIn(g, c) ==
    {d \in Coro : \A S \in SUBSET Coro :
        c \in S /\ (\A e \in S : g[e] \in S \cup {Null}) => d \in S}

Closed(S, g) == \A e \in S : g[e] \in S \cup {Null}

\* Parameters are copies of older generators.
Older(g) == \A c \in Coro : g[c] \in Coro \cup {Null} /\ (g[c] # Null => g[c] < c)

LEMMA ChainLeast ==
    ASSUME NEW g, NEW c, NEW S \in SUBSET Coro, c \in S, Closed(S, g)
    PROVE  ChainIn(g, c) \subseteq S
  BY DEF ChainIn, Closed

LEMMA ChainSelf ==
    ASSUME NEW g, NEW c \in Coro
    PROVE  c \in ChainIn(g, c)
  BY DEF ChainIn

LEMMA ChainClosed ==
    ASSUME NEW g, Older(g), NEW c \in Coro
    PROVE  Closed(ChainIn(g, c), g)
  <1> SUFFICES ASSUME NEW e \in ChainIn(g, c), g[e] # Null
               PROVE  g[e] \in ChainIn(g, c)
    BY DEF Closed
  <1>1. e \in Coro /\ g[e] \in Coro
    BY DEF ChainIn, Older
  <1>2. ASSUME NEW S \in SUBSET Coro, c \in S, \A d \in S : g[d] \in S \cup {Null}
        PROVE  g[e] \in S
    <2>1. e \in S
      BY <1>2 DEF ChainIn
    <2> QED
      BY <1>2, <2>1
  <1> QED
    BY <1>1, <1>2 DEF ChainIn

LEMMA ChainOf ==
    ASSUME NEW g, NEW c \in Coro, NEW d \in ChainIn(g, c), Older(g)
    PROVE  d \in Coro /\ ChainIn(g, d) \subseteq ChainIn(g, c)
  <1>1. ChainIn(g, c) \in SUBSET Coro /\ d \in Coro
    BY DEF ChainIn
  <1> QED
    BY <1>1, ChainClosed, ChainLeast

\* A chain is its head and the chain of what the head loops over.
LEMMA ChainUnfold ==
    ASSUME NEW g, NEW c \in Coro, Older(g), NEW d \in ChainIn(g, c)
    PROVE  d = c \/ (g[c] # Null /\ d \in ChainIn(g, g[c]))
  <1> DEFINE S == {c} \cup (IF g[c] = Null THEN {} ELSE ChainIn(g, g[c]))
  <1>1. S \in SUBSET Coro /\ c \in S
    BY DEF ChainIn
  <1>2. Closed(S, g)
    <2>1. CASE g[c] = Null
      BY <2>1 DEF Closed
    <2>2. CASE g[c] # Null
      <3>1. g[c] \in Coro
        BY <2>2 DEF Older
      <3>2. g[c] \in ChainIn(g, g[c]) /\ Closed(ChainIn(g, g[c]), g)
        BY <3>1, ChainSelf, ChainClosed
      <3> QED
        BY <2>2, <3>2 DEF Closed
    <2> QED
      BY <2>1, <2>2
  <1>3. d \in S
    <2> HIDE DEF S
    <2> QED
      BY <1>1, <1>2, ChainLeast
  <1> QED
    BY <1>3

LEMMA ChainTail ==
    ASSUME NEW g, NEW c \in Coro, Older(g), g[c] # Null
    PROVE  /\ g[c] \in Coro
           /\ g[c] \in ChainIn(g, c)
           /\ ChainIn(g, g[c]) \subseteq ChainIn(g, c)
  <1>1. g[c] \in Coro
    BY DEF Older
  <1>2. c \in ChainIn(g, c) /\ Closed(ChainIn(g, c), g)
    BY ChainSelf, ChainClosed
  <1>3. g[c] \in ChainIn(g, c)
    BY <1>2 DEF Closed
  <1> QED
    BY <1>1, <1>3, ChainOf

LEMMA ChainBelow ==
    ASSUME NEW g, NEW c \in Coro, Older(g), NEW d \in ChainIn(g, c)
    PROVE  d \in Coro /\ d <= c
  <1> DEFINE S == {e \in Coro : e <= c}
  <1>1. S \in SUBSET Coro /\ c \in S
    BY NamesAssumption
  <1>2. Closed(S, g)
    <2>1. ASSUME NEW e \in S, g[e] # Null
          PROVE  g[e] \in S
      <3>1. g[e] \in Coro /\ g[e] < e /\ e <= c
        BY <2>1 DEF Older
      <3>2. g[e] \in Nat /\ e \in Nat /\ c \in Nat
        BY <3>1, NamesAssumption
      <3> QED
        BY <3>1, <3>2
    <2> QED
      BY <2>1 DEF Closed
  <1>3. d \in S
    <2> HIDE DEF S
    <2> QED
      BY <1>1, <1>2, ChainLeast
  <1> QED
    BY <1>3

\* The chain does not meet its own head again.
LEMMA ChainPast ==
    ASSUME NEW g, NEW c \in Coro, Older(g), g[c] # Null
    PROVE  c \notin ChainIn(g, g[c])
  <1>1. g[c] \in Coro /\ g[c] < c /\ g[c] \in Nat /\ c \in Nat
    BY NamesAssumption DEF Older
  <1>2. ASSUME c \in ChainIn(g, g[c])
        PROVE  c <= g[c]
    BY <1>1, <1>2, ChainBelow
  <1> QED
    BY <1>1, <1>2

\* A chain depends on its members' parameters only.
LEMMA ChainSame ==
    ASSUME NEW g, NEW h, NEW c \in Coro, Older(g), Older(h),
           \A d \in ChainIn(g, c) : h[d] = g[d]
    PROVE  ChainIn(h, c) = ChainIn(g, c)
  <1>1. ChainIn(g, c) \in SUBSET Coro /\ ChainIn(h, c) \in SUBSET Coro
    BY DEF ChainIn
  <1>2. /\ c \in ChainIn(g, c) /\ Closed(ChainIn(g, c), g)
        /\ c \in ChainIn(h, c) /\ Closed(ChainIn(h, c), h)
    BY ChainSelf, ChainClosed
  <1>3. ChainIn(h, c) \subseteq ChainIn(g, c)
    <2>1. Closed(ChainIn(g, c), h)
      BY <1>2 DEF Closed
    <2> QED
      BY <1>1, <1>2, <2>1, ChainLeast
  <1>4. ChainIn(g, c) \subseteq ChainIn(h, c)
    <2>1. Closed(ChainIn(h, c), g)
      BY <1>2, <1>3 DEF Closed
    <2> QED
      BY <1>1, <1>2, <2>1, ChainLeast
  <1> QED
    BY <1>3, <1>4

\* What holds of a coroutine's parameters, if they are closed, holds of its
\* chain.
LEMMA ChainWithin ==
    ASSUME NEW g, NEW S \in SUBSET Coro, Closed(S, g), NEW c \in S
    PROVE  ChainIn(g, c) \subseteq S
  BY ChainLeast

LEMMA ChainIsChainIn ==
    ASSUME NEW c
    PROVE  Chain(c) = ChainIn(gen, c) /\ Chain(c)' = ChainIn(gen', c)
  BY DEF Chain, ChainIn

-----------------------------------------------------------------------------
(* What handles keep.                                                      *)

Gens == [Var \cup Coro -> Coro \cup {Null}]
Its == [Scope -> Coro \cup {Null}]

\* S has what the owners have, and what its members have.
Holds(S, g, i) ==
    /\ \A v \in Var : g[v] \in S \cup {Null}
    /\ \A p \in Loop : i[p] \in S \cup {Null}
    /\ \A c \in S : g[c] \in S \cup {Null} /\ i[c] \in S \cup {Null}

LEMMA KeptLeast ==
    ASSUME NEW g, NEW i, NEW S \in SUBSET Coro, Holds(S, g, i)
    PROVE  Kept(g, i) \subseteq S
  <1>1. (({g[v] : v \in Var} \cup {i[p] : p \in Loop})
            \cup {g[c] : c \in S} \cup {i[c] : c \in S}) \ {Null} \subseteq S
    BY DEF Holds
  <1> QED
    BY <1>1 DEF Kept

LEMMA KeptHolds ==
    ASSUME NEW g \in Gens, NEW i \in Its
    PROVE  Kept(g, i) \in SUBSET Coro /\ Holds(Kept(g, i), g, i)
  <1> DEFINE own == {g[v] : v \in Var} \cup {i[p] : p \in Loop}
             Full(S) == (own \cup {g[c] : c \in S} \cup {i[c] : c \in S}) \ {Null} \subseteq S
             K == {c \in Coro : \A S \in SUBSET Coro : Full(S) => c \in S}
  <1>1. Kept(g, i) = K
    BY DEF Kept
  <1>2. \A v \in Var : g[v] \in K \cup {Null}
    <2>1. ASSUME NEW v \in Var, g[v] # Null
          PROVE  g[v] \in K
      <3>1. g[v] \in Coro
        BY <2>1 DEF Gens
      <3>2. ASSUME NEW S \in SUBSET Coro, Full(S) PROVE g[v] \in S
        BY <3>2, <2>1
      <3> QED
        BY <3>1, <3>2
    <2> QED
      BY <2>1
  <1>3. \A p \in Loop : i[p] \in K \cup {Null}
    <2>1. ASSUME NEW p \in Loop, i[p] # Null
          PROVE  i[p] \in K
      <3>1. i[p] \in Coro
        BY <2>1 DEF Its, Scope
      <3>2. ASSUME NEW S \in SUBSET Coro, Full(S) PROVE i[p] \in S
        BY <3>2, <2>1
      <3> QED
        BY <3>1, <3>2
    <2> QED
      BY <2>1
  <1>4. ASSUME NEW c \in K
        PROVE  g[c] \in K \cup {Null} /\ i[c] \in K \cup {Null}
    <2>1. g[c] \in Coro \cup {Null} /\ i[c] \in Coro \cup {Null}
      BY DEF Gens, Its, Scope
    <2>2. ASSUME NEW S \in SUBSET Coro, Full(S)
          PROVE  g[c] \in S \cup {Null} /\ i[c] \in S \cup {Null}
      <3>1. c \in S
        BY <2>2
      <3> QED
        BY <2>2, <3>1
    <2> QED
      BY <2>1, <2>2
  <1>5. K \in SUBSET Coro
    OBVIOUS
  <1> HIDE DEF K
  <1> QED
    BY <1>1, <1>2, <1>3, <1>4, <1>5 DEF Holds

-----------------------------------------------------------------------------
(* The coroutines that run.                                                *)

LEMMA PopRunning ==
    ASSUME NEW q \in Seq(Coro), q # <<>>, IsInjective(q)
    PROVE  /\ Len(q) \in Nat \ {0} /\ Last(q) = q[Len(q)] /\ Last(q) \in Coro
           /\ Front(q) \in Seq(Coro) /\ IsInjective(Front(q))
           /\ Len(Front(q)) = Len(q) - 1
           /\ \A k \in 1 .. Len(q) - 1 : Front(q)[k] = q[k] /\ q[k] # Last(q)
           /\ ToSet(Front(q)) = ToSet(q) \ {Last(q)}
  <1>1. Len(q) \in Nat /\ Len(q) # 0 /\ DOMAIN q = 1 .. Len(q)
    OBVIOUS
  <1>2. Last(q) = q[Len(q)] /\ Last(q) \in Coro
    BY <1>1 DEF Last
  <1>3. /\ Front(q) \in Seq(Coro) /\ Len(Front(q)) = Len(q) - 1
        /\ DOMAIN Front(q) = 1 .. Len(q) - 1
        /\ \A k \in 1 .. Len(q) - 1 : Front(q)[k] = q[k]
    BY <1>1 DEF Front
  <1>4. \A k \in 1 .. Len(q) - 1 : q[k] # q[Len(q)]
    BY <1>1 DEF IsInjective
  <1>5. IsInjective(Front(q))
    BY <1>1, <1>3 DEF IsInjective
  <1>6. ToSet(Front(q)) = ToSet(q) \ {q[Len(q)]}
    BY <1>1, <1>3, <1>4 DEF ToSet
  <1> QED
    BY <1>1, <1>2, <1>3, <1>4, <1>5, <1>6

LEMMA PushRunning ==
    ASSUME NEW q \in Seq(Coro), IsInjective(q), NEW c \in Coro, c \notin ToSet(q)
    PROVE  /\ Append(q, c) \in Seq(Coro) /\ IsInjective(Append(q, c))
           /\ Append(q, c) # <<>>
           /\ Len(Append(q, c)) = Len(q) + 1 /\ Append(q, c)[Len(q) + 1] = c
           /\ \A k \in 1 .. Len(q) : Append(q, c)[k] = q[k]
           /\ ToSet(Append(q, c)) = ToSet(q) \cup {c}
  <1>1. /\ Len(q) \in Nat /\ DOMAIN q = 1 .. Len(q)
        /\ DOMAIN Append(q, c) = 1 .. Len(q) + 1
        /\ Append(q, c) \in Seq(Coro) /\ Append(q, c) # <<>>
        /\ Len(Append(q, c)) = Len(q) + 1 /\ Append(q, c)[Len(q) + 1] = c
        /\ \A k \in 1 .. Len(q) : Append(q, c)[k] = q[k]
    OBVIOUS
  <1>2. \A k \in 1 .. Len(q) : q[k] # c
    BY <1>1 DEF ToSet
  <1>3. IsInjective(Append(q, c))
    BY <1>1, <1>2 DEF IsInjective
  <1>4. ToSet(Append(q, c)) = ToSet(q) \cup {c}
    BY <1>1 DEF ToSet
  <1> QED
    BY <1>1, <1>3, <1>4

-----------------------------------------------------------------------------
(* The inductive invariant.                                                *)

Shapes ==
    /\ pc \in [Coro -> Nat]
    /\ heard \in [Coro -> Seq(Coro \X Nat)]
    /\ val \in [Coro -> (Coro \X Nat) \cup {Null}]

Alive(c) == frame[c] \in {"suspended", "running", "done"}
Going(c) == frame[c] \in {"suspended", "running"}

\* Handles are to live frames, a frame's to older ones, and it loops over
\* its parameter.
Handles ==
    /\ \A v \in Var : gen[v] # Null => Alive(gen[v])
    /\ \A p \in Loop : it[p] # Null => Alive(it[p])
    /\ \A c \in Coro : gen[c] # Null => Alive(c) /\ Alive(gen[c]) /\ gen[c] < c
    /\ \A c \in Coro : it[c] # Null => Going(c) /\ it[c] = gen[c]
    /\ \A c, d \in Coro : frame[c] # "absent" /\ d < c => frame[d] # "absent"

Unborn ==
    \A c \in Coro :
        frame[c] = "absent" => at[c] = "out" /\ pc[c] = 1 /\ heard[c] = <<>> /\ ~exc[c]

AtLoop(c) == pc[c] <= Len(body[c]) /\ body[c][pc[c]] = "loop"
Ahead(c) == \E k \in DOMAIN body[c] : k >= pc[c] /\ body[c][k] = "loop"

Loops ==
    /\ \A s \in Scope : it[s] # Null => at[s] # "out"
    /\ \A s \in Scope : at[s] # "out" /\ (s \in Loop \/ Going(s)) => it[s] # Null
    /\ \A c \in Coro : at[c] # "out" /\ Going(c) => AtLoop(c)
    /\ \A c \in Coro : frame[c] = "suspended" => at[c] # "test"
    /\ \A c \in Coro : Alive(c) /\ (\E k \in DOMAIN body[c] : body[c][k] = "loop") => gen[c] # Null

\* A coroutine is looped over in one place.
OneLoop == \A s, t \in Scope : it[s] = it[t] /\ it[s] # Null => s = t

\* Each running coroutine was resumed by a loop of the one before it.
Stack ==
    /\ active # <<>> => \E p \in Loop : it[p] = active[1] /\ at[p] = "test"
    /\ \A k \in 1 .. Len(active) - 1 : it[active[k]] = active[k + 1] /\ at[active[k]] = "test"

Started(c) == pc[c] # 1 \/ at[c] # "out"

\* What a coroutine holds while it is suspended: its own value, or that of
\* what it loops over.
Values ==
    /\ \A s \in Scope : it[s] # Null /\ at[s] = "body" => frame[it[s]] = "suspended"
    /\ \A s \in Scope : it[s] # Null /\ frame[it[s]] = "suspended" => Started(it[s])
    /\ \A c \in Coro : frame[c] = "suspended" /\ at[c] = "body" => val[c] = val[it[c]]
    /\ \A c \in Coro : frame[c] = "suspended" /\ at[c] = "out" /\ pc[c] # 1 =>
            val[c] = <<c, pc[c] - 1>> /\ body[c][pc[c] - 1] = "yield"
    /\ \A c \in Coro : exc[c] => frame[c] \in {"done", "destroyed"}

\* Only its own members loop over what c will resume.
Free(c) == \A d \in Chain(c) : frame[d] = "suspended" /\ \A s \in Scope : it[s] = d => s \in Chain(c)

\* e has started and will come to its loop.
Pending(e) == Going(e) /\ at[e] = "out" /\ (frame[e] = "running" \/ pc[e] # 1) /\ Ahead(e)

\* What a coroutine will come to is kept free for it.
Claims ==
    /\ \A e \in Coro : Pending(e) => Free(gen[e])
    /\ \A e, f \in Coro :
          Pending(e) /\ Pending(f) /\ Chain(e) \cap Chain(f) # {} => e \in Chain(f) \/ f \in Chain(e)

\* s has a value that it has not looked at.
Carrier(s) == at[s] = "test" /\ it[s] # Null /\ frame[it[s]] = "suspended"

Yields(c, k) == k \in 1 .. pc[c] - 1 /\ body[c][k] = "yield"

\* A value that was yielded was heard or is carried, by one loop.
Delivered ==
    /\ \A c \in Coro, k \in Nat :
          Yields(c, k) => \/ \E j \in DOMAIN heard[c] : heard[c][j] = <<c, k>>
                          \/ \E s \in Scope : Carrier(s) /\ val[it[s]] = <<c, k>>
    /\ \A c \in Coro : \A j \in DOMAIN heard[c] :
          \E k \in Nat : Yields(c, k) /\ heard[c][j] = <<c, k>>
    /\ \A c \in Coro : InOrder(heard[c])
    /\ \A s \in Scope, c \in Coro, k \in Nat : Carrier(s) /\ val[it[s]] = <<c, k>> =>
          \A j \in DOMAIN heard[c] : heard[c][j][2] < k
    /\ \A s, t \in Scope, c \in Coro, k, l \in Nat :
          Carrier(s) /\ Carrier(t) /\ val[it[s]] = <<c, k>> /\ val[it[t]] = <<c, l>> => s = t

IInv ==
    /\ TypeOK /\ Shapes /\ Handles /\ Unborn /\ Loops /\ OneLoop
    /\ Stack /\ Values /\ Claims /\ Delivered

-----------------------------------------------------------------------------
(* What it says of where the program stands.                               *)

LEMMA InitInvariant == Init => IInv
  <1> SUFFICES ASSUME Init PROVE IInv
    OBVIOUS
  <1> USE DEF Init
  <1>1. TypeOK
    <2>1. \A c \in Coro : pc[c] \in 1 .. Len(body[c]) + 1
      OBVIOUS
    <2>2. active \in Seq(Coro) /\ IsInjective(active) /\ ToSet(active) = {}
      BY DEF IsInjective, ToSet
    <2> QED
      BY <2>1, <2>2 DEF TypeOK
  <1>2. Shapes
    BY DEF Shapes
  <1>3. Handles
    BY NamesAssumption DEF Handles, Scope
  <1>4. Unborn
    BY DEF Unborn, Scope
  <1>5. Loops
    BY DEF Loops, Going, Alive, Scope
  <1>6. OneLoop
    BY DEF OneLoop
  <1>7. Stack
    BY DEF Stack
  <1>8. Values
    BY DEF Values, Scope
  <1>9. Claims
    BY DEF Claims, Pending, Going
  <1>10. Delivered
    BY DEF Delivered, Yields, Carrier, InOrder, Scope
  <1> QED
    BY <1>1, <1>2, <1>3, <1>4, <1>5, <1>6, <1>7, <1>8, <1>9, <1>10 DEF IInv

LEMMA Facts ==
    ASSUME TypeOK, Handles
    PROVE  /\ Older(gen) /\ gen \in Gens /\ it \in Its
           /\ \A c \in Coro : frame[c] = "running" <=> c \in ToSet(active)
           /\ active # <<>> => Last(active) \in Coro /\ frame[Last(active)] = "running"
           /\ active = <<>> => \A c \in Coro : frame[c] # "running"
  <1>1. Older(gen) /\ gen \in Gens /\ it \in Its
    BY DEF Older, Gens, Its, TypeOK, Handles
  <1>2. active \in Seq(Coro) /\ IsInjective(active)
        /\ \A c \in Coro : frame[c] = "running" <=> c \in ToSet(active)
    BY DEF TypeOK
  <1>3. active # <<>> => Last(active) \in Coro /\ Last(active) \in ToSet(active)
    <2>1. ASSUME active # <<>>
          PROVE  Last(active) \in Coro /\ Last(active) = active[Len(active)] /\ Len(active) \in DOMAIN active
      BY <2>1, <1>2, PopRunning
    <2> QED
      BY <2>1 DEF ToSet
  <1>4. active = <<>> => ToSet(active) = {}
    BY DEF ToSet
  <1> QED
    BY <1>1, <1>2, <1>3, <1>4

\* The coroutine that runs was resumed by a loop.
LEMMA Holder ==
    ASSUME TypeOK, Stack, active # <<>>
    PROVE  \E s \in Scope : it[s] = Last(active) /\ at[s] = "test"
  <1>1. active \in Seq(Coro) /\ IsInjective(active)
    BY DEF TypeOK
  <1>2. Len(active) \in Nat \ {0} /\ Last(active) = active[Len(active)]
    BY <1>1, PopRunning
  <1>3. CASE Len(active) = 1
    BY <1>2, <1>3 DEF Stack, Scope
  <1>4. CASE Len(active) # 1
    <2> DEFINE n == Len(active)
    <2>1. n - 1 \in 1 .. n - 1 /\ n - 1 + 1 = n
      <3>1. n \in Nat /\ n # 0 /\ n # 1
        BY <1>2, <1>4
      <3> HIDE DEF n
      <3> QED
        BY <3>1
    <2>2. active[Len(active) - 1] \in Coro
      BY <1>1, <1>2, <2>1
    <2>3. it[active[Len(active) - 1]] = active[Len(active) - 1 + 1]
          /\ at[active[Len(active) - 1]] = "test"
      BY <2>1 DEF Stack
    <2> QED
      BY <1>2, <2>2, <2>3 DEF Scope
  <1> QED
    BY <1>3, <1>4

\* A loop that is about to look or to resume is not at a coroutine that runs.
LEMMA Exclusive ==
    ASSUME TypeOK, Handles, Stack, OneLoop, NEW s \in Scope, Running(s), it[s] # Null
    PROVE  it[s] \in Coro /\ frame[it[s]] \in {"suspended", "done"}
  <1>1. it[s] \in Coro
    BY DEF TypeOK
  <1>2. Alive(it[s])
    BY <1>1 DEF Handles, Scope, TypeOK
  <1>3. frame[it[s]] # "running"
    <2>1. CASE s \in Loop
      BY <2>1, <1>1, Facts DEF Running
    <2>2. CASE s \notin Loop
      <3> SUFFICES ASSUME frame[it[s]] = "running" PROVE FALSE
        OBVIOUS
      <3>1. s \in Coro /\ active # <<>> /\ Last(active) = s
        BY <2>2 DEF Running, Scope
      <3>2. active \in Seq(Coro) /\ IsInjective(active) /\ it[s] \in ToSet(active)
        BY <1>1 DEF TypeOK
      <3>3. PICK j \in DOMAIN active : active[j] = it[s]
        BY <3>2 DEF ToSet
      <3>4. /\ Len(active) \in Nat \ {0} /\ j \in 1 .. Len(active)
            /\ \A k \in 1 .. Len(active) - 1 : active[k] # Last(active)
        BY <3>1, <3>2, PopRunning
      <3>5. CASE j = 1
        <4>1. PICK p \in Loop : it[p] = active[1]
          BY <3>1 DEF Stack
        <4>2. p = s
          BY <4>1, <3>3, <3>5 DEF OneLoop, Scope
        <4> QED
          BY <4>2, <2>2
      <3>6. CASE j # 1
        <4>1. j - 1 \in 1 .. Len(active) - 1 /\ j - 1 \in DOMAIN active /\ (j - 1) + 1 = j
          BY <3>2, <3>4, <3>6
        <4>2. it[active[j - 1]] = it[s]
          BY <4>1, <3>3 DEF Stack
        <4>3. active[j - 1] \in Coro
          BY <3>2, <4>1
        <4>4. active[j - 1] = s
          BY <4>2, <4>3 DEF OneLoop, Scope
        <4> QED
          BY <4>1, <4>4, <3>1, <3>4
      <3> QED
        BY <3>5, <3>6
    <2> QED
      BY <2>1, <2>2
  <1> QED
    BY <1>1, <1>2, <1>3 DEF Alive

\* The value that a started coroutine holds while it is suspended is the last
\* that a suspended coroutine, itself or one that it comes to, has yielded.
LEMMA Source ==
    ASSUME TypeOK, Shapes, Handles, Loops, Values,
           NEW d \in Coro, frame[d] = "suspended", Started(d)
    PROVE  \E c \in Coro : /\ frame[c] = "suspended" /\ pc[c] - 1 \in Nat
                           /\ val[d] = <<c, pc[c] - 1>> /\ Yields(c, pc[c] - 1)
  <1> DEFINE Own(e) == \E c \in Coro :
                           /\ frame[c] = "suspended" /\ pc[c] - 1 \in Nat
                           /\ val[e] = <<c, pc[c] - 1>> /\ Yields(c, pc[c] - 1)
             S == {e \in Coro : frame[e] = "suspended" /\ Started(e) /\ ~ Own(e)}
  <1> SUFFICES ASSUME S # {} PROVE FALSE
    OBVIOUS
  <1>1. PICK e \in S : \A f \in S : e <= f
    <2>1. S \subseteq Nat
      BY NamesAssumption
    <2> HIDE DEF S
    <2> QED
      BY <2>1, Least
  <1>2. e \in Coro /\ frame[e] = "suspended" /\ Started(e) /\ ~ Own(e)
    BY <1>1
  <1>3. at[e] \in {"out", "body"}
    BY <1>2 DEF TypeOK, Loops, Scope
  <1>4. CASE at[e] = "out"
    <2>1. pc[e] # 1 /\ val[e] = <<e, pc[e] - 1>> /\ body[e][pc[e] - 1] = "yield"
      BY <1>2, <1>4 DEF Started, Values
    <2>2. pc[e] \in Nat /\ pc[e] >= 1
      BY <1>2 DEF TypeOK, Shapes
    <2>3. pc[e] - 1 \in 1 .. pc[e] - 1 /\ pc[e] - 1 \in Nat
      BY <2>1, <2>2
    <2> QED
      BY <1>2, <2>1, <2>3 DEF Yields
  <1>5. CASE at[e] = "body"
    <2>1. e \in Scope /\ it[e] # Null /\ it[e] \in Coro
      BY <1>2, <1>5 DEF Loops, Going, Scope, TypeOK
    <2>2. it[e] = gen[e] /\ gen[e] < e
      BY <1>2, <2>1 DEF Handles
    <2>3. frame[it[e]] = "suspended" /\ Started(it[e]) /\ val[e] = val[it[e]]
      BY <1>2, <1>5, <2>1 DEF Values
    <2>4. it[e] \notin S
      <3>1. it[e] \in Nat /\ e \in Nat
        BY <1>2, <2>1, NamesAssumption
      <3> HIDE DEF S
      <3> QED
        BY <1>1, <2>2, <3>1
    <2>5. Own(it[e])
      BY <2>1, <2>3, <2>4
    <2> QED
      BY <1>2, <2>3, <2>5
  <1> QED
    BY <1>3, <1>4, <1>5

\* What is pending has something to loop over.
LEMMA PendingHasGen ==
    ASSUME TypeOK, Handles, Loops, NEW e \in Coro, Pending(e)
    PROVE  /\ gen[e] # Null /\ gen[e] \in Coro /\ e \notin Chain(gen[e])
           /\ gen[e] \in Chain(e) /\ Chain(gen[e]) \subseteq Chain(e)
           /\ \A d \in Chain(e) : d = e \/ d \in Chain(gen[e])
  <1>1. gen[e] # Null
    BY DEF Pending, Going, Alive, Ahead, Loops
  <1>2. Older(gen)
    BY Facts
  <1> QED
    BY <1>1, <1>2, ChainIsChainIn, ChainTail, ChainPast, ChainUnfold

\* Nothing of a chain comes back to its head.
LEMMA ChainHead ==
    ASSUME TypeOK, Handles, NEW c \in Coro, NEW e \in Chain(c), gen[e] # Null
    PROVE  e \in Coro /\ gen[e] # c /\ c \notin Chain(gen[e])
  <1>1. Older(gen)
    BY Facts
  <1>2. e \in Coro /\ e <= c
    BY <1>1, ChainBelow, ChainIsChainIn
  <1>3. gen[e] \in Coro /\ gen[e] < e
    BY <1>2 DEF TypeOK, Handles
  <1>4. gen[e] \in Nat /\ e \in Nat /\ c \in Nat
    BY <1>2, <1>3, NamesAssumption
  <1>5. c \in Chain(gen[e]) => c <= gen[e]
    BY <1>1, <1>3, ChainBelow, ChainIsChainIn
  <1> QED
    BY <1>2, <1>3, <1>4, <1>5

\* Of what is free, nothing is at the head, and the rest is free for it.
LEMMA FreeHead ==
    ASSUME TypeOK, Handles, Loops, NEW c \in Coro, Free(c)
    PROVE  /\ c \in Chain(c) /\ frame[c] = "suspended"
           /\ \A t \in Scope : it[t] # c
           /\ at[c] = "out" /\ Ahead(c) => Free(gen[c])
  <1>1. c \in Chain(c) /\ frame[c] = "suspended"
    BY ChainSelf, ChainIsChainIn DEF Free
  <1>2. ASSUME NEW t \in Scope, it[t] = c PROVE FALSE
    <2>1. t \in Chain(c) /\ t \in Coro
      BY <1>1, <1>2 DEF Chain, Free
    <2>2. it[t] = gen[t] /\ gen[t] # Null
      BY <1>2, <2>1, NamesAssumption DEF Handles
    <2> QED
      BY <1>2, <2>1, <2>2, ChainHead
  <1>3. ASSUME at[c] = "out", Ahead(c)
        PROVE  Free(gen[c])
    <2>1. gen[c] # Null
      BY <1>1, <1>3 DEF Loops, Alive, Ahead
    <2>2. Chain(gen[c]) \subseteq Chain(c) /\ \A d \in Chain(c) : d = c \/ d \in Chain(gen[c])
      BY <2>1, Facts, ChainTail, ChainUnfold, ChainIsChainIn
    <2>3. it[c] = Null
      BY <1>3 DEF Loops, Scope
    <2>4. ASSUME NEW d \in Chain(gen[c])
          PROVE  frame[d] = "suspended" /\ \A s \in Scope : it[s] = d => s \in Chain(gen[c])
      <3>1. d \in Chain(c) /\ d \in Coro
        BY <2>2 DEF Chain
      <3> QED
        BY <3>1, <2>2, <2>3, NamesAssumption DEF Free
    <2> QED
      BY <2>4 DEF Free
  <1> QED
    BY <1>1, <1>2, <1>3

LEMMA SameChains ==
    ASSUME gen' = gen
    PROVE  \A e : Chain(e)' = Chain(e)
  BY ChainIsChainIn

\* Where nothing is yielded, looked at or lost, what was delivered is the same.
LEMMA SameDelivered ==
    ASSUME Delivered, heard' = heard,
           \A t \in Scope : Carrier(t)' <=> Carrier(t),
           \A t \in Scope : Carrier(t) => val'[it'[t]] = val[it[t]],
           \A d \in Coro, k \in Nat : Yields(d, k)' <=> Yields(d, k)
    PROVE  Delivered'
  <1>1. \A c \in Coro, k \in Nat :
            Yields(c, k)' => \/ \E j \in DOMAIN heard'[c] : heard'[c][j] = <<c, k>>
                             \/ \E s \in Scope : Carrier(s)' /\ val'[it'[s]] = <<c, k>>
    <2> SUFFICES ASSUME NEW c \in Coro, NEW k \in Nat, Yields(c, k)',
                        ~ \E j \in DOMAIN heard'[c] : heard'[c][j] = <<c, k>>
                 PROVE  \E s \in Scope : Carrier(s)' /\ val'[it'[s]] = <<c, k>>
      OBVIOUS
    <2>1. Yields(c, k) /\ ~ \E j \in DOMAIN heard[c] : heard[c][j] = <<c, k>>
      OBVIOUS
    <2>2. PICK s \in Scope : Carrier(s) /\ val[it[s]] = <<c, k>>
      BY <2>1 DEF Delivered
    <2>3. Carrier(s)' /\ val'[it'[s]] = <<c, k>>
      BY <2>2
    <2> QED
      BY <2>3
  <1>2. \A c \in Coro : \A j \in DOMAIN heard'[c] :
            \E k \in Nat : Yields(c, k)' /\ heard'[c][j] = <<c, k>>
    BY DEF Delivered
  <1>3. \A c \in Coro : InOrder(heard[c])'
    BY DEF Delivered, InOrder
  <1>4. \A s \in Scope, c \in Coro, k \in Nat : Carrier(s)' /\ val'[it'[s]] = <<c, k>> =>
            \A j \in DOMAIN heard'[c] : heard'[c][j][2] < k
    BY DEF Delivered
  <1>5. \A s, t \in Scope, c \in Coro, k, l \in Nat :
            Carrier(s)' /\ Carrier(t)' /\ val'[it'[s]] = <<c, k>> /\ val'[it'[t]] = <<c, l>> => s = t
    BY DEF Delivered
  <1> QED
    BY <1>1, <1>2, <1>3, <1>4, <1>5 DEF Delivered

-----------------------------------------------------------------------------
(* A loop resumes a coroutine.                                             *)

Resuming(s, c) ==
    /\ it' = [it EXCEPT ![s] = c]
    /\ at' = [at EXCEPT ![s] = "test"]
    /\ frame' = [frame EXCEPT ![c] = "running"]
    /\ active' = Append(active, c)
    /\ UNCHANGED <<gen, body, pc, val, exc, heard>>

\* c waits, for s only, and if it will come to its loop the way is free.
MayResume(s, c) ==
    /\ Running(s) /\ at[s] \in {"out", "body"}
    /\ frame[c] = "suspended"
    /\ \A t \in Scope : it[t] = c => t = s
    /\ s \in Coro => c = gen[s] /\ AtLoop(s)
    /\ \A e \in Coro : Pending(e) /\ e # s => c \notin Chain(gen[e])
    /\ at[c] = "out" /\ Ahead(c) =>
          /\ Free(gen[c])
          /\ \A e \in Coro :
                Pending(e) /\ e # s /\ Chain(e) \cap Chain(c) # {} => e \in Chain(c)

LEMMA ResumeStructure ==
    ASSUME IInv, NEW s \in Scope, NEW c \in Coro, MayResume(s, c), Resuming(s, c)
    PROVE  /\ TypeOK' /\ Shapes' /\ Handles' /\ Unborn' /\ Loops' /\ OneLoop'
           /\ Stack' /\ Values'
  <1> USE DEF IInv
  <1>0. /\ it' \in Its /\ it'[s] = c /\ \A t \in Scope : t # s => it'[t] = it[t]
        /\ at' \in [Scope -> {"out", "test", "body"}]
        /\ at'[s] = "test" /\ \A t \in Scope : t # s => at'[t] = at[t]
        /\ frame' \in [Coro -> {"absent", "suspended", "running", "done", "destroyed"}]
        /\ frame'[c] = "running" /\ \A d \in Coro : d # c => frame'[d] = frame[d]
        /\ active' = Append(active, c)
        /\ gen' = gen /\ body' = body /\ pc' = pc /\ val' = val /\ exc' = exc /\ heard' = heard
    BY DEF Resuming, TypeOK, Its
  <1>i. \A t \in Scope : it[t] \in Coro \cup {Null}
    BY DEF TypeOK
  <1>m. /\ Running(s) /\ at[s] \in {"out", "body"} /\ frame[c] = "suspended"
        /\ \A t \in Scope : it[t] = c => t = s
        /\ s \in Coro => c = gen[s] /\ AtLoop(s)
    BY DEF MayResume
  <1>s. s \in Coro => frame[s] = "running" /\ s # c /\ s = Last(active) /\ active # <<>> /\ s \notin Loop
    BY <1>m, Facts, NamesAssumption DEF Running
  <1>c. c \notin ToSet(active) /\ active \in Seq(Coro) /\ IsInjective(active)
    BY <1>m, Facts DEF TypeOK
  <1>p. /\ active' \in Seq(Coro) /\ IsInjective(active') /\ active' # <<>>
        /\ Len(active) \in Nat
        /\ Len(active') = Len(active) + 1 /\ active'[Len(active) + 1] = c
        /\ \A k \in 1 .. Len(active) : active'[k] = active[k]
        /\ ToSet(active') = ToSet(active) \cup {c}
    BY <1>0, <1>c, PushRunning
  <1>1. TypeOK'
    BY <1>0, <1>p DEF TypeOK, Its
  <1>2. Shapes'
    BY <1>0 DEF Shapes
  <1>3. Handles'
    <2>1. \A d \in Coro : Alive(d) => Alive(d)'
      BY <1>0 DEF Alive
    <2>2. \A d \in Coro : Going(d) => Going(d)'
      BY <1>0 DEF Going
    <2>3. \A v \in Var : gen'[v] # Null => Alive(gen[v])'
      BY <1>0, <2>1 DEF Handles, TypeOK
    <2>4. \A p \in Loop : it'[p] # Null => Alive(it[p])'
      <3>1. Alive(c)'
        BY <1>0 DEF Alive
      <3> QED
        BY <1>0, <1>i, <2>1, <3>1 DEF Handles, Scope
    <2>5. \A d \in Coro : gen'[d] # Null => Alive(d)' /\ Alive(gen[d])' /\ gen'[d] < d
      BY <1>0, <2>1 DEF Handles, TypeOK
    <2>6. \A d \in Coro : it'[d] # Null => Going(d)' /\ it'[d] = gen'[d]
      <3>1. s \in Coro => Going(s)'
        BY <1>s, <1>0 DEF Going
      <3> QED
        BY <1>0, <1>m, <2>2, <3>1 DEF Handles, Scope
    <2>7. \A d, e \in Coro : frame'[d] # "absent" /\ e < d => frame'[e] # "absent"
      BY <1>0, <1>m DEF Handles
    <2> QED
      BY <2>3, <2>4, <2>5, <2>6, <2>7 DEF Handles
  <1>4. Unborn'
    BY <1>0, <1>s DEF Unborn, Scope
  <1>5. Loops'
    <2>1. \A t \in Scope : it'[t] # Null => at'[t] # "out"
      BY <1>0 DEF Loops
    <2>2. \A t \in Scope : at'[t] # "out" /\ (t \in Loop \/ Going(t)') => it'[t] # Null
      BY <1>0, <1>m, NamesAssumption DEF Loops, Going, Scope
    <2>3. \A d \in Coro : at'[d] # "out" /\ Going(d)' => AtLoop(d)'
      BY <1>0, <1>m DEF Loops, Going, Scope, AtLoop
    <2>4. \A d \in Coro : frame'[d] = "suspended" => at'[d] # "test"
      BY <1>0, <1>s DEF Loops, Scope
    <2>5. \A d \in Coro : Alive(d)' /\ (\E k \in DOMAIN body'[d] : body'[d][k] = "loop") => gen'[d] # Null
      BY <1>0, <1>m DEF Loops, Alive
    <2> QED
      BY <2>1, <2>2, <2>3, <2>4, <2>5 DEF Loops
  <1>6. OneLoop'
    BY <1>0, <1>m DEF OneLoop
  <1>7. Stack'
    <2>1. \E p \in Loop : it'[p] = active'[1] /\ at'[p] = "test"
      <3>1. CASE active = <<>>
        BY <1>0, <1>p, <1>s, <3>1 DEF Scope
      <3>2. CASE active # <<>>
        <4>1. PICK p \in Loop : it[p] = active[1] /\ at[p] = "test"
          BY <3>2 DEF Stack
        <4>2. p # s
          BY <4>1, <1>m
        <4>3. 1 \in 1 .. Len(active)
          BY <1>c, <3>2
        <4> QED
          BY <4>1, <4>2, <4>3, <1>0, <1>p DEF Scope
      <3> QED
        BY <3>1, <3>2
    <2>2. ASSUME NEW k \in 1 .. Len(active') - 1
          PROVE  it'[active'[k]] = active'[k + 1] /\ at'[active'[k]] = "test"
      <3>1. k \in 1 .. Len(active) /\ active'[k] = active[k] /\ active # <<>>
        BY <1>p
      <3>2. CASE k = Len(active)
        <4>1. active[k] = s
          BY <3>1, <3>2, <1>c, <1>m, PopRunning DEF Running
        <4> QED
          BY <4>1, <3>1, <3>2, <1>0, <1>p
      <3>3. CASE k # Len(active)
        <4>1. k \in 1 .. Len(active) - 1 /\ k + 1 \in 1 .. Len(active)
          BY <3>1, <3>3, <1>p
        <4>2. it[active[k]] = active[k + 1] /\ at[active[k]] = "test"
          BY <4>1 DEF Stack
        <4>3. active[k] # s /\ active[k] \in Coro
          BY <4>2, <1>m, <3>1, <1>c
        <4> QED
          BY <4>1, <4>2, <4>3, <3>1, <1>0, <1>p DEF Scope
      <3> QED
        BY <3>2, <3>3
    <2> QED
      BY <2>1, <2>2 DEF Stack
  <1>8. Values'
    <2>1. \A t \in Scope : it'[t] # Null /\ at'[t] = "body" => frame'[it'[t]] = "suspended"
      BY <1>0, <1>i, <1>m DEF Values
    <2>2. \A t \in Scope : it'[t] # Null /\ frame'[it'[t]] = "suspended" => Started(it[t])'
      <3>1. \A d \in Coro : frame'[d] = "suspended" => d # c /\ d # s /\ (Started(d) => Started(d)')
        BY <1>0, <1>s DEF Started, Scope
      <3> QED
        BY <1>0, <1>i, <3>1 DEF Values
    <2>3. \A d \in Coro : frame'[d] = "suspended" /\ at'[d] = "body" => val'[d] = val'[it'[d]]
      BY <1>0, <1>s DEF Values, Scope
    <2>4. \A d \in Coro : frame'[d] = "suspended" /\ at'[d] = "out" /\ pc'[d] # 1 =>
                val'[d] = <<d, pc'[d] - 1>> /\ body'[d][pc'[d] - 1] = "yield"
      BY <1>0, <1>s DEF Values, Scope
    <2>5. \A d \in Coro : exc'[d] => frame'[d] \in {"done", "destroyed"}
      BY <1>0, <1>m DEF Values
    <2> QED
      BY <2>1, <2>2, <2>3, <2>4, <2>5 DEF Values
  <1> QED
    BY <1>1, <1>2, <1>3, <1>4, <1>5, <1>6, <1>7, <1>8

LEMMA ResumeClaims ==
    ASSUME IInv, NEW s \in Scope, NEW c \in Coro, MayResume(s, c), Resuming(s, c)
    PROVE  Claims'
  <1> USE DEF IInv
  <1>0. /\ it'[s] = c /\ \A t \in Scope : t # s => it'[t] = it[t]
        /\ at'[s] = "test" /\ \A t \in Scope : t # s => at'[t] = at[t]
        /\ frame'[c] = "running" /\ \A d \in Coro : d # c => frame'[d] = frame[d]
        /\ gen' = gen /\ body' = body /\ pc' = pc
    BY DEF Resuming, TypeOK
  <1>g. \A e \in Coro : gen[e] \in Coro \cup {Null}
    BY DEF TypeOK
  <1>m. /\ frame[c] = "suspended"
        /\ \A e \in Coro : Pending(e) /\ e # s => c \notin Chain(gen[e])
        /\ at[c] = "out" /\ Ahead(c) =>
              /\ Free(gen[c])
              /\ \A e \in Coro :
                    Pending(e) /\ e # s /\ Chain(e) \cap Chain(c) # {} => e \in Chain(c)
    BY DEF MayResume
  <1>1. \A e : Chain(e)' = Chain(e)
    BY <1>0, SameChains
  <1>2. ASSUME NEW e \in Coro, Pending(e)'
        PROVE  /\ e # s
               /\ e # c => Pending(e)
               /\ e = c => at[c] = "out" /\ Ahead(c)
    <2>1. e # s /\ Ahead(e) /\ at'[e] = "out"
      BY <1>0, <1>2 DEF Pending, Ahead
    <2>2. e # c => Going(e) /\ (frame[e] = "running" \/ pc[e] # 1)
      BY <1>0, <1>2 DEF Pending, Going
    <2> QED
      BY <1>0, <2>1, <2>2 DEF Pending, Scope
  \* What is free stays so, if c is none of it.
  <1>3. ASSUME NEW d \in Coro, Free(d), c \notin Chain(d)
        PROVE  Free(d)'
    <2>1. ASSUME NEW x \in Chain(d)
          PROVE  frame'[x] = "suspended" /\ \A t \in Scope : it'[t] = x => t \in Chain(d)
      <3>1. x \in Coro /\ x # c
        BY <1>3 DEF Chain
      <3> QED
        BY <1>0, <1>3, <3>1 DEF Free
    <2> QED
      BY <2>1, <1>1 DEF Free
  <1>4. ASSUME NEW e \in Coro, Pending(e)'
        PROVE  Free(gen[e])'
    <2>1. CASE e # c
      <3>1. Pending(e) /\ e # s
        BY <1>2, <1>4, <2>1
      <3>2. Free(gen[e]) /\ c \notin Chain(gen[e]) /\ gen[e] \in Coro
        BY <3>1, <1>m, PendingHasGen DEF Claims
      <3>3. Free(gen[e])'
        <4> DEFINE d == gen[e]
        <4>1. gen'[e] = d /\ Free(d) /\ c \notin Chain(d) /\ d \in Coro
          BY <1>0, <3>2
        <4> HIDE DEF d
        <4> QED
          BY <4>1, <1>1, <1>3 DEF Free
      <3> QED
        BY <3>3
    <2>2. CASE e = c
      <3>1. at[c] = "out" /\ Ahead(c) /\ Free(gen[c])
        BY <1>2, <1>4, <2>2, <1>m
      <3>2. gen[c] # Null
        BY <3>1, <1>m DEF Loops, Ahead, Alive
      <3>3. gen[c] \in Coro /\ c \notin Chain(gen[c])
        BY <3>2, <1>g, Facts, ChainPast, ChainIsChainIn
      <3> QED
        BY <3>1, <3>3, <1>3, <1>0, <2>2
    <2> QED
      BY <2>1, <2>2
  <1>5. ASSUME NEW e \in Coro, NEW f \in Coro, Pending(e)', Pending(f)',
               Chain(e)' \cap Chain(f)' # {}
        PROVE  e \in Chain(f)' \/ f \in Chain(e)'
    <2>1. Chain(e) \cap Chain(f) # {} /\ e # s /\ f # s
      BY <1>1, <1>2, <1>5
    <2>2. CASE e # c /\ f # c
      BY <2>1, <2>2, <1>1, <1>2, <1>5 DEF Claims
    <2>3. CASE e = f
      BY <2>3, <1>1, ChainSelf, ChainIsChainIn
    <2>4. CASE e = c /\ f # c
      BY <2>1, <2>4, <1>1, <1>2, <1>5, <1>m
    <2>5. CASE f = c /\ e # c
      BY <2>1, <2>5, <1>1, <1>2, <1>5, <1>m
    <2> QED
      BY <2>2, <2>3, <2>4, <2>5
  <1> QED
    BY <1>4, <1>5 DEF Claims

LEMMA ResumeDelivered ==
    ASSUME IInv, NEW s \in Scope, NEW c \in Coro, MayResume(s, c), Resuming(s, c)
    PROVE  Delivered'
  <1> USE DEF IInv
  <1>0. /\ it'[s] = c /\ \A t \in Scope : t # s => it'[t] = it[t]
        /\ at'[s] = "test" /\ \A t \in Scope : t # s => at'[t] = at[t]
        /\ frame'[c] = "running" /\ \A d \in Coro : d # c => frame'[d] = frame[d]
        /\ body' = body /\ pc' = pc /\ val' = val /\ heard' = heard
    BY DEF Resuming, TypeOK
  <1>m. at[s] # "test" /\ frame[c] = "suspended" /\ \A t \in Scope : it[t] = c => t = s
    BY DEF MayResume
  <1>i. \A t \in Scope : it[t] \in Coro \cup {Null}
    BY DEF TypeOK
  <1>1. \A t \in Scope : Carrier(t)' <=> Carrier(t)
    BY <1>0, <1>m, <1>i DEF Carrier
  <1>2. \A t \in Scope : Carrier(t) => val'[it'[t]] = val[it[t]]
    BY <1>0, <1>m DEF Carrier
  <1>3. \A d \in Coro, k \in Nat : Yields(d, k)' <=> Yields(d, k)
    BY <1>0 DEF Yields
  <1> QED
    BY <1>0, <1>1, <1>2, <1>3, SameDelivered

-----------------------------------------------------------------------------
(* The coroutine that runs gives control back.                             *)

Leaving(c, to) ==
    /\ Running(c) /\ at[c] \in {"out", "test"} /\ (to = "done" => at[c] = "out")
    /\ frame' = [frame EXCEPT ![c] = to]
    /\ active' = Front(active)
    /\ at' = [at EXCEPT ![c] = IF at[c] = "test" THEN "body" ELSE "out"]
    /\ pc' \in [Coro -> Nat]
    /\ \A d \in Coro : d # c => pc'[d] = pc[d]
    /\ pc'[c] \in pc[c] .. Len(body[c]) + 1 /\ (at[c] = "test" => pc'[c] = pc[c])
    /\ exc' \in [Coro -> BOOLEAN]
    /\ UNCHANGED <<gen, it, body>>

LEMMA LeaveStructure ==
    ASSUME IInv, NEW c \in Coro, NEW to \in {"suspended", "done"}, Leaving(c, to),
           heard' = heard, \A d \in Coro : d # c => exc'[d] = exc[d]
    PROVE  TypeOK' /\ Handles' /\ Unborn' /\ Loops' /\ OneLoop' /\ Stack'
  <1> USE DEF IInv
  <1>0. /\ frame' \in [Coro -> {"absent", "suspended", "running", "done", "destroyed"}]
        /\ frame'[c] = to /\ \A d \in Coro : d # c => frame'[d] = frame[d]
        /\ active' = Front(active)
        /\ at' \in [Scope -> {"out", "test", "body"}]
        /\ \A t \in Scope : t # c => at'[t] = at[t]
        /\ at'[c] = IF at[c] = "test" THEN "body" ELSE "out"
        /\ \A d \in Coro : d # c => pc'[d] = pc[d]
        /\ pc'[c] \in pc[c] .. Len(body[c]) + 1 /\ (at[c] = "test" => pc'[c] = pc[c])
        /\ exc' \in [Coro -> BOOLEAN]
        /\ gen' = gen /\ it' = it /\ body' = body
    BY DEF Leaving, TypeOK, Scope
  <1>m. Running(c) /\ at[c] \in {"out", "test"} /\ (to = "done" => at[c] = "out")
    BY DEF Leaving
  <1>c. c \in Scope /\ c \notin Loop /\ active # <<>> /\ Last(active) = c /\ frame[c] = "running"
    BY <1>m, Facts, NamesAssumption DEF Running, Scope
  <1>p. /\ active \in Seq(Coro) /\ IsInjective(active) /\ Len(active) \in Nat \ {0}
        /\ active' \in Seq(Coro) /\ IsInjective(active')
        /\ Len(active') = Len(active) - 1
        /\ \A k \in 1 .. Len(active) - 1 : active'[k] = active[k] /\ active[k] # c
        /\ ToSet(active') = ToSet(active) \ {c}
    <2>1. active \in Seq(Coro) /\ IsInjective(active)
      BY DEF TypeOK
    <2> QED
      BY <2>1, <1>0, <1>c, PopRunning
  <1>1. TypeOK'
    <2>1. \A d \in Coro : pc'[d] \in 1 .. Len(body'[d]) + 1
      <3>1. pc[c] \in 1 .. Len(body[c]) + 1 /\ pc[c] \in Nat
        BY DEF TypeOK, Shapes
      <3>2. pc'[c] \in 1 .. Len(body[c]) + 1
        BY <1>0, <3>1
      <3> QED
        BY <1>0, <3>2 DEF TypeOK
    <2>2. \A d \in Coro : frame'[d] = "running" <=> d \in ToSet(active')
      BY <1>0, <1>p DEF TypeOK
    <2> QED
      BY <1>0, <1>p, <2>1, <2>2 DEF TypeOK
  <1>3. Handles'
    <2>1. \A d \in Coro : Alive(d) => Alive(d)'
      BY <1>0 DEF Alive
    <2>2. it[c] # Null => to = "suspended"
      BY <1>m, <1>c DEF Loops
    <2>3. \A d \in Coro : it[d] # Null /\ Going(d) => Going(d)'
      BY <1>0, <2>2 DEF Going
    <2>4. \A d, e \in Coro : frame'[d] # "absent" /\ e < d => frame'[e] # "absent"
      BY <1>0, <1>c DEF Handles
    <2> QED
      BY <1>0, <2>1, <2>3, <2>4 DEF Handles, TypeOK, Scope
  <1>4. Unborn'
    BY <1>0, <1>c DEF Unborn, Scope
  <1>5. Loops'
    <2>1. \A t \in Scope : it'[t] # Null => at'[t] # "out"
      BY <1>0, <1>m, <1>c DEF Loops
    <2>2. \A t \in Scope : at'[t] # "out" /\ (t \in Loop \/ Going(t)') => it'[t] # Null
      BY <1>0, <1>m, <1>c DEF Loops, Going, Scope
    <2>3. \A d \in Coro : at'[d] # "out" /\ Going(d)' => AtLoop(d)'
      BY <1>0, <1>m, <1>c DEF Loops, Going, Scope, AtLoop
    <2>4. \A d \in Coro : frame'[d] = "suspended" => at'[d] # "test"
      BY <1>0 DEF Loops, Scope
    <2>5. \A d \in Coro : Alive(d)' /\ (\E k \in DOMAIN body'[d] : body'[d][k] = "loop") => gen'[d] # Null
      BY <1>0, <1>c DEF Loops, Alive
    <2> QED
      BY <2>1, <2>2, <2>3, <2>4, <2>5 DEF Loops
  <1>6. OneLoop'
    BY <1>0 DEF OneLoop
  <1>7. Stack'
    <2>1. active' # <<>> => \E p \in Loop : it'[p] = active'[1] /\ at'[p] = "test"
      <3>1. ASSUME active' # <<>>
            PROVE  active'[1] = active[1]
        BY <3>1, <1>p
      <3>2. PICK p \in Loop : it[p] = active[1] /\ at[p] = "test"
        BY <1>c DEF Stack
      <3>3. p # c /\ p \in Scope
        BY <1>c DEF Scope
      <3> QED
        BY <3>1, <3>2, <3>3, <1>0
    <2>2. ASSUME NEW k \in 1 .. Len(active') - 1
          PROVE  it'[active'[k]] = active'[k + 1] /\ at'[active'[k]] = "test"
      <3>1. k \in 1 .. Len(active) - 1 /\ k + 1 \in 1 .. Len(active) - 1
        BY <1>p
      <3>2. it[active[k]] = active[k + 1] /\ at[active[k]] = "test" /\ active[k] \in Coro
        BY <3>1, <1>p DEF Stack
      <3> QED
        BY <3>1, <3>2, <1>0, <1>p DEF Scope
    <2> QED
      BY <2>1, <2>2 DEF Stack
  <1> QED
    BY <1>1, <1>3, <1>4, <1>5, <1>6, <1>7

\* A claim that is there afterwards was there before.
LEMMA LeaveClaims ==
    ASSUME IInv, NEW c \in Coro, NEW to \in {"suspended", "done"}, Leaving(c, to)
    PROVE  Claims'
  <1> USE DEF IInv
  <1>0. /\ frame'[c] = to /\ \A d \in Coro : d # c => frame'[d] = frame[d]
        /\ \A t \in Scope : t # c => at'[t] = at[t]
        /\ at'[c] = IF at[c] = "test" THEN "body" ELSE "out"
        /\ \A d \in Coro : d # c => pc'[d] = pc[d]
        /\ pc'[c] \in pc[c] .. Len(body[c]) + 1
        /\ gen' = gen /\ it' = it /\ body' = body
    BY DEF Leaving, TypeOK, Scope
  <1>c. frame[c] = "running" /\ at[c] \in {"out", "test"}
    BY Facts, NamesAssumption DEF Leaving, Running
  <1>1. \A e : Chain(e)' = Chain(e)
    BY <1>0, SameChains
  <1>2. ASSUME NEW e \in Coro, Pending(e)'
        PROVE  Pending(e)
    <2>1. CASE e = c
      <3>1. at[c] = "out"
        BY <1>0, <1>2, <1>c, <2>1 DEF Pending
      <3>2. PICK k \in DOMAIN body[c] : k >= pc'[c] /\ body[c][k] = "loop"
        BY <1>0, <1>2, <2>1 DEF Pending, Ahead
      <3>3. k >= pc[c]
        <4>1. pc[c] \in Nat /\ pc'[c] \in Int /\ k \in Int /\ pc'[c] >= pc[c]
          <5>1. pc[c] \in Nat /\ body[c] \in Seq({"yield", "loop", "throw"})
            BY BodiesAssumption DEF Shapes, TypeOK
          <5> QED
            BY <5>1, <1>0
        <4> QED
          BY <3>2, <4>1
      <3> QED
        BY <2>1, <3>1, <3>2, <3>3, <1>c DEF Pending, Ahead, Going
    <2>2. CASE e # c
      BY <2>2, <1>0, <1>2 DEF Pending, Ahead, Going, Scope
    <2> QED
      BY <2>1, <2>2
  <1>3. ASSUME NEW d, Free(d) PROVE Free(d)'
    <2>1. \A x \in Chain(d) : x # c
      BY <1>3, <1>c DEF Free
    <2>2. \A x \in Chain(d) : x \in Coro
      BY DEF Chain
    <2> QED
      BY <1>0, <1>1, <1>3, <2>1, <2>2 DEF Free
  <1>4. ASSUME NEW e \in Coro, Pending(e)'
        PROVE  Free(gen[e])'
    <2>1. PICK d : d = gen[e] /\ gen'[e] = d /\ Free(d)
      BY <1>0, <1>2, <1>4 DEF Claims
    <2>2. Free(d)'
      BY <2>1, <1>3
    <2> QED
      BY <2>1, <2>2 DEF Free
  <1> QED
    BY <1>1, <1>2, <1>4 DEF Claims

\* A carried value is the last that a suspended coroutine has yielded.
LEMMA Carried ==
    ASSUME IInv, NEW s \in Scope, Carrier(s)
    PROVE  /\ it[s] \in Coro
           /\ \E c \in Coro : /\ frame[c] = "suspended" /\ pc[c] - 1 \in Nat
                              /\ val[it[s]] = <<c, pc[c] - 1>> /\ Yields(c, pc[c] - 1)
  <1>1. it[s] \in Coro /\ frame[it[s]] = "suspended" /\ Started(it[s])
    BY DEF IInv, TypeOK, Values, Carrier
  <1> QED
    BY <1>1, Source DEF IInv

LEMMA CarriedBy ==
    ASSUME IInv, NEW s \in Scope, Carrier(s), NEW c \in Coro, NEW k, val[it[s]] = <<c, k>>
    PROVE  frame[c] = "suspended" /\ k \in Nat /\ k = pc[c] - 1 /\ Yields(c, k)
  <1>1. PICK d \in Coro : /\ frame[d] = "suspended" /\ pc[d] - 1 \in Nat
                          /\ val[it[s]] = <<d, pc[d] - 1>> /\ Yields(d, pc[d] - 1)
    BY Carried
  <1>2. c = d /\ k = pc[d] - 1
    BY <1>1
  <1> QED
    BY <1>1, <1>2

LEMMA HeardBefore ==
    ASSUME IInv, NEW c \in Coro, NEW j \in DOMAIN heard[c]
    PROVE  heard[c][j][2] < pc[c]
  <1>1. PICK k \in Nat : Yields(c, k) /\ heard[c][j] = <<c, k>>
    BY DEF IInv, Delivered
  <1>2. k < pc[c]
    BY <1>1 DEF IInv, Shapes, Yields
  <1> QED
    BY <1>1, <1>2

LEMMA YieldStep ==
    ASSUME IInv, NEW c \in Coro, Yield(c)
    PROVE  IInv'
  <1> USE DEF IInv
  <1>0. /\ frame' = [frame EXCEPT ![c] = "suspended"] /\ active' = Front(active)
        /\ val' = [val EXCEPT ![c] = <<c, pc[c]>>]
        /\ pc' = [pc EXCEPT ![c] = pc[c] + 1]
        /\ gen' = gen /\ it' = it /\ at' = at /\ body' = body /\ exc' = exc /\ heard' = heard
        /\ Running(c) /\ at[c] = "out" /\ pc[c] <= Len(body[c]) /\ body[c][pc[c]] = "yield"
    BY DEF Yield, Suspend, Does
  <1>t. /\ pc \in [Coro -> Nat] /\ val \in [Coro -> (Coro \X Nat) \cup {Null}]
        /\ frame \in [Coro -> {"absent", "suspended", "running", "done", "destroyed"}]
        /\ at \in [Scope -> {"out", "test", "body"}] /\ exc \in [Coro -> BOOLEAN]
        /\ \A t \in Scope : it[t] \in Coro \cup {Null}
        /\ Len(body[c]) \in Nat /\ pc[c] >= 1
    <2>1. Len(body[c]) \in Nat
      BY BodiesAssumption DEF TypeOK
    <2> QED
      BY <2>1 DEF TypeOK, Shapes
  <1>c. c \in Scope /\ c \notin Loop /\ active # <<>> /\ Last(active) = c /\ frame[c] = "running"
        /\ it[c] = Null
    BY <1>0, Facts, NamesAssumption DEF Running, Scope, Loops
  <1>1. Leaving(c, "suspended")
    <2>1. at' = [at EXCEPT ![c] = IF at[c] = "test" THEN "body" ELSE "out"]
      BY <1>0, <1>t
    <2>2. pc'[c] \in pc[c] .. Len(body[c]) + 1 /\ pc' \in [Coro -> Nat]
      BY <1>0, <1>t
    <2> QED
      BY <1>0, <1>t, <2>1, <2>2 DEF Leaving
  <1>2. TypeOK' /\ Handles' /\ Unborn' /\ Loops' /\ OneLoop' /\ Stack' /\ Claims'
    BY <1>0, <1>1, LeaveStructure, LeaveClaims
  <1>3. Shapes'
    BY <1>0, <1>t DEF Shapes
  <1>4. Values'
    <2>1. \A t \in Scope : it'[t] # Null /\ at'[t] = "body" => frame'[it'[t]] = "suspended"
      BY <1>0, <1>t DEF Values
    <2>2. \A t \in Scope : it'[t] # Null /\ frame'[it'[t]] = "suspended" => Started(it[t])'
      BY <1>0, <1>t DEF Values, Started
    <2>3. \A d \in Coro : frame'[d] = "suspended" /\ at'[d] = "body" => val'[d] = val'[it'[d]]
      <3>1. \A d \in Coro : d # c /\ frame[d] = "suspended" /\ at[d] = "body" => it[d] # c
        BY <1>c DEF Values, Loops, Going, Scope
      <3> QED
        BY <1>0, <1>t, <1>c, <3>1 DEF Values
    <2>4. \A d \in Coro : frame'[d] = "suspended" /\ at'[d] = "out" /\ pc'[d] # 1 =>
                val'[d] = <<d, pc'[d] - 1>> /\ body'[d][pc'[d] - 1] = "yield"
      BY <1>0, <1>t DEF Values
    <2>5. \A d \in Coro : exc'[d] => frame'[d] \in {"done", "destroyed"}
      BY <1>0, <1>t, <1>c DEF Values
    <2> QED
      BY <2>1, <2>2, <2>3, <2>4, <2>5 DEF Values
  <1>5. Delivered'
    <2>1. PICK r \in Scope : it[r] = c /\ at[r] = "test"
      BY <1>c, Holder
    <2>2. \A t \in Scope : t # r => it[t] # c
      BY <2>1, NamesAssumption DEF OneLoop
    <2>3. /\ \A t \in Scope : Carrier(t)' <=> Carrier(t) \/ t = r
          /\ val'[it'[r]] = <<c, pc[c]>>
          /\ \A t \in Scope : Carrier(t) => t # r /\ val'[it'[t]] = val[it[t]]
      BY <1>0, <1>t, <1>c, <2>1, <2>2 DEF Carrier
    <2>4. \A d \in Coro, k \in Nat : Yields(d, k)' <=> Yields(d, k) \/ (d = c /\ k = pc[c])
      <3>1. ASSUME NEW d \in Coro, NEW k \in Nat, d # c
            PROVE  Yields(d, k)' <=> Yields(d, k)
        BY <3>1, <1>0, <1>t DEF Yields
      <3>2. ASSUME NEW k \in Nat
            PROVE  Yields(c, k)' <=> Yields(c, k) \/ k = pc[c]
        <4>1. pc'[c] - 1 = pc[c] /\ pc[c] \in Nat
          BY <1>0, <1>t
        <4> QED
          BY <4>1, <1>0, <1>t DEF Yields
      <3> QED
        BY <3>1, <3>2
    <2>5. \A t \in Scope, k \in Nat : Carrier(t) => val[it[t]] # <<c, k>>
      BY <1>c, CarriedBy
    <2>6. ASSUME NEW d \in Coro, NEW k \in Nat, Yields(d, k)'
          PROVE  \/ \E j \in DOMAIN heard'[d] : heard'[d][j] = <<d, k>>
                 \/ \E s \in Scope : Carrier(s)' /\ val'[it'[s]] = <<d, k>>
      <3>1. CASE Yields(d, k)
        <4>1. CASE \E j \in DOMAIN heard[d] : heard[d][j] = <<d, k>>
          BY <4>1, <1>0
        <4>2. CASE \E s \in Scope : Carrier(s) /\ val[it[s]] = <<d, k>>
          BY <4>2, <2>3
        <4> QED
          BY <3>1, <4>1, <4>2 DEF Delivered
      <3>2. CASE d = c /\ k = pc[c]
        BY <3>2, <2>3
      <3> QED
        BY <2>4, <2>6, <3>1, <3>2
    <2>7. \A d \in Coro : \A j \in DOMAIN heard'[d] :
              \E k \in Nat : Yields(d, k)' /\ heard'[d][j] = <<d, k>>
      BY <1>0, <2>4 DEF Delivered
    <2>8. \A d \in Coro : InOrder(heard[d])'
      BY <1>0 DEF Delivered, InOrder
    <2>9. ASSUME NEW s \in Scope, NEW d \in Coro, NEW k \in Nat,
                 Carrier(s)', val'[it'[s]] = <<d, k>>, NEW j \in DOMAIN heard'[d]
          PROVE  heard'[d][j][2] < k
      <3>1. CASE s = r
        <4>1. d = c /\ k = pc[c]
          BY <2>3, <2>9, <3>1
        <4> QED
          BY <4>1, <1>0, HeardBefore
      <3>2. CASE s # r
        <4>1. Carrier(s) /\ val[it[s]] = <<d, k>>
          BY <2>3, <2>9, <3>2
        <4> QED
          BY <4>1, <1>0 DEF Delivered
      <3> QED
        BY <3>1, <3>2
    <2>10. ASSUME NEW s \in Scope, NEW t \in Scope, NEW d \in Coro, NEW k \in Nat, NEW l \in Nat,
                  Carrier(s)', Carrier(t)', val'[it'[s]] = <<d, k>>, val'[it'[t]] = <<d, l>>
           PROVE  s = t
      <3>1. CASE s # r /\ t # r
        <4>1. Carrier(s) /\ Carrier(t) /\ val[it[s]] = <<d, k>> /\ val[it[t]] = <<d, l>>
          BY <2>3, <2>10, <3>1
        <4> QED
          BY <4>1 DEF Delivered
      <3>2. ASSUME NEW x \in Scope, NEW y \in Scope, NEW m \in Nat, NEW n \in Nat, x = r, y # r,
                   Carrier(y)', val'[it'[x]] = <<d, m>>, val'[it'[y]] = <<d, n>>
            PROVE  FALSE
        <4>1. d = c
          BY <2>3, <3>2
        <4>2. Carrier(y) /\ val[it[y]] = <<c, n>>
          BY <2>3, <3>2, <4>1
        <4> QED
          BY <4>2, <2>5
      <3> QED
        BY <2>10, <3>1, <3>2
    <2> QED
      <3>1. \A d \in Coro, k \in Nat :
                Yields(d, k)' => \/ \E j \in DOMAIN heard'[d] : heard'[d][j] = <<d, k>>
                                 \/ \E s \in Scope : Carrier(s)' /\ val'[it'[s]] = <<d, k>>
        BY <2>6
      <3>2. \A s \in Scope, d \in Coro, k \in Nat : Carrier(s)' /\ val'[it'[s]] = <<d, k>> =>
                \A j \in DOMAIN heard'[d] : heard'[d][j][2] < k
        BY <2>9
      <3>3. \A s, t \in Scope, d \in Coro, k, l \in Nat :
                Carrier(s)' /\ Carrier(t)' /\ val'[it'[s]] = <<d, k>> /\ val'[it'[t]] = <<d, l>> => s = t
        BY <2>10
      <3> QED
        BY <2>7, <2>8, <3>1, <3>2, <3>3 DEF Delivered
  <1> QED
    BY <1>2, <1>3, <1>4, <1>5

LEMMA RelayStep ==
    ASSUME IInv, NEW c \in Coro, LoopBody(c)
    PROVE  IInv'
  <1> USE DEF IInv
  <1>l. c \in Scope /\ c \notin Loop
    BY NamesAssumption DEF Scope
  <1>0. /\ frame' = [frame EXCEPT ![c] = "suspended"] /\ active' = Front(active)
        /\ val' = [val EXCEPT ![c] = val[it[c]]]
        /\ at' = [at EXCEPT ![c] = "body"]
        /\ gen' = gen /\ it' = it /\ pc' = pc /\ body' = body /\ exc' = exc /\ heard' = heard
        /\ Running(c) /\ at[c] = "test" /\ frame[it[c]] # "done"
    BY <1>l DEF LoopBody, Suspend
  <1>t. /\ pc \in [Coro -> Nat] /\ val \in [Coro -> (Coro \X Nat) \cup {Null}]
        /\ frame \in [Coro -> {"absent", "suspended", "running", "done", "destroyed"}]
        /\ at \in [Scope -> {"out", "test", "body"}] /\ exc \in [Coro -> BOOLEAN]
        /\ \A t \in Scope : it[t] \in Coro \cup {Null}
        /\ pc[c] \in 1 .. Len(body[c]) + 1
    BY DEF TypeOK, Shapes
  <1>c. active # <<>> /\ Last(active) = c /\ frame[c] = "running"
    BY <1>0, <1>l, Facts DEF Running
  <1>i. it[c] \in Coro /\ frame[it[c]] = "suspended" /\ it[c] # c
    <2>1. it[c] # Null
      BY <1>0, <1>c, <1>l DEF Loops, Going
    <2> QED
      BY <2>1, <1>0, <1>l, <1>c, Exclusive
  <1>1. Leaving(c, "suspended")
    <2>1. at' = [at EXCEPT ![c] = IF at[c] = "test" THEN "body" ELSE "out"]
      BY <1>0, <1>t
    <2>2. pc'[c] \in pc[c] .. Len(body[c]) + 1 /\ pc' \in [Coro -> Nat]
      BY <1>0, <1>t
    <2> QED
      BY <1>0, <1>t, <2>1, <2>2 DEF Leaving
  <1>2. TypeOK' /\ Handles' /\ Unborn' /\ Loops' /\ OneLoop' /\ Stack' /\ Claims'
    BY <1>0, <1>1, LeaveStructure, LeaveClaims
  <1>3. Shapes'
    BY <1>0, <1>t, <1>i DEF Shapes
  <1>4. Values'
    <2>1. \A t \in Scope : it'[t] # Null /\ at'[t] = "body" => frame'[it'[t]] = "suspended"
      BY <1>0, <1>t, <1>i DEF Values
    <2>2. \A t \in Scope : it'[t] # Null /\ frame'[it'[t]] = "suspended" => Started(it[t])'
      BY <1>0, <1>t, <1>l DEF Values, Started, Scope
    <2>3. \A d \in Coro : frame'[d] = "suspended" /\ at'[d] = "body" => val'[d] = val'[it'[d]]
      <3>1. \A d \in Coro : d # c /\ frame[d] = "suspended" /\ at[d] = "body" => it[d] # c
        BY <1>c DEF Values, Loops, Going, Scope
      <3> QED
        BY <1>0, <1>t, <1>i, <3>1 DEF Values, Scope
    <2>4. \A d \in Coro : frame'[d] = "suspended" /\ at'[d] = "out" /\ pc'[d] # 1 =>
                val'[d] = <<d, pc'[d] - 1>> /\ body'[d][pc'[d] - 1] = "yield"
      BY <1>0, <1>t, <1>l DEF Values, Scope
    <2>5. \A d \in Coro : exc'[d] => frame'[d] \in {"done", "destroyed"}
      BY <1>0, <1>t, <1>c DEF Values
    <2> QED
      BY <2>1, <2>2, <2>3, <2>4, <2>5 DEF Values
  <1>5. Delivered'
    <2>1. PICK r \in Scope : it[r] = c /\ at[r] = "test"
      BY <1>c, Holder
    <2>2. r # c /\ \A t \in Scope : t # r => it[t] # c
      BY <2>1, <1>i, NamesAssumption DEF OneLoop
    <2> DEFINE From(t) == IF t = r THEN c ELSE t
    <2>3. Carrier(c) /\ ~ Carrier(c)' /\ ~ Carrier(r)
      BY <1>0, <1>i, <1>t, <1>c, <1>l, <2>1, NamesAssumption DEF Carrier
    <2>4. \A t \in Scope : Carrier(t)' => From(t) \in Scope /\ Carrier(From(t)) /\ val'[it'[t]] = val[it[From(t)]]
      <3>1. ASSUME NEW t \in Scope, t # r, Carrier(t)'
            PROVE  Carrier(t) /\ val'[it'[t]] = val[it[t]]
        BY <3>1, <1>0, <1>t, <2>2, <2>3 DEF Carrier
      <3>2. val'[it'[r]] = val[it[c]]
        BY <1>0, <1>t, <2>1
      <3> QED
        BY <3>1, <3>2, <2>3, <1>l
    <2>5. \A t \in Scope : Carrier(t) =>
              \E u \in Scope : Carrier(u)' /\ val'[it'[u]] = val[it[t]]
      <3>1. Carrier(r)' /\ val'[it'[r]] = val[it[c]]
        BY <1>0, <1>t, <1>l, <2>1, <2>2, NamesAssumption DEF Carrier
      <3>2. ASSUME NEW t \in Scope, t # c, Carrier(t)
            PROVE  Carrier(t)' /\ val'[it'[t]] = val[it[t]]
        BY <3>2, <1>0, <1>t, <1>c, <2>2, <2>3 DEF Carrier
      <3> QED
        BY <3>1, <3>2
    <2>6. \A d \in Coro, k \in Nat : Yields(d, k)' <=> Yields(d, k)
      BY <1>0 DEF Yields
    <2>7. \A s, t \in Scope : Carrier(s)' /\ Carrier(t)' /\ From(s) = From(t) => s = t
      BY <2>3
    <2>8. ASSUME NEW d \in Coro, NEW k \in Nat, Yields(d, k)',
                 ~ \E j \in DOMAIN heard'[d] : heard'[d][j] = <<d, k>>
          PROVE  \E s \in Scope : Carrier(s)' /\ val'[it'[s]] = <<d, k>>
      <3>1. PICK s \in Scope : Carrier(s) /\ val[it[s]] = <<d, k>>
        BY <2>6, <2>8, <1>0 DEF Delivered
      <3> QED
        BY <3>1, <2>5
    <2> HIDE DEF From
    <2> QED
      <3>1. \A d \in Coro, k \in Nat :
                Yields(d, k)' => \/ \E j \in DOMAIN heard'[d] : heard'[d][j] = <<d, k>>
                                 \/ \E s \in Scope : Carrier(s)' /\ val'[it'[s]] = <<d, k>>
        BY <2>8
      <3>2. \A s \in Scope, d \in Coro, k \in Nat : Carrier(s)' /\ val'[it'[s]] = <<d, k>> =>
                \A j \in DOMAIN heard'[d] : heard'[d][j][2] < k
        <4>1. ASSUME NEW s \in Scope, NEW d \in Coro, NEW k \in Nat,
                     Carrier(s)', val'[it'[s]] = <<d, k>>
              PROVE  \A j \in DOMAIN heard[d] : heard[d][j][2] < k
          <5>1. PICK t \in Scope : Carrier(t) /\ val[it[t]] = <<d, k>>
            BY <2>4, <4>1
          <5> QED
            BY <5>1 DEF Delivered
        <4> QED
          BY <4>1, <1>0
      <3>3. \A s, t \in Scope, d \in Coro, k, l \in Nat :
                Carrier(s)' /\ Carrier(t)' /\ val'[it'[s]] = <<d, k>> /\ val'[it'[t]] = <<d, l>> => s = t
        BY <2>4, <2>7 DEF Delivered
      <3>4. \A d \in Coro : \A j \in DOMAIN heard'[d] :
                \E k \in Nat : Yields(d, k)' /\ heard'[d][j] = <<d, k>>
        BY <1>0, <2>6 DEF Delivered
      <3>5. \A d \in Coro : InOrder(heard[d])'
        BY <1>0 DEF Delivered, InOrder
      <3> QED
        BY <3>1, <3>2, <3>3, <3>4, <3>5 DEF Delivered
  <1> QED
    BY <1>2, <1>3, <1>4, <1>5

\* A coroutine comes to its end, with or without an exception.
LEMMA FinishStep ==
    ASSUME IInv, NEW c \in Coro, Running(c), at[c] = "out", Finish(c),
           exc' \in {exc, [exc EXCEPT ![c] = TRUE]}
    PROVE  IInv'
  <1> USE DEF IInv
  <1>0. /\ frame' = [frame EXCEPT ![c] = "done"] /\ active' = Front(active)
        /\ gen' = gen /\ it' = it /\ at' = at /\ body' = body /\ pc' = pc /\ val' = val
        /\ heard' = heard
    BY DEF Finish
  <1>t. /\ pc \in [Coro -> Nat] /\ pc[c] \in 1 .. Len(body[c]) + 1
        /\ frame \in [Coro -> {"absent", "suspended", "running", "done", "destroyed"}]
        /\ at \in [Scope -> {"out", "test", "body"}] /\ exc \in [Coro -> BOOLEAN]
        /\ \A t \in Scope : it[t] \in Coro \cup {Null}
    BY DEF TypeOK, Shapes
  <1>c. c \in Scope /\ frame[c] = "running" /\ it[c] = Null
    BY Facts, NamesAssumption DEF Running, Scope, Loops
  <1>e. exc' \in [Coro -> BOOLEAN] /\ \A d \in Coro : d # c => exc'[d] = exc[d]
    BY <1>t
  <1>1. Leaving(c, "done")
    <2>1. at' = [at EXCEPT ![c] = IF at[c] = "test" THEN "body" ELSE "out"]
      BY <1>0, <1>t
    <2>2. pc'[c] \in pc[c] .. Len(body[c]) + 1 /\ pc' \in [Coro -> Nat]
      BY <1>0, <1>t
    <2> QED
      BY <1>0, <1>t, <1>e, <2>1, <2>2 DEF Leaving
  <1>2. TypeOK' /\ Handles' /\ Unborn' /\ Loops' /\ OneLoop' /\ Stack' /\ Claims'
    BY <1>0, <1>1, <1>e, LeaveStructure, LeaveClaims
  <1>3. Shapes'
    BY <1>0 DEF Shapes
  <1>4. Values'
    <2>1. \A t \in Scope : it'[t] # Null /\ at'[t] = "body" => frame'[it'[t]] = "suspended"
      BY <1>0, <1>t, <1>c DEF Values
    <2>2. \A t \in Scope : it'[t] # Null /\ frame'[it'[t]] = "suspended" => Started(it[t])'
      BY <1>0, <1>t DEF Values, Started
    <2>3. \A d \in Coro : frame'[d] = "suspended" /\ at'[d] = "body" => val'[d] = val'[it'[d]]
      BY <1>0, <1>t DEF Values
    <2>4. \A d \in Coro : frame'[d] = "suspended" /\ at'[d] = "out" /\ pc'[d] # 1 =>
                val'[d] = <<d, pc'[d] - 1>> /\ body'[d][pc'[d] - 1] = "yield"
      BY <1>0, <1>t DEF Values
    <2>5. \A d \in Coro : exc'[d] => frame'[d] \in {"done", "destroyed"}
      BY <1>0, <1>t, <1>e DEF Values
    <2> QED
      BY <2>1, <2>2, <2>3, <2>4, <2>5 DEF Values
  <1>5. Delivered'
    <2>1. \A t \in Scope : Carrier(t)' <=> Carrier(t)
      BY <1>0, <1>t, <1>c DEF Carrier
    <2>2. \A d \in Coro, k \in Nat : Yields(d, k)' <=> Yields(d, k)
      BY <1>0 DEF Yields
    <2> QED
      BY <1>0, <2>1, <2>2, SameDelivered
  <1> QED
    BY <1>2, <1>3, <1>4, <1>5

-----------------------------------------------------------------------------
(* A caller's loop looks at a value.                                       *)

LEMMA HearStep ==
    ASSUME IInv, NEW p \in Loop, LoopBody(p)
    PROVE  IInv'
  <1> USE DEF IInv
  <1>l. p \in Scope /\ p \notin Coro
    BY NamesAssumption DEF Scope
  <1>0. /\ heard' = [heard EXCEPT ![val[it[p]][1]] = Append(heard[val[it[p]][1]], val[it[p]])]
        /\ at' = [at EXCEPT ![p] = "body"]
        /\ frame' = frame /\ active' = active /\ val' = val
        /\ gen' = gen /\ it' = it /\ pc' = pc /\ body' = body /\ exc' = exc
        /\ active = <<>> /\ at[p] = "test" /\ frame[it[p]] # "done"
    BY <1>l DEF LoopBody, Running
  <1>t. /\ pc \in [Coro -> Nat] /\ heard \in [Coro -> Seq(Coro \X Nat)]
        /\ at \in [Scope -> {"out", "test", "body"}]
        /\ \A t \in Scope : it[t] \in Coro \cup {Null}
    BY DEF TypeOK, Shapes
  <1>i. it[p] \in Coro /\ frame[it[p]] = "suspended" /\ Carrier(p)
    <2>1. it[p] # Null
      BY <1>0, <1>l DEF Loops
    <2>2. Running(p)
      BY <1>0 DEF Running
    <2> QED
      BY <1>0, <1>l, <2>1, <2>2, Exclusive DEF Carrier
  <1>v. PICK c \in Coro : /\ frame[c] = "suspended" /\ pc[c] - 1 \in Nat
                          /\ val[it[p]] = <<c, pc[c] - 1>> /\ Yields(c, pc[c] - 1)
    BY <1>i, <1>l, Carried
  <1>k. PICK k \in Nat : k = pc[c] - 1 /\ val[it[p]] = <<c, k>> /\ Yields(c, k)
    BY <1>v
  <1>h. heard' = [heard EXCEPT ![c] = Append(heard[c], <<c, k>>)]
    BY <1>0, <1>k
  <1>a. /\ heard' \in [Coro -> Seq(Coro \X Nat)]
        /\ \A d \in Coro : d # c => heard'[d] = heard[d]
        /\ Len(heard[c]) \in Nat /\ DOMAIN heard[c] = 1 .. Len(heard[c])
        /\ DOMAIN heard'[c] = 1 .. Len(heard[c]) + 1
        /\ heard'[c][Len(heard[c]) + 1] = <<c, k>>
        /\ \A j \in DOMAIN heard[c] : heard'[c][j] = heard[c][j]
    <2>1. <<c, k>> \in Coro \X Nat /\ heard[c] \in Seq(Coro \X Nat)
      BY <1>t
    <2>2. heard'[c] = Append(heard[c], <<c, k>>)
      BY <1>h, <1>t
    <2> QED
      BY <1>h, <1>t, <2>1, <2>2, SMTT(30)
  <1>n. PICK n \in Nat : /\ DOMAIN heard[c] = 1 .. n /\ DOMAIN heard'[c] = 1 .. n + 1
                         /\ heard'[c][n + 1] = <<c, k>>
                         /\ \A j \in 1 .. n : heard'[c][j] = heard[c][j]
    BY <1>a
  <1>1. TypeOK'
    BY <1>0, <1>t DEF TypeOK
  <1>2. Shapes'
    BY <1>0, <1>a DEF Shapes
  <1>3. Handles'
    BY <1>0 DEF Handles, Alive, Going
  <1>4. Unborn'
    BY <1>0, <1>l, <1>a, <1>v DEF Unborn, Scope
  <1>5. Loops'
    BY <1>0, <1>i, <1>l, <1>t, NamesAssumption DEF Loops, Alive, Going, AtLoop, Scope
  <1>6. OneLoop'
    BY <1>0 DEF OneLoop
  <1>7. Stack'
    BY <1>0 DEF Stack
  <1>8. Values'
    <2>1. \A t \in Scope : it'[t] # Null /\ at'[t] = "body" => frame'[it'[t]] = "suspended"
      BY <1>0, <1>t, <1>i DEF Values
    <2>2. \A d \in Coro : at'[d] = at[d]
      BY <1>0, <1>l, <1>t DEF Scope
    <2>3. \A t \in Scope : it'[t] # Null /\ frame'[it'[t]] = "suspended" => Started(it[t])'
      BY <1>0, <1>t, <2>2 DEF Values, Started
    <2> QED
      BY <1>0, <2>1, <2>2, <2>3 DEF Values
  <1>9. Claims'
    <2>1. \A e : Chain(e)' = Chain(e)
      BY <1>0, SameChains
    <2>2. \A e \in Coro : Pending(e)' <=> Pending(e)
      BY <1>0, <1>l, <1>t DEF Pending, Going, Ahead, Scope
    <2>3. ASSUME NEW e \in Coro, Pending(e)'
          PROVE  Free(gen[e])'
      <3>1. Free(gen[e])
        BY <2>2, <2>3 DEF Claims
      <3> QED
        BY <3>1, <1>0, <2>1 DEF Free
    <2> QED
      BY <2>1, <2>2, <2>3 DEF Claims
  <1>10. Delivered'
    <2>1. \A t \in Scope : Carrier(t)' <=> Carrier(t) /\ t # p
      BY <1>0, <1>t DEF Carrier
    <2>2. \A d \in Coro, l \in Nat : Yields(d, l)' <=> Yields(d, l)
      BY <1>0 DEF Yields
    <2>3. val' = val /\ it' = it
      BY <1>0
    <2>4. \A d \in Coro : \A j \in DOMAIN heard[d] : j \in DOMAIN heard'[d] /\ heard'[d][j] = heard[d][j]
      <3>1. \A j \in 1 .. n : j \in 1 .. n + 1
        OBVIOUS
      <3> QED
        BY <3>1, <1>a, <1>n
    <2>5. \A d \in Coro : \A j \in DOMAIN heard'[d] :
              \/ j \in DOMAIN heard[d] /\ heard'[d][j] = heard[d][j]
              \/ d = c /\ j = n + 1 /\ heard'[d][j] = <<c, k>>
      <3>1. \A j \in 1 .. n + 1 : j \in 1 .. n \/ j = n + 1
        OBVIOUS
      <3> QED
        BY <3>1, <1>a, <1>n
    <2>6. ASSUME NEW d \in Coro, NEW l \in Nat, Yields(d, l)',
                 ~ \E s \in Scope : Carrier(s)' /\ val'[it'[s]] = <<d, l>>
          PROVE  \E j \in DOMAIN heard'[d] : heard'[d][j] = <<d, l>>
      <3>1. CASE \E j \in DOMAIN heard[d] : heard[d][j] = <<d, l>>
        BY <3>1, <2>4
      <3>2. CASE \E s \in Scope : Carrier(s) /\ val[it[s]] = <<d, l>>
        <4>1. val[it[p]] = <<d, l>>
          BY <2>1, <2>3, <2>6, <3>2
        <4>2. d = c /\ l = k
          BY <4>1, <1>k
        <4>3. n + 1 \in DOMAIN heard'[c] /\ heard'[c][n + 1] = <<c, k>>
          BY <1>n
        <4> QED
          BY <4>2, <4>3
      <3> QED
        BY <2>2, <2>6, <3>1, <3>2 DEF Delivered
    <2>7. ASSUME NEW d \in Coro, NEW j \in DOMAIN heard'[d]
          PROVE  \E l \in Nat : Yields(d, l)' /\ heard'[d][j] = <<d, l>>
      <3>1. CASE j \in DOMAIN heard[d] /\ heard'[d][j] = heard[d][j]
        BY <3>1, <2>2 DEF Delivered
      <3>2. CASE d = c /\ heard'[d][j] = <<c, k>>
        BY <3>2, <2>2, <1>k
      <3> QED
        BY <2>5, <3>1, <3>2
    <2>8. \A j \in DOMAIN heard[c] : heard[c][j][2] < k
      BY <1>i, <1>k, <1>l DEF Delivered
    <2>9. \A d \in Coro : InOrder(heard[d])'
      <3>1. \A d \in Coro : d # c => InOrder(heard[d])'
        BY <1>a DEF Delivered, InOrder
      <3>2. InOrder(heard[c])'
        <4>1. ASSUME NEW i \in DOMAIN heard'[c], NEW j \in DOMAIN heard'[c], i < j
              PROVE  heard'[c][i][2] < heard'[c][j][2]
          <5>1. i \in DOMAIN heard[c] /\ heard'[c][i] = heard[c][i]
            <6>1. i \in 1 .. n + 1 /\ j \in 1 .. n + 1
              BY <1>n
            <6>2. i \in 1 .. n
              BY <6>1, <4>1
            <6> QED
              BY <6>2, <1>n
          <5>2. CASE j \in DOMAIN heard[c] /\ heard'[c][j] = heard[c][j]
            BY <4>1, <5>1, <5>2 DEF Delivered, InOrder
          <5>3. CASE heard'[c][j] = <<c, k>>
            BY <5>1, <5>3, <2>8
          <5> QED
            BY <2>5, <5>2, <5>3
        <4> QED
          BY <4>1 DEF InOrder
      <3> QED
        BY <3>1, <3>2
    <2>10. ASSUME NEW s \in Scope, NEW d \in Coro, NEW l \in Nat, Carrier(s)', val'[it'[s]] = <<d, l>>,
                  NEW j \in DOMAIN heard'[d]
           PROVE  heard'[d][j][2] < l
      <3>1. Carrier(s) /\ s # p /\ val[it[s]] = <<d, l>>
        BY <2>1, <2>3, <2>10
      <3>2. d # c
        BY <3>1, <1>i, <1>k, <1>l DEF Delivered
      <3> QED
        BY <3>1, <3>2, <2>5 DEF Delivered
    <2>11. \A s, t \in Scope, d \in Coro, l, m \in Nat :
               Carrier(s)' /\ Carrier(t)' /\ val'[it'[s]] = <<d, l>> /\ val'[it'[t]] = <<d, m>> => s = t
      BY <2>1, <2>3 DEF Delivered
    <2> QED
      <3>1. \A d \in Coro, l \in Nat :
                Yields(d, l)' => \/ \E j \in DOMAIN heard'[d] : heard'[d][j] = <<d, l>>
                                 \/ \E s \in Scope : Carrier(s)' /\ val'[it'[s]] = <<d, l>>
        BY <2>6
      <3>2. \A s \in Scope, d \in Coro, l \in Nat : Carrier(s)' /\ val'[it'[s]] = <<d, l>> =>
                \A j \in DOMAIN heard'[d] : heard'[d][j][2] < l
        BY <2>10
      <3>3. \A d \in Coro : \A j \in DOMAIN heard'[d] :
                \E l \in Nat : Yields(d, l)' /\ heard'[d][j] = <<d, l>>
        BY <2>7
      <3> QED
        BY <2>9, <2>11, <3>1, <3>2, <3>3 DEF Delivered
  <1> QED
    BY <1>1, <1>2, <1>3, <1>4, <1>5, <1>6, <1>7, <1>8, <1>9, <1>10

-----------------------------------------------------------------------------
(* Handles go, and frames with them.                                       *)

\* The loops in off let go of their iterators, and the generators become g.
Settling(g, off) ==
    LET i == [t \in Scope |-> IF t \in off THEN Null ELSE it[t]] IN
    /\ Settle(g, i, frame)
    /\ at' = [t \in Scope |-> IF t \in off THEN "out" ELSE at[t]]
    /\ pc' = [c \in Coro |-> IF c \in off THEN pc[c] + 1 ELSE pc[c]]
    /\ UNCHANGED <<body, val, exc, active, heard>>

\* No frame gets a parameter, no generator a dead frame, and a loop that lets
\* go has no value; if one of a frame, then of the frame that runs.
MaySettle(g, off) ==
    /\ g \in Gens /\ off \subseteq Scope
    /\ \A c \in Coro : g[c] = gen[c]
    /\ \A v \in Var : g[v] # Null => Alive(g[v])
    /\ \A t \in off : ~ Carrier(t)
    /\ \A t \in off : t \in Coro => active # <<>> /\ t = Last(active) /\ at[t] = "test"
    /\ active # <<>> => off \subseteq Coro

LEMMA SettleFrames ==
    ASSUME IInv, NEW g, NEW off, MaySettle(g, off), Settling(g, off)
    PROVE  \E K \in SUBSET Coro :
              /\ \A c \in K : Alive(c)
              /\ \A c \in Coro : frame[c] = "running" => c \in K
              /\ \A v \in Var : gen'[v] = g[v] /\ g[v] \in K \cup {Null}
              /\ \A c \in K : gen'[c] = gen[c] /\ gen[c] \in K \cup {Null}
              /\ \A p \in Loop : it'[p] = (IF p \in off THEN Null ELSE it[p]) /\ it'[p] \in K \cup {Null}
              /\ \A c \in K : it'[c] = (IF c \in off THEN Null ELSE it[c]) /\ it'[c] \in K \cup {Null}
              /\ \A c \in Coro \ K : gen'[c] = Null /\ it'[c] = Null
              /\ \A c \in Coro : frame'[c] = IF c \in K \/ frame[c] = "absent" THEN frame[c] ELSE "destroyed"
              /\ gen' \in Gens /\ it' \in Its
              /\ frame' \in [Coro -> {"absent", "suspended", "running", "done", "destroyed"}]
  <1> USE DEF IInv
  <1> DEFINE i == [t \in Scope |-> IF t \in off THEN Null ELSE it[t]]
             K == Kept(g, i)
  <1>m. /\ g \in Gens /\ off \subseteq Scope
        /\ \A c \in Coro : g[c] = gen[c]
        /\ \A v \in Var : g[v] # Null => Alive(g[v])
        /\ \A t \in off : t \in Coro => active # <<>> /\ t = Last(active)
        /\ active # <<>> => off \subseteq Coro
    BY DEF MaySettle
  <1>t. it \in Its /\ gen \in Gens
        /\ frame \in [Coro -> {"absent", "suspended", "running", "done", "destroyed"}]
    BY DEF TypeOK, Its, Gens
  <1>i. i \in Its /\ \A t \in Scope : i[t] = IF t \in off THEN Null ELSE it[t]
    BY <1>t DEF Its
  <1>1. K \in SUBSET Coro /\ Holds(K, g, i)
    BY <1>m, <1>i, KeptHolds
  <1>2. \A c \in K : Alive(c)
    <2> DEFINE S == {c \in Coro : Alive(c)}
    <2>1. \A v \in Var : g[v] \in S \cup {Null}
      BY <1>m DEF Gens
    <2>2. \A p \in Loop : i[p] \in S \cup {Null}
      BY <1>i, <1>t DEF Its, Scope, Handles
    <2>3. \A c \in S : g[c] \in S \cup {Null}
      BY <1>m, <1>t DEF Gens, Handles
    <2>4. \A c \in S : i[c] \in S \cup {Null}
      BY <1>i, <1>t DEF Its, Scope, Handles
    <2>5. S \in SUBSET Coro
      OBVIOUS
    <2>6. Holds(S, g, i)
      <3> HIDE DEF S, i
      <3> QED
        BY <2>1, <2>2, <2>3, <2>4 DEF Holds
    <2>7. K \subseteq S
      <3> HIDE DEF S, i
      <3> QED
        BY <2>5, <2>6, KeptLeast
    <2> QED
      BY <2>7
  <1>3. /\ gen' = [x \in Var \cup Coro |-> IF x \in Var \cup K THEN g[x] ELSE Null]
        /\ it' = [s \in Scope |-> IF s \in Loop \cup K THEN i[s] ELSE Null]
        /\ frame' = [c \in Coro |-> IF c \in K \/ frame[c] = "absent" THEN frame[c] ELSE "destroyed"]
    BY DEF Settling, Settle
  <1> HIDE DEF i, K
  <1>4. /\ \A v \in Var : g[v] \in K \cup {Null}
        /\ \A p \in Loop : i[p] \in K \cup {Null}
        /\ \A c \in K : g[c] \in K \cup {Null} /\ i[c] \in K \cup {Null}
    BY <1>1 DEF Holds
  <1>5. ASSUME NEW c \in Coro, frame[c] = "running"
        PROVE  c \in K
    <2> SUFFICES ASSUME c \notin K PROVE FALSE
      OBVIOUS
    <2>1. active \in Seq(Coro) /\ IsInjective(active) /\ c \in ToSet(active)
      BY <1>5 DEF TypeOK
    <2>2. active # <<>>
      BY <2>1 DEF ToSet
    <2>3. PICK n \in Nat : n = Len(active) /\ DOMAIN active = 1 .. n
      BY <2>1
    <2>4. \A k \in 1 .. n - 1 : active[k] # Last(active)
      BY <2>1, <2>2, <2>3, PopRunning
    <2> DEFINE S == {k \in 1 .. n : active[k] \notin K}
    <2>5. S \subseteq Nat /\ S # {}
      BY <2>1, <2>3 DEF ToSet
    <2>6. PICK k \in S : \A j \in S : k <= j
      <3> HIDE DEF S
      <3> QED
        BY <2>5, Least
    <2>7. CASE k = 1
      <3>1. PICK p \in Loop : it[p] = active[1]
        BY <2>2 DEF Stack
      <3>2. p \notin off /\ p \in Scope
        BY <1>m, <2>2, NamesAssumption DEF Scope
      <3>3. active[1] \in Coro
        BY <2>1, <2>3, <2>6, <2>7
      <3>4. it[p] \in K
        BY <1>i, <1>4, <3>1, <3>2, <3>3, NamesAssumption
      <3> QED
        BY <2>6, <2>7, <3>1, <3>4
    <2>8. CASE k # 1
      <3>1. k - 1 \in 1 .. n - 1 /\ k - 1 \in 1 .. n /\ k - 1 + 1 = k /\ k - 1 \in Nat /\ k \in Nat
        BY <2>6, <2>8
      <3>2. it[active[k - 1]] = active[k]
        BY <3>1, <2>3 DEF Stack
      <3>3. active[k - 1] \in K
        BY <2>6, <3>1
      <3>4. active[k - 1] \notin off
        BY <1>m, <1>1, <2>4, <3>1, <3>3
      <3>5. active[k] \in Coro /\ active[k - 1] \in Scope
        BY <2>1, <2>3, <2>6, <1>1, <3>3 DEF Scope
      <3>6. active[k] \in K
        BY <1>i, <1>4, <3>2, <3>3, <3>4, <3>5, NamesAssumption
      <3> QED
        BY <2>6, <3>6
    <2> QED
      BY <2>7, <2>8
  <1>6. gen' \in Gens /\ it' \in Its
        /\ frame' \in [Coro -> {"absent", "suspended", "running", "done", "destroyed"}]
    BY <1>3, <1>i, <1>m, <1>t DEF Gens, Its
  <1>7. /\ \A v \in Var : gen'[v] = g[v]
        /\ \A c \in K : gen'[c] = gen[c]
        /\ \A c \in Coro \ K : gen'[c] = Null
    BY <1>1, <1>3, <1>m, NamesAssumption
  <1>8. /\ \A p \in Loop : it'[p] = (IF p \in off THEN Null ELSE it[p])
        /\ \A c \in K : it'[c] = (IF c \in off THEN Null ELSE it[c])
        /\ \A c \in Coro \ K : it'[c] = Null
    BY <1>1, <1>3, <1>i, NamesAssumption DEF Scope
  <1>9. \A c \in Coro : frame'[c] = IF c \in K \/ frame[c] = "absent" THEN frame[c] ELSE "destroyed"
    BY <1>3
  <1>10. /\ \A c \in K : gen[c] \in K \cup {Null}
         /\ \A p \in Loop : it'[p] \in K \cup {Null}
         /\ \A c \in K : it'[c] \in K \cup {Null}
    BY <1>1, <1>4, <1>8, <1>i, <1>m DEF Scope
  <1> QED
    BY <1>1, <1>2, <1>4, <1>5, <1>6, <1>7, <1>8, <1>9, <1>10

LEMMA SettleStep ==
    ASSUME IInv, NEW g, NEW off, MaySettle(g, off), Settling(g, off)
    PROVE  IInv'
  <1> USE DEF IInv
  <1>m. /\ off \subseteq Scope
        /\ \A v \in Var : g[v] # Null => Alive(g[v])
        /\ \A t \in off : ~ Carrier(t)
        /\ \A t \in off : t \in Coro => active # <<>> /\ t = Last(active) /\ at[t] = "test"
        /\ active # <<>> => off \subseteq Coro
    BY DEF MaySettle
  <1>t. /\ pc \in [Coro -> Nat] /\ at \in [Scope -> {"out", "test", "body"}]
        /\ frame \in [Coro -> {"absent", "suspended", "running", "done", "destroyed"}]
        /\ \A t \in Scope : it[t] \in Coro \cup {Null}
        /\ \A c \in Coro : gen[c] \in Coro \cup {Null}
        /\ Null \notin Coro /\ Coro \subseteq Scope /\ Loop \subseteq Scope
        /\ \A t \in Scope : t \in Loop \/ t \in Coro
    BY NamesAssumption DEF TypeOK, Shapes, Scope
  <1>0. /\ at' = [t \in Scope |-> IF t \in off THEN "out" ELSE at[t]]
        /\ pc' = [c \in Coro |-> IF c \in off THEN pc[c] + 1 ELSE pc[c]]
        /\ body' = body /\ val' = val /\ exc' = exc /\ active' = active /\ heard' = heard
    BY DEF Settling
  <1>k. PICK K \in SUBSET Coro :
              /\ \A c \in K : Alive(c)
              /\ \A c \in Coro : frame[c] = "running" => c \in K
              /\ \A v \in Var : gen'[v] = g[v] /\ g[v] \in K \cup {Null}
              /\ \A c \in K : gen'[c] = gen[c] /\ gen[c] \in K \cup {Null}
              /\ \A p \in Loop : it'[p] = (IF p \in off THEN Null ELSE it[p]) /\ it'[p] \in K \cup {Null}
              /\ \A c \in K : it'[c] = (IF c \in off THEN Null ELSE it[c]) /\ it'[c] \in K \cup {Null}
              /\ \A c \in Coro \ K : gen'[c] = Null /\ it'[c] = Null
              /\ \A c \in Coro : frame'[c] = IF c \in K \/ frame[c] = "absent" THEN frame[c] ELSE "destroyed"
              /\ gen' \in Gens /\ it' \in Its
              /\ frame' \in [Coro -> {"absent", "suspended", "running", "done", "destroyed"}]
    BY SettleFrames
  \* What is left of the frames, the loops and the coroutine that leaves one.
  <1>f. /\ \A c \in K : frame'[c] = frame[c]
        /\ \A c \in Coro : Alive(c)' => c \in K
        /\ \A c \in Coro : frame'[c] = "absent" <=> frame[c] = "absent"
        /\ \A c \in K : Alive(c)' /\ (Going(c)' <=> Going(c))
        /\ \A c \in Coro : frame'[c] \in {"suspended", "running"} => c \in K
    BY <1>k, <1>t DEF Alive, Going
  <1>i. /\ \A s \in Scope : it'[s] # Null =>
              s \notin off /\ it'[s] = it[s] /\ it[s] \in K /\ (s \in Coro => s \in K)
        /\ \A s \in Scope : s \notin off /\ (s \in Loop \/ s \in K) => it'[s] = it[s]
        /\ \A s \in Scope : s \notin off => at'[s] = at[s]
        /\ \A s \in off : at'[s] = "out"
    BY <1>k, <1>t, <1>m, <1>0
  <1>o. \A c \in off : c \in Coro => frame[c] = "running" /\ c \in K /\ AtLoop(c) /\ at[c] = "test"
    BY <1>m, <1>k, Facts DEF Loops, Going
  <1>1. TypeOK'
    <2>1. \A c \in Coro : pc'[c] \in 1 .. Len(body'[c]) + 1
      <3>1. ASSUME NEW c \in Coro, c \in off
            PROVE  pc'[c] \in 1 .. Len(body'[c]) + 1
        <4>1. pc[c] \in Nat /\ pc[c] >= 1 /\ pc[c] <= Len(body[c]) /\ Len(body[c]) \in Nat
          <5>1. Len(body[c]) \in Nat
            BY BodiesAssumption DEF TypeOK
          <5> QED
            BY <5>1, <1>o, <1>t, <3>1 DEF TypeOK, AtLoop
        <4> QED
          BY <4>1, <1>0, <3>1
      <3> QED
        BY <3>1, <1>0 DEF TypeOK
    <2>2. \A c \in Coro : frame'[c] = "running" <=> frame[c] = "running"
      BY <1>k, <1>f
    <2>3. at' \in [Scope -> {"out", "test", "body"}]
      BY <1>0, <1>t
    <2> QED
      BY <1>0, <1>k, <2>1, <2>2, <2>3 DEF TypeOK, Gens, Its
  <1>2. Shapes'
    BY <1>0, <1>t DEF Shapes
  <1>3. Handles'
    <2>1. \A v \in Var : gen'[v] # Null => Alive(gen[v])'
      BY <1>k, <1>f DEF Alive
    <2>2. \A p \in Loop : it'[p] # Null => Alive(it[p])'
      BY <1>i, <1>f, <1>t DEF Alive
    <2>3. \A c \in Coro : gen'[c] # Null => Alive(c)' /\ Alive(gen[c])' /\ gen'[c] < c
      BY <1>k, <1>f DEF Alive, Handles
    <2>4. \A c \in Coro : it'[c] # Null => Going(c)' /\ it'[c] = gen'[c]
      BY <1>k, <1>i, <1>f, <1>t DEF Handles
    <2>5. \A c, d \in Coro : frame'[c] # "absent" /\ d < c => frame'[d] # "absent"
      BY <1>f DEF Handles
    <2> QED
      BY <2>1, <2>2, <2>3, <2>4, <2>5 DEF Handles
  <1>4. Unborn'
    <2>1. \A c \in Coro : frame[c] = "absent" => c \notin off
      BY <1>o
    <2> QED
      BY <2>1, <1>f, <1>0, <1>i, <1>t DEF Unborn
  <1>5. Loops'
    <2>1. \A s \in Scope : it'[s] # Null => at'[s] # "out"
      BY <1>i DEF Loops
    <2>2. \A s \in Scope : at'[s] # "out" /\ (s \in Loop \/ Going(s)') => it'[s] # Null
      <3>1. \A s \in Coro : Going(s)' => s \in K /\ Going(s)
        BY <1>f DEF Going
      <3> QED
        BY <3>1, <1>i, <1>t DEF Loops
    <2>3. \A c \in Coro : at'[c] # "out" /\ Going(c)' => AtLoop(c)'
      <3>1. ASSUME NEW c \in Coro, at'[c] # "out", Going(c)'
            PROVE  AtLoop(c) /\ c \notin off
        BY <3>1, <1>f, <1>i, <1>t DEF Loops, Going
      <3> QED
        BY <3>1, <1>0 DEF AtLoop
    <2>4. \A c \in Coro : frame'[c] = "suspended" => at'[c] # "test"
      BY <1>f, <1>i, <1>t DEF Loops
    <2>5. \A c \in Coro : Alive(c)' /\ (\E k \in DOMAIN body'[c] : body'[c][k] = "loop") => gen'[c] # Null
      BY <1>k, <1>f, <1>0 DEF Loops
    <2> QED
      BY <2>1, <2>2, <2>3, <2>4, <2>5 DEF Loops
  <1>6. OneLoop'
    BY <1>i DEF OneLoop
  <1>7. Stack'
    <2>1. active' # <<>> => \E p \in Loop : it'[p] = active'[1] /\ at'[p] = "test"
      BY <1>0, <1>i, <1>m, <1>t, NamesAssumption DEF Stack
    <2>2. ASSUME NEW k \in 1 .. Len(active') - 1
          PROVE  it'[active'[k]] = active'[k + 1] /\ at'[active'[k]] = "test"
      <3>1. active \in Seq(Coro) /\ IsInjective(active) /\ k \in 1 .. Len(active) - 1 /\ active # <<>>
        BY <1>0 DEF TypeOK
      <3>2. active[k] # Last(active) /\ active[k] \in Coro
        BY <3>1, PopRunning
      <3>3. active[k] \in ToSet(active)
        BY <3>1 DEF ToSet
      <3>4. active[k] \in K /\ active[k] \notin off
        BY <3>2, <3>3, <1>k, <1>m, Facts
      <3>5. it[active[k]] = active[k + 1] /\ at[active[k]] = "test"
        BY <3>1 DEF Stack
      <3> QED
        BY <3>2, <3>4, <3>5, <1>0, <1>i, <1>t
    <2> QED
      BY <2>1, <2>2 DEF Stack
  <1>8. Values'
    <2>1. \A s \in Scope : it'[s] # Null /\ at'[s] = "body" => frame'[it'[s]] = "suspended"
      BY <1>i, <1>f DEF Values
    <2>2. \A s \in Scope : it'[s] # Null /\ frame'[it'[s]] = "suspended" => Started(it[s])'
      <3>1. ASSUME NEW s \in Scope, it'[s] # Null, frame'[it'[s]] = "suspended"
            PROVE  it'[s] = it[s] /\ it[s] \in K /\ it[s] \notin off /\ Started(it[s])
        BY <3>1, <1>i, <1>f, <1>o DEF Values
      <3> QED
        BY <3>1, <1>0, <1>i, <1>t DEF Started
    <2>3. \A c \in Coro : frame'[c] = "suspended" /\ at'[c] = "body" => val'[c] = val'[it'[c]]
      BY <1>0, <1>i, <1>f, <1>t DEF Values
    <2>4. \A c \in Coro : frame'[c] = "suspended" /\ at'[c] = "out" /\ pc'[c] # 1 =>
                val'[c] = <<c, pc'[c] - 1>> /\ body'[c][pc'[c] - 1] = "yield"
      <3>1. \A c \in Coro : frame'[c] = "suspended" => frame[c] = "suspended" /\ c \notin off
        BY <1>f, <1>o
      <3> QED
        BY <3>1, <1>0, <1>i, <1>t DEF Values
    <2>5. \A c \in Coro : exc'[c] => frame'[c] \in {"done", "destroyed"}
      BY <1>0, <1>k DEF Values
    <2> QED
      BY <2>1, <2>2, <2>3, <2>4, <2>5 DEF Values
  <1>9. Claims'
    <2>1. ASSUME NEW c \in K
          PROVE  Chain(c) \subseteq K /\ Chain(c)' = Chain(c)
      <3>1. Closed(K, gen)
        BY <1>k DEF Closed
      <3>2. Chain(c) \subseteq K
        BY <3>1, ChainWithin, ChainIsChainIn
      <3>3. Older(gen')
        BY <1>3, <1>1 DEF Older, Handles, TypeOK
      <3>4. \A d \in ChainIn(gen, c) : gen'[d] = gen[d]
        BY <3>2, <1>k, ChainIsChainIn
      <3>5. ChainIn(gen', c) = ChainIn(gen, c)
        BY <3>3, <3>4, Facts, ChainSame
      <3> QED
        BY <3>2, <3>5, ChainIsChainIn
    <2>2. ASSUME NEW e \in Coro, Pending(e)'
          PROVE  e \in K /\ Pending(e)
      <3>1. e \in K /\ frame'[e] = frame[e]
        BY <2>2, <1>f DEF Pending, Going
      <3>2. CASE e \in off
        <4>1. AtLoop(e) /\ Ahead(e)'
          BY <1>o, <2>2, <3>2 DEF Pending
        <4>2. PICK k \in DOMAIN body[e] : k >= pc[e] + 1 /\ body[e][k] = "loop"
          BY <4>1, <3>2, <1>0 DEF Ahead
        <4>3. pc[e] \in DOMAIN body[e] /\ body[e][pc[e]] = "loop" /\ DOMAIN body[e] \subseteq Nat
              /\ body[e] \in Bodies /\ pc[e] \in Nat
          <5>1. body[e] \in Bodies \cup {<<>>} /\ pc[e] \in 1 .. Len(body[e]) + 1
            BY DEF TypeOK
          <5>2. body[e] \in Seq({"yield", "loop", "throw"})
            BY <5>1, BodiesAssumption
          <5>3. DOMAIN body[e] = 1 .. Len(body[e]) /\ Len(body[e]) \in Nat
            BY <5>2
          <5>4. pc[e] <= Len(body[e]) /\ body[e][pc[e]] = "loop"
            BY <4>1 DEF AtLoop
          <5>5. body[e] # <<>>
            BY <4>2
          <5>6. pc[e] \in DOMAIN body[e]
            BY <5>1, <5>3, <5>4
          <5> QED
            BY <5>1, <5>3, <5>4, <5>5, <5>6, <1>t
        <4>4. k = pc[e]
          BY <4>2, <4>3, BodiesAssumption
        <4> QED
          BY <4>2, <4>3, <4>4
      <3>3. CASE e \notin off
        BY <2>2, <3>1, <3>3, <1>0, <1>i, <1>t DEF Pending, Going, Ahead
      <3> QED
        BY <3>1, <3>2, <3>3
    <2>3. ASSUME NEW e \in Coro, Pending(e)'
          PROVE  Free(gen[e])'
      <3>1. e \in K /\ Pending(e) /\ gen[e] # Null
        BY <2>2, <2>3, PendingHasGen
      <3>2. PICK d \in K : d = gen[e] /\ gen'[e] = d /\ Free(d)
        BY <3>1, <1>k DEF Claims
      <3>3. \A x \in Chain(d) : frame'[x] = "suspended" /\ \A s \in Scope : it'[s] = x => s \in Chain(d)
        <4>1. ASSUME NEW x \in Chain(d)
              PROVE  frame'[x] = "suspended" /\ \A s \in Scope : it'[s] = x => s \in Chain(d)
          <5>1. x \in K /\ frame[x] = "suspended" /\ \A s \in Scope : it[s] = x => s \in Chain(d)
            BY <2>1, <3>2 DEF Free
          <5> QED
            BY <5>1, <1>f, <1>i, <1>t
        <4> QED
          BY <4>1
      <3>4. Free(d)'
        BY <3>3, <2>1 DEF Free
      <3> QED
        BY <3>2, <3>4 DEF Free
    <2> QED
      BY <2>1, <2>2, <2>3 DEF Claims
  <1>10. Delivered'
    <2>1. \A s \in Scope : Carrier(s)' <=> Carrier(s)
      <3>1. ASSUME NEW s \in Scope, Carrier(s)' PROVE Carrier(s)
        BY <3>1, <1>i, <1>f DEF Carrier
      <3>2. ASSUME NEW s \in Scope, Carrier(s) PROVE Carrier(s)'
        <4>1. s \notin off
          BY <3>2, <1>m
        <4>2. s \in Loop \/ s \in K
          <5>1. s \in Coro => frame[s] = "running"
            BY <3>2, <1>t DEF Carrier, Handles, Going, Loops
          <5> QED
            BY <5>1, <1>k, <1>t
        <4>3. it'[s] = it[s] /\ it[s] \in K
          BY <4>1, <4>2, <3>2, <1>i DEF Carrier
        <4> QED
          BY <3>2, <4>1, <4>3, <1>f, <1>i DEF Carrier
      <3> QED
        BY <3>1, <3>2
    <2>2. \A s \in Scope : Carrier(s) => val'[it'[s]] = val[it[s]]
      BY <2>1, <1>0, <1>i DEF Carrier
    <2>3. ASSUME NEW c \in Coro, NEW k \in Nat
          PROVE  Yields(c, k)' <=> Yields(c, k)
      <3>1. CASE c \in off
        <4>1. pc'[c] - 1 = pc[c] /\ pc[c] \in Nat /\ body[c][pc[c]] = "loop" /\ body'[c] = body[c]
          BY <3>1, <1>o, <1>0, <1>t DEF AtLoop
        <4>2. k \in 1 .. pc[c] <=> k \in 1 .. pc[c] - 1 \/ (k = pc[c] /\ k # 0)
          BY <4>1
        <4> QED
          BY <4>1, <4>2 DEF Yields
      <3>2. CASE c \notin off
        BY <3>2, <1>0 DEF Yields
      <3> QED
        BY <3>1, <3>2
    <2> QED
      BY <1>0, <2>1, <2>2, <2>3, SameDelivered
  <1> QED
    BY <1>1, <1>2, <1>3, <1>4, <1>5, <1>6, <1>7, <1>8, <1>9, <1>10

-----------------------------------------------------------------------------
(* A coroutine is called.                                                  *)

LEMMA CallStep ==
    ASSUME IInv, NEW v \in Var, NEW w \in Var, NEW c \in Coro, NEW b \in Bodies, Call(v, c, b, w)
    PROVE  IInv'
  <1> USE DEF IInv
  <1> DEFINE x == IF "loop" \in ToSet(b) THEN gen[w] ELSE Null
  <1>t. /\ pc \in [Coro -> Nat] /\ at \in [Scope -> {"out", "test", "body"}]
        /\ frame \in [Coro -> {"absent", "suspended", "running", "done", "destroyed"}]
        /\ body \in [Coro -> Bodies \cup {<<>>}]
        /\ gen \in [Var \cup Coro -> Coro \cup {Null}]
        /\ \A t \in Scope : it[t] \in Coro \cup {Null}
        /\ Null \notin Coro /\ Coro \subseteq Scope /\ Loop \subseteq Scope
        /\ Var \cap Coro = {} /\ Loop \cap Coro = {} /\ Coro \subseteq Nat
        /\ \A t \in Scope : t \in Loop \/ t \in Coro
    BY NamesAssumption DEF TypeOK, Shapes, Scope
  <1>0. /\ active = <<>> /\ gen[v] = Null /\ frame[c] = "absent"
        /\ \A d \in Coro : d < c => frame[d] # "absent"
        /\ "loop" \in ToSet(b) => gen[w] # Null
        /\ frame' = [frame EXCEPT ![c] = "suspended"]
        /\ body' = [body EXCEPT ![c] = b]
        /\ it' = it /\ at' = at /\ pc' = pc /\ val' = val /\ exc' = exc /\ active' = active
        /\ heard' = heard
    BY DEF Call
  <1>x. x \in Coro \cup {Null} /\ (x # Null => x = gen[w])
    BY <1>t
  <1>g. /\ gen' \in [Var \cup Coro -> Coro \cup {Null}]
        /\ gen'[v] = c /\ gen'[c] = x
        /\ \A y \in Var \cup Coro : y # v /\ y # c => gen'[y] = gen[y]
    <2>1. gen' = [gen EXCEPT ![v] = c, ![c] = x]
      BY DEF Call
    <2>2. gen' = [[gen EXCEPT ![v] = c] EXCEPT ![c] = x]
      BY <2>1
    <2> HIDE DEF x
    <2> QED
      BY <2>2, <1>t, <1>x
  <1>b. (\E k \in DOMAIN b : b[k] = "loop") => x # Null
    BY <1>0 DEF ToSet
  <1> HIDE DEF x
  \* Nothing leads to the new frame.
  <1>n. /\ ~ Alive(c) /\ gen[c] = Null /\ it[c] = Null /\ at[c] = "out" /\ pc[c] = 1 /\ ~ exc[c]
        /\ \A y \in Var \cup Coro : gen[y] # c
        /\ \A t \in Scope : it[t] # c
    <2>1. ~ Alive(c)
      BY <1>0 DEF Alive
    <2>2. /\ \A y \in Var : gen[y] # c
          /\ \A y \in Coro : gen[y] # c
          /\ gen[c] = Null
      BY <2>1, <1>t DEF Handles
    <2>3. it[c] = Null
      BY <1>0 DEF Handles, Going
    <2>4. \A t \in Scope : it[t] # c
      BY <2>1, <2>2, <1>t DEF Handles
    <2> QED
      BY <2>1, <2>2, <2>3, <2>4, <1>0 DEF Unborn
  <1>y. x # Null => x \in Coro /\ x < c /\ Alive(x)
    <2>1. ASSUME x # Null
          PROVE  x \in Coro /\ x # c /\ Alive(x) /\ ~ (c < x)
      <3>1. x \in Coro /\ Alive(x)
        BY <2>1, <1>x, <1>t DEF Handles
      <3> QED
        BY <3>1, <1>n, <1>0 DEF Handles, Alive
    <2> QED
      BY <2>1, <1>t, SMTT(30)
  <1>f. /\ frame'[c] = "suspended" /\ \A d \in Coro : d # c => frame'[d] = frame[d]
        /\ body'[c] = b /\ \A d \in Coro : d # c => body'[d] = body[d]
        /\ \A d \in Coro : Alive(d) => Alive(d)' /\ d # c
        /\ Alive(c)' /\ \A d \in Coro : d # c => (Alive(d)' <=> Alive(d)) /\ (Going(d)' <=> Going(d))
    BY <1>0, <1>t, <1>n DEF Alive, Going
  <1>1. TypeOK'
    <2>1. \A d \in Coro : pc'[d] \in 1 .. Len(body'[d]) + 1
      <3>1. Len(b) \in Nat
        BY BodiesAssumption
      <3>2. 1 \in 1 .. Len(b) + 1
        BY <3>1
      <3> QED
        BY <3>2, <1>0, <1>f, <1>n DEF TypeOK
    <2>2. \A d \in Coro : frame'[d] = "running" <=> frame[d] = "running"
      BY <1>0, <1>f
    <2>3. frame' \in [Coro -> {"absent", "suspended", "running", "done", "destroyed"}]
          /\ body' \in [Coro -> Bodies \cup {<<>>}]
      BY <1>0, <1>t
    <2> QED
      BY <1>0, <1>g, <2>1, <2>2, <2>3 DEF TypeOK
  <1>2. Shapes'
    BY <1>0 DEF Shapes
  <1>3. Handles'
    <2>1. \A y \in Var : gen'[y] # Null => Alive(gen[y])'
      <3>1. \A y \in Var : y # v => gen'[y] = gen[y]
        BY <1>g, <1>t
      <3>2. \A y \in Var : gen[y] # Null => gen[y] \in Coro /\ Alive(gen[y])
        BY <1>t DEF Handles
      <3> QED
        BY <3>1, <3>2, <1>f, <1>g DEF Alive
    <2>2. \A p \in Loop : it'[p] # Null => Alive(it[p])'
      BY <1>0, <1>f, <1>t DEF Handles
    <2>3. ASSUME NEW d \in Coro, gen'[d] # Null
          PROVE  Alive(d)' /\ Alive(gen[d])' /\ gen'[d] < d
      <3>1. CASE d = c
        <4>1. gen'[d] = x /\ x # Null
          BY <2>3, <3>1, <1>g
        <4> QED
          BY <4>1, <3>1, <1>y, <1>f DEF Alive
      <3>2. CASE d # c
        <4>1. gen'[d] = gen[d] /\ gen[d] \in Coro
          BY <2>3, <3>2, <1>g, <1>t
        <4>2. Alive(d) /\ Alive(gen[d]) /\ gen[d] < d
          BY <2>3, <4>1 DEF Handles
        <4> QED
          BY <4>1, <4>2, <1>f DEF Alive
      <3> QED
        BY <3>1, <3>2
    <2>4. \A d \in Coro : it'[d] # Null => Going(d)' /\ it'[d] = gen'[d]
      BY <1>0, <1>f, <1>g, <1>n, <1>t DEF Handles
    <2>5. ASSUME NEW d \in Coro, NEW e \in Coro, frame'[d] # "absent", e < d
          PROVE  frame'[e] # "absent"
      BY <2>5, <1>0, <1>f DEF Handles
    <2> QED
      BY <2>1, <2>2, <2>3, <2>4, <2>5 DEF Handles
  <1>4. Unborn'
    BY <1>0, <1>f DEF Unborn
  <1>5. Loops'
    <2>1. \A t \in Scope : it'[t] # Null => at'[t] # "out"
      BY <1>0 DEF Loops
    <2>2. \A t \in Scope : at'[t] # "out" /\ (t \in Loop \/ Going(t)') => it'[t] # Null
      BY <1>0, <1>f, <1>n, <1>t DEF Loops
    <2>3. \A d \in Coro : at'[d] # "out" /\ Going(d)' => AtLoop(d)'
      BY <1>0, <1>f, <1>n DEF Loops, AtLoop
    <2>4. \A d \in Coro : frame'[d] = "suspended" => at'[d] # "test"
      BY <1>0, <1>f, <1>n DEF Loops
    <2>5. \A d \in Coro : Alive(d)' /\ (\E k \in DOMAIN body'[d] : body'[d][k] = "loop") => gen'[d] # Null
      <3>1. ASSUME NEW d \in Coro, d # c, Alive(d)', \E k \in DOMAIN body'[d] : body'[d][k] = "loop"
            PROVE  gen'[d] # Null
        <4>1. gen[d] # Null
          BY <3>1, <1>f DEF Loops
        <4>2. gen'[d] = gen[d]
          BY <3>1, <1>g, <1>t
        <4> QED
          BY <4>1, <4>2
      <3>2. (\E k \in DOMAIN body'[c] : body'[c][k] = "loop") => gen'[c] # Null
        BY <1>b, <1>f, <1>g
      <3> QED
        BY <3>1, <3>2
    <2> QED
      BY <2>1, <2>2, <2>3, <2>4, <2>5 DEF Loops
  <1>6. OneLoop'
    BY <1>0 DEF OneLoop
  <1>7. Stack'
    BY <1>0 DEF Stack
  <1>8. Values'
    <2>1. \A t \in Scope : it'[t] # Null /\ at'[t] = "body" => frame'[it'[t]] = "suspended"
      BY <1>0, <1>f, <1>t DEF Values
    <2>2. \A t \in Scope : it'[t] # Null /\ frame'[it'[t]] = "suspended" => Started(it[t])'
      BY <1>0, <1>f, <1>n, <1>t DEF Values, Started
    <2>3. \A d \in Coro : frame'[d] = "suspended" /\ at'[d] = "body" => val'[d] = val'[it'[d]]
      BY <1>0, <1>f, <1>n DEF Values
    <2>4. \A d \in Coro : frame'[d] = "suspended" /\ at'[d] = "out" /\ pc'[d] # 1 =>
                val'[d] = <<d, pc'[d] - 1>> /\ body'[d][pc'[d] - 1] = "yield"
      BY <1>0, <1>f, <1>n DEF Values
    <2>5. \A d \in Coro : exc'[d] => frame'[d] \in {"done", "destroyed"}
      BY <1>0, <1>f, <1>n DEF Values
    <2> QED
      BY <2>1, <2>2, <2>3, <2>4, <2>5 DEF Values
  <1>9. Claims'
    <2>1. ASSUME NEW d \in Coro, d # c
          PROVE  c \notin Chain(d) /\ Chain(d)' = Chain(d)
      <3> DEFINE S == Coro \ {c}
      <3>1. S \in SUBSET Coro /\ d \in S
        BY <2>1
      <3>2. Closed(S, gen)
        BY <1>n, <1>t DEF Closed
      <3> HIDE DEF S
      <3>3. ChainIn(gen, d) \subseteq S
        BY <3>1, <3>2, ChainWithin
      <3>4. c \notin ChainIn(gen, d)
        BY <3>3 DEF S
      <3>5. Older(gen') /\ Older(gen)
        BY <1>3, <1>1, Facts DEF Older, Handles, TypeOK
      <3>6. \A e \in ChainIn(gen, d) : gen'[e] = gen[e]
        <4>1. ASSUME NEW e \in ChainIn(gen, d) PROVE gen'[e] = gen[e]
          <5>1. e \in Coro /\ e # c /\ e # v
            BY <3>4, <1>t DEF ChainIn
          <5> QED
            BY <5>1, <1>g
        <4> QED
          BY <4>1
      <3>7. ChainIn(gen', d) = ChainIn(gen, d)
        BY <3>5, <3>6, ChainSame
      <3> QED
        BY <3>4, <3>7, ChainIsChainIn
    <2>2. ASSUME NEW e \in Coro, Pending(e)'
          PROVE  e # c /\ Pending(e)
      <3>1. e # c
        BY <2>2, <1>0, <1>f, <1>n DEF Pending
      <3> QED
        BY <2>2, <3>1, <1>0, <1>f DEF Pending, Ahead, Going
    <2>3. ASSUME NEW e \in Coro, Pending(e)'
          PROVE  Free(gen[e])'
      <3>1. e # c /\ Pending(e) /\ gen[e] # Null /\ e # v
        BY <2>2, <2>3, <1>t, PendingHasGen
      <3>2. PICK d \in Coro : d = gen[e] /\ gen'[e] = d /\ Free(d) /\ d # c
        BY <3>1, <1>g, <1>n, <1>t, ZenonT(30) DEF Claims
      <3>3. Chain(d)' = Chain(d) /\ c \notin Chain(d) /\ Chain(d) \subseteq Coro
        BY <2>1, <3>2 DEF Chain
      <3>4. \A y \in Chain(d) : frame'[y] = "suspended" /\ \A s \in Scope : it'[s] = y => s \in Chain(d)
        BY <3>2, <3>3, <1>0, <1>f DEF Free
      <3>5. Free(d)'
        BY <3>3, <3>4 DEF Free
      <3> QED
        BY <3>2, <3>5 DEF Free
    <2> QED
      BY <2>1, <2>2, <2>3 DEF Claims
  <1>10. Delivered'
    <2>1. \A t \in Scope : Carrier(t)' <=> Carrier(t)
      BY <1>0, <1>f, <1>n, <1>t DEF Carrier
    <2>2. \A d \in Coro, k \in Nat : Yields(d, k)' <=> Yields(d, k)
      BY <1>0, <1>f, <1>n DEF Yields
    <2> QED
      BY <1>0, <2>1, <2>2, SameDelivered
  <1> QED
    BY <1>1, <1>2, <1>3, <1>4, <1>5, <1>6, <1>7, <1>8, <1>9, <1>10

-----------------------------------------------------------------------------
(* Every action does one of these.                                         *)

LEMMA ResumeStep ==
    ASSUME IInv, NEW s \in Scope, NEW c \in Coro, MayResume(s, c), Resuming(s, c)
    PROVE  IInv'
  BY ResumeStructure, ResumeClaims, ResumeDelivered DEF IInv

\* begin(), by a caller who has seen to it that the coroutine is ready.
LEMMA CallerBeginStep ==
    ASSUME IInv, NEW p \in Loop, NEW v \in Var, CallerBegin(p, v)
    PROVE  IInv' /\ frame[gen[v]] = "suspended" /\ gen[v] \in Coro
                 /\ frame' = [frame EXCEPT ![gen[v]] = "running"]
  <1> USE DEF IInv
  <1>1. PICK c \in Coro : c = gen[v]
    BY DEF CallerBegin, TypeOK
  <1>2. /\ Running(p) /\ at[p] = "out" /\ Ready(c) /\ Resuming(p, c)
    BY <1>1 DEF CallerBegin, Begin, Resume, Resuming
  <1>3. /\ Free(c)
        /\ \A e \in Coro \ Chain(c) : frame[e] = "suspended" /\ pc[e] # 1 => Chain(e) \cap Chain(c) = {}
    BY <1>2 DEF Ready, Free
  <1>4. p \in Scope /\ p \notin Coro /\ active = <<>> /\ \A d \in Coro : frame[d] # "running"
    BY <1>2, Facts, NamesAssumption DEF Running, Scope
  <1>5. /\ c \in Chain(c) /\ frame[c] = "suspended"
        /\ \A t \in Scope : it[t] # c
        /\ at[c] = "out" /\ Ahead(c) => Free(gen[c])
    BY <1>3, FreeHead
  <1>6. ASSUME NEW e \in Coro, Pending(e)
        PROVE  frame[e] = "suspended" /\ pc[e] # 1 /\ gen[e] # Null
               /\ \A d \in Chain(gen[e]) : d \in Chain(e)
    <2>1. frame[e] = "suspended" /\ pc[e] # 1
      BY <1>4, <1>6 DEF Pending, Going
    <2> QED
      BY <1>6, <2>1, PendingHasGen
  <1>7. ASSUME NEW e \in Coro, Pending(e), Chain(e) \cap Chain(c) # {}
        PROVE  e \in Chain(c)
    BY <1>3, <1>6, <1>7
  <1>8. ASSUME NEW e \in Coro, Pending(e), c \in Chain(gen[e])
        PROVE  FALSE
    <2>1. e \in Chain(c)
      BY <1>5, <1>6, <1>7, <1>8
    <2> QED
      BY <1>6, <1>8, <2>1, ChainHead
  <1>9. MayResume(p, c)
    BY <1>2, <1>4, <1>5, <1>7, <1>8 DEF MayResume
  <1>10. IInv'
    BY <1>2, <1>4, <1>9, ResumeStep
  <1> QED
    BY <1>1, <1>2, <1>5, <1>10 DEF Resuming

\* A coroutine begins the loop that it was kept free for.
LEMMA BodyLoopStep ==
    ASSUME IInv, NEW s \in Coro, BodyLoop(s)
    PROVE  IInv' /\ frame[gen[s]] = "suspended" /\ gen[s] \in Coro
                 /\ frame' = [frame EXCEPT ![gen[s]] = "running"]
  <1> USE DEF IInv
  <1>1. Running(s) /\ at[s] = "out" /\ AtLoop(s) /\ Begin(s, gen[s])
    BY DEF BodyLoop, Does, Begin, AtLoop
  <1>2. s \in Scope /\ s \notin Loop /\ frame[s] = "running"
    BY <1>1, Facts, NamesAssumption DEF Running, Scope
  <1>3. Pending(s)
    <2>1. body[s] \in Seq({"yield", "loop", "throw"}) /\ pc[s] \in 1 .. Len(body[s]) + 1
      <3>1. body[s] \in Bodies \cup {<<>>} /\ pc[s] \in 1 .. Len(body[s]) + 1
        BY DEF TypeOK
      <3>2. <<>> \in Seq({"yield", "loop", "throw"})
        OBVIOUS
      <3> QED
        BY <3>1, <3>2, BodiesAssumption
    <2>2. pc[s] \in DOMAIN body[s] /\ pc[s] \in Nat
      BY <1>1, <2>1 DEF AtLoop
    <2> QED
      BY <2>2, <1>1, <1>2 DEF Pending, Going, Ahead, AtLoop
  <1>4. PICK c \in Coro : c = gen[s]
    BY <1>3, PendingHasGen
  <1>5. /\ Free(c) /\ s \notin Chain(c) /\ Chain(c) \subseteq Chain(s)
        /\ \A d \in Chain(s) : d = s \/ d \in Chain(c)
    BY <1>3, <1>4, PendingHasGen DEF Claims
  <1>6. /\ c \in Chain(c) /\ frame[c] = "suspended"
        /\ \A t \in Scope : it[t] # c
        /\ at[c] = "out" /\ Ahead(c) => Free(gen[c])
    BY <1>5, FreeHead
  <1>7. ASSUME NEW e \in Coro, Pending(e), e # s, Chain(e) \cap Chain(c) # {}
        PROVE  e \in Chain(c)
    <2>1. e \in Chain(s) \/ s \in Chain(e)
      BY <1>3, <1>5, <1>7 DEF Claims
    <2>2. s \in Chain(e) => s \in Chain(gen[e])
      BY <1>7, PendingHasGen
    <2>3. s \notin Chain(gen[e])
      BY <1>2, <1>7 DEF Claims, Free
    <2> QED
      BY <1>5, <1>7, <2>1, <2>2, <2>3
  <1>8. ASSUME NEW e \in Coro, Pending(e), e # s, c \in Chain(gen[e])
        PROVE  FALSE
    <2>1. c \in Chain(e) /\ gen[e] # Null
      BY <1>8, PendingHasGen
    <2>2. e \in Chain(c)
      BY <1>6, <1>7, <1>8, <2>1
    <2> QED
      BY <1>8, <2>1, <2>2, ChainHead
  <1>9. MayResume(s, c)
    BY <1>1, <1>2, <1>4, <1>6, <1>7, <1>8 DEF MayResume
  <1>10. Resuming(s, c)
    BY <1>1, <1>4 DEF Begin, Resume, Resuming
  <1>11. IInv'
    BY <1>2, <1>9, <1>10, ResumeStep
  <1> QED
    BY <1>4, <1>6, <1>10, <1>11 DEF Resuming

\* ++it, by a caller or a coroutine.
LEMMA LoopNextStep ==
    ASSUME IInv, NEW s \in Scope, LoopNext(s)
    PROVE  IInv' /\ frame[it[s]] = "suspended" /\ it[s] \in Coro
                 /\ frame' = [frame EXCEPT ![it[s]] = "running"]
  <1> USE DEF IInv
  <1>1. Running(s) /\ at[s] = "body"
    BY DEF LoopNext
  <1>2. /\ s \in Loop => active = <<>> /\ s \notin Coro
        /\ s \in Coro => frame[s] = "running" /\ Going(s) /\ AtLoop(s)
        /\ Older(gen)
    BY <1>1, Facts, NamesAssumption DEF Running, Going, Loops
  <1>3. PICK c \in Coro : c = it[s]
    BY <1>1, <1>2 DEF Loops, TypeOK, Scope
  <1>4. /\ frame[c] = "suspended" /\ Started(c) /\ it[s] = c /\ c # Null
        /\ s \in Coro => gen[s] = c
    BY <1>1, <1>3, NamesAssumption DEF Values, Handles
  <1>5. \A t \in Scope : it[t] = c => t = s
    BY <1>4 DEF OneLoop
  \* What is free for another does not hold c, for s, which has it, would
  \* have to wait for that other.
  <1>6. ASSUME NEW e \in Coro, Pending(e), e # s
        PROVE  c \notin Chain(gen[e])
    <2> SUFFICES ASSUME c \in Chain(gen[e]) PROVE FALSE
      OBVIOUS
    <2>1. Free(gen[e])
      BY <1>6 DEF Claims
    <2>2. s \in Chain(gen[e]) /\ frame[s] = "suspended"
      BY <2>1, <1>4 DEF Free
    <2> QED
      BY <2>2, <1>2 DEF Chain
  <1>7. ASSUME at[c] = "out", Ahead(c)
        PROVE  Pending(c)
    BY <1>4, <1>7 DEF Pending, Going, Started
  <1>8. ASSUME NEW e \in Coro, Pending(e), e # s, Chain(e) \cap Chain(c) # {}, at[c] = "out", Ahead(c)
        PROVE  e \in Chain(c)
    <2>1. e \in Chain(c) \/ c \in Chain(e)
      BY <1>7, <1>8 DEF Claims
    <2>2. c \in Chain(e) => c = e \/ c \in Chain(gen[e])
      BY <1>8, PendingHasGen
    <2>3. c \in Chain(c)
      BY ChainSelf, ChainIsChainIn
    <2> QED
      BY <1>6, <1>8, <2>1, <2>2, <2>3
  <1>9. MayResume(s, c)
    BY <1>1, <1>2, <1>4, <1>5, <1>6, <1>7, <1>8 DEF MayResume, Claims
  <1>10. Resuming(s, c)
    <2>1. it' = it /\ it = [it EXCEPT ![s] = c]
      BY <1>3 DEF LoopNext, TypeOK
    <2> QED
      BY <1>3, <2>1 DEF LoopNext, Resume, Resuming
  <1>11. IInv'
    BY <1>9, <1>10, ResumeStep
  <1> QED
    BY <1>3, <1>4, <1>10, <1>11 DEF Resuming

\* Copies, drops, and loops that are left.
LEMMA LetGoStep ==
    ASSUME IInv,
           \/ \E v, w \in Var : Copy(v, w)
           \/ \E v \in Var : Drop(v)
           \/ \E p \in Loop : LoopEnd(p) \/ Break(p)
           \/ \E c \in Coro : LoopEnd(c)
    PROVE  IInv' /\ \A c \in Coro : frame'[c] = "running" => frame[c] = "running"
  <1> USE DEF IInv
  <1>t. /\ gen \in Gens /\ it \in Its /\ at \in [Scope -> {"out", "test", "body"}]
        /\ pc \in [Coro -> Nat] /\ Loop \cap Coro = {} /\ Var \cap Coro = {}
        /\ Loop \subseteq Scope /\ Coro \subseteq Scope
    BY NamesAssumption DEF TypeOK, Shapes, Gens, Its, Scope
  <1>a. \A v \in Var : gen[v] # Null => Alive(gen[v])
    BY DEF Handles
  <1>s. ASSUME NEW g, NEW off, MaySettle(g, off), Settling(g, off)
        PROVE  IInv' /\ \A c \in Coro : frame'[c] = "running" => frame[c] = "running"
    <2>1. IInv'
      BY <1>s, SettleStep
    <2>2. active' = active
      BY <1>s DEF Settling
    <2>3. /\ \A c \in Coro : frame[c] = "running" <=> c \in ToSet(active)
          /\ \A c \in Coro : frame'[c] = "running" <=> c \in ToSet(active')
      BY <2>1 DEF TypeOK
    <2> QED
      BY <2>1, <2>2, <2>3
  \* The caller's generators.
  <1>1. ASSUME NEW v \in Var, NEW x \in Coro \cup {Null}, x # Null => Alive(x),
               active = <<>>, Settle([gen EXCEPT ![v] = x], it, frame),
               UNCHANGED <<at, body, pc, val, exc, active, heard>>
        PROVE  IInv' /\ \A c \in Coro : frame'[c] = "running" => frame[c] = "running"
    <2> DEFINE g == [gen EXCEPT ![v] = x]
    <2>1. /\ [t \in Scope |-> IF t \in {} THEN Null ELSE it[t]] = it
          /\ [t \in Scope |-> IF t \in {} THEN "out" ELSE at[t]] = at
          /\ [c \in Coro |-> IF c \in {} THEN pc[c] + 1 ELSE pc[c]] = pc
      BY <1>t DEF Its
    <2>2. g \in Gens /\ \A c \in Coro : g[c] = gen[c]
      BY <1>t DEF Gens
    <2>3. \A y \in Var : g[y] # Null => Alive(g[y])
      BY <1>1, <1>a, <1>t DEF Gens
    <2>4. Settle(g, it, frame)
      BY <1>1
    <2> HIDE DEF g
    <2>5. MaySettle(g, {})
      BY <2>2, <2>3, <1>1 DEF MaySettle
    <2>6. Settling(g, {})
      BY <2>1, <2>4, <1>1 DEF Settling
    <2> QED
      BY <2>5, <2>6, <1>s
  \* A loop, where its iterator goes away.
  <1>2. ASSUME NEW s \in Scope, ~ Carrier(s), s \in Loop => active = <<>>,
               s \in Coro => active # <<>> /\ s = Last(active) /\ at[s] = "test",
               Settle(gen, [it EXCEPT ![s] = Null], frame),
               at' = [at EXCEPT ![s] = "out"],
               pc' = IF s \in Coro THEN [pc EXCEPT ![s] = pc[s] + 1] ELSE pc,
               UNCHANGED <<body, val, exc, active, heard>>
        PROVE  IInv' /\ \A c \in Coro : frame'[c] = "running" => frame[c] = "running"
    <2>1. [t \in Scope |-> IF t \in {s} THEN Null ELSE it[t]] = [it EXCEPT ![s] = Null]
      BY <1>t DEF Its
    <2>2. at' = [t \in Scope |-> IF t \in {s} THEN "out" ELSE at[t]]
      BY <1>t, <1>2
    <2>3. pc' = [c \in Coro |-> IF c \in {s} THEN pc[c] + 1 ELSE pc[c]]
      <3>1. CASE s \in Coro
        BY <1>t, <1>2, <3>1
      <3>2. CASE s \notin Coro
        BY <1>t, <1>2, <3>2
      <3> QED
        BY <3>1, <3>2
    <2>4. MaySettle(gen, {s})
      BY <1>2, <1>a, <1>t DEF MaySettle, Scope
    <2>5. Settling(gen, {s})
      BY <2>1, <2>2, <2>3, <1>2 DEF Settling
    <2> QED
      BY <2>4, <2>5, <1>s
  <1>3. ASSUME NEW v \in Var, NEW w \in Var, Copy(v, w)
        PROVE  IInv' /\ \A c \in Coro : frame'[c] = "running" => frame[c] = "running"
    <2>1. gen[w] \in Coro \cup {Null} /\ (gen[w] # Null => Alive(gen[w]))
      BY <1>a, <1>t DEF Gens
    <2> QED
      BY <2>1, <1>1, <1>3 DEF Copy
  <1>4. ASSUME NEW v \in Var, Drop(v)
        PROVE  IInv' /\ \A c \in Coro : frame'[c] = "running" => frame[c] = "running"
    BY <1>1, <1>4 DEF Drop
  <1>5. ASSUME NEW p \in Loop, Break(p)
        PROVE  IInv' /\ \A c \in Coro : frame'[c] = "running" => frame[c] = "running"
    <2>1. p \notin Coro /\ p \in Scope /\ ~ Carrier(p) /\ active = <<>>
      BY <1>5, <1>t DEF Break, Carrier, Running
    <2> QED
      BY <2>1, <1>2, <1>5 DEF Break
  <1>6. ASSUME NEW s \in Scope, LoopEnd(s)
        PROVE  IInv' /\ \A c \in Coro : frame'[c] = "running" => frame[c] = "running"
    <2>1. ~ Carrier(s)
      BY <1>6 DEF LoopEnd, Carrier
    <2>2. /\ s \in Loop => active = <<>>
          /\ s \in Coro => active # <<>> /\ s = Last(active) /\ at[s] = "test"
      BY <1>6, <1>t DEF LoopEnd, Running
    <2> QED
      BY <2>1, <2>2, <1>2, <1>6 DEF LoopEnd
  <1> QED
    BY <1>3, <1>4, <1>5, <1>6, <1>t

Resumes(c) == frame'[c] = "running" => frame[c] \in {"suspended", "running"}

LEMMA NextStep ==
    ASSUME IInv, Next
    PROVE  IInv' /\ \A c \in Coro : Resumes(c)
  <1>t. /\ frame \in [Coro -> {"absent", "suspended", "running", "done", "destroyed"}]
        /\ Loop \cap Coro = {} /\ Loop \subseteq Scope /\ Coro \subseteq Scope
    BY NamesAssumption DEF IInv, TypeOK, Scope
  <1>r. ASSUME NEW c \in Coro, frame[c] = "suspended", frame' = [frame EXCEPT ![c] = "running"]
        PROVE  \A d \in Coro : Resumes(d)
    BY <1>r, <1>t DEF Resumes
  <1>n. ASSUME NEW c \in Coro, NEW to \in {"suspended", "done"}, frame' = [frame EXCEPT ![c] = to]
        PROVE  \A d \in Coro : Resumes(d)
    BY <1>n, <1>t DEF Resumes
  <1>1. ASSUME NEW v \in Var, NEW w \in Var, NEW c \in Coro, NEW b \in Bodies, Call(v, c, b, w)
        PROVE  IInv' /\ \A d \in Coro : Resumes(d)
    BY <1>1, <1>n, CallStep DEF Call
  <1>2. ASSUME NEW p \in Loop, NEW v \in Var, CallerBegin(p, v)
        PROVE  IInv' /\ \A d \in Coro : Resumes(d)
    BY <1>2, <1>r, CallerBeginStep
  <1>3. ASSUME NEW s \in Scope, LoopNext(s)
        PROVE  IInv' /\ \A d \in Coro : Resumes(d)
    BY <1>3, <1>r, LoopNextStep
  <1>4. ASSUME NEW p \in Loop, LoopBody(p)
        PROVE  IInv' /\ \A d \in Coro : Resumes(d)
    <2>1. frame' = frame
      BY <1>4, <1>t DEF LoopBody
    <2> QED
      BY <2>1, <1>4, HearStep DEF Resumes
  <1>5. ASSUME NEW c \in Coro, LoopBody(c)
        PROVE  IInv' /\ \A d \in Coro : Resumes(d)
    <2>1. frame' = [frame EXCEPT ![c] = "suspended"]
      BY <1>5, <1>t DEF LoopBody, Suspend
    <2> QED
      BY <2>1, <1>5, <1>n, RelayStep
  <1>6. ASSUME NEW c \in Coro, Yield(c)
        PROVE  IInv' /\ \A d \in Coro : Resumes(d)
    BY <1>6, <1>n, YieldStep DEF Yield, Suspend
  <1>7. ASSUME NEW c \in Coro, BodyLoop(c)
        PROVE  IInv' /\ \A d \in Coro : Resumes(d)
    BY <1>7, <1>r, BodyLoopStep
  <1>8. ASSUME NEW c \in Coro, Throw(c) \/ End(c)
        PROVE  IInv' /\ \A d \in Coro : Resumes(d)
    <2>1. Running(c) /\ at[c] = "out" /\ Finish(c) /\ exc' \in {exc, [exc EXCEPT ![c] = TRUE]}
      BY <1>8 DEF Throw, End, Does
    <2>2. frame' = [frame EXCEPT ![c] = "done"]
      BY <2>1 DEF Finish
    <2> QED
      BY <2>1, <2>2, <1>n, FinishStep
  <1>9. ASSUME \/ \E v, w \in Var : Copy(v, w)
               \/ \E v \in Var : Drop(v)
               \/ \E p \in Loop : LoopEnd(p) \/ Break(p)
               \/ \E c \in Coro : LoopEnd(c)
        PROVE  IInv' /\ \A d \in Coro : Resumes(d)
    BY <1>9, LetGoStep DEF Resumes
  <1> QED
    BY <1>1, <1>2, <1>3, <1>4, <1>5, <1>6, <1>7, <1>8, <1>9, <1>t DEF Next, CoroStep

LEMMA Stutter ==
    ASSUME IInv, UNCHANGED vars
    PROVE  IInv'
  <1>0. /\ gen' = gen /\ it' = it /\ at' = at /\ frame' = frame /\ body' = body /\ pc' = pc
        /\ val' = val /\ exc' = exc /\ active' = active /\ heard' = heard
    BY DEF vars
  <1>1. TypeOK' /\ Shapes' /\ Handles' /\ Unborn' /\ OneLoop' /\ Stack'
    BY <1>0 DEF IInv, TypeOK, Shapes, Handles, Alive, Going, Unborn, OneLoop, Stack
  <1>2. Loops' /\ Values'
    BY <1>0 DEF IInv, Loops, Values, Alive, Going, AtLoop, Started
  <1>3. Claims'
    BY <1>0 DEF IInv, Claims, Pending, Going, Ahead, Free, Chain
  <1>4. Delivered'
    <2>1. \A t \in Scope : Carrier(t)' <=> Carrier(t)
      BY <1>0 DEF Carrier
    <2>2. \A d \in Coro, k \in Nat : Yields(d, k)' <=> Yields(d, k)
      BY <1>0 DEF Yields
    <2> QED
      BY <1>0, <2>1, <2>2, SameDelivered DEF IInv
  <1> QED
    BY <1>1, <1>2, <1>3, <1>4 DEF IInv

-----------------------------------------------------------------------------
(* The theorems.                                                           *)

\* What the theorems rest on, in every state that can be reached.
THEOREM Invariant == Spec => []IInv
  <1>1. IInv /\ [Next]_vars => IInv'
    BY NextStep, Stutter
  <1> QED
    BY InitInvariant, <1>1, PTL DEF Spec

\* The handles, frames and values keep their types, and the coroutines that
\* run are those on the stack of resumes, each once.
THEOREM TypeCorrect == Spec => []TypeOK
  <1>1. IInv => TypeOK
    BY DEF IInv
  <1> QED
    BY <1>1, Invariant, PTL

\* resume() is called of a coroutine that is suspended: whatever the caller's
\* loops, and the coroutines' own, do between two steps (Generator.h:84).
THEOREM ResumesOnlySuspended == Spec => ResumesSuspended
  <1>1. IInv /\ [Next]_vars => [\A c \in Coro : frame'[c] = "running" => frame[c] \in {"suspended", "running"}]_vars
    BY NextStep DEF Resumes
  <1> QED
    BY <1>1, Invariant, PTL DEF Spec, ResumesSuspended

\* An iterator keeps its coroutine though the generator is gone.
THEOREM FramesKept == Spec => []LoopsKeepFrames
  <1>1. IInv => LoopsKeepFrames
    <2> SUFFICES ASSUME IInv, NEW s \in Scope, s \in Loop \/ Going(s)
                 PROVE  /\ at[s] # "out" <=> it[s] # Null
                        /\ it[s] # Null => Alive(it[s])
      BY DEF LoopsKeepFrames, Going, Alive
    <2>1. at[s] # "out" <=> it[s] # Null
      BY DEF IInv, Loops
    <2>2. it[s] # Null => Alive(it[s])
      BY DEF IInv, Handles, Scope
    <2> QED
      BY <2>1, <2>2
  <1> QED
    BY <1>1, Invariant, PTL

\* operator* never meets an exception, which would end the program.
THEOREM NeverRethrown == Spec => []NothingRethrown
  <1>1. IInv => NothingRethrown
    <2> SUFFICES ASSUME IInv, NEW s \in Scope, at[s] = "test", Running(s), exc[it[s]]
                 PROVE  frame[it[s]] = "done"
      BY DEF NothingRethrown
    <2>1. s \in Coro => s \in Loop \/ Going(s)
      BY Facts DEF IInv, Running, Going
    <2>2. it[s] # Null
      BY <2>1 DEF IInv, Loops, Scope
    <2>3. it[s] \in Coro /\ frame[it[s]] \in {"suspended", "done"}
      BY <2>2, Exclusive DEF IInv
    <2> QED
      BY <2>3 DEF IInv, Values
  <1> QED
    BY <1>1, Invariant, PTL

\* The caller gets each value that is yielded, once and in order.
THEOREM ValuesDelivered == Spec => []DeliveredOnce
  <1>1. IInv => DeliveredOnce
    <2> SUFFICES ASSUME IInv, active = <<>>, \A p \in Loop : at[p] # "test", NEW c \in Coro
                 PROVE  ToSet(heard[c]) = Yielded(c) /\ InOrder(heard[c])
      BY DEF DeliveredOnce
    <2>1. \A s \in Scope : ~ Carrier(s)
      <3>1. ASSUME NEW s \in Coro, Carrier(s) PROVE FALSE
        <4>1. it[s] # Null /\ at[s] = "test"
          BY <3>1 DEF Carrier
        <4>2. Going(s) /\ frame[s] # "running"
          BY <4>1, Facts DEF IInv, Handles
        <4> QED
          BY <4>1, <4>2 DEF IInv, Loops, Going
      <3> QED
        BY <3>1 DEF Carrier, Scope
    <2>2. \A k \in Nat : Yields(c, k) => <<c, k>> \in ToSet(heard[c])
      BY <2>1 DEF IInv, Delivered, ToSet
    <2>3. \A x \in ToSet(heard[c]) : \E k \in Nat : Yields(c, k) /\ x = <<c, k>>
      <3>1. ASSUME NEW x \in ToSet(heard[c])
            PROVE  \E k \in Nat : Yields(c, k) /\ x = <<c, k>>
        <4>1. PICK j \in DOMAIN heard[c] : x = heard[c][j]
          BY DEF ToSet
        <4> QED
          BY <4>1 DEF IInv, Delivered
      <3> QED
        BY <3>1
    <2>4. Yielded(c) = {<<c, k>> : k \in {k \in Nat : Yields(c, k)}}
      <3>1. pc[c] \in Nat
        BY DEF IInv, Shapes
      <3>2. {j \in 1 .. pc[c] - 1 : body[c][j] = "yield"} = {k \in Nat : Yields(c, k)}
        BY <3>1 DEF Yields
      <3> QED
        BY <3>2 DEF Yielded
    <2>5. ToSet(heard[c]) = Yielded(c)
      BY <2>2, <2>3, <2>4
    <2> QED
      BY <2>5 DEF IInv, Delivered
  <1> QED
    BY <1>1, Invariant, PTL

=============================================================================
