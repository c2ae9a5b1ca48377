----------------------------- MODULE Generator -----------------------------
(***************************************************************************)
(* cxx::Generator<T> (src/src/cxx/gen/Generator.h): coroutine frames, the  *)
(* generators and iterators that own them together, and the range-for      *)
(* loops that resume them.  A coroutine may itself loop over a generator   *)
(* it was given, and yield on what it gets; then resuming one resumes the  *)
(* other, and abandoning one abandons the other.                           *)
(*                                                                         *)
(* Ownership is Ref<Coro<T>>, at the level module Ref proves for it: a     *)
(* frame is destroyed when no handle leads to it.                          *)
(***************************************************************************)
EXTENDS Naturals, Sequences, SequencesExt

CONSTANTS
    Var,        \* the caller's Generator variables
    Loop,       \* the caller's range-for loops, or its iterators, numbered
    Coro,       \* the coroutine frames, numbered
    Bodies,     \* coroutine bodies: sequences of "yield", "loop", "throw"
    Null

\* A new frame, and a new loop, takes the lowest number that is free: the
\* numbers are only names, and one order of them stands for the others.
ASSUME NamesAssumption ==
    /\ Loop \subseteq Nat /\ Coro \subseteq Nat
    /\ Loop \cap Coro = {} /\ Var \cap Coro = {} /\ Null \notin Coro

\* A body loops over its generator once: begin() would resume it though it is
\* done, which is undefined (Generator.h:84).
ASSUME BodiesAssumption ==
    \A b \in Bodies :
        /\ b \in Seq({"yield", "loop", "throw"})
        /\ \A j, k \in DOMAIN b : b[j] = "loop" /\ b[k] = "loop" => j = k

Scope == Loop \cup Coro

VARIABLES
    gen,        \* coro_ of the variables, and of each coroutine's parameter
    it,         \* coro_ of the iterator of each loop, in a caller or a frame
    at,         \* where each loop stands
    frame,      \* how far each coroutine frame has come
    body, pc,   \* the body of each coroutine, and its next statement
    val, exc,   \* val_ and whether exc_ is set, in each promise
    active,     \* the coroutines that run: each was resumed by the one before
    heard       \* history: the values of each coroutine the caller's loops got

vars == <<gen, it, at, frame, body, pc, val, exc, active, heard>>

Init ==
    /\ gen    = [x \in Var \cup Coro |-> Null]
    /\ it     = [s \in Scope |-> Null]
    /\ at     = [s \in Scope |-> "out"]
    /\ frame  = [c \in Coro |-> "absent"]
    /\ body   = [c \in Coro |-> <<>>]
    /\ pc     = [c \in Coro |-> 1]
    /\ val    = [c \in Coro |-> Null]
    /\ exc    = [c \in Coro |-> FALSE]
    /\ active = <<>>
    /\ heard  = [c \in Coro |-> <<>>]

Running(s) == IF s \in Loop THEN active = <<>> ELSE active # <<>> /\ Last(active) = s

\* Wrong: iterators do not own.
KeptByGenerators(g, i) ==
    LET own     == {g[v] : v \in Var}
        full    == {S \in SUBSET Coro :
                       (own \cup {g[c] : c \in S} \cup {i[c] : c \in S}) \ {Null} \subseteq S}
    IN {c \in Coro : \A S \in full : c \in S}

\* The frames that the handles g and i lead to: the least set that has the
\* caller's own and those that its members' parameters and loops hold.
Kept(g, i) ==
    LET own     == {g[v] : v \in Var} \cup {i[p] : p \in Loop}
        full    == {S \in SUBSET Coro :
                       (own \cup {g[c] : c \in S} \cup {i[c] : c \in S}) \ {Null} \subseteq S}
    IN {c \in Coro : \A S \in full : c \in S}

\* The handles become g and i and the frames f, and what is left without an
\* owner is destroyed: ~Coro() destroys the frame, with all it holds.
Settle(g, i, f) ==
    \E kept \in {Kept(g, i)} :
    /\ gen'   = [x \in Var \cup Coro |-> IF x \in Var \cup kept THEN g[x] ELSE Null]
    /\ it'    = [s \in Scope |-> IF s \in Loop \cup kept THEN i[s] ELSE Null]
    /\ frame' = [c \in Coro |-> IF c \in kept \/ f[c] = "absent" THEN f[c] ELSE "destroyed"]

-----------------------------------------------------------------------------
(* The caller's generators.                                                *)

\* A call of a coroutine with body b: the frame is made and waits, its
\* parameter a copy of the generator in w, if it takes one.
Call(v, c, b, w) ==
    /\ active = <<>>
    /\ gen[v] = Null /\ frame[c] = "absent"
    /\ \A d \in Coro : d < c => frame[d] # "absent"
    /\ "loop" \in ToSet(b) => gen[w] # Null
    /\ gen' = [gen EXCEPT ![v] = c, ![c] = IF "loop" \in ToSet(b) THEN gen[w] ELSE Null]
    /\ frame' = [frame EXCEPT ![c] = "suspended"]
    /\ body' = [body EXCEPT ![c] = b]
    /\ UNCHANGED <<it, at, pc, val, exc, active, heard>>

Copy(v, w) ==
    /\ active = <<>> /\ v # w
    /\ Settle([gen EXCEPT ![v] = gen[w]], it, frame)
    /\ UNCHANGED <<at, body, pc, val, exc, active, heard>>

Drop(v) ==
    /\ active = <<>>
    /\ Settle([gen EXCEPT ![v] = Null], it, frame)
    /\ UNCHANGED <<at, body, pc, val, exc, active, heard>>

-----------------------------------------------------------------------------
(* Loops: for (auto x : g).                                                *)

Resume(c) ==
    /\ frame' = [frame EXCEPT ![c] = "running"]
    /\ active' = Append(active, c)

\* Wrong: begin() resumes a coroutine only when it has not started.
BeginOnce(s, c) ==
    /\ Running(s) /\ at[s] = "out"
    /\ it' = [it EXCEPT ![s] = c]
    /\ at' = [at EXCEPT ![s] = "test"]
    /\ IF pc[c] = 1 THEN Resume(c) ELSE UNCHANGED <<frame, active>>
    /\ UNCHANGED <<gen, body, pc, val, exc, heard>>

\* begin() makes an iterator and resumes.
Begin(s, c) ==
    /\ Running(s) /\ at[s] = "out"
    /\ it' = [it EXCEPT ![s] = c]
    /\ at' = [at EXCEPT ![s] = "test"]
    /\ Resume(c)
    /\ UNCHANGED <<gen, body, pc, val, exc, heard>>

\* c, what c loops over, what that loops over, and so on.
Chain(c) ==
    {d \in Coro : \A S \in SUBSET Coro :
        c \in S /\ (\A e \in S : gen[e] \in S \cup {Null}) => d \in S}

\* Wrong: only done() is asked.
ReadyNotDone(c) == frame[c] = "suspended"

\* begin() never asks whether it may resume: it is the caller who must know
\* that the coroutine, and those it will resume, are not finished, that no
\* other loop is at them, and that no other coroutine that has started will
\* come to them, be it through others.
Ready(c) ==
    LET chain == Chain(c) IN
    /\ \A d \in chain : frame[d] = "suspended" /\ \A s \in Scope : it[s] = d => s \in chain
    /\ \A e \in Coro \ chain :
          frame[e] = "suspended" /\ pc[e] # 1 => Chain(e) \cap chain = {}

CallerBegin(p, v) ==
    /\ \A q \in Loop : q < p => at[q] # "out"
    /\ gen[v] # Null /\ Ready(gen[v])
    /\ Begin(p, gen[v])

\* Wrong: the coroutine goes back to its loop.
LoopEndAgain(s) ==
    /\ Running(s) /\ at[s] = "test"
    /\ frame[it[s]] = "done"
    /\ at' = [at EXCEPT ![s] = "out"]
    /\ Settle(gen, [it EXCEPT ![s] = Null], frame)
    /\ UNCHANGED <<body, pc, val, exc, active, heard>>

\* it != end: done(), and the iterator goes away.
LoopEnd(s) ==
    /\ Running(s) /\ at[s] = "test"
    /\ frame[it[s]] = "done"
    /\ at' = [at EXCEPT ![s] = "out"]
    /\ pc' = IF s \in Coro THEN [pc EXCEPT ![s] = @ + 1] ELSE pc
    /\ Settle(gen, [it EXCEPT ![s] = Null], frame)
    /\ UNCHANGED <<body, val, exc, active, heard>>

\* Wrong: as with suspend_never, c runs on.
SuspendNever(c) ==
    /\ frame' = [frame EXCEPT ![c] = "suspended"]
    /\ UNCHANGED active

Suspend(c) ==
    /\ frame' = [frame EXCEPT ![c] = "suspended"]
    /\ active' = Front(active)

\* *it, and the body: a caller notes the value, a coroutine yields it.
LoopBody(s) ==
    /\ Running(s) /\ at[s] = "test"
    /\ frame[it[s]] # "done"
    /\ at' = [at EXCEPT ![s] = "body"]
    /\ \/ /\ s \in Loop
          /\ heard' = [heard EXCEPT ![val[it[s]][1]] = Append(@, val[it[s]])]
          /\ UNCHANGED <<frame, active, val>>
       \/ /\ s \in Coro
          /\ val' = [val EXCEPT ![s] = val[it[s]]]
          /\ Suspend(s)
          /\ UNCHANGED heard
    /\ UNCHANGED <<gen, it, body, pc, exc>>

LoopNext(s) ==
    /\ Running(s) /\ at[s] = "body"
    /\ at' = [at EXCEPT ![s] = "test"]
    /\ Resume(it[s])
    /\ UNCHANGED <<gen, it, body, pc, val, exc, heard>>

\* The caller leaves a loop, and the coroutine where it is.
Break(p) ==
    /\ Running(p) /\ at[p] = "body"
    /\ at' = [at EXCEPT ![p] = "out"]
    /\ Settle(gen, [it EXCEPT ![p] = Null], frame)
    /\ UNCHANGED <<body, pc, val, exc, active, heard>>

-----------------------------------------------------------------------------
(* Coroutine bodies.                                                       *)

Does(c, stmt) ==
    /\ Running(c) /\ at[c] = "out"
    /\ pc[c] <= Len(body[c]) /\ body[c][pc[c]] = stmt

Yield(c) ==
    /\ Does(c, "yield")
    /\ val' = [val EXCEPT ![c] = <<c, pc[c]>>]
    /\ pc' = [pc EXCEPT ![c] = @ + 1]
    /\ Suspend(c)
    /\ UNCHANGED <<gen, it, at, body, exc, heard>>

BodyLoop(c) == Does(c, "loop") /\ Begin(c, gen[c])

\* The frame reaches final_suspend(), where it is done.
Finish(c) ==
    /\ frame' = [frame EXCEPT ![c] = "done"]
    /\ active' = Front(active)
    /\ UNCHANGED <<gen, it, at, body, pc, val, heard>>

\* Wrong: the exception is kept and the coroutine suspends as after a value.
ThrowSuspends(c) ==
    /\ Does(c, "throw")
    /\ exc' = [exc EXCEPT ![c] = TRUE]
    /\ pc' = [pc EXCEPT ![c] = @ + 1]
    /\ Suspend(c)
    /\ UNCHANGED <<gen, it, at, body, val, heard>>

Throw(c) == Does(c, "throw") /\ exc' = [exc EXCEPT ![c] = TRUE] /\ Finish(c)

End(c) ==
    /\ Running(c) /\ at[c] = "out" /\ pc[c] > Len(body[c])
    /\ Finish(c) /\ UNCHANGED exc

CoroStep(c) ==
    \/ Yield(c) \/ BodyLoop(c) \/ Throw(c) \/ End(c)
    \/ LoopEnd(c) \/ LoopBody(c) \/ LoopNext(c)

Next ==
    \/ \E v, w \in Var, c \in Coro, b \in Bodies : Call(v, c, b, w)
    \/ \E v, w \in Var : Copy(v, w)
    \/ \E v \in Var : Drop(v)
    \/ \E p \in Loop, v \in Var : CallerBegin(p, v)
    \/ \E p \in Loop : LoopEnd(p) \/ LoopBody(p) \/ LoopNext(p) \/ Break(p)
    \/ \E c \in Coro : CoroStep(c)

\* A coroutine that was resumed runs on until it suspends.
Spec == Init /\ [][Next]_vars /\ WF_vars(\E c \in Coro : CoroStep(c))

-----------------------------------------------------------------------------
(* What should be true.                                                    *)

TypeOK ==
    /\ gen    \in [Var \cup Coro -> Coro \cup {Null}]
    /\ it     \in [Scope -> Coro \cup {Null}]
    /\ at     \in [Scope -> {"out", "test", "body"}]
    /\ frame  \in [Coro -> {"absent", "suspended", "running", "done", "destroyed"}]
    /\ body   \in [Coro -> Bodies \cup {<<>>}]
    /\ \A c \in Coro : pc[c] \in 1 .. Len(body[c]) + 1
    /\ exc    \in [Coro -> BOOLEAN]
    /\ active \in Seq(Coro) /\ IsInjective(active)
    /\ \A c \in Coro : frame[c] = "running" <=> c \in ToSet(active)

\* The values of its own that c has yielded.
Yielded(c) == {<<c, k>> : k \in {j \in 1 .. pc[c] - 1 : body[c][j] = "yield"}}

InOrder(values) == \A j, k \in DOMAIN values : j < k => values[j][2] < values[k][2]

\* Whatever loops are broken off and begun again, over the generator, a copy
\* or through other coroutines, and whichever generators are dropped, the
\* caller gets each value that was yielded once, in order, none left out.
DeliveredOnce ==
    active = <<>> /\ (\A p \in Loop : at[p] # "test") =>
        \A c \in Coro : ToSet(heard[c]) = Yielded(c) /\ InOrder(heard[c])

\* A loop under way, in the caller or in a frame that may yet run, has a live
\* frame to resume, though the generator it came from is gone.
LoopsKeepFrames ==
    \A s \in Scope :
        s \in Loop \/ frame[s] \in {"suspended", "running"} =>
            (at[s] # "out" <=> it[s] # Null)
            /\ (it[s] # Null => frame[it[s]] \in {"suspended", "running", "done"})

\* operator* is noexcept and would end the program if it met an exception: a
\* loop never lets it, for a coroutine that threw is done (Generator.h:71-75).
NothingRethrown ==
    \A s \in Scope : at[s] = "test" /\ Running(s) /\ exc[it[s]] => frame[it[s]] = "done"

\* Nothing resumes a coroutine that is finished, destroyed or running, which
\* is undefined, so long as the caller begins loops only where it may.
ResumesSuspended ==
    [][\A c \in Coro : frame'[c] = "running" => frame[c] \in {"suspended", "running"}]_vars

\* A caller that resumes a coroutine gets control back.
ResumeReturns == active # <<>> ~> active = <<>>

=============================================================================
