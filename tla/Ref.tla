-------------------------------- MODULE Ref --------------------------------
(***************************************************************************)
(* cxx::Ref<T>, the shared pointer of src/src/cxx/ref/Ref.h, step by step. *)
(*                                                                         *)
(* A member-function call is named by its "this" handle: a handle runs at  *)
(* most one call at a time, and calls on different handles interleave in   *)
(* every way, whichever threads make them.  A step ends where another      *)
(* thread could notice: at an access to the atomic count or to memory that *)
(* other handles reach.  Objects may themselves have handles as members    *)
(* (a list node has next_), which the deleter destroys in its turn.        *)
(*                                                                         *)
(* Spec is the class under the contract every C++ caller owes it: no call  *)
(* races another on a plain field, and a member is only reached through a  *)
(* handle that keeps its object.  AliasedSpec lets, besides, the target of *)
(* an assignment be the source, or the handle the source is reached by.    *)
(***************************************************************************)
EXTENDS Naturals, FiniteSets

CONSTANTS
    Handle,     \* the Ref<T> variables: locals, and members of objects
    Block,      \* the heap blocks, each allocated at most once
    NoBlock,    \* nullptr
    Home,       \* the block whose object a handle is a member of, or NoBlock
    RefMod      \* refs_ counts modulo this: 2^64 in the code

ASSUME NoBlockAssumption == NoBlock \notin Block
ASSUME HomeAssumption    == Home \in [Handle -> Block \cup {NoBlock}]
ASSUME HandleAssumption  == IsFiniteSet(Handle)
ASSUME RefModAssumption  == RefMod \in Nat /\ Cardinality(Handle) < RefMod

VARIABLES
    block,      \* block_ of each handle
    refs,       \* refs_ of each block
    life,       \* how far each block and its object have come
    at,         \* where the call on each handle stands
    call,       \* the member function it runs
    src,        \* rhs of a copy or a move; a handle without one is its own
    via,        \* the local handles through which the call reached members
    given       \* history: what rhs held when the call began

vars == <<block, refs, life, at, call, src, via, given>>

Lives == {"unused", "building", "live", "dying", "gone", "freed"}
Steps == {"idle", "lent", "clear", "delete", "members", "free", "null",
          "take", "inc", "construct"}
Calls == {"none", "clear", "copy", "move", "make"}

Local     == {h \in Handle : Home[h] = NoBlock}
Member(b) == {h \in Handle : Home[h] = b}

Init ==
    /\ block = [h \in Handle |-> NoBlock]
    /\ refs  = [b \in Block |-> 0]
    /\ life  = [b \in Block |-> "unused"]
    /\ at    = [h \in Handle |-> "idle"]
    /\ call  = [h \in Handle |-> "none"]
    /\ src   = [h \in Handle |-> h]
    /\ via   = [h \in Handle |-> {}]
    /\ given = [h \in Handle |-> NoBlock]

-----------------------------------------------------------------------------
(* The callers' contract.                                                  *)

\* No call is using h, neither as this, as rhs, nor on the way to a member.
Untouched(h) ==
    /\ at[h] = "idle"
    /\ \A g \in Handle \ {h} : src[g] # h /\ h \notin via[g]

Reaches(P, X) ==
    \A h \in X : Home[h] = NoBlock \/ \E k \in P : block[k] = Home[h]

\* The local handles a caller goes through to reach the handles of X, which
\* hold still, not a handle more than needed.
Ways(X) ==
    {P \in SUBSET Local :
        /\ \A k \in P : at[k] = "idle"
        /\ Reaches(P, X)
        /\ \A k \in P : ~Reaches(P \ {k}, X)}

-----------------------------------------------------------------------------
(* Calls begin.                                                            *)

Enter(h, c, s, P) ==
    /\ call'  = [call EXCEPT ![h] = c]
    /\ src'   = [src EXCEPT ![h] = s]
    /\ via'   = [via EXCEPT ![h] = P]
    /\ given' = [given EXCEPT ![h] = block[s]]

Clear(h) ==
    /\ Untouched(h)
    /\ at' = [at EXCEPT ![h] = "clear"]
    /\ \E P \in Ways({h}) : h \notin P /\ Enter(h, "clear", h, P)
    /\ UNCHANGED <<block, refs, life>>

CopyFrom(h, s) ==
    /\ Untouched(h)
    /\ h # s /\ at[s] = "idle"
    /\ at' = [at EXCEPT ![h] = "clear"]
    /\ \E P \in Ways({h, s}) : h \notin P /\ Enter(h, "copy", s, P)
    /\ UNCHANGED <<block, refs, life>>

MoveFrom(h, s) ==
    /\ Untouched(h) /\ Untouched(s)
    /\ h # s
    /\ at' = [at EXCEPT ![h] = "clear", ![s] = "lent"]
    /\ \E P \in Ways({h, s}) : P \cap {h, s} = {} /\ Enter(h, "move", s, P)
    /\ UNCHANGED <<block, refs, life>>

\* make(): ret is a new local handle; its block starts with refs_ at 0.
MakeBlock(h, b) ==
    /\ Untouched(h)
    /\ h \in Local /\ block[h] = NoBlock
    /\ life[b] = "unused"
    /\ block' = [block EXCEPT ![h] = b]
    /\ life'  = [life EXCEPT ![b] = "building"]
    /\ at'    = [at EXCEPT ![h] = "construct"]
    /\ Enter(h, "make", h, {})
    /\ UNCHANGED refs

-----------------------------------------------------------------------------
(* Calls proceed.                                                          *)

Return(h) ==
    /\ call'  = [call EXCEPT ![h] = "none"]
    /\ src'   = [src EXCEPT ![h] = h]
    /\ via'   = [via EXCEPT ![h] = {}]
    /\ given' = [given EXCEPT ![h] = NoBlock]

Stay == UNCHANGED <<call, src, via, given>>

\* clear() is done: an assignment goes on to take from rhs, all else returns.
AfterClear(h) ==
    \/ /\ call[h] \in {"copy", "move"}
       /\ at' = [at EXCEPT ![h] = "take"]
       /\ Stay
    \/ /\ call[h] \in {"clear", "make"}
       /\ at' = [at EXCEPT ![h] = "idle"]
       /\ Return(h)

ClearEmpty(h) ==
    /\ at[h] = "clear"
    /\ block[h] = NoBlock
    /\ AfterClear(h)
    /\ UNCHANGED <<block, refs, life>>

\* Wrong: the count is taken to be signed.
DecSigned(n) == n - 1

\* The value --refs_ leaves, which the code tests: unsigned, so 0 wraps.
Dec(n) == (n + RefMod - 1) % RefMod

\* Wrong: the old count is tested, as by refs_-- for --refs_.
ClearDecOld(h) ==
    /\ at[h] = "clear"
    /\ block[h] # NoBlock
    /\ refs' = [refs EXCEPT ![block[h]] = Dec(@)]
    /\ at'   = [at EXCEPT ![h] = IF refs[block[h]] = 0 THEN "delete" ELSE "null"]
    /\ UNCHANGED <<block, life>> /\ Stay

\* Wrong: off by one.
ClearDecEarly(h) ==
    /\ at[h] = "clear"
    /\ block[h] # NoBlock
    /\ refs' = [refs EXCEPT ![block[h]] = Dec(@)]
    /\ at'   = [at EXCEPT ![h] = IF Dec(refs[block[h]]) <= 1 THEN "delete" ELSE "null"]
    /\ UNCHANGED <<block, life>> /\ Stay

ClearDec(h) ==
    /\ at[h] = "clear"
    /\ block[h] # NoBlock
    /\ LET n == Dec(refs[block[h]]) IN
        /\ refs' = [refs EXCEPT ![block[h]] = n]
        /\ at'   = [at EXCEPT ![h] = IF n = 0 THEN "delete" ELSE "null"]
    /\ UNCHANGED <<block, life>> /\ Stay

\* deleter_() enters ~T(), which then destroys the members one at a time.
DeleteBegin(h) ==
    /\ at[h] = "delete"
    /\ life' = [life EXCEPT ![block[h]] = "dying"]
    /\ at'   = [at EXCEPT ![h] = "members"]
    /\ UNCHANGED <<block, refs>> /\ Stay

DestroyMember(h, m) ==
    /\ at[h] = "members"
    /\ m \in Member(block[h])
    /\ block[m] # NoBlock
    /\ \A g \in Member(block[h]) : at[g] = "idle"
    /\ at' = [at EXCEPT ![m] = "clear"]
    /\ Enter(m, "clear", m, {})
    /\ UNCHANGED <<block, refs, life>>

\* Wrong: the block is not deleted.
DeleteEndOnly(h) ==
    /\ at[h] = "members"
    /\ \A m \in Member(block[h]) : block[m] = NoBlock /\ at[m] = "idle"
    /\ life' = [life EXCEPT ![block[h]] = "gone"]
    /\ at'   = [at EXCEPT ![h] = "null"]
    /\ UNCHANGED <<block, refs>> /\ Stay

DeleteEnd(h) ==
    /\ at[h] = "members"
    /\ \A m \in Member(block[h]) : block[m] = NoBlock /\ at[m] = "idle"
    /\ life' = [life EXCEPT ![block[h]] = "gone"]
    /\ at'   = [at EXCEPT ![h] = "free"]
    /\ UNCHANGED <<block, refs>> /\ Stay

FreeBlock(h) ==
    /\ at[h] = "free"
    /\ life' = [life EXCEPT ![block[h]] = "freed"]
    /\ at'   = [at EXCEPT ![h] = "null"]
    /\ UNCHANGED <<block, refs>> /\ Stay

NullBlock(h) ==
    /\ at[h] = "null"
    /\ block' = [block EXCEPT ![h] = NoBlock]
    /\ AfterClear(h)
    /\ UNCHANGED <<refs, life>>

CopyTake(h) ==
    /\ at[h] = "take" /\ call[h] = "copy"
    /\ block' = [block EXCEPT ![h] = block[src[h]]]
    /\ IF block[src[h]] = NoBlock
       THEN at' = [at EXCEPT ![h] = "idle"] /\ Return(h)
       ELSE at' = [at EXCEPT ![h] = "inc"] /\ Stay
    /\ UNCHANGED <<refs, life>>

\* Wrong: the count is not bumped.
CopyIncNot(h) ==
    /\ at[h] = "inc"
    /\ at' = [at EXCEPT ![h] = "idle"]
    /\ Return(h)
    /\ UNCHANGED <<block, refs, life>>

CopyInc(h) ==
    /\ at[h] = "inc"
    /\ refs' = [refs EXCEPT ![block[h]] = (@ + 1) % RefMod]
    /\ at'   = [at EXCEPT ![h] = "idle"]
    /\ Return(h)
    /\ UNCHANGED <<block, life>>

\* Wrong: rhs keeps its pointer.
MoveTakeShared(h) ==
    /\ at[h] = "take" /\ call[h] = "move"
    /\ block' = [block EXCEPT ![h] = block[src[h]]]
    /\ at'    = [at EXCEPT ![h] = "idle", ![src[h]] = "idle"]
    /\ Return(h)
    /\ UNCHANGED <<refs, life>>

\* Wrong: rhs is cleared before its pointer is taken.
MoveTakeLate(h) ==
    /\ at[h] = "take" /\ call[h] = "move"
    /\ block' = [block EXCEPT ![src[h]] = NoBlock]
    /\ at'    = [at EXCEPT ![h] = "idle", ![src[h]] = "idle"]
    /\ Return(h)
    /\ UNCHANGED <<refs, life>>

\* Nobody else looks at this or at rhs in between: one step.
MoveTake(h) ==
    /\ at[h] = "take" /\ call[h] = "move"
    /\ block' = [block EXCEPT ![h] = block[src[h]], ![src[h]] = NoBlock]
    /\ at'    = [at EXCEPT ![h] = "idle", ![src[h]] = "idle"]
    /\ Return(h)
    /\ UNCHANGED <<refs, life>>

\* new T() returns; obj_, deleter_ and refs_ are set while ret is private.
MakeObject(h) ==
    /\ at[h] = "construct"
    /\ life' = [life EXCEPT ![block[h]] = "live"]
    /\ refs' = [refs EXCEPT ![block[h]] = 1]
    /\ at'   = [at EXCEPT ![h] = "idle"]
    /\ Return(h)
    /\ UNCHANGED block

\* new T() throws: unwinding runs ~Ref() on ret.
MakeThrow(h) ==
    /\ at[h] = "construct"
    /\ at' = [at EXCEPT ![h] = "clear"]
    /\ UNCHANGED <<block, refs, life>> /\ Stay

Begin ==
    \/ \E h \in Handle : Clear(h)
    \/ \E h, s \in Handle : CopyFrom(h, s) \/ MoveFrom(h, s)
    \/ \E h \in Handle, b \in Block : MakeBlock(h, b)

Step(h) ==
    \/ ClearEmpty(h) \/ ClearDec(h)
    \/ DeleteBegin(h) \/ DeleteEnd(h)
    \/ \E m \in Handle : DestroyMember(h, m)
    \/ FreeBlock(h) \/ NullBlock(h)
    \/ CopyTake(h) \/ CopyInc(h) \/ MoveTake(h)
    \/ MakeObject(h) \/ MakeThrow(h)

Next == Begin \/ \E h \in Handle : Step(h)

SafeSpec == Init /\ [][Next]_vars

\* A call that has begun keeps running: no step of it waits for another call.
Spec == SafeSpec /\ \A h \in Handle : WF_vars(Step(h))

\* r = r, and r = r->member, which the type lets any caller write.
AliasedCopy(h, s) ==
    /\ Untouched(h)
    /\ at[s] = "idle"
    /\ at' = [at EXCEPT ![h] = "clear"]
    /\ \E P \in Ways({h, s}) : (h = s \/ h \in P) /\ Enter(h, "copy", s, P)
    /\ UNCHANGED <<block, refs, life>>

AliasedSpec ==
    Init /\ [][Next \/ \E h, s \in Handle : AliasedCopy(h, s)]_vars

-----------------------------------------------------------------------------
(* What should be true.                                                    *)

TypeOK ==
    /\ block \in [Handle -> Block \cup {NoBlock}]
    /\ refs  \in [Block -> 0 .. RefMod - 1]
    /\ life  \in [Block -> Lives]
    /\ at    \in [Handle -> Steps]
    /\ call  \in [Handle -> Calls]
    /\ src   \in [Handle -> Handle]
    /\ via   \in [Handle -> SUBSET Local]
    /\ given \in [Handle -> Block \cup {NoBlock}]

\* A handle owns its block from the increment on until the decrement.
Owning     == {"idle", "lent", "clear"}
Holders(b) == {h \in Handle : block[h] = b /\ at[h] \in Owning}

\* refs_ is the number of owners whatever calls are under way, so the count
\* _refs() reports, and the decision to delete, are right (Ref.h:40, 109-111).
ExactCount ==
    \A b \in Block : life[b] = "live" => refs[b] = Cardinality(Holders(b))

\* At most one call ever runs the deleter of a block (Ref.h:40-43).
SingleDeleter ==
    \A g, h \in Handle :
        /\ at[g] \in {"delete", "members", "free"}
        /\ at[h] \in {"delete", "members", "free"}
        /\ block[g] = block[h]
        => g = h

\* The block whose memory the next step of h reads or writes as a block.
Uses(h) ==
    CASE at[h] = "clear" -> block[h]
      [] at[h] \in {"delete", "members", "free", "inc"} -> block[h]
      [] OTHER -> NoBlock

\* No step touches a block that was freed, or a handle in an object that was
\* destroyed: use after free is what the count is there to prevent.
NoDanglingUse ==
    \A h \in Handle :
        /\ Uses(h) # NoBlock =>
              life[Uses(h)] \in {"building", "live", "dying", "gone"}
        /\ at[h] = "inc" => life[block[h]] = "live"
        /\ at[h] # "idle" /\ Home[h] # NoBlock =>
              life[Home[h]] \in {"live", "dying"}
        /\ at[h] = "take" /\ Home[src[h]] # NoBlock =>
              life[Home[src[h]]] = "live"

\* A handle that no call is changing holds a live object, never one that some
\* other handle's clear() destroyed (Ref.h:104-107).
HeldAlive ==
    \A h \in Handle :
        at[h] \in {"idle", "lent"} /\ block[h] # NoBlock => life[block[h]] = "live"

\* An object nobody owns any more is in the hands of the call that will
\* delete it: no interleaving of the last decrements loses it.
NoLostObject ==
    \A b \in Block :
        life[b] = "live" /\ Holders(b) = {} =>
            \E h \in Handle : block[h] = b /\ at[h] = "delete"

\* An assignment leaves the target with what rhs held when it was called
\* (std::semiregular, Ref.h:113), though clear() runs first.
AssignDelivers ==
    [][\A h \in Handle :
          call[h] \in {"copy", "move"} /\ call'[h] = "none"
            => block'[h] = given[h]]_vars

\* The last owner's clear() destroys the object and frees the block.
EventuallyFreed ==
    \A b \in Block :
        (life[b] = "live" /\ Holders(b) = {}) ~> (life[b] = "freed")

\* Ref implements SharedOwnership: a handle owns between increment and
\* decrement, an object dies when its deleter starts.
owns ==
    [h \in Handle |->
        IF at[h] \in Owning /\ block[h] # NoBlock /\ life[block[h]] = "live"
        THEN block[h] ELSE NoBlock]

state ==
    [b \in Block |->
        CASE life[b] \in {"unused", "building"} -> "absent"
          [] life[b] = "live" -> "alive"
          [] OTHER -> "destroyed"]

Shared == INSTANCE SharedOwnership WITH
    Object <- Block, Nothing <- NoBlock

\* Ref is a refinement of SharedOwnership, its liveness included.
Implements == Shared!Spec

=============================================================================
