----------------------------- MODULE RefProofs -----------------------------
(***************************************************************************)
(* Theorems about Ref, for any finite set of handles, any blocks and any   *)
(* assignment of member handles to objects.                                *)
(*                                                                         *)
(* The properties of Ref are not inductive.  IInv adds what ties a call in *)
(* progress to the handles it depends on: its rhs and the handles it went  *)
(* through hold still, so they still own what they owned when it began.    *)
(***************************************************************************)
EXTENDS Ref, FiniteSetTheorems, TLAPS

\* The step a call has reached fits the function it runs, and only copies and
\* moves have an rhs.
CallOK(h) ==
    /\ at[h] \in {"idle", "lent"} <=> call[h] = "none"
    /\ call[h] \in {"copy", "move"} <=> src[h] # h
    /\ at[h] \in {"take", "inc"} => call[h] \in {"copy", "move"}
    /\ at[h] = "inc" => call[h] = "copy"
    /\ at[h] = "construct" => call[h] = "make"
    /\ call[h] \in {"none", "make"} => via[h] = {}
    /\ call[h] = "make" => h \in Local

\* What a call reads outside its own handle holds still meanwhile.
Pinned(h) ==
    /\ call[h] = "copy" => at[src[h]] = "idle"
    /\ call[h] = "move" => at[src[h]] = "lent"
    /\ call[h] \in {"copy", "move"} => given[h] = block[src[h]]
    /\ \A k \in via[h] : at[k] = "idle"
    /\ at[h] = "lent" => \E g \in Handle : call[g] = "move" /\ src[g] = h
    /\ \A g \in Handle :
          call[h] = "move" /\ src[g] = src[h] => g = h \/ g = src[h]

\* The member handles a call works on are in objects kept by via, or in the
\* object whose deleter makes the call.
Kept(h) ==
    /\ call[h] \in {"copy", "move"} => Reaches(via[h], {h, src[h]})
    /\ call[h] = "clear" =>
          \/ Reaches(via[h], {h})
          \/ Home[h] # NoBlock /\ life[Home[h]] = "dying"

\* What the state of a call says about the block its handle points to.
HoldOK(h) ==
    /\ block[h] # NoBlock /\ at[h] \in {"idle", "lent"} => life[block[h]] = "live"
    /\ block[h] # NoBlock /\ at[h] = "clear" =>
          \/ life[block[h]] = "live"
          \/ life[block[h]] = "building" /\ call[h] = "make"
    /\ at[h] = "delete" =>
          /\ block[h] # NoBlock
          /\ life[block[h]] = "live" /\ Holders(block[h]) = {}
    /\ at[h] = "members" => block[h] # NoBlock /\ life[block[h]] = "dying"
    /\ at[h] = "free" => block[h] # NoBlock /\ life[block[h]] = "gone"
    /\ at[h] = "take" => block[h] = NoBlock
    /\ at[h] = "inc" => block[h] # NoBlock /\ block[h] = block[src[h]]
    /\ at[h] = "construct" => block[h] # NoBlock /\ life[block[h]] = "building"

\* A block that is not published yet belongs to the one make() that made it.
PrivateOK(b) ==
    /\ life[b] = "unused" => refs[b] = 0 /\ \A h \in Handle : block[h] # b
    /\ life[b] = "building" =>
          \A h \in Handle :
             block[h] = b =>
                /\ at[h] = "null" \/ (at[h] \in {"construct", "clear"} /\ refs[b] = 0)
                /\ \A g \in Handle : block[g] = b => g = h

Discipline == \A h \in Handle : CallOK(h) /\ Pinned(h) /\ Kept(h)

Ownership ==
    /\ \A h \in Handle : HoldOK(h)
    /\ \A b \in Block : PrivateOK(b)
    /\ SingleDeleter

Counting == ExactCount /\ NoLostObject

IInv == TypeOK /\ Discipline /\ Ownership /\ Counting

-----------------------------------------------------------------------------
(* Counting.                                                               *)

LEMMA HoldersFinite ==
    ASSUME NEW b
    PROVE  /\ IsFiniteSet(Holders(b))
           /\ Cardinality(Holders(b)) \in Nat
           /\ Cardinality(Holders(b)) <= Cardinality(Handle)
  <1>1. Holders(b) \subseteq Handle
    BY DEF Holders
  <1> QED
    BY <1>1, HandleAssumption, FS_Subset, FS_CardinalityType

LEMMA DecInRange ==
    ASSUME NEW n \in 0 .. RefMod - 1
    PROVE  /\ Dec(n) \in 0 .. RefMod - 1
           /\ n # 0 => Dec(n) = n - 1
           /\ n = 0 => Dec(n) = RefMod - 1
  BY RefModAssumption DEF Dec

LEMMA IncInRange ==
    ASSUME NEW n \in 0 .. RefMod - 1
    PROVE  /\ (n + 1) % RefMod \in 0 .. RefMod - 1
           /\ n + 1 < RefMod => (n + 1) % RefMod = n + 1
  BY RefModAssumption

\* A handle exists where one takes a step, so refs_ can hold a 1.
LEMMA RoomForOne ==
    ASSUME NEW h \in Handle
    PROVE  RefMod > 1
  <1>1. Cardinality(Handle) \in Nat /\ Cardinality(Handle) # 0
    BY HandleAssumption, FS_CardinalityType, FS_EmptySet
  <1> QED
    BY <1>1, RefModAssumption

-----------------------------------------------------------------------------
(* Types.                                                                  *)

LEMMA TypeInit == Init => TypeOK
  BY HomeAssumption, RefModAssumption, HandleAssumption, FS_CardinalityType
  DEF Init, TypeOK, Lives, Steps, Calls

LEMMA TypeStep == TypeOK /\ [Next]_vars => TypeOK'
  <1> SUFFICES ASSUME TypeOK, [Next]_vars PROVE TypeOK'
    OBVIOUS
  <1> USE DEF TypeOK, Lives, Steps, Calls
  <1>1. ASSUME NEW h \in Handle, Clear(h) PROVE TypeOK'
    BY <1>1 DEF Clear, Enter, Ways
  <1>2. ASSUME NEW h \in Handle, NEW s \in Handle, CopyFrom(h, s) PROVE TypeOK'
    BY <1>2 DEF CopyFrom, Enter, Ways
  <1>3. ASSUME NEW h \in Handle, NEW s \in Handle, MoveFrom(h, s) PROVE TypeOK'
    BY <1>3 DEF MoveFrom, Enter, Ways
  <1>4. ASSUME NEW h \in Handle, NEW b \in Block, MakeBlock(h, b) PROVE TypeOK'
    BY <1>4 DEF MakeBlock, Enter
  <1>5. ASSUME NEW h \in Handle, ClearEmpty(h) PROVE TypeOK'
    BY <1>5 DEF ClearEmpty, AfterClear, Return, Stay
  <1>6. ASSUME NEW h \in Handle, ClearDec(h) PROVE TypeOK'
    <2>1. Dec(refs[block[h]]) \in 0 .. RefMod - 1
      BY <1>6, DecInRange DEF ClearDec
    <2> QED
      BY <1>6, <2>1 DEF ClearDec, Stay
  <1>7. ASSUME NEW h \in Handle, DeleteBegin(h) PROVE TypeOK'
    BY <1>7 DEF DeleteBegin, Stay
  <1>8. ASSUME NEW h \in Handle, DeleteEnd(h) PROVE TypeOK'
    BY <1>8 DEF DeleteEnd, Stay
  <1>9. ASSUME NEW h \in Handle, NEW m \in Handle, DestroyMember(h, m) PROVE TypeOK'
    BY <1>9 DEF DestroyMember, Enter
  <1>10. ASSUME NEW h \in Handle, FreeBlock(h) PROVE TypeOK'
    BY <1>10 DEF FreeBlock, Stay
  <1>11. ASSUME NEW h \in Handle, NullBlock(h) PROVE TypeOK'
    BY <1>11 DEF NullBlock, AfterClear, Return, Stay
  <1>12. ASSUME NEW h \in Handle, CopyTake(h) PROVE TypeOK'
    BY <1>12 DEF CopyTake, Return, Stay
  <1>13. ASSUME NEW h \in Handle, CopyInc(h) PROVE TypeOK'
    <2>1. CASE block[h] = NoBlock
      BY <1>13, <2>1, NoBlockAssumption DEF CopyInc, Return
    <2>2. CASE block[h] \in Block
      <3>1. (refs[block[h]] + 1) % RefMod \in 0 .. RefMod - 1
        BY <2>2, IncInRange
      <3> QED
        BY <1>13, <2>2, <3>1 DEF CopyInc, Return
    <2> QED
      BY <2>1, <2>2
  <1>14. ASSUME NEW h \in Handle, MoveTake(h) PROVE TypeOK'
    BY <1>14 DEF MoveTake, Return
  <1>15. ASSUME NEW h \in Handle, MakeObject(h) PROVE TypeOK'
    <2>1. 1 \in 0 .. RefMod - 1
      BY RoomForOne, RefModAssumption
    <2> QED
      BY <1>15, <2>1 DEF MakeObject, Return
  <1>16. ASSUME NEW h \in Handle, MakeThrow(h) PROVE TypeOK'
    BY <1>16 DEF MakeThrow, Stay
  <1>17. CASE UNCHANGED vars
    BY <1>17 DEF vars
  <1> QED
    BY <1>1, <1>2, <1>3, <1>4, <1>5, <1>6, <1>7, <1>8, <1>9, <1>10, <1>11,
       <1>12, <1>13, <1>14, <1>15, <1>16, <1>17
    DEF Next, Begin, Step

\* The variables keep to their types: refs_ stays a 64-bit count, a call only
\* reaches the steps its code has (Ref.h:27-61).
THEOREM TypeCorrect == SafeSpec => []TypeOK
  BY TypeInit, TypeStep, PTL DEF SafeSpec

-----------------------------------------------------------------------------
(* Every step keeps IInv.  Most change no live block's owners.             *)

LEMMA SameHolders ==
    ASSUME Counting,
           \A b \in Block : life'[b] = "live" =>
              /\ life[b] = "live" /\ refs'[b] = refs[b]
              /\ Holders(b)' = Holders(b),
           \A g \in Handle, b \in Block :
              life'[b] = "live" /\ block[g] = b /\ at[g] = "delete" =>
                 block'[g] = b /\ at'[g] = "delete"
    PROVE  Counting'
  BY DEF Counting, ExactCount, NoLostObject

LEMMA ClearKeeps ==
    ASSUME IInv, TypeOK', NEW h \in Handle, Clear(h)
    PROVE  IInv'
  <1> USE NoBlockAssumption, HomeAssumption
      DEF IInv, TypeOK, Local, Member, Owning, Clear, Enter, Untouched, Ways, Reaches
  <1>1. Discipline'
    BY SMT DEF Discipline, Ownership, CallOK, Pinned, Kept, Reaches, HoldOK, Holders
  <1>2. Ownership'
    BY SMT DEF Discipline, Ownership, CallOK, Pinned, Kept, Reaches, HoldOK,
       PrivateOK, SingleDeleter, Holders
  <1>3. \A b \in Block : life'[b] = "live" =>
           life[b] = "live" /\ refs'[b] = refs[b] /\ Holders(b)' = Holders(b)
    BY SMT DEF Discipline, Ownership, CallOK, HoldOK, PrivateOK, Holders
  <1>4. \A g \in Handle, b \in Block :
           life'[b] = "live" /\ block[g] = b /\ at[g] = "delete" =>
              block'[g] = b /\ at'[g] = "delete"
    BY SMT DEF Discipline, Ownership, CallOK, HoldOK
  <1>5. Counting'
    BY <1>3, <1>4, SameHolders
  <1> QED
    BY <1>1, <1>2, <1>5

LEMMA CopyFromKeeps ==
    ASSUME IInv, TypeOK', NEW h \in Handle, NEW s \in Handle, CopyFrom(h, s)
    PROVE  IInv'
  <1> USE NoBlockAssumption, HomeAssumption
      DEF IInv, TypeOK, Local, Member, Owning, CopyFrom, Enter, Untouched, Ways, Reaches
  <1>1. Discipline'
    BY SMT DEF Discipline, Ownership, CallOK, Pinned, Kept, Reaches, HoldOK, Holders
  <1>2. Ownership'
    BY SMT DEF Discipline, Ownership, CallOK, Pinned, Kept, Reaches, HoldOK,
       PrivateOK, SingleDeleter, Holders
  <1>3. \A b \in Block : life'[b] = "live" =>
           life[b] = "live" /\ refs'[b] = refs[b] /\ Holders(b)' = Holders(b)
    BY SMT DEF Discipline, Ownership, CallOK, HoldOK, PrivateOK, Holders
  <1>4. \A g \in Handle, b \in Block :
           life'[b] = "live" /\ block[g] = b /\ at[g] = "delete" =>
              block'[g] = b /\ at'[g] = "delete"
    BY SMT DEF Discipline, Ownership, CallOK, HoldOK
  <1>5. Counting'
    BY <1>3, <1>4, SameHolders
  <1> QED
    BY <1>1, <1>2, <1>5

LEMMA MoveFromKeeps ==
    ASSUME IInv, TypeOK', NEW h \in Handle, NEW s \in Handle, MoveFrom(h, s)
    PROVE  IInv'
  <1> USE NoBlockAssumption, HomeAssumption
      DEF IInv, TypeOK, Local, Member, Owning, MoveFrom, Enter, Untouched, Ways, Reaches
  <1>1. Discipline'
    BY SMT DEF Discipline, Ownership, CallOK, Pinned, Kept, Reaches, HoldOK, Holders
  <1>2. Ownership'
    <2>1. \A g \in Handle : HoldOK(g)'
      BY SMT DEF Discipline, Ownership, CallOK, Pinned, Kept, Reaches, HoldOK,
         PrivateOK, SingleDeleter, Holders
    <2>2. \A b \in Block : PrivateOK(b)'
      BY SMT DEF Discipline, Ownership, CallOK, Pinned, HoldOK, PrivateOK
    <2>3. SingleDeleter'
      BY SMT DEF Discipline, Ownership, CallOK, HoldOK, SingleDeleter
    <2> QED
      BY <2>1, <2>2, <2>3 DEF Ownership
  <1>3. \A b \in Block : life'[b] = "live" =>
           life[b] = "live" /\ refs'[b] = refs[b] /\ Holders(b)' = Holders(b)
    BY SMT DEF Discipline, Ownership, CallOK, HoldOK, PrivateOK, Holders
  <1>4. \A g \in Handle, b \in Block :
           life'[b] = "live" /\ block[g] = b /\ at[g] = "delete" =>
              block'[g] = b /\ at'[g] = "delete"
    BY SMT DEF Discipline, Ownership, CallOK, HoldOK
  <1>5. Counting'
    BY <1>3, <1>4, SameHolders
  <1> QED
    BY <1>1, <1>2, <1>5

LEMMA MakeBlockKeeps ==
    ASSUME IInv, TypeOK', NEW h \in Handle, NEW c \in Block, MakeBlock(h, c)
    PROVE  IInv'
  <1> USE NoBlockAssumption, HomeAssumption
      DEF IInv, TypeOK, Local, Member, Owning, MakeBlock, Enter, Untouched
  <1>1. Discipline'
    BY SMT DEF Discipline, Ownership, CallOK, Pinned, Kept, Reaches, HoldOK, Holders
  <1>2. Ownership'
    BY SMT DEF Discipline, Ownership, CallOK, Pinned, Kept, Reaches, HoldOK,
       PrivateOK, SingleDeleter, Holders
  <1>3. \A b \in Block : life'[b] = "live" =>
           life[b] = "live" /\ refs'[b] = refs[b] /\ Holders(b)' = Holders(b)
    BY SMT DEF Discipline, Ownership, CallOK, HoldOK, PrivateOK, Holders
  <1>4. \A g \in Handle, b \in Block :
           life'[b] = "live" /\ block[g] = b /\ at[g] = "delete" =>
              block'[g] = b /\ at'[g] = "delete"
    BY SMT DEF Discipline, Ownership, CallOK, HoldOK
  <1>5. Counting'
    BY <1>3, <1>4, SameHolders
  <1> QED
    BY <1>1, <1>2, <1>5

LEMMA ClearEmptyKeeps ==
    ASSUME IInv, TypeOK', NEW h \in Handle, ClearEmpty(h)
    PROVE  IInv'
  <1> USE NoBlockAssumption, HomeAssumption
      DEF IInv, TypeOK, Local, Member, Owning, ClearEmpty, AfterClear, Return, Stay
  <1>1. Discipline'
    BY SMT DEF Discipline, Ownership, CallOK, Pinned, Kept, Reaches, HoldOK, Holders
  <1>2. Ownership'
    <2>1. \A g \in Handle : HoldOK(g)'
      BY SMT DEF Discipline, Ownership, CallOK, Pinned, Kept, Reaches, HoldOK,
         PrivateOK, SingleDeleter, Holders
    <2>2. \A b \in Block : PrivateOK(b)'
      BY SMT DEF Discipline, Ownership, CallOK, Pinned, HoldOK, PrivateOK
    <2>3. SingleDeleter'
      BY SMTT(30) DEF Discipline, Ownership, CallOK, HoldOK, SingleDeleter
    <2> QED
      BY <2>1, <2>2, <2>3 DEF Ownership
  <1>3. \A b \in Block : life'[b] = "live" =>
           life[b] = "live" /\ refs'[b] = refs[b] /\ Holders(b)' = Holders(b)
    BY SMT DEF Discipline, Ownership, CallOK, HoldOK, PrivateOK, Holders
  <1>4. \A g \in Handle, b \in Block :
           life'[b] = "live" /\ block[g] = b /\ at[g] = "delete" =>
              block'[g] = b /\ at'[g] = "delete"
    BY SMT DEF Discipline, Ownership, CallOK, HoldOK
  <1>5. Counting'
    BY <1>3, <1>4, SameHolders
  <1> QED
    BY <1>1, <1>2, <1>5

LEMMA DeleteBeginKeeps ==
    ASSUME IInv, TypeOK', NEW h \in Handle, DeleteBegin(h)
    PROVE  IInv'
  <1> USE NoBlockAssumption, HomeAssumption
      DEF IInv, TypeOK, Local, Member, Owning, DeleteBegin, Stay
  <1>1. Discipline'
    BY SMT DEF Discipline, Ownership, CallOK, Pinned, Kept, Reaches, HoldOK, Holders
  <1>2. Ownership'
    BY SMT DEF Discipline, Ownership, CallOK, Pinned, Kept, Reaches, HoldOK,
       PrivateOK, SingleDeleter, Holders
  <1>3. \A b \in Block : life'[b] = "live" =>
           life[b] = "live" /\ refs'[b] = refs[b] /\ Holders(b)' = Holders(b)
    BY SMT DEF Discipline, Ownership, CallOK, HoldOK, PrivateOK, Holders
  <1>4. \A g \in Handle, b \in Block :
           life'[b] = "live" /\ block[g] = b /\ at[g] = "delete" =>
              block'[g] = b /\ at'[g] = "delete"
    BY SMT DEF Discipline, Ownership, CallOK, HoldOK
  <1>5. Counting'
    BY <1>3, <1>4, SameHolders
  <1> QED
    BY <1>1, <1>2, <1>5

LEMMA DestroyMemberKeeps ==
    ASSUME IInv, TypeOK', NEW h \in Handle, NEW m \in Handle, DestroyMember(h, m)
    PROVE  IInv'
  <1> USE NoBlockAssumption, HomeAssumption
      DEF IInv, TypeOK, Local, Member, Owning, DestroyMember, Enter
  <1>1. Discipline'
    BY SMT DEF Discipline, Ownership, CallOK, Pinned, Kept, Reaches, HoldOK, Holders
  <1>2. Ownership'
    BY SMT DEF Discipline, Ownership, CallOK, Pinned, Kept, Reaches, HoldOK,
       PrivateOK, SingleDeleter, Holders
  <1>3. \A b \in Block : life'[b] = "live" =>
           life[b] = "live" /\ refs'[b] = refs[b] /\ Holders(b)' = Holders(b)
    BY SMT DEF Discipline, Ownership, CallOK, HoldOK, PrivateOK, Holders
  <1>4. \A g \in Handle, b \in Block :
           life'[b] = "live" /\ block[g] = b /\ at[g] = "delete" =>
              block'[g] = b /\ at'[g] = "delete"
    BY SMT DEF Discipline, Ownership, CallOK, HoldOK
  <1>5. Counting'
    BY <1>3, <1>4, SameHolders
  <1> QED
    BY <1>1, <1>2, <1>5

LEMMA DeleteEndKeeps ==
    ASSUME IInv, TypeOK', NEW h \in Handle, DeleteEnd(h)
    PROVE  IInv'
  <1> USE NoBlockAssumption, HomeAssumption
      DEF IInv, TypeOK, Local, Member, Owning, DeleteEnd, Stay
  <1>1. Discipline'
    BY SMT DEF Discipline, Ownership, CallOK, Pinned, Kept, Reaches, HoldOK, Holders
  <1>2. Ownership'
    BY SMT DEF Discipline, Ownership, CallOK, Pinned, Kept, Reaches, HoldOK,
       PrivateOK, SingleDeleter, Holders
  <1>3. \A b \in Block : life'[b] = "live" =>
           life[b] = "live" /\ refs'[b] = refs[b] /\ Holders(b)' = Holders(b)
    BY SMT DEF Discipline, Ownership, CallOK, HoldOK, PrivateOK, Holders
  <1>4. \A g \in Handle, b \in Block :
           life'[b] = "live" /\ block[g] = b /\ at[g] = "delete" =>
              block'[g] = b /\ at'[g] = "delete"
    BY SMT DEF Discipline, Ownership, CallOK, HoldOK
  <1>5. Counting'
    BY <1>3, <1>4, SameHolders
  <1> QED
    BY <1>1, <1>2, <1>5

LEMMA FreeBlockKeeps ==
    ASSUME IInv, TypeOK', NEW h \in Handle, FreeBlock(h)
    PROVE  IInv'
  <1> USE NoBlockAssumption, HomeAssumption
      DEF IInv, TypeOK, Local, Member, Owning, FreeBlock, Stay
  <1>1. Discipline'
    BY SMT DEF Discipline, Ownership, CallOK, Pinned, Kept, Reaches, HoldOK, Holders
  <1>2. Ownership'
    BY SMT DEF Discipline, Ownership, CallOK, Pinned, Kept, Reaches, HoldOK,
       PrivateOK, SingleDeleter, Holders
  <1>3. \A b \in Block : life'[b] = "live" =>
           life[b] = "live" /\ refs'[b] = refs[b] /\ Holders(b)' = Holders(b)
    BY SMT DEF Discipline, Ownership, CallOK, HoldOK, PrivateOK, Holders
  <1>4. \A g \in Handle, b \in Block :
           life'[b] = "live" /\ block[g] = b /\ at[g] = "delete" =>
              block'[g] = b /\ at'[g] = "delete"
    BY SMT DEF Discipline, Ownership, CallOK, HoldOK
  <1>5. Counting'
    BY <1>3, <1>4, SameHolders
  <1> QED
    BY <1>1, <1>2, <1>5

LEMMA NullBlockKeeps ==
    ASSUME IInv, TypeOK', NEW h \in Handle, NullBlock(h)
    PROVE  IInv'
  <1> USE NoBlockAssumption, HomeAssumption
      DEF IInv, TypeOK, Local, Member, Owning, NullBlock, AfterClear, Return, Stay
  <1>1. Discipline'
    BY SMT DEF Discipline, Ownership, CallOK, Pinned, Kept, Reaches, HoldOK, Holders
  <1>2. Ownership'
    BY SMT DEF Discipline, Ownership, CallOK, Pinned, Kept, Reaches, HoldOK,
       PrivateOK, SingleDeleter, Holders
  <1>3. \A b \in Block : life'[b] = "live" =>
           life[b] = "live" /\ refs'[b] = refs[b] /\ Holders(b)' = Holders(b)
    BY SMT DEF Discipline, Ownership, CallOK, HoldOK, PrivateOK, Holders
  <1>4. \A g \in Handle, b \in Block :
           life'[b] = "live" /\ block[g] = b /\ at[g] = "delete" =>
              block'[g] = b /\ at'[g] = "delete"
    BY SMT DEF Discipline, Ownership, CallOK, HoldOK
  <1>5. Counting'
    BY <1>3, <1>4, SameHolders
  <1> QED
    BY <1>1, <1>2, <1>5

LEMMA CopyTakeKeeps ==
    ASSUME IInv, TypeOK', NEW h \in Handle, CopyTake(h)
    PROVE  IInv'
  <1> USE NoBlockAssumption, HomeAssumption
      DEF IInv, TypeOK, Local, Member, Owning, CopyTake, Return, Stay
  <1>1. Discipline'
    <2>1. \A g \in Handle : CallOK(g)'
      BY SMT DEF Discipline, CallOK
    <2>2. \A g \in Handle : call[g] \in {"copy", "move"} => src[g] # h
      BY SMT DEF Discipline, CallOK, Pinned
    <2>3. \A g \in Handle : Pinned(g)'
      <3>1. CASE block[src[h]] = NoBlock
        <4>1. /\ block' = block
              /\ \A g \in Handle : g # h =>
                    at'[g] = at[g] /\ call'[g] = call[g] /\ src'[g] = src[g]
                    /\ via'[g] = via[g] /\ given'[g] = given[g]
              /\ at'[h] = "idle" /\ call'[h] = "none" /\ src'[h] = h
              /\ via'[h] = {}
          BY <3>1, SMT DEF Discipline, Ownership, HoldOK
        <4>2. Pinned(h)'
          BY <4>1, SMT DEF Pinned
        <4>3. \A g \in Handle : g # h => Pinned(g)'
          BY <2>2, <4>1, SMT DEF Discipline, CallOK, Pinned
        <4> QED
          BY <4>2, <4>3
      <3>2. CASE block[src[h]] # NoBlock
        BY <2>2, <3>2, SMT DEF Discipline, CallOK, Pinned
      <3> QED
        BY <3>1, <3>2
    <2>4. \A g \in Handle : Kept(g)'
      BY SMT DEF Discipline, CallOK, Pinned, Kept, Reaches
    <2> QED
      BY <2>1, <2>3, <2>4 DEF Discipline
  <1>2. Ownership'
    <2>1. \A g \in Handle : HoldOK(g)'
      BY SMT DEF Discipline, Ownership, CallOK, Pinned, Kept, Reaches, HoldOK,
         PrivateOK, SingleDeleter, Holders
    <2>2. \A b \in Block : PrivateOK(b)'
      BY SMT DEF Discipline, Ownership, CallOK, Pinned, HoldOK, PrivateOK
    <2>3. SingleDeleter'
      BY SMT DEF Discipline, Ownership, CallOK, HoldOK, SingleDeleter
    <2> QED
      BY <2>1, <2>2, <2>3 DEF Ownership
  <1>3. \A b \in Block : life'[b] = "live" =>
           life[b] = "live" /\ refs'[b] = refs[b] /\ Holders(b)' = Holders(b)
    BY SMT DEF Discipline, Ownership, CallOK, HoldOK, PrivateOK, Holders
  <1>4. \A g \in Handle, b \in Block :
           life'[b] = "live" /\ block[g] = b /\ at[g] = "delete" =>
              block'[g] = b /\ at'[g] = "delete"
    BY SMT DEF Discipline, Ownership, CallOK, HoldOK
  <1>5. Counting'
    BY <1>3, <1>4, SameHolders
  <1> QED
    BY <1>1, <1>2, <1>5

LEMMA MakeThrowKeeps ==
    ASSUME IInv, TypeOK', NEW h \in Handle, MakeThrow(h)
    PROVE  IInv'
  <1> USE NoBlockAssumption, HomeAssumption
      DEF IInv, TypeOK, Local, Member, Owning, MakeThrow, Stay
  <1>1. Discipline'
    BY SMT DEF Discipline, Ownership, CallOK, Pinned, Kept, Reaches, HoldOK, Holders
  <1>2. Ownership'
    BY SMT DEF Discipline, Ownership, CallOK, Pinned, Kept, Reaches, HoldOK,
       PrivateOK, SingleDeleter, Holders
  <1>3. \A b \in Block : life'[b] = "live" =>
           life[b] = "live" /\ refs'[b] = refs[b] /\ Holders(b)' = Holders(b)
    BY SMT DEF Discipline, Ownership, CallOK, HoldOK, PrivateOK, Holders
  <1>4. \A g \in Handle, b \in Block :
           life'[b] = "live" /\ block[g] = b /\ at[g] = "delete" =>
              block'[g] = b /\ at'[g] = "delete"
    BY SMT DEF Discipline, Ownership, CallOK, HoldOK
  <1>5. Counting'
    BY <1>3, <1>4, SameHolders
  <1> QED
    BY <1>1, <1>2, <1>5

(* The steps that change who owns a live block.                            *)

LEMMA CopyIncKeeps ==
    ASSUME IInv, TypeOK', NEW h \in Handle, CopyInc(h)
    PROVE  IInv'
  <1> USE NoBlockAssumption, HomeAssumption
      DEF IInv, TypeOK, Local, Owning, CopyInc, Return
  <1>1. Discipline'
    BY SMT DEF Discipline, Ownership, CallOK, Pinned, Kept, Reaches, HoldOK, Holders
  <1>2. Ownership'
    BY SMT DEF Discipline, Ownership, CallOK, Pinned, Kept, Reaches, HoldOK,
       PrivateOK, SingleDeleter, Holders
  <1> PICK b \in Block : b = block[h]
    BY DEF Discipline, Ownership, HoldOK
  <1>3. /\ life[b] = "live"
        /\ h \notin Holders(b)
        /\ Holders(b)' = Holders(b) \cup {h}
        /\ \A c \in Block : c # b => Holders(c)' = Holders(c)
    BY SMT DEF Discipline, Ownership, CallOK, Pinned, HoldOK, Holders
  <1>4. Cardinality(Holders(b)') = Cardinality(Holders(b)) + 1
    <2>1. Cardinality(Holders(b) \cup {h}) = Cardinality(Holders(b)) + 1
      BY ONLY <1>3, HoldersFinite, FS_AddElement
    <2> QED
      BY <1>3, <2>1
  <1>5. Cardinality(Holders(b)') <= Cardinality(Handle)
    <2>1. Holders(b) \cup {h} \subseteq Handle
      BY DEF Holders
    <2> QED
      BY <1>3, <2>1, HandleAssumption, FS_Subset
  <1>6. refs'[b] = Cardinality(Holders(b)')
    <2>1. refs[b] = Cardinality(Holders(b))
      BY <1>3 DEF Counting, ExactCount
    <2>2. refs[b] + 1 < RefMod
      BY <1>4, <1>5, <2>1, HoldersFinite, HandleAssumption, FS_CardinalityType,
         RefModAssumption
    <2>3. (refs[b] + 1) % RefMod = refs[b] + 1
      BY <1>3, <2>2, IncInRange
    <2> QED
      BY <1>3, <1>4, <2>1, <2>3
  <1>7. Counting'
    <2>1. life' = life /\ \A c \in Block : c # b => refs'[c] = refs[c]
      OBVIOUS
    <2>2. ExactCount'
      BY ONLY <1>3, <1>6, <2>1, Counting DEF Counting, ExactCount
    <2>3. NoLostObject'
      BY <1>3 DEF Counting, NoLostObject
    <2> QED
      BY <2>2, <2>3 DEF Counting
  <1> QED
    BY <1>1, <1>2, <1>7

LEMMA MakeObjectKeeps ==
    ASSUME IInv, TypeOK', NEW h \in Handle, MakeObject(h)
    PROVE  IInv'
  <1> USE NoBlockAssumption, HomeAssumption
      DEF IInv, TypeOK, Local, Owning, MakeObject, Return
  <1>1. Discipline'
    BY SMT DEF Discipline, Ownership, CallOK, Pinned, Kept, Reaches, HoldOK, Holders
  <1>2. Ownership'
    BY SMT DEF Discipline, Ownership, CallOK, Pinned, Kept, Reaches, HoldOK,
       PrivateOK, SingleDeleter, Holders
  <1> PICK b \in Block : b = block[h]
    BY DEF Discipline, Ownership, HoldOK
  <1>3. /\ Holders(b)' = {h}
        /\ \A c \in Block : c # b => Holders(c)' = Holders(c)
    BY SMT DEF Discipline, Ownership, HoldOK, PrivateOK, Holders
  <1>4. Cardinality(Holders(b)') = 1
    BY <1>3, FS_Singleton
  <1>5. /\ refs'[b] = 1
        /\ \A c \in Block : c # b => life'[c] = life[c] /\ refs'[c] = refs[c]
        /\ block' = block
        /\ \A g \in Handle : at[g] = "delete" => at'[g] = "delete"
    OBVIOUS
  <1>6. ExactCount'
    BY ONLY <1>3, <1>4, <1>5, Counting DEF Counting, ExactCount
  <1>7. NoLostObject'
    BY ONLY <1>3, <1>5, Counting DEF Counting, NoLostObject
  <1> QED
    BY <1>1, <1>2, <1>6, <1>7 DEF Counting

LEMMA ClearDecKeeps ==
    ASSUME IInv, TypeOK', NEW h \in Handle, ClearDec(h)
    PROVE  IInv'
  <1> USE NoBlockAssumption, HomeAssumption
      DEF IInv, TypeOK, Local, Owning, ClearDec, Stay
  <1>1. Discipline'
    BY SMT DEF Discipline, Ownership, CallOK, Pinned, Kept, Reaches, HoldOK, Holders
  <1>2. /\ block[h] \in Block
        /\ h \in Holders(block[h])
        /\ Holders(block[h])' = Holders(block[h]) \ {h}
        /\ \A c \in Block : c # block[h] => Holders(c)' = Holders(c)
    BY SMT DEF Holders
  <1>3. CASE life[block[h]] = "live"
    <2>1. /\ Cardinality(Holders(block[h])') = Cardinality(Holders(block[h])) - 1
          /\ Cardinality(Holders(block[h])') = 0 <=> Holders(block[h])' = {}
      <3>1. Cardinality(Holders(block[h]) \ {h}) = Cardinality(Holders(block[h])) - 1
        BY ONLY <1>2, HoldersFinite, FS_RemoveElement
      <3>2. IsFiniteSet(Holders(block[h]) \ {h})
        BY ONLY HoldersFinite, FS_RemoveElement
      <3> QED
        BY ONLY <1>2, <3>1, <3>2, FS_EmptySet
    <2>2. refs[block[h]] = Cardinality(Holders(block[h]))
      BY <1>2, <1>3 DEF Counting, ExactCount
    <2>3. refs[block[h]] # 0
      BY <1>2, <2>2, HoldersFinite, FS_EmptySet
    <2>4. Dec(refs[block[h]]) = Cardinality(Holders(block[h])')
      BY <1>2, <2>1, <2>2, <2>3, DecInRange
    <2>5. /\ refs'[block[h]] = Cardinality(Holders(block[h])')
          /\ at'[h] = "delete" <=> Holders(block[h])' = {}
          /\ at'[h] \in {"delete", "null"}
      BY <1>2, <2>1, <2>4
    <2>6. \A g \in Handle : at[g] = "delete" => block[g] # block[h]
      BY <1>2 DEF Ownership, HoldOK
    <2>7. Ownership'
      <3>1. \A g \in Handle : HoldOK(g)'
        BY <1>2, <1>3, <2>5, SMT
        DEF Ownership, HoldOK, Discipline, CallOK, Pinned, SingleDeleter, Holders
      <3>2. \A b \in Block : PrivateOK(b)'
        BY <1>2, <1>3, <2>5, SMT DEF Ownership, PrivateOK
      <3>3. SingleDeleter'
        BY <1>2, <1>3, <2>5, <2>6, SMT DEF Ownership, HoldOK, SingleDeleter
      <3> QED
        BY <3>1, <3>2, <3>3 DEF Ownership
    <2>8. Counting'
      <3>1. ExactCount'
        BY <1>2, <2>5 DEF Counting, ExactCount
      <3>2. NoLostObject'
        BY <1>2, <2>5, <2>6 DEF Counting, NoLostObject
      <3> QED
        BY <3>1, <3>2 DEF Counting
    <2> QED
      BY <1>1, <2>7, <2>8
  <1>4. CASE life[block[h]] = "building"
    <2>1. refs[block[h]] = 0
      BY <1>2, <1>4 DEF Ownership, PrivateOK
    <2>2. Dec(refs[block[h]]) # 0
      BY <2>1, RoomForOne, RefModAssumption, DecInRange
    <2>3. at' = [at EXCEPT ![h] = "null"]
      BY <2>2
    <2>4. Ownership'
      BY <1>2, <1>4, <2>3, SMT
      DEF Discipline, Ownership, CallOK, Pinned, HoldOK, PrivateOK, SingleDeleter
    <2>5. Counting'
      BY <1>2, <1>4, <2>3 DEF Counting, ExactCount, NoLostObject
    <2> QED
      BY <1>1, <2>4, <2>5
  <1> QED
    BY <1>2, <1>3, <1>4 DEF Ownership, HoldOK

LEMMA MoveTakeKeeps ==
    ASSUME IInv, TypeOK', NEW h \in Handle, MoveTake(h)
    PROVE  IInv'
  <1> USE NoBlockAssumption, HomeAssumption
      DEF IInv, TypeOK, Local, Owning, MoveTake, Return
  <1> PICK s \in Handle : s = src[h]
    OBVIOUS
  <1>1. /\ s # h /\ at[s] = "lent" /\ call[s] = "none"
        /\ block[h] = NoBlock
        /\ \A g \in Handle \ {h, s} : src[g] # s /\ src[g] # h
        /\ \A g \in Handle : h \notin via[g] /\ s \notin via[g]
    BY SMT DEF Discipline, Ownership, CallOK, Pinned, HoldOK
  <1>2. \A c \in Block :
           Holders(c)' = IF block[s] = c THEN (Holders(c) \ {s}) \cup {h}
                                         ELSE Holders(c)
    BY <1>1, SMT DEF Holders
  <1> block[s] # NoBlock => life[block[s]] = "live" /\ s \in Holders(block[s])
    BY <1>1, SMT DEF Ownership, HoldOK, Holders
  <1>3. Discipline'
    <2>1. \A g \in Handle : CallOK(g)'
      BY <1>1, SMT DEF Discipline, CallOK
    <2>2. \A g \in Handle : Pinned(g)'
      BY <1>1, SMT DEF Discipline, CallOK, Pinned
    <2>3. \A g \in Handle : Kept(g)'
      <3>1. \A g \in Handle : \A k \in via[g] : block'[k] = block[k]
        BY <1>1
      <3>2. \A g \in Handle : g # h =>
               call'[g] = call[g] /\ src'[g] = src[g] /\ via'[g] = via[g]
        OBVIOUS
      <3>3. call'[h] = "none" /\ life' = life
        OBVIOUS
      <3> QED
        BY ONLY <3>1, <3>2, <3>3, Discipline, SMT DEF Discipline, Kept, Reaches
    <2> QED
      BY <2>1, <2>2, <2>3 DEF Discipline
  <1>4. Ownership'
    <2>1. \A g \in Handle \ {h, s} : HoldOK(g)'
      BY <1>1, <1>2, SMT DEF Discipline, Ownership, CallOK, Pinned, HoldOK
    <2>2. HoldOK(h)' /\ HoldOK(s)'
      BY <1>1, SMT DEF Ownership, HoldOK
    <2>3. \A b \in Block : PrivateOK(b)'
      BY <1>1, SMT DEF Ownership, PrivateOK
    <2>4. SingleDeleter'
      BY <1>1, SMT DEF Ownership, SingleDeleter
    <2> QED
      BY <2>1, <2>2, <2>3, <2>4 DEF Ownership
  <1>5. \A c \in Block : Cardinality(Holders(c)') = Cardinality(Holders(c))
    <2> SUFFICES ASSUME NEW c \in Block
                 PROVE  Cardinality(Holders(c)') = Cardinality(Holders(c))
      OBVIOUS
    <2>1. CASE block[s] # c
      BY <1>2, <2>1
    <2>2. CASE block[s] = c
      <3>1. s \in Holders(c) /\ h \notin Holders(c)
        BY <1>1, <2>2 DEF Holders
      <3>2. /\ IsFiniteSet(Holders(c) \ {s})
            /\ Cardinality(Holders(c) \ {s}) = Cardinality(Holders(c)) - 1
            /\ Cardinality(Holders(c)) \in Nat
        BY ONLY <3>1, HoldersFinite, FS_RemoveElement
      <3>3. Cardinality((Holders(c) \ {s}) \cup {h}) = Cardinality(Holders(c) \ {s}) + 1
        <4>1. h \notin Holders(c) \ {s}
          BY ONLY <3>1
        <4> QED
          BY ONLY <3>2, <4>1, FS_AddElement
      <3> QED
        <4>1. Holders(c)' = (Holders(c) \ {s}) \cup {h}
          BY <1>2, <2>2
        <4> QED
          BY ONLY <3>2, <3>3, <4>1
    <2> QED
      BY <2>1, <2>2
  <1>6. Counting'
    <2>1. refs' = refs /\ life' = life
      OBVIOUS
    <2>2. ExactCount'
      BY ONLY <1>5, <2>1, Counting DEF Counting, ExactCount
    <2>3. \A b \in Block : Holders(b)' = {} => Holders(b) = {}
      BY ONLY <1>2
    <2>4. \A g \in Handle : at[g] = "delete" => at'[g] = "delete" /\ block'[g] = block[g]
      BY <1>1
    <2>5. NoLostObject'
      BY ONLY <2>1, <2>3, <2>4, Counting DEF Counting, NoLostObject
    <2> QED
      BY <2>2, <2>5 DEF Counting
  <1> QED
    BY <1>3, <1>4, <1>6

-----------------------------------------------------------------------------
(* The inductive invariant.                                                *)

LEMMA IInvInit == Init => IInv
  <1> SUFFICES ASSUME Init PROVE IInv
    OBVIOUS
  <1>1. TypeOK
    BY TypeInit
  <1>2. Discipline
    BY NoBlockAssumption DEF Init, Discipline, CallOK, Pinned, Kept
  <1>3. Ownership
    BY NoBlockAssumption DEF Init, Ownership, HoldOK, PrivateOK, SingleDeleter
  <1>4. Counting
    BY DEF Init, Counting, ExactCount, NoLostObject
  <1> QED
    BY <1>1, <1>2, <1>3, <1>4 DEF IInv

LEMMA IInvStep == IInv /\ [Next]_vars => IInv'
  <1> SUFFICES ASSUME IInv, [Next]_vars PROVE IInv'
    OBVIOUS
  <1>1. TypeOK'
    BY TypeStep DEF IInv
  <1>2. CASE UNCHANGED vars
    BY <1>2 DEF vars, IInv, TypeOK, Discipline, CallOK, Pinned, Kept, Reaches,
       Ownership, HoldOK, PrivateOK, SingleDeleter, Counting, ExactCount,
       NoLostObject, Holders
  <1>3. CASE Begin
    BY <1>1, <1>3, ClearKeeps, CopyFromKeeps, MoveFromKeeps, MakeBlockKeeps
    DEF Begin
  <1>4. ASSUME NEW h \in Handle, Step(h) PROVE IInv'
    BY <1>1, <1>4, ClearEmptyKeeps, ClearDecKeeps, DeleteBeginKeeps,
       DeleteEndKeeps, DestroyMemberKeeps, FreeBlockKeeps, NullBlockKeeps,
       CopyTakeKeeps, CopyIncKeeps, MoveTakeKeeps, MakeObjectKeeps, MakeThrowKeeps
    DEF Step
  <1> QED
    BY <1>2, <1>3, <1>4 DEF Next

\* IInv, with the count exact at every step of every call and what each step
\* relies on, is inductive: clear, copyFrom, moveFrom and make keep it
\* whatever the other handles are in the middle of (Ref.h:38-61, 78-87).
THEOREM Invariance == SafeSpec => []IInv
  BY IInvInit, IInvStep, PTL DEF SafeSpec

-----------------------------------------------------------------------------
(* What IInv says of the properties of Ref.                                *)

LEMMA SafeMemory == IInv => NoDanglingUse
  <1> SUFFICES ASSUME IInv, NEW h \in Handle
               PROVE  /\ Uses(h) # NoBlock =>
                            life[Uses(h)] \in {"building", "live", "dying", "gone"}
                      /\ at[h] = "inc" => life[block[h]] = "live"
                      /\ at[h] # "idle" /\ Home[h] # NoBlock =>
                            life[Home[h]] \in {"live", "dying"}
                      /\ at[h] = "take" /\ Home[src[h]] # NoBlock =>
                            life[Home[src[h]]] = "live"
    BY DEF NoDanglingUse
  <1> USE DEF IInv, TypeOK, Discipline, Ownership
  <1>1. at[h] = "inc" => life[block[h]] = "live"
    BY DEF CallOK, Pinned, HoldOK
  <1>2. Uses(h) # NoBlock =>
           life[Uses(h)] \in {"building", "live", "dying", "gone"}
    BY <1>1 DEF HoldOK, Uses
  <1>3. ASSUME NEW g \in Handle, NEW X \in SUBSET Handle, Reaches(via[g], X),
               NEW m \in X, Home[m] # NoBlock
        PROVE  life[Home[m]] = "live"
    <2>1. PICK k \in via[g] : block[k] = Home[m]
      BY <1>3 DEF Reaches
    <2>2. k \in Handle /\ at[k] = "idle"
      BY DEF Pinned, Local
    <2> QED
      BY <1>3, <2>1, <2>2 DEF HoldOK
  <1>4. ASSUME NEW g \in Handle, call[g] \in {"copy", "move"},
               NEW m \in {g, src[g]}, Home[m] # NoBlock
        PROVE  life[Home[m]] = "live"
    <2>1. Reaches(via[g], {g, src[g]})
      BY <1>4, Zenon DEF Kept
    <2>2. {g, src[g]} \in SUBSET Handle
      OBVIOUS
    <2> QED
      BY <1>3, <1>4, <2>1, <2>2
  <1>5. at[h] # "idle" /\ Home[h] # NoBlock => life[Home[h]] \in {"live", "dying"}
    <2> SUFFICES ASSUME at[h] # "idle", Home[h] # NoBlock
                 PROVE  life[Home[h]] \in {"live", "dying"}
      OBVIOUS
    <2>1. CASE call[h] = "none"
      <3>1. PICK g \in Handle : call[g] = "move" /\ src[g] = h
        BY <2>1 DEF CallOK, Pinned
      <3> QED
        BY <3>1, <1>4
    <2>2. CASE call[h] \in {"copy", "move"}
      BY <2>2, <1>4
    <2>3. CASE call[h] = "clear"
      <3>1. CASE Reaches(via[h], {h})
        <4>1. h \in {h} /\ {h} \in SUBSET Handle
          OBVIOUS
        <4> QED
          BY <1>3, <3>1, <4>1
      <3> QED
        BY <2>3, <3>1 DEF Kept
    <2>4. CASE call[h] = "make"
      BY <2>4 DEF CallOK, Local
    <2> QED
      BY <2>1, <2>2, <2>3, <2>4 DEF Calls
  <1>6. at[h] = "take" /\ Home[src[h]] # NoBlock => life[Home[src[h]]] = "live"
    BY <1>4 DEF CallOK
  <1> QED
    BY <1>1, <1>2, <1>5, <1>6

\* refs_ of a live block is the number of its owners in every interleaving of
\* clear, copyFrom, moveFrom and make (Ref.h:38-61, 78-87).
THEOREM CountIsExact == SafeSpec => []ExactCount
  BY Invariance, PTL DEF IInv, Counting

\* No two calls run the deleter of one block (Ref.h:40-43).
THEOREM DeletedOnce == SafeSpec => []SingleDeleter
  BY Invariance, PTL DEF IInv, Ownership

\* An object without an owner has a call about to delete it (Ref.h:40-41).
THEOREM NothingLost == SafeSpec => []NoLostObject
  BY Invariance, PTL DEF IInv, Counting

\* What a handle at rest points to is a live object (Ref.h:105-107).
THEOREM HandlesAlive == SafeSpec => []HeldAlive
  <1>1. IInv => HeldAlive
    BY DEF IInv, Ownership, HoldOK, HeldAlive
  <1> QED
    BY <1>1, Invariance, PTL

\* No step reads or writes a block, or a member handle, that has been freed.
THEOREM NoUseAfterFree == SafeSpec => []NoDanglingUse
  BY SafeMemory, Invariance, PTL

-----------------------------------------------------------------------------
(* Action properties and refinement.                                       *)

\* A copy or move returns only with what rhs held when it was called, though
\* clear() ran in between and other calls ran throughout (Ref.h:47-61, 113).
THEOREM AssignmentDelivers == SafeSpec => AssignDelivers
  <1>1. ASSUME IInv, [Next]_vars, NEW h \in Handle,
               call[h] \in {"copy", "move"}, call'[h] = "none"
        PROVE  block'[h] = given[h]
    <2> USE <1>1, NoBlockAssumption DEF IInv, TypeOK, Discipline, Ownership
    <2>1. at[h] # "idle" /\ given[h] = block[src[h]] /\ src[h] # h
      BY DEF CallOK, Pinned
    <2>2. ASSUME Begin PROVE FALSE
      <3>1. ASSUME NEW g \in Handle, NEW c, NEW r, NEW P, at[g] = "idle",
                   c # "none", Enter(g, c, r, P)
            PROVE  FALSE
        BY <2>1, <3>1 DEF Enter
      <3> QED
        BY <2>2, <3>1 DEF Begin, Clear, CopyFrom, MoveFrom, MakeBlock, Untouched
    <2>3. ASSUME NEW g \in Handle, Step(g), g # h PROVE FALSE
      BY <2>1, <2>3 DEF Step, ClearEmpty, ClearDec, DeleteBegin, DeleteEnd,
         DestroyMember, FreeBlock, NullBlock, CopyTake, CopyInc, MoveTake,
         MakeObject, MakeThrow, AfterClear, Return, Stay, Enter
    <2>4. CASE CopyTake(h)
      BY <2>1, <2>4 DEF CopyTake, Stay
    <2>5. CASE CopyInc(h)
      BY <2>1, <2>5 DEF CopyInc, HoldOK
    <2>6. CASE MoveTake(h)
      BY <2>1, <2>6 DEF MoveTake
    <2>7. CASE MakeObject(h)
      BY <2>7 DEF MakeObject, CallOK
    <2>8. ASSUME \/ ClearEmpty(h) \/ ClearDec(h) \/ DeleteBegin(h) \/ DeleteEnd(h)
                 \/ \E m \in Handle : DestroyMember(h, m)
                 \/ FreeBlock(h) \/ NullBlock(h) \/ MakeThrow(h)
          PROVE  FALSE
      BY <2>1, <2>8 DEF ClearEmpty, ClearDec, DeleteBegin, DeleteEnd,
         DestroyMember, FreeBlock, NullBlock, MakeThrow, AfterClear, Stay, Enter
    <2>9. ASSUME UNCHANGED vars PROVE FALSE
      BY <2>9 DEF vars
    <2> QED
      BY <2>2, <2>3, <2>4, <2>5, <2>6, <2>7, <2>8, <2>9 DEF Next, Step
  <1>2. IInv /\ [Next]_vars =>
          [\A h \in Handle :
              call[h] \in {"copy", "move"} /\ call'[h] = "none"
                => block'[h] = given[h]]_vars
    BY <1>1
  <1> QED
    BY <1>2, Invariance, PTL DEF SafeSpec, AssignDelivers

LEMMA RefineInit == Init => Shared!Init
  BY NoBlockAssumption DEF Init, Shared!Init, owns, state

LEMMA RefineStep == IInv /\ IInv' /\ [Next]_vars => [Shared!Next]_(Shared!vars)
  <1> SUFFICES ASSUME IInv, IInv', [Next]_vars
               PROVE  Shared!Next \/ (owns' = owns /\ state' = state)
    BY DEF Shared!vars
  <1> USE NoBlockAssumption DEF IInv, TypeOK, Discipline, Ownership, Owning
  <1>0. /\ owns = [g \in Handle |-> owns[g]] /\ owns' = [g \in Handle |-> owns'[g]]
        /\ state = [b \in Block |-> state[b]] /\ state' = [b \in Block |-> state'[b]]
    BY DEF owns, state
  <1>1. CASE Begin
    <2>1. ASSUME NEW h \in Handle, NEW b \in Block, MakeBlock(h, b)
          PROVE  owns' = owns /\ state' = state
      BY <2>1, SMT DEF MakeBlock, Untouched, HoldOK, PrivateOK, owns, state
    <2>2. CASE UNCHANGED <<block, refs, life>>
      <3>1. \A g \in Handle :
               at[g] \in {"idle", "lent", "clear"} <=> at'[g] \in {"idle", "lent", "clear"}
        BY <1>1, <2>2, ZenonT(30) DEF Begin, Clear, CopyFrom, MoveFrom, MakeBlock, Untouched
      <3> QED
        BY <2>2, <3>1 DEF owns, state
    <2> QED
      BY <1>1, <2>1, <2>2 DEF Begin, Clear, CopyFrom, MoveFrom
  <1>2. ASSUME NEW h \in Handle, ClearEmpty(h) PROVE owns' = owns /\ state' = state
    BY <1>2, SMT DEF ClearEmpty, AfterClear, owns, state
  <1>3. ASSUME NEW h \in Handle, ClearDec(h)
        PROVE  Shared!Release(h) \/ (owns' = owns /\ state' = state)
    <2>1. state' = state
      BY <1>3 DEF ClearDec, state
    <2>2. owns' = [owns EXCEPT ![h] = NoBlock]
      <3>1. owns'[h] = NoBlock /\ \A g \in Handle : g # h => owns'[g] = owns[g]
        BY <1>3, SMT DEF ClearDec, owns
      <3> QED
        BY <1>0, <3>1
    <2>3. CASE owns[h] = NoBlock
      BY <1>0, <2>1, <2>2, <2>3
    <2> QED
      BY <2>1, <2>2, <2>3 DEF Shared!Release
  <1>4. ASSUME NEW h \in Handle, DeleteBegin(h) PROVE Shared!Destroy(block[h])
    <2>1. block[h] \in Block /\ life[block[h]] = "live" /\ Holders(block[h]) = {}
      BY <1>4 DEF DeleteBegin, HoldOK
    <2>2. state[block[h]] = "alive"
          /\ state' = [state EXCEPT ![block[h]] = "destroyed"]
      <3>1. /\ state[block[h]] = "alive" /\ state'[block[h]] = "destroyed"
            /\ \A b \in Block : b # block[h] => state'[b] = state[b]
        BY <1>4, <2>1 DEF DeleteBegin, state
      <3> QED
        BY <1>0, <3>1
    <2>3. Shared!Owners(block[h]) = {}
      BY <2>1, SMT DEF Shared!Owners, owns, Holders
    <2>4. owns' = owns
      BY <1>4, <2>1, SMT DEF DeleteBegin, owns, Holders
    <2> QED
      BY <2>2, <2>3, <2>4 DEF Shared!Destroy
  <1>5. ASSUME NEW h \in Handle, NEW m \in Handle, DestroyMember(h, m)
        PROVE  owns' = owns /\ state' = state
    BY <1>5, SMT DEF DestroyMember, Member, owns, state
  <1>6. ASSUME NEW h \in Handle, DeleteEnd(h) \/ FreeBlock(h)
        PROVE  owns' = owns /\ state' = state
    BY <1>6, SMT DEF DeleteEnd, FreeBlock, HoldOK, owns, state
  <1>7. ASSUME NEW h \in Handle, NullBlock(h) \/ MakeThrow(h)
        PROVE  owns' = owns /\ state' = state
    BY <1>7, SMT DEF NullBlock, MakeThrow, AfterClear, HoldOK, owns, state
  <1>8. ASSUME NEW h \in Handle, CopyTake(h) PROVE owns' = owns /\ state' = state
    BY <1>8, SMT DEF CopyTake, HoldOK, owns, state
  <1>9. ASSUME NEW h \in Handle, CopyInc(h) PROVE Shared!Share(h, src[h])
    <2>1. /\ block[h] \in Block /\ block[h] = block[src[h]]
          /\ at[src[h]] = "idle" /\ life[block[h]] = "live"
      BY <1>9 DEF CopyInc, CallOK, Pinned, HoldOK
    <2>2. state' = state
      BY <1>9 DEF CopyInc, state
    <2>3. /\ owns[h] = NoBlock /\ owns[src[h]] = block[h]
          /\ owns' = [owns EXCEPT ![h] = block[h]]
      BY <1>9, <2>1, SMTT(30) DEF CopyInc, owns
    <2> QED
      BY <2>1, <2>2, <2>3 DEF Shared!Share
  <1>10. ASSUME NEW h \in Handle, MoveTake(h)
         PROVE  Shared!Transfer(h, src[h]) \/ (owns' = owns /\ state' = state)
    <2>1. /\ src[h] # h /\ at[src[h]] = "lent" /\ block[h] = NoBlock
          /\ block[src[h]] # NoBlock => life[block[src[h]]] = "live"
      BY <1>10 DEF MoveTake, CallOK, Pinned, HoldOK
    <2>2. state' = state
      BY <1>10 DEF MoveTake, state
    <2>3. /\ owns[h] = NoBlock /\ owns[src[h]] = block[src[h]]
          /\ owns' = [owns EXCEPT ![h] = block[src[h]], ![src[h]] = NoBlock]
      <3>1. /\ owns[h] = NoBlock /\ owns[src[h]] = block[src[h]]
            /\ owns'[h] = block[src[h]] /\ owns'[src[h]] = NoBlock
            /\ \A g \in Handle \ {h, src[h]} : owns'[g] = owns[g]
        BY <1>10, <2>1, SMT DEF MoveTake, owns
      <3> QED
        BY <1>0, <2>1, <3>1
    <2>4. CASE block[src[h]] = NoBlock
      BY <1>0, <2>1, <2>2, <2>3, <2>4
    <2> QED
      BY <2>2, <2>3, <2>4 DEF Shared!Transfer
  <1>11. ASSUME NEW h \in Handle, MakeObject(h) PROVE Shared!Create(h, block[h])
    <2>1. block[h] \in Block /\ life[block[h]] = "building"
          /\ \A g \in Handle : block[g] = block[h] => g = h
      BY <1>11 DEF MakeObject, HoldOK, PrivateOK
    <2>2. /\ state[block[h]] = "absent"
          /\ state' = [state EXCEPT ![block[h]] = "alive"]
      <3>1. /\ state[block[h]] = "absent" /\ state'[block[h]] = "alive"
            /\ \A b \in Block : b # block[h] => state'[b] = state[b]
        BY <1>11, <2>1 DEF MakeObject, state
      <3> QED
        BY <1>0, <3>1
    <2>3. owns[h] = NoBlock /\ owns' = [owns EXCEPT ![h] = block[h]]
      <3>1. /\ owns[h] = NoBlock /\ owns'[h] = block[h]
            /\ \A g \in Handle : g # h => owns'[g] = owns[g]
        BY <1>11, <2>1, SMT DEF MakeObject, owns
      <3> QED
        BY <1>0, <3>1
    <2> QED
      BY <2>2, <2>3 DEF Shared!Create
  <1>12. CASE UNCHANGED vars
    BY <1>12 DEF vars, owns, state
  <1>13. CASE \E h \in Handle : Step(h)
    <2>1. PICK h \in Handle : Step(h)
      BY <1>13
    <2>2. block[h] \in Block \/ ~(DeleteBegin(h) \/ MakeObject(h))
      BY DEF HoldOK, DeleteBegin, MakeObject
    <2>3. \/ owns' = owns /\ state' = state
          \/ Shared!Release(h) \/ Shared!Share(h, src[h]) \/ Shared!Transfer(h, src[h])
          \/ block[h] \in Block /\ (Shared!Destroy(block[h]) \/ Shared!Create(h, block[h]))
      BY ONLY <2>1, <2>2, <1>2, <1>3, <1>4, <1>5, <1>6, <1>7, <1>8, <1>9, <1>10, <1>11
      DEF Step
    <2>4. h \in Handle /\ src[h] \in Handle
      BY <2>1
    <2> QED
      BY ONLY <2>3, <2>4 DEF Shared!Next
  <1> QED
    BY <1>1, <1>12, <1>13 DEF Next

\* Every step of Ref is a step of SharedOwnership or a stutter: whatever calls
\* interleave, callers see an object that lives while a handle owns it and is
\* destroyed once, after the last let go.
THEOREM Refinement == SafeSpec => Shared!SafeSpec
  BY RefineInit, RefineStep, Invariance, PTL DEF SafeSpec, Shared!SafeSpec

=============================================================================
