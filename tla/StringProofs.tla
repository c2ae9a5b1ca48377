---------------------------- MODULE StringProofs ----------------------------
(***************************************************************************)
(* Theorems about String and Split, for any finite set of strings, any     *)
(* texts and any number of blocks.                                         *)
(*                                                                         *)
(* The invariants of String hold each other up: what a string shows        *)
(* depends on its block outliving it, and the count of a block on strings  *)
(* letting go of what they hold, so they are proved together.              *)
(*                                                                         *)
(* What Split does to strings is what String does, so those theorems hold  *)
(* of it; while its string is left alone, the coroutine reads only         *)
(* characters that are there; and the parts it yields, joined by the       *)
(* separator, are the text.                                                *)
(***************************************************************************)
EXTENDS Split, NaturalFacts, FiniteSetTheorems, SequenceTheorems

\* What size_ and data_ of a string that should stand for t look like.
Fits(n, d, t) ==
    /\ Abs(n) = Length[t]
    /\ View(n, d) # t => t = Empty /\ d = Pointer(Empty)
    /\ Type(n) = "SHARED" <=> d.is = "ref"

StringsFit == \A s \in exists : Fits(size[s], data[s], val[s])

IInv == TypeOK /\ StringsFit /\ BlockOutlivesStrings

-----------------------------------------------------------------------------
(* Data and holders.                                                       *)

LEMMA RefData ==
    ASSUME NEW d \in Datas, d.is = "ref"
    PROVE  d.to \in Block /\ d = Shared(d.to)
  BY DEF Datas, Zero, Pointer, Chars, Shared

LEMMA NotRef ==
    ASSUME NEW b
    PROVE  /\ Shared(b).is = "ref" /\ Shared(b).to = b
           /\ Zero.is # "ref"
           /\ \A t : Pointer(t).is # "ref" /\ Chars(t).is # "ref"
  BY DEF Zero, Pointer, Chars, Shared

LEMMA DataTypes ==
    /\ Zero \in Datas
    /\ \A t \in Text : Pointer(t) \in Datas /\ Chars(t) \in Datas
    /\ \A b \in Block : Shared(b) \in Datas
  BY DEF Datas

LEMMA EmptyText == Empty \in Text /\ Length[Empty] = 0
  BY EmptyAssumption

LEMMA TextLength == ASSUME NEW t \in Text PROVE Length[t] \in Nat
  BY LengthAssumption

LEMMA Fewer ==
    ASSUME NEW A, NEW B, IsFiniteSet(B), A \subseteq B
    PROVE  /\ IsFiniteSet(A) /\ Cardinality(A) \in Nat /\ Cardinality(B) \in Nat
           /\ Cardinality(A) <= Cardinality(B)
  BY FS_Subset, FS_CardinalityType

LEMMA OneMore ==
    ASSUME NEW A, NEW B, NEW x, IsFiniteSet(B), A \subseteq B \cup {x}
    PROVE  Cardinality(A) <= Cardinality(B) + 1 /\ Cardinality(A) \in Nat
  <1>1. /\ IsFiniteSet(B \cup {x}) /\ Cardinality(B) \in Nat
        /\ Cardinality(B \cup {x}) <= Cardinality(B) + 1
    BY FS_AddElement, FS_CardinalityType
  <1>2. Cardinality(A) <= Cardinality(B \cup {x}) /\ Cardinality(A) \in Nat
        /\ Cardinality(B \cup {x}) \in Nat
    BY <1>1, Fewer
  <1> QED
    BY <1>1, <1>2

LEMMA OneLess ==
    ASSUME NEW A, NEW B, NEW x \in B, IsFiniteSet(B), A \subseteq B \ {x}
    PROVE  Cardinality(A) <= Cardinality(B) - 1
  <1>1. IsFiniteSet(B \ {x}) /\ Cardinality(B \ {x}) = Cardinality(B) - 1
    BY FS_RemoveElement
  <1>2. Cardinality(A) <= Cardinality(B \ {x})
    BY <1>1, Fewer
  <1> QED
    BY <1>1, <1>2

LEMMA HoldersFinite ==
    ASSUME TypeOK, NEW b
    PROVE  IsFiniteSet(Holders(b)) /\ Cardinality(Holders(b)) \in Nat
  <1>1. Holders(b) \subseteq Str
    BY DEF Holders, TypeOK
  <1> QED
    BY <1>1, OtherAssumption, Fewer

-----------------------------------------------------------------------------
(* The invariant.                                                          *)

LEMMA InitIInv == Init => IInv
  <1> SUFFICES ASSUME Init PROVE IInv
    OBVIOUS
  <1>1. TypeOK
    BY EmptyText, DataTypes, OtherAssumption DEF Init, TypeOK
  <1>2. StringsFit
    BY DEF Init, StringsFit
  <1>3. BlockOutlivesStrings
    <2>1. ASSUME NEW b \in Block PROVE refs[b] >= Cardinality(Holders(b))
      <3>1. Holders(b) = {}
        BY DEF Init, Holders
      <3> QED
        BY <3>1, FS_EmptySet DEF Init
    <2> QED
      BY <2>1 DEF BlockOutlivesStrings
  <1> QED
    BY <1>1, <1>2, <1>3 DEF IInv

-----------------------------------------------------------------------------
(* One lemma for each way to fill or release a string.                     *)

LEMMA FromCharsKeeps ==
    ASSUME IInv, NEW s \in Str, s \notin exists, NEW t \in Text, FromChars(s, t),
           exists' = exists \cup {s}, val' = [val EXCEPT ![s] = t]
    PROVE  IInv'
  <1> USE DEF Put
  <1>t. TypeOK
    BY DEF IInv
  <1>l. Length[t] \in Nat /\ 1 \in 0 .. MaxRefs
    BY TextLength, OtherAssumption
  <1>1. CASE Length[t] < kSmallMax /\ Put(s, Length[t], Chars(t)) /\ UNCHANGED <<refs, chars>>
    <2>1. TypeOK'
      BY <1>1, <1>t, <1>l, DataTypes DEF TypeOK
    <2>2. StringsFit'
      <3>1. Fits(size[s], data[s], val[s])'
        BY <1>1, <1>t, <1>l, NotRef, OtherAssumption
        DEF TypeOK, Fits, View, Type, Abs, Chars
      <3>2. ASSUME NEW x \in exists, x # s PROVE Fits(size[x], data[x], val[x])'
        BY <1>1, <1>t, <3>2 DEF IInv, StringsFit, TypeOK, Fits, View
      <3> QED
        BY <3>1, <3>2 DEF StringsFit
    <2>3. ASSUME NEW b \in Block PROVE (refs[b] >= Cardinality(Holders(b)))'
      <3>1. Holders(b)' = Holders(b)
        BY <1>1, <1>t, NotRef DEF Holders, TypeOK
      <3> QED
        BY <1>1, <3>1 DEF IInv, BlockOutlivesStrings
    <2> QED
      BY <2>1, <2>2, <2>3 DEF IInv, BlockOutlivesStrings
  <1>2. ASSUME Length[t] >= kSmallMax, NEW c \in Block, refs[c] = 0,
               Put(s, Length[t], Shared(c)),
               refs' = [refs EXCEPT ![c] = 1], chars' = [chars EXCEPT ![c] = t]
        PROVE  IInv'
    <2>1. TypeOK'
      BY <1>2, <1>t, <1>l, DataTypes DEF TypeOK
    <2>2. Holders(c) = {}
      <3>1. Cardinality(Holders(c)) = 0
        BY <1>2, <1>t, HoldersFinite DEF IInv, BlockOutlivesStrings
      <3> QED
        BY <3>1, <1>t, HoldersFinite, FS_EmptySet
    <2>3. StringsFit'
      <3>1. Fits(size[s], data[s], val[s])'
        BY <1>2, <1>t, <1>l, NotRef, OtherAssumption
        DEF TypeOK, Fits, View, Type, Abs, Shared
      <3>2. ASSUME NEW x \in exists, x # s PROVE Fits(size[x], data[x], val[x])'
        <4>1. data[x].is = "ref" => data[x].to \in Block /\ data[x].to # c
          BY <2>2, <1>t, RefData DEF Holders, TypeOK
        <4>2. size'[x] = size[x] /\ data'[x] = data[x] /\ val'[x] = val[x]
          BY <1>2, <1>t, <3>2 DEF TypeOK
        <4>3. data[x].is = "ref" => chars'[data[x].to] = chars[data[x].to]
          BY <1>2, <1>t, <4>1 DEF TypeOK
        <4> QED
          BY <4>2, <4>3 DEF IInv, StringsFit, Fits, View
      <3> QED
        BY <3>1, <3>2 DEF StringsFit
    <2>4. ASSUME NEW b \in Block PROVE (refs[b] >= Cardinality(Holders(b)))'
      <3>1. CASE b = c
        <4>1. Holders(b)' = {s}
          BY <1>2, <1>t, <2>2, <3>1 DEF Holders, TypeOK
        <4>2. Cardinality({s}) = 1
          BY FS_Singleton
        <4>3. refs'[b] = 1
          BY <1>2, <1>t, <3>1 DEF TypeOK
        <4> QED
          BY <4>1, <4>2, <4>3
      <3>2. CASE b # c
        <4>1. Holders(b)' = Holders(b)
          BY <1>2, <1>t, <3>2, NotRef DEF Holders, TypeOK
        <4> QED
          BY <1>2, <1>t, <3>2, <4>1 DEF IInv, BlockOutlivesStrings, TypeOK
      <3> QED
        BY <3>1, <3>2
    <2> QED
      BY <2>1, <2>3, <2>4 DEF IInv, BlockOutlivesStrings
  <1> QED
    BY <1>1, <1>2 DEF FromChars

\* s may be raw storage or a string whose old text is forgotten.
LEMMA CopyFromKeeps ==
    ASSUME IInv, NEW s \in Str, NEW n \in Int, NEW d \in Datas, NEW t \in Text,
           Fits(n, d, t), CopyFrom(s, n, d),
           exists' = exists \cup {s}, val' = [val EXCEPT ![s] = t]
    PROVE  IInv'
  <1> USE DEF Put
  <1>t. TypeOK /\ (Type(n) = "SHARED" <=> d.is = "ref")
    BY DEF IInv, Fits
  <1>1. TypeOK'
    <2>1. CASE d.is = "ref"
      <3>1. d.to \in Block /\ refs[d.to] + 1 \in 0 .. MaxRefs
        BY <1>t, <2>1, RefData, OtherAssumption DEF CopyFrom, TypeOK
      <3> QED
        BY <1>t, <2>1, <3>1 DEF CopyFrom, TypeOK
    <2>2. CASE d.is # "ref"
      BY <1>t, <2>2 DEF CopyFrom, TypeOK
    <2> QED
      BY <2>1, <2>2
  <1>2. StringsFit'
    <2>1. size'[s] = n /\ data'[s] = d /\ val'[s] = t /\ chars' = chars
      BY <1>t DEF CopyFrom, TypeOK
    <2>2. Fits(size[s], data[s], val[s])'
      BY <2>1 DEF Fits, View
    <2>3. ASSUME NEW x \in exists, x # s PROVE Fits(size[x], data[x], val[x])'
      <3>1. size'[x] = size[x] /\ data'[x] = data[x] /\ val'[x] = val[x]
        BY <1>t, <2>3 DEF CopyFrom, TypeOK
      <3> QED
        BY <2>1, <3>1 DEF IInv, StringsFit, Fits, View
    <2> QED
      BY <2>2, <2>3 DEF StringsFit
  <1>3. ASSUME NEW b \in Block PROVE (refs[b] >= Cardinality(Holders(b)))'
    <2>0. /\ IsFiniteSet(Holders(b)) /\ Cardinality(Holders(b)) \in Nat
          /\ refs[b] \in Nat /\ refs[b] >= Cardinality(Holders(b))
      BY <1>t, HoldersFinite DEF IInv, BlockOutlivesStrings, TypeOK
    <2>1. CASE d = Shared(b)
      <3>1. Holders(b)' \subseteq Holders(b) \cup {s}
        BY <1>t DEF CopyFrom, Holders, TypeOK
      <3>2. refs'[b] = refs[b] + 1
        BY <1>t, <2>1, NotRef DEF CopyFrom, TypeOK
      <3>3. Cardinality(Holders(b)') <= Cardinality(Holders(b)) + 1
            /\ Cardinality(Holders(b)') \in Nat
        BY <2>0, <3>1, OneMore
      <3> QED
        BY <2>0, <3>2, <3>3
    <2>2. CASE d # Shared(b)
      <3>1. Holders(b)' \subseteq Holders(b)
        BY <1>t, <2>2 DEF CopyFrom, Holders, TypeOK
      <3>2. refs'[b] = refs[b]
        BY <1>t, <2>2, RefData DEF CopyFrom, TypeOK
      <3>3. Cardinality(Holders(b)') <= Cardinality(Holders(b))
            /\ Cardinality(Holders(b)') \in Nat
        BY <2>0, <3>1, Fewer
      <3> QED
        BY <2>0, <3>2, <3>3
    <2> QED
      BY <2>1, <2>2
  <1> QED
    BY <1>1, <1>2, <1>3 DEF IInv, BlockOutlivesStrings

LEMMA MoveFromKeeps ==
    ASSUME IInv, NEW s \in Str, NEW r \in exists, s # r, MoveFrom(s, r),
           exists' = exists \cup {s}, val' = MovedVal(s, r)
    PROVE  IInv'
  <1> USE DEF Put
  <1>t. /\ TypeOK /\ r \in Str /\ data[r] \in Datas /\ size[r] \in Int /\ val[r] \in Text
        /\ Fits(size[r], data[r], val[r])
        /\ Type(size[r]) = "SHARED" <=> data[r].is = "ref"
    BY DEF IInv, StringsFit, Fits, TypeOK
  <1>k. refs' = refs /\ chars' = chars
    BY DEF MoveFrom
  <1>s. size'[s] = size[r] /\ data'[s] = data[r] /\ val'[s] = val[r]
    BY <1>t DEF MoveFrom, MovedVal, TypeOK
  <1>o. ASSUME NEW x \in exists, x # s, x # r
        PROVE  size'[x] = size[x] /\ data'[x] = data[x] /\ val'[x] = val[x]
    BY <1>t, <1>o DEF MoveFrom, MovedVal, TypeOK
  <1>r. IF data[r].is = "ref"
        THEN size'[r] = 0 /\ data'[r] = Zero /\ val'[r] = Empty
        ELSE size'[r] = size[r] /\ data'[r] = data[r] /\ val'[r] = val[r]
    BY <1>t DEF MoveFrom, MovedVal, TypeOK
  <1>1. TypeOK'
    BY <1>t, EmptyText, DataTypes DEF MoveFrom, MovedVal, TypeOK
  <1>2. StringsFit'
    <2>1. Fits(size[s], data[s], val[s])'
      BY <1>t, <1>k, <1>s DEF Fits, View
    <2>2. Fits(size[r], data[r], val[r])'
      <3>1. CASE data[r].is = "ref"
        <4>1. Abs(0) = Length[Empty] /\ Type(0) = "SMALL"
          BY EmptyText, OtherAssumption DEF Abs, Type
        <4>2. View(0, Zero)' = Empty
          BY <4>1 DEF View, Zero
        <4> QED
          BY <1>r, <3>1, <4>1, <4>2, NotRef DEF Fits, View
      <3>2. CASE data[r].is # "ref"
        BY <1>t, <1>k, <1>r, <3>2 DEF Fits, View
      <3> QED
        BY <3>1, <3>2
    <2>3. ASSUME NEW x \in exists, x # s, x # r PROVE Fits(size[x], data[x], val[x])'
      BY <1>k, <1>o, <2>3 DEF IInv, StringsFit, Fits, View
    <2> QED
      BY <2>1, <2>2, <2>3 DEF StringsFit
  <1>3. ASSUME NEW b \in Block PROVE (refs[b] >= Cardinality(Holders(b)))'
    <2>0. /\ IsFiniteSet(Holders(b)) /\ Cardinality(Holders(b)) \in Nat
          /\ refs[b] \in Nat /\ refs[b] >= Cardinality(Holders(b))
      BY <1>t, HoldersFinite DEF IInv, BlockOutlivesStrings, TypeOK
    <2>1. CASE data[r] = Shared(b)
      <3>1. r \in Holders(b) /\ r \notin Holders(b)'
        BY <1>r, <2>1, NotRef DEF Holders
      <3>2. Holders(b)' \subseteq (Holders(b) \ {r}) \cup {s}
        BY <1>o, <3>1 DEF Holders
      <3>3. IsFiniteSet(Holders(b) \ {r})
            /\ Cardinality(Holders(b) \ {r}) = Cardinality(Holders(b)) - 1
        BY <2>0, <3>1, FS_RemoveElement
      <3>4. Cardinality(Holders(b)') <= Cardinality(Holders(b) \ {r}) + 1
            /\ Cardinality(Holders(b)') \in Nat
        BY <3>2, <3>3, OneMore
      <3> QED
        BY <1>k, <2>0, <3>3, <3>4
    <2>2. CASE data[r] # Shared(b)
      <3>1. Holders(b)' \subseteq Holders(b)
        BY <1>s, <1>r, <1>o, <2>2, NotRef DEF Holders
      <3>2. Cardinality(Holders(b)') <= Cardinality(Holders(b))
            /\ Cardinality(Holders(b)') \in Nat
        BY <2>0, <3>1, Fewer
      <3> QED
        BY <1>k, <2>0, <3>2
    <2> QED
      BY <2>1, <2>2
  <1> QED
    BY <1>1, <1>2, <1>3 DEF IInv, BlockOutlivesStrings

LEMMA DestroyKeeps == ASSUME IInv, NEW s \in Str, Destroy(s) PROVE IInv'
  <1> USE DEF Put
  <1>t. /\ TypeOK /\ s \in exists /\ data[s] \in Datas
        /\ Type(size[s]) = "SHARED" <=> data[s].is = "ref"
    BY DEF IInv, StringsFit, Fits, TypeOK, Destroy
  <1>k. chars' = chars /\ exists' = exists \ {s}
    BY DEF Destroy
  <1>o. ASSUME NEW x \in exists, x # s
        PROVE  size'[x] = size[x] /\ data'[x] = data[x] /\ val'[x] = val[x]
    BY <1>t, <1>o DEF Destroy, TypeOK
  <1>0. ASSUME NEW b \in Block
        PROVE  /\ IsFiniteSet(Holders(b)) /\ Cardinality(Holders(b)) \in Nat
               /\ refs[b] \in 0 .. MaxRefs /\ refs[b] >= Cardinality(Holders(b))
    BY <1>t, HoldersFinite DEF IInv, BlockOutlivesStrings, TypeOK
  <1>a. ASSUME NEW b \in Block, data[s] = Shared(b)
        PROVE  /\ Cardinality(Holders(b)) >= 1 /\ refs'[b] = refs[b] - 1
               /\ s \in Holders(b) /\ Holders(b)' \subseteq Holders(b) \ {s}
    <2>1. s \in Holders(b) /\ Holders(b)' \subseteq Holders(b) \ {s}
      BY <1>t, <1>k, <1>o, <1>a DEF Holders
    <2>2. Cardinality(Holders(b)) # 0
      BY <1>0, <2>1, FS_EmptySet
    <2>3. refs'[b] = refs[b] - 1
      BY <1>t, <1>a, NotRef DEF Destroy, TypeOK
    <2> QED
      BY <1>0, <2>1, <2>2, <2>3
  <1>1. TypeOK'
    <2>1. size' \in [Str -> Int] /\ data' \in [Str -> Datas] /\ exists' \subseteq Str
          /\ chars' \in [Block -> Text] /\ val' \in [Str -> Text]
      BY <1>t, EmptyText, DataTypes DEF Destroy, TypeOK
    <2>2. refs' \in [Block -> 0 .. MaxRefs]
      <3>1. CASE data[s].is = "ref"
        <4>1. data[s].to \in Block /\ data[s] = Shared(data[s].to)
          BY <1>t, <3>1, RefData
        <4>2. refs[data[s].to] - 1 \in 0 .. MaxRefs
          BY <4>1, <1>0, <1>a, OtherAssumption
        <4> QED
          BY <1>t, <3>1, <4>1, <4>2 DEF Destroy, TypeOK
      <3>2. CASE data[s].is # "ref"
        BY <1>t, <3>2 DEF Destroy, TypeOK
      <3> QED
        BY <3>1, <3>2
    <2> QED
      BY <2>1, <2>2 DEF TypeOK
  <1>2. StringsFit'
    BY <1>k, <1>o DEF IInv, StringsFit, Fits, View
  <1>3. ASSUME NEW b \in Block PROVE (refs[b] >= Cardinality(Holders(b)))'
    <2>1. CASE data[s] = Shared(b)
      <3>1. Cardinality(Holders(b)') <= Cardinality(Holders(b)) - 1
        BY <1>a, <1>0, <2>1, OneLess
      <3>2. Cardinality(Holders(b)') \in Nat
        BY <1>a, <1>0, <2>1, Fewer
      <3> QED
        BY <1>a, <1>0, <2>1, <3>1, <3>2
    <2>2. CASE data[s] # Shared(b)
      <3>1. Holders(b)' \subseteq Holders(b)
        BY <1>k, <1>o DEF Holders
      <3>2. refs'[b] = refs[b]
        BY <1>t, <2>2, RefData DEF Destroy, TypeOK
      <3>3. Cardinality(Holders(b)') <= Cardinality(Holders(b))
            /\ Cardinality(Holders(b)') \in Nat
        BY <1>0, <3>1, Fewer
      <3> QED
        BY <1>0, <3>2, <3>3
    <2> QED
      BY <2>1, <2>2
  <1> QED
    BY <1>1, <1>2, <1>3 DEF IInv, BlockOutlivesStrings

-----------------------------------------------------------------------------
(* The steps.                                                              *)

\* What a loop over a string reads is the text it stands for, String("")'s
\* copies included, whose size is 0.
LEMMA ReadsText == ASSUME IInv, NEW r \in exists PROVE Read(r) = val[r]
  <1>1. /\ size[r] \in Int /\ val[r] \in Text
        /\ Fits(size[r], data[r], val[r])
    BY DEF IInv, StringsFit, TypeOK
  <1>2. size[r] = 0 <=> Length[val[r]] = 0
    BY <1>1 DEF Fits, Abs
  <1>3. Length[val[r]] = 0 <=> val[r] = Empty
    BY <1>1, EmptyAssumption
  <1> QED
    BY <1>1, <1>2, <1>3 DEF Read, Fits

LEMMA LiteralFits ==
    ASSUME NEW t \in Text
    PROVE  /\ Literal(t).size \in Int /\ Literal(t).data \in Datas
           /\ Fits(Literal(t).size, Literal(t).data, t)
  <1>1. /\ Literal(t).size = -Length[t] /\ Literal(t).data = Pointer(t)
        /\ Pointer(t).is = "pointer" /\ Pointer(t).to = t
    BY DEF Literal, Pointer
  <1>2. Length[t] \in Nat /\ (Length[t] = 0 <=> t = Empty)
    BY TextLength, EmptyAssumption
  <1> QED
    BY <1>1, <1>2, DataTypes, OtherAssumption DEF Fits, View, Type, Abs

LEMMA StepIInv == IInv /\ [Next]_vars => IInv'
  <1> SUFFICES ASSUME IInv, [Next]_vars PROVE IInv'
    OBVIOUS
  <1>t. TypeOK /\ exists \subseteq Str
    BY DEF IInv, TypeOK
  <1>f. ASSUME NEW r \in exists
        PROVE  /\ r \in Str /\ size[r] \in Int /\ data[r] \in Datas /\ val[r] \in Text
               /\ Fits(size[r], data[r], val[r])
    BY <1>t DEF IInv, StringsFit, TypeOK
  <1>1. ASSUME NEW s \in Str, NEW t \in Text, Construct(s, t) PROVE IInv'
    BY <1>1, FromCharsKeeps DEF Construct
  <1>2. ASSUME NEW s \in Str, NEW t \in Text, CopyLiteral(s, t) PROVE IInv'
    BY <1>2, LiteralFits, CopyFromKeeps DEF CopyLiteral
  <1>3. ASSUME NEW s \in Str, NEW r \in Str, Copy(s, r) PROVE IInv'
    BY <1>3, <1>f, CopyFromKeeps DEF Copy
  <1>4. ASSUME NEW s \in Str, NEW r \in Str, Move(s, r) PROVE IInv'
    BY <1>4, MoveFromKeeps DEF Move
  <1>5. ASSUME NEW s \in Str, NEW r \in Str, CopyAssign(s, r) PROVE IInv'
    <2>1. exists' = exists \cup {s}
      BY <1>5 DEF CopyAssign
    <2> QED
      BY <1>5, <1>f, <2>1, CopyFromKeeps DEF CopyAssign
  <1>6. ASSUME NEW s \in Str, NEW r \in Str, MoveAssign(s, r) PROVE IInv'
    <2>1. exists' = exists \cup {s}
      BY <1>6 DEF MoveAssign
    <2> QED
      BY <1>6, <2>1, MoveFromKeeps DEF MoveAssign
  <1>7. ASSUME NEW s \in Str, NEW a \in Str, NEW b \in Str, Concat(s, a, b) PROVE IInv'
    <2>1. Read(a) = val[a] /\ Read(b) = val[b]
      BY <1>7, ReadsText DEF Concat
    <2>2. Plus[<<val[a], val[b]>>] \in Text
      BY <1>7, PlusAssumption DEF Concat
    <2> QED
      BY <1>7, <2>1, <2>2, FromCharsKeeps DEF Concat
  <1>8. ASSUME NEW s \in Str, Destroy(s) PROVE IInv'
    BY <1>8, DestroyKeeps
  <1>9. CASE UNCHANGED vars
    <2>1. TypeOK' /\ StringsFit'
      BY <1>9 DEF vars, IInv, TypeOK, StringsFit, Fits, View
    <2>2. BlockOutlivesStrings'
      BY <1>9 DEF vars, IInv, BlockOutlivesStrings, Holders
    <2> QED
      BY <2>1, <2>2 DEF IInv
  <1> QED
    BY <1>1, <1>2, <1>3, <1>4, <1>5, <1>6, <1>7, <1>8, <1>9 DEF Next

\* Every step of String keeps the invariant.
THEOREM Invariant == Spec => []IInv
  BY InitIInv, StepIInv, PTL DEF Spec

-----------------------------------------------------------------------------
(* The theorems.                                                           *)

\* Every count stays between 0 and its bound: no count goes below 0, which
\* would free a block a second time.
THEOREM TypeCorrect == Spec => []TypeOK
  <1>1. IInv => TypeOK
    BY DEF IInv
  <1> QED
    BY <1>1, Invariant, PTL

\* A string shows its text, whatever copies, moves, assignments and
\* concatenations it went through; only copies of the constant String("") do
\* not.
THEOREM TextShown == Spec => []ShowsText
  <1>1. IInv => ShowsText
    BY DEF IInv, StringsFit, Fits, ShowsText
  <1> QED
    BY <1>1, Invariant, PTL

\* However many blocks assignments leak, none is freed under a string.
THEOREM BlocksOutlive == Spec => []BlockOutlivesStrings
  <1>1. IInv => BlockOutlivesStrings
    BY DEF IInv
  <1> QED
    BY <1>1, Invariant, PTL

\* The destructor releases a block exactly for the strings that hold one.
THEOREM DestroysRight == Spec => []DestroysWhatItHolds
  <1>1. IInv => DestroysWhatItHolds
    BY DEF IInv, StringsFit, Fits, DestroysWhatItHolds
  <1> QED
    BY <1>1, Invariant, PTL

-----------------------------------------------------------------------------
(* Split.                                                                  *)

\* Every step of Split is a step of String, or leaves the strings alone.
THEOREM SplitIsString == SplitSpec => Spec
  <1>1. SplitInit => Init
    BY DEF SplitInit
  <1>2. [SplitNext]_<<vars, splitVars>> => [Next]_vars
    BY DEF SplitNext, StringStep, Call, Resume, Drop
  <1> QED
    BY <1>1, <1>2, PTL DEF SplitSpec, Spec

-----------------------------------------------------------------------------
(* The characters at an address.                                           *)

\* n characters are still there to be read.
Readable(d, n) == Bytes(d) # Garbage /\ Len(Bytes(d)) \in Nat /\ Len(Bytes(d)) >= n

\* What the coroutine stands on while nothing was taken away.
Footing ==
    /\ split.at # "lost"
    /\ split.at = "called" => split.this \in exists
    /\ split.at = "yielded" =>
          /\ split.size \in Nat /\ split.start \in Nat
          /\ split.start <= split.size => Readable(split.data, split.size)

SInv == IInv /\ (intact => Footing)

LEMMA EndInRange ==
    ASSUME NEW t, NEW n \in Nat, NEW start \in Nat
    PROVE  /\ End(t, n, start) \in Nat
           /\ start > n => End(t, n, start) > n
  <1> DEFINE found == {i \in start .. n : t[i] = Sep}
  <1>1. CASE found = {}
    BY <1>1 DEF End
  <1>2. CASE found # {}
    <2>0. found \subseteq Nat
      OBVIOUS
    <2>1. \E i \in found : \A j \in found : i <= j
      <3> HIDE DEF found
      <3> QED
        BY <1>2, <2>0, Least
    <2> QED
      BY <1>2, <2>1 DEF End
  <1> QED
    BY <1>1, <1>2

\* The address a string gives shows the string's text.
LEMMA StringReadable ==
    ASSUME IInv, NEW s \in exists, Abs(size[s]) >= 1
    PROVE  /\ Abs(size[s]) \in Nat /\ Readable(Address(s), Abs(size[s]))
           /\ Bytes(Address(s)) = val[s]
  <1>1. /\ TypeOK /\ s \in Str /\ size[s] \in Int /\ data[s] \in Datas /\ val[s] \in Text
        /\ Fits(size[s], data[s], val[s])
    BY DEF IInv, StringsFit, TypeOK
  <1>2. /\ Abs(size[s]) = Len(val[s]) /\ Abs(size[s]) \in Nat
        /\ val[s] # Garbage /\ val[s] # Empty
        /\ View(size[s], data[s]) = val[s]
    <2>1. Abs(size[s]) = Length[val[s]] /\ Length[val[s]] = Len(val[s])
      BY <1>1, SequenceAssumption DEF Fits
    <2>2. val[s] # Empty
      BY <2>1, EmptyText
    <2> QED
      BY <1>1, <2>1, <2>2, TextLength, OtherAssumption DEF Fits
  <1>3. CASE Type(size[s]) = "LITERAL"
    <2>1. data[s].is = "pointer" /\ data[s].to = val[s]
      BY <1>2, <1>3 DEF View
    <2>2. Bytes(Address(s)) = val[s]
      BY <1>3, <2>1 DEF Address, Bytes
    <2> QED
      BY <1>2, <2>2 DEF Readable
  <1>4. CASE Type(size[s]) = "SMALL"
    <2>1. data[s].is = "chars" /\ data[s].of = val[s]
      BY <1>2, <1>4 DEF View
    <2>2. Address(s) = [is |-> "inside", of |-> s]
      BY <1>4 DEF Address
    <2>3. Address(s).is = "inside" /\ Address(s).of = s
      BY <2>2
    <2>4. Bytes(Address(s)) = val[s]
      BY <2>1, <2>3 DEF Bytes
    <2> QED
      BY <1>2, <2>4 DEF Readable
  <1>5. CASE Type(size[s]) = "SHARED"
    <2>1. data[s].is = "ref" /\ chars[data[s].to] = val[s]
      BY <1>1, <1>2, <1>5 DEF View, Fits
    <2>2. refs[data[s].to] > 0
      <3>1. data[s].to \in Block /\ s \in Holders(data[s].to)
        BY <1>1, <2>1, RefData DEF Holders
      <3>2. Cardinality(Holders(data[s].to)) # 0 /\ Cardinality(Holders(data[s].to)) \in Nat
        BY <1>1, <3>1, HoldersFinite, FS_EmptySet
      <3> QED
        BY <1>1, <3>1, <3>2 DEF IInv, BlockOutlivesStrings, TypeOK
    <2>3. Bytes(Address(s)) = val[s]
      BY <1>5, <2>1, <2>2 DEF Address, Bytes
    <2> QED
      BY <1>2, <2>3 DEF Readable
  <1> QED
    BY <1>3, <1>4, <1>5 DEF Type

-----------------------------------------------------------------------------
(* The steps.                                                              *)

LEMMA LoopKeepsFooting ==
    ASSUME NEW d, NEW n \in Nat, NEW start \in Nat, UNCHANGED vars,
           start <= n => Readable(d, n), Loop(d, n, start)
    PROVE  Footing'
  <1> DEFINE e == End(Bytes(d), n, start)
  <1>1. split' = [at |-> IF e > n THEN "last" ELSE "yielded",
                  data |-> d, size |-> n, start |-> e + 1]
    BY DEF Loop, Readable
  <1>2. e \in Nat /\ (start > n => e > n)
    BY EndInRange
  <1>3. Bytes(d)' = Bytes(d)
    BY DEF vars, Bytes
  <1> HIDE DEF e
  <1>4. CASE e > n
    BY <1>1, <1>4 DEF Footing
  <1>5. CASE ~ (e > n)
    <2>1. Readable(d, n)
      BY <1>2, <1>5
    <2>2. split'.at = "yielded" /\ split'.data = d /\ split'.size = n /\ split'.start = e + 1
      BY <1>1, <1>5
    <2> QED
      BY <1>2, <1>3, <2>1, <2>2 DEF Footing, Readable
  <1> QED
    BY <1>4, <1>5

\* No block that is allocated has its characters written again.
LEMMA CharsStay ==
    ASSUME TypeOK, Next, NEW b \in Block, refs[b] > 0
    PROVE  chars'[b] = chars[b]
  <1>1. ASSUME NEW s, NEW t, FromChars(s, t) PROVE chars'[b] = chars[b]
    BY <1>1 DEF FromChars, TypeOK
  <1>2. ASSUME NEW s \in Str, NEW t \in Text, Construct(s, t) PROVE chars'[b] = chars[b]
    BY <1>1, <1>2 DEF Construct
  <1>3. ASSUME NEW s \in Str, NEW u \in Str, NEW v \in Str, Concat(s, u, v)
        PROVE  chars'[b] = chars[b]
    BY <1>1, <1>3 DEF Concat
  <1>4. ASSUME NEW s, NEW n, NEW d, CopyFrom(s, n, d) PROVE chars' = chars
    BY <1>4 DEF CopyFrom
  <1>5. ASSUME NEW s \in Str, NEW t \in Text, CopyLiteral(s, t) PROVE chars' = chars
    BY <1>4, <1>5 DEF CopyLiteral
  <1>6. ASSUME NEW s \in Str, NEW r \in Str,
               Copy(s, r) \/ Move(s, r) \/ CopyAssign(s, r) \/ MoveAssign(s, r) \/ Destroy(s)
        PROVE  chars' = chars
    BY <1>4, <1>6 DEF Copy, Move, MoveFrom, CopyAssign, MoveAssign, Destroy
  <1> QED
    BY <1>2, <1>3, <1>5, <1>6 DEF Next

\* Characters that are there stay, if their string does, or a holder of their
\* block.
LEMMA BytesStay ==
    ASSUME IInv, IInv', Next, NEW d, Bytes(d) # Garbage,
           d.is = "inside" => Keeps(d.of),
           d.is = "ref" => d \in Datas /\ \E s \in exists' : data'[s] = d
    PROVE  Bytes(d)' = Bytes(d)
  <1>1. CASE d.is = "pointer"
    BY <1>1 DEF Bytes
  <1>2. CASE d.is = "inside"
    BY <1>2 DEF Bytes, Keeps
  <1>3. CASE d.is = "ref"
    <2>1. refs[d.to] > 0
      BY <1>3 DEF Bytes
    <2>2. PICK s \in exists' : data'[s] = d
      BY <1>3
    <2>3. TypeOK /\ TypeOK' /\ s \in Str
      BY <2>2 DEF IInv, TypeOK
    <2>4. d.to \in Block /\ d = Shared(d.to)
      BY <1>3, RefData
    <2>5. chars'[d.to] = chars[d.to]
      BY <2>1, <2>3, <2>4, CharsStay
    <2>6. refs'[d.to] > 0
      <3> DEFINE b == d.to
      <3>1. s \in Holders(b)'
        BY <2>2, <2>4 DEF Holders
      <3>2. IsFiniteSet(Holders(b)')
        <4>1. Holders(b)' \subseteq Str
          BY <2>3 DEF Holders, TypeOK
        <4> QED
          BY <4>1, OtherAssumption, Fewer
      <3>3. Cardinality(Holders(b)') # 0 /\ Cardinality(Holders(b)') \in Nat
        BY <3>1, <3>2, FS_EmptySet, FS_CardinalityType
      <3>4. (refs[b] >= Cardinality(Holders(b)))' /\ refs'[b] \in Nat
        <4>1. b \in Block /\ BlockOutlivesStrings'
          BY <2>4 DEF IInv
        <4> QED
          BY <2>3, <4>1 DEF BlockOutlivesStrings, TypeOK
      <3> QED
        BY <3>3, <3>4
    <2> QED
      BY <1>3, <2>1, <2>5, <2>6 DEF Bytes
  <1>4. CASE d.is \notin {"pointer", "inside", "ref"}
    BY <1>4 DEF Bytes
  <1> QED
    BY <1>1, <1>2, <1>3, <1>4

LEMMA StringStepKeepsFooting ==
    ASSUME IInv, IInv', Footing, StringStep, intact'
    PROVE  Footing'
  <1>1. Next /\ Relies /\ split' = split
    BY DEF StringStep
  <1>2. CASE split.at = "called"
    BY <1>1, <1>2 DEF Relies, Keeps, Footing
  <1>3. CASE split.at = "yielded"
    <2> SUFFICES ASSUME split.start <= split.size PROVE Readable(split.data, split.size)'
      BY <1>1, <1>3 DEF Footing
    <2>1. Readable(split.data, split.size)
      BY <1>3 DEF Footing
    <2>2. Bytes(split.data)' = Bytes(split.data)
      <3>1. PICK d : d = split.data
        OBVIOUS
      <3>2. Bytes(d) # Garbage
        BY <2>1, <3>1 DEF Readable
      <3>3. d.is = "inside" => Keeps(d.of)
        BY <1>1, <1>3, <3>1 DEF Relies
      <3>4. d.is = "ref" => d \in Datas /\ \E s \in exists' : data'[s] = d
        <4> SUFFICES ASSUME d.is = "ref" PROVE d \in Datas /\ \E s \in exists' : data'[s] = d
          OBVIOUS
        <4>1. PICK s \in exists' : data'[s] = d
          BY <1>1, <1>3, <3>1 DEF Relies
        <4>2. data'[s] \in Datas
          BY <4>1 DEF IInv, TypeOK
        <4> QED
          BY <4>1, <4>2
      <3>5. Bytes(d)' = Bytes(d)
        BY <1>1, <3>2, <3>3, <3>4, BytesStay
      <3> QED
        BY <1>1, <3>1, <3>5
    <2> QED
      BY <1>1, <2>1, <2>2 DEF Readable
  <1>4. CASE split.at \notin {"called", "yielded"}
    BY <1>1, <1>4 DEF Footing
  <1> QED
    BY <1>2, <1>3, <1>4

LEMMA InitSInv == SplitInit => SInv
  BY InitIInv DEF SplitInit, SInv, Footing, NoSplit

LEMMA StepSInv == SInv /\ [SplitNext]_<<vars, splitVars>> => SInv'
  <1> SUFFICES ASSUME SInv, [SplitNext]_<<vars, splitVars>> PROVE SInv'
    OBVIOUS
  <1>1. IInv'
    <2>1. [Next]_vars
      BY DEF SplitNext, StringStep, Call, Resume, Drop
    <2> QED
      BY <2>1, StepIInv DEF SInv
  <1>2. SUFFICES ASSUME intact' PROVE Footing'
    BY <1>1 DEF SInv
  <1>3. CASE StringStep
    BY <1>1, <1>2, <1>3, StringStepKeepsFooting DEF StringStep, SInv
  <1>4. ASSUME NEW s \in Str, Call(s) PROVE Footing'
    BY <1>4 DEF Call, Footing, vars
  <1>5. CASE Resume
    <2>1. Footing /\ UNCHANGED vars
      BY <1>2, <1>5 DEF Resume, SInv
    <2>2. CASE split.at = "called"
      <3>1. split.this \in exists /\ Abs(size[split.this]) \in Nat
        BY <2>1, <2>2, OtherAssumption DEF SInv, IInv, TypeOK, Footing, Abs
      <3>2. Abs(size[split.this]) >= 1 =>
               Readable(Address(split.this), Abs(size[split.this]))
        BY <3>1, StringReadable DEF SInv
      <3>3. Loop(Address(split.this), Abs(size[split.this]), 1)
        BY <1>5, <2>2, <3>1 DEF Resume
      <3> QED
        BY <2>1, <3>1, <3>2, <3>3, LoopKeepsFooting
    <2>3. CASE split.at = "yielded"
      <3>1. Loop(split.data, split.size, split.start)
        BY <1>5, <2>3 DEF Resume
      <3> QED
        BY <2>1, <2>3, <3>1, LoopKeepsFooting DEF Footing
    <2>4. CASE split.at = "last"
      BY <1>5, <2>4 DEF Resume, Footing
    <2> QED
      BY <1>5, <2>2, <2>3, <2>4 DEF Resume
  <1>6. CASE Drop
    BY <1>6 DEF Drop, Footing, NoSplit
  <1>7. CASE UNCHANGED <<vars, splitVars>>
    BY <1>2, <1>7 DEF vars, splitVars, SInv, Footing, Readable, Bytes
  <1> QED
    BY <1>3, <1>4, <1>5, <1>6, <1>7 DEF SplitNext

\* The coroutine reads no character that has gone, if its string stays as it
\* is until the first part, and a string keeps its block afterwards.
THEOREM ReadsOnlyLive == SplitSpec => []ReadsLive
  <1>1. SInv => ReadsLive
    BY DEF SInv, Footing, ReadsLive
  <1> QED
    BY <1>1, InitSInv, StepSInv, PTL DEF SplitSpec

-----------------------------------------------------------------------------
(* Putting parts together: Joined has the value that its definition says.  *)

\* f is Upto in the definition of Joined, as far as m.
Joins(ps, m, f) ==
    /\ DOMAIN f = 1 .. m
    /\ \A k \in 1 .. m : f[k] = IF k = 1 THEN ps[1] ELSE f[k - 1] \o <<Sep>> \o ps[k]

LEMMA JoinsSame ==
    ASSUME NEW ps, NEW qs, NEW m \in Nat, NEW n \in Nat, m <= n, NEW f, NEW g,
           Joins(ps, m, f), Joins(qs, n, g), \A k \in 1 .. m : ps[k] = qs[k]
    PROVE  \A k \in 1 .. m : f[k] = g[k]
  <1> DEFINE S == {k \in 1 .. m : f[k] # g[k]}
  <1> SUFFICES ASSUME S # {} PROVE FALSE
    OBVIOUS
  <1>1. S \subseteq Nat
    OBVIOUS
  <1>2. PICK k \in S : \A j \in S : k <= j
    <2> HIDE DEF S
    <2> QED
      BY <1>1, Least
  <1>3. k \in 1 .. m /\ k \in 1 .. n /\ f[k] # g[k] /\ ps[k] = qs[k]
    OBVIOUS
  <1>4. CASE k = 1
    BY <1>3, <1>4 DEF Joins
  <1>5. CASE k # 1
    <2>1. k - 1 \in 1 .. m /\ ~ (k <= k - 1)
      BY <1>3, <1>5
    <2>2. f[k - 1] = g[k - 1]
      BY <1>2, <2>1
    <2> HIDE DEF S
    <2>3. f[k] = f[k - 1] \o <<Sep>> \o ps[k] /\ g[k] = g[k - 1] \o <<Sep>> \o qs[k]
      BY <1>3, <1>5 DEF Joins
    <2> QED
      BY <1>3, <2>2, <2>3
  <1> QED
    BY <1>4, <1>5

LEMMA JoinsSome ==
    ASSUME NEW ps, NEW n \in Nat
    PROVE  \E f : Joins(ps, n, f)
  <1> DEFINE S == {m \in Nat : ~ \E f : Joins(ps, m, f)}
  <1>1. S = {}
    <2> SUFFICES ASSUME S # {} PROVE FALSE
      OBVIOUS
    <2>1. S \subseteq Nat
      OBVIOUS
    <2>2. PICK m \in S : \A j \in S : m <= j
      <3> HIDE DEF S
      <3> QED
        BY <2>1, Least
    <2>3. m \in Nat /\ ~ \E f : Joins(ps, m, f)
      OBVIOUS
    <2>4. CASE m = 0
      <3>1. Joins(ps, 0, [k \in 1 .. 0 |-> Sep])
        BY DEF Joins
      <3> QED
        BY <2>3, <2>4, <3>1
    <2>5. CASE m # 0
      <3>1. m - 1 \in Nat /\ ~ (m <= m - 1)
        BY <2>3, <2>5
      <3>2. PICK f : Joins(ps, m - 1, f)
        BY <2>2, <3>1
      <3> DEFINE v == IF m = 1 THEN ps[1] ELSE f[m - 1] \o <<Sep>> \o ps[m]
                 g == [k \in 1 .. m |-> IF k = m THEN v ELSE f[k]]
      <3>v. m = 1 => v = ps[1]
        OBVIOUS
      <3>w. m # 1 => v = f[m - 1] \o <<Sep>> \o ps[m]
        OBVIOUS
      <3> HIDE DEF v
      <3>3. DOMAIN g = 1 .. m /\ g[m] = v /\ \A k \in 1 .. m - 1 : g[k] = f[k]
        BY <2>3, <3>1
      <3> HIDE DEF g, S
      <3>4. ASSUME NEW k \in 1 .. m
            PROVE  g[k] = IF k = 1 THEN ps[1] ELSE g[k - 1] \o <<Sep>> \o ps[k]
        <4>1. CASE k = m
          <5>1. CASE m = 1
            BY <3>3, <3>v, <4>1, <5>1
          <5>2. CASE m # 1
            <6>1. m - 1 \in 1 .. m - 1
              BY <2>3, <3>1, <5>2
            <6> QED
              BY <3>3, <3>w, <4>1, <5>2, <6>1
          <5> QED
            BY <5>1, <5>2
        <4>2. CASE k # m
          <5>1. k \in 1 .. m - 1
            BY <2>3, <4>2
          <5>2. k # 1 => k - 1 \in 1 .. m - 1
            BY <2>3, <5>1
          <5> QED
            BY <3>2, <3>3, <5>1, <5>2 DEF Joins
        <4> QED
          BY <4>1, <4>2
      <3>5. Joins(ps, m, g)
        BY <3>3, <3>4 DEF Joins
      <3> QED
        BY <2>3, <3>5
    <2> QED
      BY <2>4, <2>5
  <1> QED
    BY <1>1

LEMMA JoinedIs ==
    ASSUME NEW ps, Len(ps) \in Nat
    PROVE  \E f : Joins(ps, Len(ps), f) /\ Joined(ps) = f[Len(ps)]
  <1> DEFINE Is(h) == h = [k \in 1 .. Len(ps) |->
                             IF k = 1 THEN ps[1] ELSE h[k - 1] \o <<Sep>> \o ps[k]]
             f == CHOOSE h : Is(h)
  <1>1. Joined(ps) = f[Len(ps)]
    BY DEF Joined
  <1>2. PICK h : Joins(ps, Len(ps), h)
    BY JoinsSome
  <1> DEFINE g == [k \in 1 .. Len(ps) |-> h[k]]
  <1>3. Is(g)
    <2> DEFINE r == [k \in 1 .. Len(ps) |->
                       IF k = 1 THEN ps[1] ELSE g[k - 1] \o <<Sep>> \o ps[k]]
    <2>1. ASSUME NEW k \in 1 .. Len(ps) PROVE g[k] = r[k]
      <3>1. k # 1 => k - 1 \in 1 .. Len(ps)
        OBVIOUS
      <3>2. g[k] = h[k] /\ (k # 1 => g[k - 1] = h[k - 1])
        BY <3>1
      <3>3. r[k] = IF k = 1 THEN ps[1] ELSE g[k - 1] \o <<Sep>> \o ps[k]
        OBVIOUS
      <3> HIDE DEF g, r
      <3> QED
        BY <1>2, <3>2, <3>3 DEF Joins
    <2>2. g = [k \in 1 .. Len(ps) |-> g[k]] /\ r = [k \in 1 .. Len(ps) |-> r[k]]
      OBVIOUS
    <2> HIDE DEF g, r
    <2>3. g = r
      BY <2>1, <2>2
    <2> QED
      BY <2>3 DEF r
  <1>4. Is(f)
    <2> HIDE DEF Is, g
    <2> QED
      BY <1>3
  <1>5. Joins(ps, Len(ps), f)
    <2> HIDE DEF f
    <2> QED
      BY <1>4 DEF Joins
  <1> HIDE DEF f
  <1> QED
    BY <1>1, <1>5

LEMMA JoinedOne ==
    ASSUME NEW p
    PROVE  Joined(<<p>>) = p
  <1> DEFINE ps == <<p>>
  <1>1. Len(ps) = 1 /\ ps[1] = p
    OBVIOUS
  <1> HIDE DEF ps
  <1>2. PICK f : Joins(ps, 1, f) /\ Joined(ps) = f[1]
    <2>1. Len(ps) \in Nat
      BY <1>1
    <2>2. \E f : Joins(ps, Len(ps), f) /\ Joined(ps) = f[Len(ps)]
      BY <2>1, JoinedIs
    <2> QED
      BY <1>1, <2>2
  <1>3. Joined(ps) = p
    BY <1>1, <1>2 DEF Joins
  <1> QED
    BY <1>3 DEF ps

LEMMA JoinedAppend ==
    ASSUME NEW S, NEW ps \in Seq(S), ps # <<>>, NEW p \in S
    PROVE  Joined(Append(ps, p)) = Joined(ps) \o <<Sep>> \o p
  <1> DEFINE qs == Append(ps, p)
             n == Len(ps)
  <1>1. n \in Nat /\ n # 0 /\ Len(qs) = n + 1 /\ qs[n + 1] = p /\ \A k \in 1 .. n : ps[k] = qs[k]
    OBVIOUS
  <1> HIDE DEF qs
  <1>2. PICK f : Joins(ps, n, f) /\ Joined(ps) = f[n]
    BY <1>1, JoinedIs
  <1> HIDE DEF n
  <1>3. PICK g : Joins(qs, n + 1, g) /\ Joined(qs) = g[n + 1]
    BY <1>1, JoinedIs
  <1>4. f[n] = g[n]
    <2>1. \A k \in 1 .. n : f[k] = g[k]
      BY <1>1, <1>2, <1>3, JoinsSame
    <2> QED
      BY <1>1, <2>1
  <1>5. g[n + 1] = g[n] \o <<Sep>> \o p
    <2>1. n + 1 \in 1 .. n + 1 /\ n + 1 # 1 /\ (n + 1) - 1 = n
      BY <1>1
    <2> QED
      BY <1>1, <1>3, <2>1 DEF Joins
  <1>6. Joined(qs) = Joined(ps) \o <<Sep>> \o p
    BY <1>2, <1>3, <1>4, <1>5
  <1> QED
    BY <1>6 DEF qs

-----------------------------------------------------------------------------
(* What the parts make.                                                    *)

Letters == {Sep} \cup UNION {ToSet(t) : t \in Text}

\* The characters at address d, n of them if there are any, are the text w.
Shows(d, n, w) == n = Len(w) /\ (n >= 1 => Bytes(d) = w)

\* The parts ps make what comes before position start of the text w.
Makes(ps, w, start) ==
    IF ps = <<>> THEN start = 1
    ELSE /\ start \in 2 .. Len(w) + 1
         /\ w[start - 1] = Sep
         /\ Joined(ps) = SubSeq(w, 1, start - 2)

Told ==
    /\ split.at \in {"none", "called", "yielded", "last", "done"}
    /\ split.at = "none" => parts = <<>>
    /\ split.at = "called" =>
          parts = <<>> /\ Shows(Address(split.this), Abs(size[split.this]), whole)
    /\ split.at = "yielded" =>
          /\ parts # <<>>
          /\ split.size = Len(whole) /\ split.start \in Nat
          /\ split.start <= split.size => Bytes(split.data) = whole
          /\ Makes(parts, whole, split.start)
    /\ split.at \in {"last", "done"} => Joined(parts) = whole

Histories ==
    /\ whole \in Text
    /\ parts \in Seq(Seq(Letters))
    /\ \A i \in DOMAIN parts : Sep \notin ToSet(parts[i])

PInv == SInv /\ (intact => Histories /\ Told)

LEMMA TextIsSeq ==
    ASSUME NEW t \in Text
    PROVE  t \in Seq(Letters) /\ Len(t) \in Nat /\ Length[t] = Len(t)
  <1>1. t \in Seq(ToSet(t)) /\ Length[t] = Len(t)
    BY SequenceAssumption
  <1>2. ToSet(t) \subseteq Letters
    BY DEF Letters
  <1>3. t \in Seq(Letters)
    BY <1>1, <1>2, SeqMonotonic
  <1> QED
    BY <1>1, <1>3, LenProperties

LEMMA EmptyIsEmpty == Empty = <<>>
  <1>1. Empty \in Seq(Letters) /\ Len(Empty) = 0
    BY TextIsSeq, EmptyAssumption
  <1> QED
    BY <1>1, EmptySeq

\* The text of a string is what its address shows.
LEMMA StringShows ==
    ASSUME IInv, NEW s \in exists
    PROVE  Shows(Address(s), Abs(size[s]), val[s])
  <1>1. Fits(size[s], data[s], val[s]) /\ val[s] \in Text
    BY DEF IInv, StringsFit, TypeOK
  <1>2. Abs(size[s]) = Len(val[s])
    BY <1>1, SequenceAssumption DEF Fits
  <1> QED
    BY <1>2, StringReadable DEF Shows

\* Where a part ends: before the first separator, or with the text.
LEMMA EndIs ==
    ASSUME NEW t, NEW n \in Nat, NEW start \in Nat, start <= n + 1
    PROVE  LET e == End(t, n, start) IN
           /\ e \in start .. n + 1
           /\ e <= n => t[e] = Sep
           /\ \A i \in start .. e - 1 : t[i] # Sep
  <1> DEFINE found == {i \in start .. n : t[i] = Sep}
             e == End(t, n, start)
  <1>1. CASE found = {}
    <2>1. e = n + 1
      BY <1>1 DEF End
    <2> HIDE DEF e
    <2> QED
      BY <1>1, <2>1 DEF e
  <1>2. CASE found # {}
    <2>0. found \subseteq Nat
      OBVIOUS
    <2>1. \E i \in found : \A j \in found : i <= j
      <3> HIDE DEF found
      <3> QED
        BY <1>2, <2>0, Least
    <2>2. e \in found /\ \A j \in found : e <= j
      BY <1>2, <2>1 DEF End
    <2> HIDE DEF e
    <2>3. e \in start .. n /\ t[e] = Sep
      BY <2>2
    <2>4. \A i \in start .. e - 1 : t[i] # Sep
      <3> SUFFICES ASSUME NEW i \in start .. e - 1, t[i] = Sep PROVE FALSE
        OBVIOUS
      <3>1. i \in start .. n /\ ~ (e <= i)
        BY <2>3
      <3>2. i \in found
        BY <3>1
      <3> QED
        BY <2>2, <3>1, <3>2
    <2> QED
      BY <2>3, <2>4 DEF e
  <1> QED
    BY <1>1, <1>2

LEMMA LoopTells ==
    ASSUME NEW d, NEW w \in Text, NEW start \in Nat, start <= Len(w) + 1,
           start <= Len(w) => Bytes(d) = w,
           intact, intact' = intact, whole = w, whole' = w, UNCHANGED vars,
           Histories, Makes(parts, w, start), start >= 1,
           Loop(d, Len(w), start)
    PROVE  Histories' /\ Told'
  <1> DEFINE n == Len(w)
             t == Bytes(d)
             e == End(t, n, start)
             part == IF start > n THEN Empty ELSE SubSeq(t, start, e - 1)
  <1>w. w \in Seq(Letters) /\ n \in Nat /\ w # Garbage
    BY TextIsSeq, OtherAssumption
  <1>1. /\ split' = [at |-> IF e > n THEN "last" ELSE "yielded",
                     data |-> d, size |-> n, start |-> e + 1]
        /\ parts' = Append(parts, part)
    BY <1>w DEF Loop
  <1>b. t' = t
    BY DEF vars, Bytes
  <1>e. /\ e \in start .. n + 1
        /\ e <= n => t[e] = Sep
        /\ \A i \in start .. e - 1 : t[i] # Sep
    BY <1>w, EndIs
  <1> HIDE DEF e, t
  <1>t. start <= n => t = w
    BY DEF t
  <1>2. part = SubSeq(w, start, e - 1)
    <2>1. CASE start > n
      <3>1. SubSeq(w, start, e - 1) = <<>>
        BY <1>e, <1>w, <2>1, SubSeqEmpty
      <3> QED
        BY <2>1, <3>1, EmptyIsEmpty
    <2>2. CASE ~ (start > n)
      <3>1. part = SubSeq(t, start, e - 1)
        BY <2>2
      <3>2. start <= n
        BY <1>w, <2>2
      <3> QED
        BY <1>t, <3>1, <3>2
    <2> QED
      BY <2>1, <2>2
  <1> HIDE DEF part, n
  <1>3. /\ part \in Seq(Letters) /\ Len(part) = e - start
        /\ \A i \in 1 .. e - start : part[i] = w[start + i - 1]
    <2>1. \A i \in start .. e - 1 : w[i] \in Letters
      BY <1>e, <1>w, ElementOfSeq DEF n
    <2> QED
      BY <1>2, <1>e, <1>w, <2>1, SubSeqProperties
  <1>4. Sep \notin ToSet(part)
    <2> SUFFICES ASSUME NEW i \in 1 .. e - start, part[i] = Sep PROVE FALSE
      BY <1>3, LenProperties DEF ToSet
    <2>1. start + i - 1 \in start .. e - 1 /\ start <= n
      BY <1>e, <1>w
    <2> QED
      BY <1>3, <1>e, <1>t, <2>1
  <1>5. Histories'
    <2>1. parts \in Seq(Seq(Letters)) /\ \A i \in DOMAIN parts : Sep \notin ToSet(parts[i])
      BY DEF Histories
    <2>2. parts' \in Seq(Seq(Letters))
      BY <1>1, <1>3, <2>1
    <2>3. \A i \in DOMAIN parts' : Sep \notin ToSet(parts'[i])
      BY <1>1, <1>3, <1>4, <2>1
    <2> QED
      BY <2>2, <2>3 DEF Histories
  \* With this part, they make the text up to its end.
  <1>6. Joined(parts') = SubSeq(w, 1, e - 1)
    <2>1. CASE parts = <<>>
      <3>1. start = 1 /\ parts' = <<part>>
        BY <1>1, <2>1 DEF Makes
      <3> QED
        BY <1>2, <3>1, JoinedOne
    <2>2. CASE parts # <<>>
      <3>1. start \in 2 .. n + 1 /\ w[start - 1] = Sep /\ Joined(parts) = SubSeq(w, 1, start - 2)
        BY <2>2 DEF Makes, n
      <3>2. Joined(parts') = Joined(parts) \o <<Sep>> \o part
        <4>1. parts \in Seq(Seq(Letters))
          BY DEF Histories
        <4> QED
          BY <1>1, <1>3, <2>2, <4>1, JoinedAppend
      <3>3. <<Sep>> = SubSeq(w, start - 1, start - 1)
        <4> DEFINE x == SubSeq(w, start - 1, start - 1)
        <4>0. Sep \in Letters
          BY DEF Letters
        <4>1. w[start - 1] \in Letters
          BY <3>1, <4>0
        <4>2. \A i \in start - 1 .. start - 1 : w[i] \in Letters
          BY <3>1, <4>1
        <4>3. x \in Seq(Letters) /\ Len(x) = 1 /\ x[1] = w[start - 1]
          BY <3>1, <4>2, SubSeqProperties
        <4> HIDE DEF x
        <4>4. x = <<Sep>>
          BY <3>1, <4>3
        <4> QED
          BY <4>4 DEF x
      <3>4. SubSeq(w, 1, start - 2) \o SubSeq(w, start - 1, start - 1) = SubSeq(w, 1, start - 1)
        <4>1. 1 \in 1 .. Len(w) + 1 /\ start - 2 \in 1 - 1 .. Len(w)
              /\ start - 1 \in start - 2 .. Len(w) /\ (start - 2) + 1 = start - 1
          BY <1>w, <3>1 DEF n
        <4> QED
          BY <1>w, <4>1, ConcatAdjacentSubSeq
      <3>5. SubSeq(w, 1, start - 1) \o SubSeq(w, start, e - 1) = SubSeq(w, 1, e - 1)
        <4>1. 1 \in 1 .. Len(w) + 1 /\ start - 1 \in 1 - 1 .. Len(w)
              /\ e - 1 \in start - 1 .. Len(w) /\ (start - 1) + 1 = start
          BY <1>w, <1>e, <3>1 DEF n
        <4> QED
          BY <1>w, <4>1, ConcatAdjacentSubSeq
      <3> QED
        BY <1>2, <3>1, <3>2, <3>3, <3>4, <3>5
    <2> QED
      BY <2>1, <2>2
  <1>7. parts' # <<>>
    <2>1. parts \in Seq(Seq(Letters))
      BY DEF Histories
    <2>2. Len(parts') # 0 
      BY <1>1, <1>3, <2>1
    <2> QED
      BY <2>2
  <1>8. Told'
    <2>1. CASE e > n
      <3>1. e = n + 1 /\ split'.at = "last"
        BY <1>1, <1>e, <1>w, <2>1
      <3>2. Joined(parts') = w
        <4>1. SubSeq(w, 1, Len(w)) = w
          BY <1>w, SubSeqFull
        <4> QED
          BY <1>6, <1>w, <3>1, <4>1 DEF n
      <3> QED
        BY <3>1, <3>2 DEF Told
    <2>2. CASE ~ (e > n)
      <3>1. /\ split'.at = "yielded" /\ split'.data = d /\ split'.size = n /\ split'.start = e + 1
            /\ e \in Nat /\ e <= n /\ start <= n /\ e >= 1
        BY <1>1, <1>e, <1>w, <2>2
      <3>2. w[e] = Sep /\ t = w
        BY <1>e, <1>t, <3>1
      <3>3. Makes(parts', w, e + 1)
        <4>1. e + 1 \in 2 .. n + 1 /\ (e + 1) - 1 = e /\ (e + 1) - 2 = e - 1
          BY <1>w, <3>1
        <4> QED
          BY <1>6, <1>7, <3>2, <4>1 DEF Makes, n
      <3>4. Bytes(d)' = w
        BY <1>b, <3>2 DEF t
      <3>5. Bytes(split.data)' = w
        BY <3>1, <3>4 DEF Bytes
      <3> QED
        BY <1>7, <3>1, <3>3, <3>5 DEF Told, n
    <2> QED
      BY <2>1, <2>2
  <1> QED
    BY <1>5, <1>8

LEMMA StringStepTells ==
    ASSUME SInv, IInv', intact', Histories, Told, StringStep
    PROVE  Histories' /\ Told'
  <1>1. /\ Next /\ Relies /\ split' = split /\ parts' = parts /\ whole' = whole
        /\ IInv /\ Footing
    BY DEF StringStep, SInv
  <1>w. whole \in Text /\ whole # Garbage
    BY OtherAssumption DEF Histories
  <1>2. Histories'
    BY <1>1 DEF Histories
  <1>3. CASE split.at = "called"
    <2>1. PICK s : s = split.this
      OBVIOUS
    <2>2. s \in exists /\ s \in exists' /\ size'[s] = size[s] /\ data'[s] = data[s] /\ Keeps(s)
      BY <1>1, <1>3, <2>1 DEF Relies, Keeps
    <2>3. parts = <<>> /\ Shows(Address(s), Abs(size[s]), whole)
      BY <1>3, <2>1 DEF Told
    <2>4. Address(s)' = Address(s) /\ Abs(size[s])' = Abs(size[s])
      BY <2>2 DEF Address, Abs, Type
    <2>5. Abs(size[s]) >= 1 => Bytes(Address(s))' = whole
      <3> SUFFICES ASSUME Abs(size[s]) >= 1 PROVE Bytes(Address(s))' = whole
        OBVIOUS
      <3>1. PICK d : d = Address(s)
        OBVIOUS
      <3>2. Bytes(d) = whole
        BY <2>3, <3>1 DEF Shows
      <3>3. data[s] \in Datas /\ (d = data[s] \/ d = [is |-> "inside", of |-> s])
        <4>1. Type(size[s]) \in {"LITERAL", "SMALL", "SHARED"}
          BY DEF Type
        <4>2. data[s] \in Datas
          BY <1>1, <2>2 DEF IInv, TypeOK
        <4> QED
          BY <3>1, <4>1, <4>2 DEF Address
      <3>4. d.is = "inside" => d.of = s
        BY <3>3 DEF Datas, Zero, Pointer, Chars, Shared
      <3>5. d.is = "ref" => d \in Datas /\ \E r \in exists' : data'[r] = d
        BY <2>2, <3>3
      <3>6. Bytes(d)' = Bytes(d)
        BY <1>1, <1>w, <2>2, <3>2, <3>4, <3>5, BytesStay
      <3> QED
        BY <2>4, <3>1, <3>2, <3>6
    <2>6. Shows(Address(s), Abs(size[s]), whole)'
      BY <1>1, <2>3, <2>4, <2>5 DEF Shows
    <2> QED
      BY <1>1, <1>2, <1>3, <2>1, <2>3, <2>6 DEF Told
  <1>4. CASE split.at = "yielded"
    <2>1. /\ parts # <<>> /\ split.size = Len(whole) /\ split.start \in Nat
          /\ split.start <= split.size => Bytes(split.data) = whole
          /\ Makes(parts, whole, split.start)
      BY <1>4 DEF Told
    <2>2. split.start <= split.size => Bytes(split.data)' = whole
      <3> SUFFICES ASSUME split.start <= split.size PROVE Bytes(split.data)' = whole
        OBVIOUS
      <3>1. PICK d : d = split.data
        OBVIOUS
      <3>2. Bytes(d) = whole
        BY <2>1, <3>1
      <3>3. d.is = "inside" => Keeps(d.of)
        BY <1>1, <1>4, <3>1 DEF Relies
      <3>4. d.is = "ref" => d \in Datas /\ \E s \in exists' : data'[s] = d
        <4> SUFFICES ASSUME d.is = "ref" PROVE d \in Datas /\ \E s \in exists' : data'[s] = d
          OBVIOUS
        <4>1. PICK s \in exists' : data'[s] = d
          BY <1>1, <1>4, <3>1 DEF Relies
        <4>2. data'[s] \in Datas
          BY <4>1 DEF IInv, TypeOK
        <4> QED
          BY <4>1, <4>2
      <3>5. Bytes(d)' = Bytes(d)
        BY <1>1, <1>w, <3>2, <3>3, <3>4, BytesStay
      <3> QED
        BY <1>1, <3>1, <3>2, <3>5
    <2>3. Makes(parts, whole, split.start)'
      BY <1>1, <2>1 DEF Makes
    <2> QED
      BY <1>1, <1>2, <1>4, <2>1, <2>2, <2>3 DEF Told
  <1>5. CASE split.at \notin {"called", "yielded"}
    BY <1>1, <1>2, <1>5 DEF Told
  <1> QED
    BY <1>3, <1>4, <1>5

LEMMA InitPInv == SplitInit => PInv
  <1> SUFFICES ASSUME SplitInit PROVE PInv
    OBVIOUS
  <1>1. <<>> \in Seq(Seq(Letters)) /\ DOMAIN <<>> = {}
    OBVIOUS
  <1>2. Histories
    BY <1>1, EmptyAssumption DEF SplitInit, Histories
  <1>3. split.at = "none" /\ parts = <<>>
    BY DEF SplitInit, NoSplit
  <1>4. Told
    BY <1>3 DEF Told
  <1> QED
    BY <1>2, <1>4, InitSInv DEF PInv

LEMMA StepPInv == PInv /\ [SplitNext]_<<vars, splitVars>> => PInv'
  <1> SUFFICES ASSUME PInv, [SplitNext]_<<vars, splitVars>> PROVE PInv'
    OBVIOUS
  <1>1. SInv /\ SInv' /\ IInv /\ IInv'
    BY StepSInv DEF PInv, SInv
  <1>2. SUFFICES ASSUME intact' PROVE Histories' /\ Told'
    BY <1>1 DEF PInv
  <1>e. <<>> \in Seq(Seq(Letters)) /\ DOMAIN <<>> = {} /\ Empty \in Text
    BY EmptyAssumption
  <1>3. CASE StringStep
    BY <1>1, <1>2, <1>3, StringStepTells DEF PInv, StringStep
  <1>4. ASSUME NEW s \in Str, Call(s) PROVE Histories' /\ Told'
    <2>1. /\ split' = [at |-> "called", this |-> s] /\ parts' = <<>> /\ whole' = val[s]
          /\ s \in exists /\ UNCHANGED <<size, data, exists, refs, chars, val>>
      BY <1>4 DEF Call, vars
    <2>2. Shows(Address(s), Abs(size[s]), val[s]) /\ val[s] \in Text
      BY <1>1, <2>1, StringShows DEF IInv, TypeOK
    <2>3. Shows(Address(s), Abs(size[s]), whole)'
      BY <2>1, <2>2 DEF Shows, Address, Abs, Type, Bytes
    <2>4. split'.at = "called" /\ split'.this = s
      BY <2>1
    <2>5. Shows(Address(split.this), Abs(size[split.this]), whole)'
      BY <2>3, <2>4 DEF Shows, Address, Abs, Type, Bytes
    <2> QED
      BY <1>e, <2>1, <2>2, <2>4, <2>5 DEF Histories, Told
  <1>5. CASE Resume
    <2>1. Histories /\ Told /\ Footing /\ UNCHANGED vars /\ whole' = whole /\ intact' = intact
          /\ intact
      BY <1>1, <1>2, <1>5 DEF Resume, PInv, SInv
    <2>w. whole \in Text
      BY <2>1 DEF Histories
    <2>2. CASE split.at = "called"
      <3>1. /\ split.this \in exists /\ parts = <<>>
            /\ Shows(Address(split.this), Abs(size[split.this]), whole)
        BY <2>1, <2>2 DEF Footing, Told
      <3>2. PICK d, n : d = Address(split.this) /\ n = Abs(size[split.this])
        OBVIOUS
      <3>3. Loop(d, n, 1) /\ n = Len(whole) /\ (n >= 1 => Bytes(d) = whole)
        BY <1>5, <2>2, <3>1, <3>2 DEF Resume, Shows
      <3>4. Makes(parts, whole, 1) /\ Len(whole) \in Nat
        BY <2>w, <3>1, TextIsSeq DEF Makes
      <3>5. /\ Loop(d, Len(whole), 1) /\ 1 \in Nat /\ 1 <= Len(whole) + 1
            /\ 1 <= Len(whole) => Bytes(d) = whole
        BY <3>3, <3>4
      <3> QED
        BY <2>1, <2>w, <3>4, <3>5, LoopTells
    <2>3. CASE split.at = "yielded"
      <3>1. /\ Loop(split.data, split.size, split.start)
            /\ split.size = Len(whole) /\ split.start \in Nat /\ parts # <<>>
            /\ split.start <= split.size => Bytes(split.data) = whole
            /\ Makes(parts, whole, split.start)
        BY <1>5, <2>1, <2>3 DEF Resume, Told
      <3>2. Len(whole) \in Nat
        BY <2>w, TextIsSeq
      <3>3. split.start >= 1 /\ split.start <= Len(whole) + 1
        BY <3>1, <3>2 DEF Makes
      <3> QED
        BY <2>1, <2>w, <3>1, <3>3, LoopTells
    <2>4. CASE split.at = "last"
      <3>1. split' = [at |-> "done"] /\ parts' = parts /\ split'.at = "done"
        BY <1>5, <2>4 DEF Resume
      <3> QED
        BY <2>1, <2>4, <3>1 DEF Told, Histories
    <2> QED
      BY <1>5, <2>2, <2>3, <2>4 DEF Resume
  <1>6. CASE Drop
    <2>1. split'.at = "none" /\ parts' = <<>> /\ whole' = Empty
      BY <1>6 DEF Drop, NoSplit
    <2> QED
      BY <1>e, <2>1 DEF Histories, Told
  <1>7. CASE UNCHANGED <<vars, splitVars>>
    <2>1. Histories /\ Told /\ split' = split /\ parts' = parts /\ whole' = whole
          /\ UNCHANGED <<size, data, exists, refs, chars, val>>
      BY <1>2, <1>7 DEF vars, splitVars, PInv
    <2> QED
      BY <2>1 DEF Histories, Told, Makes, Shows, Address, Abs, Type, Bytes
  <1> QED
    BY <1>3, <1>4, <1>5, <1>6, <1>7 DEF SplitNext

\* The parts, with separators between them, make the text that was split, for
\* any text, as long as what the coroutine relies on stays; none of them has a
\* separator in it, and until the last one comes they make what is before the
\* separator just passed.
THEOREM PartsAreTheText == SplitSpec => []PartsMakeText
  <1>1. PInv => PartsMakeText
    <2> SUFFICES ASSUME PInv, intact, parts # <<>> PROVE PartsMakeText
      BY DEF PartsMakeText
    <2>1. Histories /\ Told /\ Footing
      BY DEF PInv, SInv
    <2>w. whole \in Seq(Letters) /\ Len(whole) \in Nat
      BY <2>1, TextIsSeq DEF Histories
    <2>2. CASE split.at \in {"last", "done"}
      BY <2>1, <2>2 DEF PartsMakeText, Told, Histories
    <2>3. CASE split.at = "yielded"
      <3> DEFINE p == SubSeq(whole, 1, split.start - 2)
                 q == SubSeq(whole, 1, split.start - 1)
      <3>1. /\ split.start \in 2 .. Len(whole) + 1 /\ whole[split.start - 1] = Sep
            /\ Joined(parts) = p
        BY <2>1, <2>3 DEF Told, Makes
      <3>2. Append(p, Sep) = q /\ Len(q) = split.start - 1
        <4>1. 1 \in 1 .. Len(whole) /\ split.start - 1 \in 1 .. Len(whole)
              /\ (split.start - 1) - 1 = split.start - 2
          BY <2>w, <3>1
        <4>2. q = p \o <<Sep>>
          BY <2>w, <3>1, <4>1, SubSeqRecursiveSecond
        <4>3. /\ p \in Seq(Letters) /\ Sep \in Letters
          BY <2>w, <4>1 DEF Letters
        <4>4. Len(q) = split.start - 1
          BY <2>w, <4>1
        <4> HIDE DEF p, q
        <4> QED
          BY <4>2, <4>3, <4>4
      <3>3. SubSeq(q, 1, Len(q)) = q
        BY <2>w, <3>1, <3>2
      <3>4. IsPrefix(q, whole)
        BY <2>w, <3>1, <3>2, <3>3 DEF IsPrefix
      <3> QED
        BY <2>1, <2>3, <3>1, <3>2, <3>4 DEF PartsMakeText, Histories
    <2> QED
      BY <2>1, <2>2, <2>3 DEF Told
  <1> QED
    BY <1>1, InitPInv, StepPInv, PTL DEF SplitSpec

=============================================================================
