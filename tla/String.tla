------------------------------- MODULE String -------------------------------
(***************************************************************************)
(* cxx::String (src/src/cxx/string/String.h, ctor.h): sixteen bytes,       *)
(* size_ and data_, that stand for a text in one of three ways.  Only the  *)
(* sign and magnitude of size_ tell which: negative, a pointer to a        *)
(* literal; below kSmallMax, the characters themselves; otherwise a        *)
(* Ref<char[]> to a shared block.  A text is a model value; its length is  *)
(* all that the code branches on.                                          *)
(***************************************************************************)
EXTENDS Integers, FiniteSets

CONSTANTS
    Str,        \* the String variables
    Block,      \* heap blocks of characters: bounds those allocated at once
    Text,       \* the texts strings are made from
    Length,     \* [Text -> Nat]
    Plus,       \* the text of two, one after the other, if it is in Text
    Empty,      \* the text of length 0
    Garbage,    \* what reading a pointer's own bytes as characters gives
    kSmallMax,  \* sizeof(void*)
    MaxRefs     \* bound: owners counted by one block, leaked ones included

ASSUME LengthAssumption == Length \in [Text -> Nat]
ASSUME EmptyAssumption  == Empty \in Text /\ \A t \in Text : Length[t] = 0 <=> t = Empty
ASSUME PlusAssumption   ==
    /\ DOMAIN Plus \subseteq Text \X Text
    /\ \A p \in DOMAIN Plus : Plus[p] \in Text /\ Length[Plus[p]] = Length[p[1]] + Length[p[2]]
ASSUME OtherAssumption  ==
    Garbage \notin Text /\ kSmallMax \in Nat \ {0} /\ MaxRefs \in Nat \ {0}
    /\ IsFiniteSet(Str)

VARIABLES
    size,       \* size_ of each string
    data,       \* data_: zero bits, a literal's address, characters, or a Ref
    exists,     \* the strings constructed and not destroyed
    refs,       \* owners each block counts; 0 for one that is not allocated
    chars,      \* the text in each block
    val         \* history: the text each string should stand for

vars == <<size, data, exists, refs, chars, val>>

Zero       == [is |-> "zero"]
Pointer(t) == [is |-> "pointer", to |-> t]
Chars(t)   == [is |-> "chars", of |-> t]
Shared(b)  == [is |-> "ref", to |-> b]

Datas == {Zero} \cup {Pointer(t) : t \in Text} \cup {Chars(t) : t \in Text}
                \cup {Shared(b) : b \in Block}

Init ==
    /\ size   = [s \in Str |-> 0]
    /\ data   = [s \in Str |-> Zero]
    /\ exists = {}
    /\ refs   = [b \in Block |-> 0]
    /\ chars  = [b \in Block |-> Empty]
    /\ val    = [s \in Str |-> Empty]

\* Wrong: off by one.
TypeAtMost(n) ==
    IF n < 0 THEN "LITERAL" ELSE IF n <= kSmallMax THEN "SMALL" ELSE "SHARED"

Type(n) ==
    IF n < 0 THEN "LITERAL" ELSE IF n < kSmallMax THEN "SMALL" ELSE "SHARED"

\* What data() shows for a size_ and a data_.
View(n, d) ==
    CASE Type(n) = "LITERAL" /\ d.is = "pointer" -> d.to
      [] Type(n) = "SMALL" /\ d.is = "zero" -> Empty
      [] Type(n) = "SMALL" /\ d.is = "chars" -> d.of
      [] Type(n) = "SHARED" /\ d.is = "ref" -> chars[d.to]
      [] OTHER -> Garbage

\* The object a constant evaluation of String(t) leaves in the program image.
Literal(t) == [size |-> -Length[t], data |-> Pointer(t)]

Put(s, n, d) ==
    /\ size' = [size EXCEPT ![s] = n]
    /\ data' = [data EXCEPT ![s] = d]

-----------------------------------------------------------------------------
(* Construction, at run time.  s is raw storage: nothing is released.      *)

\* String(char const*): the characters are copied in, or into a new block.
FromChars(s, t) ==
    \/ /\ Length[t] < kSmallMax
       /\ Put(s, Length[t], Chars(t))
       /\ UNCHANGED <<refs, chars>>
    \/ /\ Length[t] >= kSmallMax
       /\ \E b \in Block :
             /\ refs[b] = 0
             /\ Put(s, Length[t], Shared(b))
             /\ refs' = [refs EXCEPT ![b] = 1]
             /\ chars' = [chars EXCEPT ![b] = t]

\* Wrong: the eight bytes are copied whatever they are.
CopyFromBytes(s, n, d) == Put(s, n, d) /\ UNCHANGED <<refs, chars>>

\* copyFrom() dispatches on the type of rhs.
CopyFrom(s, n, d) ==
    /\ Put(s, n, d)
    /\ IF Type(n) = "SHARED"
       THEN refs[d.to] < MaxRefs /\ refs' = [refs EXCEPT ![d.to] = @ + 1]
       ELSE UNCHANGED refs
    /\ UNCHANGED chars

\* Wrong: rhs.size_ is left as it is.
MoveFromSized(s, r) ==
    /\ size' = [size EXCEPT ![s] = size[r]]
    /\ data' = [data EXCEPT ![s] = data[r],
                            ![r] = IF Type(size[r]) = "SHARED" THEN Zero ELSE @]
    /\ UNCHANGED <<refs, chars>>

\* moveFrom() empties rhs only when it is SHARED.
MoveFrom(s, r) ==
    IF Type(size[r]) = "SHARED"
    THEN /\ size' = [size EXCEPT ![s] = size[r], ![r] = 0]
         /\ data' = [data EXCEPT ![s] = data[r], ![r] = Zero]
         /\ UNCHANGED <<refs, chars>>
    ELSE Put(s, size[r], data[r]) /\ UNCHANGED <<refs, chars>>

Construct(s, t) ==
    /\ s \notin exists
    /\ FromChars(s, t)
    /\ exists' = exists \cup {s}
    /\ val' = [val EXCEPT ![s] = t]

\* A copy of a constexpr String.
CopyLiteral(s, t) ==
    /\ s \notin exists
    /\ CopyFrom(s, Literal(t).size, Literal(t).data)
    /\ exists' = exists \cup {s}
    /\ val' = [val EXCEPT ![s] = t]

Copy(s, r) ==
    /\ s \notin exists /\ r \in exists
    /\ CopyFrom(s, size[r], data[r])
    /\ exists' = exists \cup {s}
    /\ val' = [val EXCEPT ![s] = val[r]]

\* The characters a loop from begin() to end() reads.
Read(r) == IF size[r] = 0 THEN Empty ELSE View(size[r], data[r])

\* operator+ gathers the characters of both on the stack, and makes a string
\* of them.
Concat(s, a, b) ==
    /\ s \notin exists /\ {a, b} \subseteq exists
    /\ <<Read(a), Read(b)>> \in DOMAIN Plus /\ <<val[a], val[b]>> \in DOMAIN Plus
    /\ FromChars(s, Plus[<<Read(a), Read(b)>>])
    /\ exists' = exists \cup {s}
    /\ val' = [val EXCEPT ![s] = Plus[<<val[a], val[b]>>]]

MovedVal(s, r) ==
    [val EXCEPT ![s] = val[r],
                ![r] = IF Type(size[r]) = "SHARED" THEN Empty ELSE val[r]]

Move(s, r) ==
    /\ s \notin exists /\ r \in exists
    /\ MoveFrom(s, r)
    /\ exists' = exists \cup {s}
    /\ val' = MovedVal(s, r)

-----------------------------------------------------------------------------
(* Assignment is construction in place, without destroy().                 *)

CopyAssign(s, r) ==
    /\ s \in exists /\ r \in exists /\ s # r
    /\ CopyFrom(s, size[r], data[r])
    /\ val' = [val EXCEPT ![s] = val[r]]
    /\ UNCHANGED exists

MoveAssign(s, r) ==
    /\ s \in exists /\ r \in exists /\ s # r
    /\ MoveFrom(s, r)
    /\ val' = MovedVal(s, r)
    /\ UNCHANGED exists

\* Wrong: the Ref is cleared, and then destroyed from a copy of its bytes.
DestroyTwice(s) ==
    /\ s \in exists
    /\ IF Type(size[s]) = "SHARED"
       THEN refs' = [refs EXCEPT ![data[s].to] = @ - 2]
       ELSE UNCHANGED refs
    /\ exists' = exists \ {s}
    /\ Put(s, 0, Zero)
    /\ val' = [val EXCEPT ![s] = Empty]
    /\ UNCHANGED chars

\* ~String(): a SHARED string lets go of its block, which is freed at 0.
Destroy(s) ==
    /\ s \in exists
    /\ IF Type(size[s]) = "SHARED"
       THEN refs' = [refs EXCEPT ![data[s].to] = @ - 1]
       ELSE UNCHANGED refs
    /\ exists' = exists \ {s}
    /\ Put(s, 0, Zero)
    /\ val' = [val EXCEPT ![s] = Empty]
    /\ UNCHANGED chars

Next ==
    \/ \E s \in Str, t \in Text : Construct(s, t) \/ CopyLiteral(s, t)
    \/ \E s, r \in Str :
          Copy(s, r) \/ Move(s, r) \/ CopyAssign(s, r) \/ MoveAssign(s, r)
    \/ \E s, a, b \in Str : Concat(s, a, b)
    \/ \E s \in Str : Destroy(s)

Spec == Init /\ [][Next]_vars

-----------------------------------------------------------------------------
(* What should be true.                                                    *)

TypeOK ==
    /\ size \in [Str -> Int]
    /\ data \in [Str -> Datas]
    /\ exists \subseteq Str
    /\ refs \in [Block -> 0 .. MaxRefs]
    /\ chars \in [Block -> Text]
    /\ val \in [Str -> Text]

Holders(b) == {s \in exists : data[s] = Shared(b)}

Abs(n) == IF n < 0 THEN -n ELSE n

\* size_ and data_ never disagree about the representation: data() shows the
\* text and size() its length, through any copies, moves and assignments.  The
\* exception is the constant String(""), whose size_ of -0 is not negative:
\* its copies show the bytes of a pointer (String.h:43-48, 107-112).
ShowsText ==
    \A s \in exists :
        /\ Abs(size[s]) = Length[val[s]]
        /\ View(size[s], data[s]) # val[s] =>
              val[s] = Empty /\ data[s] = Pointer(Empty)

\* A block is never freed, and so never reused, while a string shows it.
BlockOutlivesStrings ==
    \A b \in Block : refs[b] >= Cardinality(Holders(b))

\* ~String() finds a Ref exactly where size_ says there is one: it neither
\* skips a block nor treats characters as a Ref (ctor.h:11-14).
DestroysWhatItHolds ==
    \A s \in exists : Type(size[s]) = "SHARED" <=> data[s].is = "ref"

\* A block that is still allocated is held by a string, or it leaks: a SHARED
\* string's Ref has to be cleared when the string lets go of it (ctor.h:12).
NoLeak == \A b \in Block : refs[b] > 0 => Holders(b) # {}

=============================================================================
