------------------------------- MODULE Cursor -------------------------------
(***************************************************************************)
(* cxx::Cursor (src/src/cxx/io/Cursor.h): a window on the bytes of a file  *)
(* and a place in it, and the LEB128 numbers it reads there, which come in *)
(* groups of bits, the lowest first.  A number is given as the sequence of *)
(* its groups; of each byte, the bit that says whether more follow is left *)
(* out.  The code's word is 9 groups and a bit, and so is a scaled one.    *)
(***************************************************************************)
EXTENDS Integers, Sequences, SequencesExt

CONSTANTS
    WordBits,   \* 64
    GroupBits   \* 7

ASSUME WidthAssumption ==
    WordBits \in Nat /\ GroupBits \in Nat \ {0} /\ GroupBits < WordBits

Window(base, size) == [base |-> base, size |-> size, offset |-> 0]

Position(c) == c.base + c.offset

Skip(c, n) == [c EXCEPT !.offset = @ + n]

\* operator+ counts from the base, however much has been read.
Plus(c, n) == Window(c.base + n, c.size - n)

\* A copy begins where the original has got to.
Copied(c) == Window(Position(c), c.size - c.offset)

Pow2[k \in Nat] == IF k = 0 THEN 1 ELSE 2 * Pow2[k - 1]

\* More groups than a word has room for make r negative, and shifting by it is
\* undefined.
Fits(count) == GroupBits * count <= WordBits

\* r, once the groups are read.
Unused(groups) == WordBits - GroupBits * Len(groups)

\* Each group comes in at the low end, where the bits are still 0, and is
\* rotated to the high end.
Uleb(groups) ==
    LET Roll(w) == (w \div Pow2[GroupBits]) + (w % Pow2[GroupBits]) * Pow2[WordBits - GroupBits]
        Word[k \in 0 .. Len(groups)] == IF k = 0 THEN 0 ELSE Roll(Word[k - 1] + groups[k])
    IN Word[Len(groups)] \div Pow2[Unused(groups)]

\* The word into which each group pushes itself from the high end.
Pushed(groups) ==
    LET Word[k \in 0 .. Len(groups)] ==
            IF k = 0 THEN 0
            ELSE (Word[k - 1] \div Pow2[GroupBits]) + groups[k] * Pow2[WordBits - GroupBits]
    IN Word[Len(groups)]

\* Wrong: the word is shifted as an unsigned one.
SlebUnsigned(groups) == Pushed(groups) \div Pow2[Unused(groups)]

\* The word is shifted with its sign; the result is unsigned again.
Sleb(groups) ==
    LET word == Pushed(groups)
        signed == IF word >= Pow2[WordBits - 1] THEN word - Pow2[WordBits] ELSE word
    IN (signed \div Pow2[Unused(groups)]) % Pow2[WordBits]

-----------------------------------------------------------------------------
(* What the groups mean by the DWARF standard, sections 7.6 and C.         *)

\* The lowest groups of n, of which there are as many as were written.
Groups(n, count) ==
    [i \in 1 .. count |-> (n \div Pow2[GroupBits * (i - 1)]) % Pow2[GroupBits]]

\* groups is n in LEB128, without a sign and with one.
WrittenUnsigned(n, groups) ==
    \E count \in 1 .. WordBits :
        /\ Fits(count) /\ groups = Groups(n, count)
        /\ n \in 0 .. Pow2[GroupBits * count] - 1

WrittenSigned(n, groups) ==
    \E count \in 1 .. WordBits :
        /\ Fits(count) /\ groups = Groups(n, count)
        /\ n \in -Pow2[GroupBits * count - 1] .. Pow2[GroupBits * count - 1] - 1

=============================================================================
