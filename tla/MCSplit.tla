------------------------------ MODULE MCSplit ------------------------------
(* An instance of Split.                                                   *)
EXTENDS Split, TLC

\* One length on each side of kSmallMax matters, and the boundary itself.
MCText == {<<>>, <<",">>, <<",", "x">>, <<",", ",", "x">>}
MCPlus == [p \in {q \in Text \X Text : q[1] \o q[2] \in Text} |-> p[1] \o p[2]]
MCLength == [t \in Text |-> Len(t)]
MCEmpty == <<>>

\* Strings and blocks are only ever compared.
Symmetric == Permutations(Str) \cup Permutations(Block)

=============================================================================
