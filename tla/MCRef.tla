------------------------------- MODULE MCRef -------------------------------
(* Instances of Ref: local handles, and one member handle of one object.  *)
EXTENDS Ref, TLC

CONSTANTS x, y, z, next, b1, b2

\* next is a member of the object in b1, as next_ is of a list node: it may
\* hold b2, whose destruction then nests, or b1 itself, a cycle.
MCHome == [h \in Handle |-> IF h = next THEN b1 ELSE NoBlock]

=============================================================================
