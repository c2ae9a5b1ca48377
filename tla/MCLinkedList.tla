--------------------------- MODULE MCLinkedList ---------------------------
(* An instance of LinkedList: two lists, one iterator, three live nodes.   *)
EXTENDS LinkedList, TLC

\* Addresses are only ever compared, lists and items likewise.
Symmetric == Permutations(Node) \cup Permutations(Item) \cup Permutations(List)

=============================================================================
