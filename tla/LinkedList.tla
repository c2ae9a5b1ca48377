----------------------------- MODULE LinkedList -----------------------------
(***************************************************************************)
(* cxx::LinkedList<T> (src/src/cxx/algo/LinkedList.h): list variables with *)
(* front_ and back_, iterators, and the nodes they own together.  front_,  *)
(* back_, node_ and next_ are Ref<Node>, here at the level module Ref      *)
(* proves for them: a node lives exactly while some handle leads to it.    *)
(* Copying a list copies two handles, so the copies share their nodes.     *)
(***************************************************************************)
EXTENDS Naturals, Sequences, SequencesExt

CONSTANTS
    List,       \* the LinkedList variables
    Iter,       \* the iterator variables
    Node,       \* heap addresses: bounds the nodes alive at one time
    Item,       \* the values pushed
    Null        \* a handle that holds no node

ASSUME NullAssumption == Null \notin Node \cup Item \cup List

VARIABLES
    front, back,    \* front_ and back_ of each list
    cursor,         \* node_ of each iterator
    data, next,     \* data_ and next_ of each node
    pushed,         \* history: the items pushed onto each list, in order
    shared,         \* history: lists that share, or shared, nodes with another
    over,           \* history: the list an iterator was begun on, if intact
    seen            \* history: the items an iterator has gone past

vars == <<front, back, cursor, data, next, pushed, shared, over, seen>>

\* Wrong: back_ without an initializer, no node in it.
InitNoBack ==
    /\ front  = [l \in List |-> Null]
    /\ back   = [l \in List |-> l]
    /\ cursor = [i \in Iter |-> Null]
    /\ data   = [n \in Node |-> Null]
    /\ next   = [n \in Node |-> Null]
    /\ pushed = [l \in List |-> <<>>]
    /\ shared = {}
    /\ over   = [i \in Iter |-> Null]
    /\ seen   = [i \in Iter |-> <<>>]

Init ==
    /\ front  = [l \in List |-> Null]
    /\ back   = [l \in List |-> Null]
    /\ cursor = [i \in Iter |-> Null]
    /\ data   = [n \in Node |-> Null]
    /\ next   = [n \in Node |-> Null]
    /\ pushed = [l \in List |-> <<>>]
    /\ shared = {}
    /\ over   = [i \in Iter |-> Null]
    /\ seen   = [i \in Iter |-> <<>>]

\* The items from a node to the end of its chain.
From[n \in Node \cup {Null}] ==
    IF n = Null THEN <<>> ELSE <<data[n]>> \o From[next[n]]

Items(l) == From[front[l]]

\* The nodes that handles lead to, when nx gives their next_: the least set
\* with the roots in it that next_ does not leave.
Closed(S, nx) == \A n \in S : nx[n] \in S \cup {Null}
Reached(roots, nx) ==
    {n \in Node : \A S \in SUBSET Node : (roots \ {Null}) \subseteq S /\ Closed(S, nx) => n \in S}

Roots == {front[l] : l \in List} \cup {back[l] : l \in List} \cup {cursor[i] : i \in Iter}

Alive == Reached(Roots, next)

\* Every operation ends with the nodes it orphaned destroyed: nx and dt are
\* next_ and data_ as the operation leaves them.
Settle(nx, dt) ==
    LET kept == Reached(Roots', nx) IN
    /\ next' = [n \in Node |-> IF n \in kept THEN nx[n] ELSE Null]
    /\ data' = [n \in Node |-> IF n \in kept THEN dt[n] ELSE Null]

-----------------------------------------------------------------------------

\* Wrong: back_ is left as it is.
PushFrontOnly(l, x) ==
    \E n \in Node \ Alive :
        /\ front' = [front EXCEPT ![l] = n]
        /\ UNCHANGED <<back, cursor>>
        /\ Settle([next EXCEPT ![n] = front[l]], [data EXCEPT ![n] = x])
        /\ pushed' = [pushed EXCEPT ![l] = <<x>> \o @]
        /\ UNCHANGED <<shared, over, seen>>

PushFront(l, x) ==
    \E n \in Node \ Alive :
        /\ front' = [front EXCEPT ![l] = n]
        /\ back'  = [back EXCEPT ![l] = IF @ = Null THEN n ELSE @]
        /\ UNCHANGED cursor
        /\ Settle([next EXCEPT ![n] = front[l]], [data EXCEPT ![n] = x])
        /\ pushed' = [pushed EXCEPT ![l] = <<x>> \o @]
        /\ UNCHANGED <<shared, over, seen>>

\* Wrong: the new node is made as pushFront makes it, before front_.
PushBackRing(l, x) ==
    \E n \in Node \ Alive :
        /\ front' = [front EXCEPT ![l] = IF @ = Null THEN n ELSE @]
        /\ back'  = [back EXCEPT ![l] = n]
        /\ UNCHANGED cursor
        /\ Settle(IF back[l] = Null THEN next
                  ELSE [next EXCEPT ![back[l]] = n, ![n] = front[l]],
                  [data EXCEPT ![n] = x])
        /\ pushed' = [pushed EXCEPT ![l] = Append(@, x)]
        /\ UNCHANGED <<shared, over, seen>>

PushBack(l, x) ==
    \E n \in Node \ Alive :
        /\ front' = [front EXCEPT ![l] = IF @ = Null THEN n ELSE @]
        /\ back'  = [back EXCEPT ![l] = n]
        /\ UNCHANGED cursor
        /\ Settle(IF back[l] = Null THEN next ELSE [next EXCEPT ![back[l]] = n],
                  [data EXCEPT ![n] = x])
        /\ pushed' = [pushed EXCEPT ![l] = Append(@, x)]
        /\ UNCHANGED <<shared, over, seen>>

Forget(l) == over' = [i \in Iter |-> IF over[i] = l THEN Null ELSE over[i]]

\* The defaulted copies copy the two handles: construction, or assignment
\* over a list's old contents.
Copy(l, r) ==
    /\ l # r
    /\ front' = [front EXCEPT ![l] = front[r]]
    /\ back'  = [back EXCEPT ![l] = back[r]]
    /\ UNCHANGED cursor
    /\ Settle(next, data)
    /\ pushed' = [pushed EXCEPT ![l] = pushed[r]]
    /\ shared' = shared \cup {l, r}
    /\ Forget(l) /\ UNCHANGED seen

\* A list goes out of scope; its name comes back as an empty one.
Destroy(l) ==
    /\ front[l] # Null
    /\ front' = [front EXCEPT ![l] = Null]
    /\ back'  = [back EXCEPT ![l] = Null]
    /\ UNCHANGED cursor
    /\ Settle(next, data)
    /\ pushed' = [pushed EXCEPT ![l] = <<>>]
    /\ shared' = shared \ {l}
    /\ Forget(l) /\ UNCHANGED seen

Begin(i, l) ==
    /\ cursor' = [cursor EXCEPT ![i] = front[l]]
    /\ UNCHANGED <<front, back>>
    /\ Settle(next, data)
    /\ over' = [over EXCEPT ![i] = l]
    /\ seen' = [seen EXCEPT ![i] = <<>>]
    /\ UNCHANGED <<pushed, shared>>

\* Wrong: a step goes two nodes on.
AdvanceTwo(i) ==
    /\ cursor[i] # Null
    /\ cursor[i] \in Reached({front[l] : l \in List} \cup {back[l] : l \in List}, next)
    /\ cursor' = [cursor EXCEPT ![i] =
                    IF next[cursor[i]] = Null THEN Null ELSE next[next[cursor[i]]]]
    /\ UNCHANGED <<front, back>>
    /\ Settle(next, data)
    /\ seen' = [seen EXCEPT ![i] = Append(@, data[cursor[i]])]
    /\ UNCHANGED <<pushed, shared, over>>

\* ++it assigns node_ from a member of the node that node_ holds: only the
\* caller's list keeps that node while the assignment lets go of it.
Advance(i) ==
    /\ cursor[i] # Null
    /\ cursor[i] \in Reached({front[l] : l \in List} \cup {back[l] : l \in List}
                                \cup {cursor[j] : j \in Iter \ {i}}, next)
    /\ cursor' = [cursor EXCEPT ![i] = next[cursor[i]]]
    /\ UNCHANGED <<front, back>>
    /\ Settle(next, data)
    /\ seen' = [seen EXCEPT ![i] = Append(@, data[cursor[i]])]
    /\ UNCHANGED <<pushed, shared, over>>

Next ==
    \/ \E l \in List, x \in Item : PushFront(l, x) \/ PushBack(l, x)
    \/ \E l, r \in List : Copy(l, r)
    \/ \E l \in List : Destroy(l)
    \/ \E i \in Iter, l \in List : Begin(i, l)
    \/ \E i \in Iter : Advance(i)

Spec == Init /\ [][Next]_vars

-----------------------------------------------------------------------------
(* Comparison, which changes nothing.                                      *)

\* size_ is const, and no constructor call in the class gives it a value.
size_ == 0
Size(l) == IF front[l] = Null THEN 0 ELSE size_

\* operator==: "crash" where it reads through rhs's end iterator.
Equal(l, r) ==
    LET a == Items(l)
        b == Items(r)
        differ == {k \in DOMAIN a : k > Len(b) \/ a[k] # b[k]}
    IN IF Size(l) # Size(r) THEN "false"
       ELSE IF differ = {} THEN "true"
       ELSE IF \A k \in differ : k > Len(b) THEN "crash" ELSE "false"

-----------------------------------------------------------------------------
(* What should be true.                                                    *)

TypeOK ==
    /\ front  \in [List -> Node \cup {Null}]
    /\ back   \in [List -> Node \cup {Null}]
    /\ cursor \in [Iter -> Node \cup {Null}]
    /\ data   \in [Node -> Item \cup {Null}]
    /\ next   \in [Node -> Node \cup {Null}]
    /\ shared \subseteq List
    /\ over   \in [Iter -> List \cup {Null}]

\* Whatever is shared, pushed or dropped, following next_ comes to an end, so
\* every loop over a list terminates (LinkedList.h:71).
Acyclic == \A n \in Node : next[n] # Null => n \notin Reached({next[n]}, next)

\* A list that shares no nodes holds what was pushed onto it, in order, and
\* its back_ is the last of its nodes (LinkedList.h:80-91).
HoldsPushed ==
    \A l \in List \ shared :
        /\ Items(l) = pushed[l]
        /\ front[l] # Null => back[l] \in Reached({front[l]}, next) /\ next[back[l]] = Null

\* Pushes never mislead an iterator: what it went past and what lies ahead of
\* it are the last items of its list, none skipped (LinkedList.h:34-37).
IteratesAll ==
    \A i \in Iter :
        over[i] \in List \ shared /\ cursor[i] # Null =>
            IsSuffix(seen[i] \o From[cursor[i]], Items(over[i]))

\* Lists that compare equal have the same length, what the "quick check" of
\* operator== is there for (LinkedList.h:68).
EqualSameSize ==
    \A l, r \in List : Equal(l, r) = "true" => Len(Items(l)) = Len(Items(r))

=============================================================================
