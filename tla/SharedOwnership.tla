-------------------------- MODULE SharedOwnership --------------------------
(***************************************************************************)
(* What cxx::Ref promises its callers (src/src/cxx/ref/Ref.h:21-25, "a     *)
(* thread-safe shared pointer"), with no reference count in sight.  A      *)
(* handle owns one object or none; an object comes alive in the hands of   *)
(* the handle that made it, is shared and passed on by its owners, and is  *)
(* destroyed once, after the last of them let go.  Ref implements this     *)
(* specification (module Ref, property Implements).                        *)
(***************************************************************************)

CONSTANTS
    Handle,     \* the Ref<T> variables of the program
    Object,     \* the objects that may be put under shared ownership
    Nothing     \* what a handle owns when it is empty: no Object

VARIABLES
    owns,       \* [Handle -> Object or Nothing]
    state       \* [Object -> "absent", "alive" or "destroyed"]

vars == <<owns, state>>

TypeOK ==
    /\ owns \in [Handle -> Object \cup {Nothing}]
    /\ state \in [Object -> {"absent", "alive", "destroyed"}]

Owners(o) == {h \in Handle : owns[h] = o}

Init ==
    /\ owns = [h \in Handle |-> Nothing]
    /\ state = [o \in Object |-> "absent"]

Create(h, o) ==
    /\ owns[h] = Nothing
    /\ state[o] = "absent"
    /\ owns' = [owns EXCEPT ![h] = o]
    /\ state' = [state EXCEPT ![o] = "alive"]

Share(h, g) ==
    /\ owns[h] = Nothing
    /\ owns[g] # Nothing
    /\ owns' = [owns EXCEPT ![h] = owns[g]]
    /\ UNCHANGED state

Transfer(h, g) ==
    /\ owns[h] = Nothing
    /\ owns[g] # Nothing
    /\ owns' = [owns EXCEPT ![h] = owns[g], ![g] = Nothing]
    /\ UNCHANGED state

Release(h) ==
    /\ owns[h] # Nothing
    /\ owns' = [owns EXCEPT ![h] = Nothing]
    /\ UNCHANGED state

Destroy(o) ==
    /\ state[o] = "alive"
    /\ Owners(o) = {}
    /\ state' = [state EXCEPT ![o] = "destroyed"]
    /\ UNCHANGED owns

Next ==
    \/ \E h \in Handle : Release(h)
    \/ \E h \in Handle, o \in Object : Create(h, o)
    \/ \E h, g \in Handle : Share(h, g) \/ Transfer(h, g)
    \/ \E o \in Object : Destroy(o)

SafeSpec == Init /\ [][Next]_vars

Spec == SafeSpec /\ \A o \in Object : WF_vars(Destroy(o))

=============================================================================
