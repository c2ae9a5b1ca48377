---------------------------- MODULE MCGenerator ----------------------------
(* An instance of Generator: coroutines that yield, fail, and relay.      *)
EXTENDS Generator

\* A body that fails after a value, one that relays, and one that yields
\* before it relays.
MCBodies == {<<"yield", "throw">>, <<"loop">>, <<"yield", "loop">>}

=============================================================================
