--------------------------- MODULE MCEventStream ---------------------------
(* Instances of EventStream for TLC: a tab, and others at its address.      *)
EXTENDS EventStream

CONSTANTS tab1, home, e1, e2

OneHome == [s \in Stream |-> home]
=============================================================================
