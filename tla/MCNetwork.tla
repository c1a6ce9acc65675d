------------------------------ MODULE MCNetwork ------------------------------
(* NetworkManager on small instances. *)
EXTENDS NetworkManager, TLC

CONSTANTS bridge, n1, n2, c1, c2

\* The first container publishes a port.
OnePublishes == [c \in Ctrs |-> IF c = c1 THEN Ports ELSE {}]

\* Network ids are random, and those of the user's networks interchangeable.
Symmetry == Permutations({n1, n2})

=============================================================================
