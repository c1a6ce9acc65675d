------------------------------- MODULE MCOutput -------------------------------
(* Instances of ContainerOutput for TLC. *)
EXTENDS ContainerOutput

CONSTANTS c1, c2, r1

Pieces(out, err) == [s \in {"stdout", "stderr"} |-> IF s = "stdout" THEN out ELSE err]

Tty(clients, readers, pieces) ==
  [tty |-> TRUE, clients |-> clients, readers |-> readers, pieces |-> pieces]

NoTty(clients, readers, pieces) ==
  [tty |-> FALSE, clients |-> clients, readers |-> readers, pieces |-> pieces]

\* Clients attach to a container that writes little, or logs are asked of one
\* that writes enough for three rotations.
SomeSetups ==
  {Tty({c1, c2}, {}, Pieces(2, 0)),
   NoTty({c1}, {}, Pieces(2, 0)),
   NoTty({c1, c2}, {}, Pieces(1, 1)),
   Tty({}, {r1}, Pieces(4, 0)),
   NoTty({}, {r1}, Pieces(1, 1))}

TailOptions == {-1, 1}

=============================================================================
