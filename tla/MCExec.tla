------------------------------- MODULE MCExec -------------------------------
(* Requests that race for one exec session of a container; sessions share  *)
(* nothing but the container.                                              *)
EXTENDS ExecSessions

CONSTANTS e1, c1, c2
=============================================================================
