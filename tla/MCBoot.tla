------------------------------- MODULE MCBoot --------------------------------
(***************************************************************************)
(* An instance of Boot for TLC: a rolling deployment.  p1 knows one        *)
(* migration less than the other processes.                                *)
(***************************************************************************)
EXTENDS Boot

CONSTANTS p1, p2, p3

MCknows == [p \in Processes |-> IF p = p1 THEN 1 ELSE 2]
=============================================================================
