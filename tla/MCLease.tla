------------------------------- MODULE MCLease -------------------------------
(***************************************************************************)
(* Instances of Lease for TLC: one process with two workers.               *)
(***************************************************************************)
EXTENDS Lease, TLC

CONSTANTS p1, w1, w2, h1, h2, r1, r2

MCserver == [r \in Requests |-> p1]
MChome   == [w \in Workers |-> p1]
MCbody   == [r \in Requests |-> IF r = r1 THEN h1 ELSE h2]

\* The workers of one process are alike.
WorkerSymmetry == Permutations(Workers)
=============================================================================
