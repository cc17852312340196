----------------------------- MODULE MCService -------------------------------
(***************************************************************************)
(* Instances of Service for TLC.  p1 runs in mode "all" (it serves every   *)
(* request and has worker w1), p2 in mode "worker".                        *)
(***************************************************************************)
EXTENDS ServiceClaims

CONSTANTS p1, p2, w1, w2, h1, h2, r1, r2, r3

MCserver == [r \in Requests |-> p1]
MChome   == [w \in Workers |-> IF w = w1 THEN p1 ELSE p2]

\* Or both workers in p1, on one wake-up channel.
MChomeTogether == [w \in Workers |-> p1]

\* r2 resends the payload of r1; r3 carries another one.
MCbody ==
  [r \in Requests |-> IF r = r3 THEN h2 ELSE h1]

\* One payload sent twice, and one body that only the database refuses.
MCbodyRefused ==
  [r \in Requests |-> IF r = r3 THEN NotJSONB ELSE h1]
=============================================================================
