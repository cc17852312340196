---------------------------- MODULE ServiceClaims ----------------------------
(***************************************************************************)
(* What comments and documents say of the queue and of ingestion, and the  *)
(* code does not do in general.  Each is refuted by a run of its own;      *)
(* AckCompletes holds where no handler outlasts its lease (Lease).         *)
(***************************************************************************)
EXTENDS Service

(* "Even a worker-killing poison payload eventually caps out" (store.Claim):   *)
(* the attempts of a row never exceed MaxAttempts.                             *)
AttemptsCapped == \A h \in Hashes : attempts[h] <= MaxAttempts

(* "Ack completes a job" (queue.Queue): a processed row stays processed.       *)
AckCompletes ==
  [][\A h \in Hashes : status[h] = "PROCESSED" => status'[h] = "PROCESSED"]_vars

(* "A duplicate is already enqueued/processed" (ingest): whoever is told       *)
(* "duplicate" resent a payload that is in the queue or has been processed.    *)
DuplicateIsInHand ==
  [][\A r \in Requests :
       req[r] # "202 duplicate" /\ req'[r] = "202 duplicate"
         => status[body[r]] \in {"PENDING", "PROCESSING", "PROCESSED"}]_vars
=============================================================================
