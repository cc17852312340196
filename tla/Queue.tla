-------------------------------- MODULE Queue --------------------------------
(***************************************************************************)
(* The database-backed queue: the table raw_events (store/raw.go and       *)
(* migrations/0001_init.sql) and the wake-up channel of queue.Postgres.    *)
(*                                                                         *)
(* The table is kept column by column, one function per column.  A row is  *)
(* identified by its payload hash: payload_hash is UNIQUE and id is the    *)
(* primary key, so the two determine each other.  Every operator below is  *)
(* ONE SQL statement, and therefore one atomic step.                       *)
(***************************************************************************)
EXTENDS Host, Sequences

CONSTANTS Hashes,       \* payload hashes that may arrive
          MaxAttempts   \* queue.Config.MaxAttempts

\* NewPostgres replaces a MaxAttempts below 1 by a default of 5.
ASSUME MaxAttemptsAssumption == MaxAttempts \in Nat \ {0}

VARIABLES status,       \* [Hashes -> row status, or Absent when there is no row]
          attempts,     \* [Hashes -> claims so far]
          error,        \* [Hashes -> last failure reason, or Null]
          lease_until,  \* [Hashes -> Null, or how lease_until compares to now()]
          received_at,  \* the rows, in the order of their received_at stamps
          notify        \* [Processes -> is a token buffered in the channel]

raw_events == <<status, attempts, error, lease_until, received_at>>

Null    == "NULL"
Absent  == "ABSENT"
Settled == {"PROCESSED", "FAILED"}
Stored  == {"PENDING", "PROCESSING"} \cup Settled
Reasons == {"transient", "permanent"}

\* lease_until is compared with now() only: "live" is a time still to come and
\* "expired" one that has passed.
Leases == {Null, "live", "expired"}

QueueTypeOK ==
  /\ status      \in [Hashes -> Stored \cup {Absent}]
  /\ attempts    \in [Hashes -> Nat]
  /\ error       \in [Hashes -> Reasons \cup {Null}]
  /\ lease_until \in [Hashes -> Leases]
  /\ received_at \in Seq(Hashes)
  /\ notify      \in [Processes -> BOOLEAN]

\* An empty database, and a freshly made channel in every process.
QueueInit ==
  /\ status      = [h \in Hashes |-> Absent]
  /\ attempts    = [h \in Hashes |-> 0]
  /\ error       = [h \in Hashes |-> Null]
  /\ lease_until = [h \in Hashes |-> Null]
  /\ received_at = <<>>
  /\ notify      = [p \in Processes |-> FALSE]

-----------------------------------------------------------------------------
\* Mutant: ON CONFLICT DO UPDATE puts a settled row back in the queue.
InsertRawUpsert(h) ==
  /\ h \in Hashes
  /\ status'      = [status EXCEPT ![h] = "PENDING"]
  /\ received_at' = IF status[h] = Absent THEN Append(received_at, h) ELSE received_at
  /\ UNCHANGED <<attempts, error, lease_until>>

\* INSERT INTO raw_events ... ON CONFLICT (payload_hash) DO NOTHING, in the case
\* where it inserts (the column accepts the payload and no row has its hash): the
\* columns not named take their defaults, which is what an absent row already
\* holds here.
InsertRaw(h) ==
  /\ h \in Hashes /\ status[h] = Absent
  /\ status'      = [status EXCEPT ![h] = "PENDING"]
  /\ received_at' = Append(received_at, h)
  /\ UNCHANGED <<attempts, error, lease_until>>

\* Mutant: the lease is not looked at.
ClaimableLeased(h) == status[h] \in {"PENDING", "PROCESSING"}

\* The WHERE clause of the claim's subquery.
Claimable(h) ==
  \/ status[h] = "PENDING"
  \/ status[h] = "PROCESSING" /\ lease_until[h] = "expired"

\* ORDER BY received_at.
Older(g, h) ==
  \E i, j \in DOMAIN received_at :
    i < j /\ received_at[i] = g /\ received_at[j] = h

\* Mutant: the claim does not count.
ClaimRowUncounted(h) ==
  /\ status'      = [status EXCEPT ![h] = "PROCESSING"]
  /\ lease_until' = [lease_until EXCEPT ![h] = "live"]
  /\ UNCHANGED <<attempts, error, received_at>>

\* The claim's UPDATE of the row its subquery selected.
ClaimRow(h) ==
  /\ status'      = [status EXCEPT ![h] = "PROCESSING"]
  /\ attempts'    = [attempts EXCEPT ![h] = @ + 1]
  /\ lease_until' = [lease_until EXCEPT ![h] = "live"]
  /\ UNCHANGED <<error, received_at>>

\* Ack.  Like the other two closing statements it is keyed by id only: it checks
\* neither the status nor whether the caller still holds the lease.
MarkProcessed(h) ==
  /\ status'      = [status EXCEPT ![h] = "PROCESSED"]
  /\ error'       = [error EXCEPT ![h] = Null]
  /\ lease_until' = [lease_until EXCEPT ![h] = Null]
  /\ UNCHANGED <<attempts, received_at>>

\* Dead-letter the row.
FailRow(h, reason) ==
  /\ status'      = [status EXCEPT ![h] = "FAILED"]
  /\ error'       = [error EXCEPT ![h] = reason]
  /\ lease_until' = [lease_until EXCEPT ![h] = Null]
  /\ UNCHANGED <<attempts, received_at>>

\* Mutants: the reschedule writes a status of its own, one that the CHECK
\* constraint does not know, or PENDING; the cap is one attempt too late.
RescheduleAs(h, new) ==
  /\ status'      = [status EXCEPT ![h] = new]
  /\ error'       = [error EXCEPT ![h] = "transient"]
  /\ lease_until' = [lease_until EXCEPT ![h] = "live"]
  /\ UNCHANGED <<attempts, received_at>>

RetryOrFailUnknownStatus(h, n) ==
  \/ n >= MaxAttempts /\ FailRow(h, "transient")
  \/ n < MaxAttempts /\ RescheduleAs(h, "RETRYING")

RetryOrFailReopening(h, n) ==
  \/ n >= MaxAttempts /\ FailRow(h, "transient")
  \/ n < MaxAttempts /\ RescheduleAs(h, "PENDING")

RetryOrFailOffByOne(h, n) ==
  \/ n > MaxAttempts /\ FailRow(h, "transient")
  \/ n <= MaxAttempts /\ RescheduleAs(h, status[h])

\* A transient failure of the n-th attempt: dead-letter at the cap, otherwise
\* leave the status alone and let the backoff lease make the row claimable later.
RetryOrFail(h, n) ==
  \/ /\ n >= MaxAttempts
     /\ FailRow(h, "transient")
  \/ /\ n < MaxAttempts
     /\ error'       = [error EXCEPT ![h] = "transient"]
     /\ lease_until' = [lease_until EXCEPT ![h] = "live"]
     /\ UNCHANGED <<status, attempts, received_at>>

\* now() passes the lease (or the backoff) of a row.
LeaseExpires(h) ==
  /\ lease_until[h] = "live"
  /\ lease_until' = [lease_until EXCEPT ![h] = "expired"]
  /\ UNCHANGED <<status, attempts, error, received_at, notify>>

\* Mutant: the signal is dropped, as on a channel without a buffer.
NotifyDropped(p) == UNCHANGED notify

\* Queue.Notify: a non-blocking send on a channel with room for one token.
Notify(p) == notify' = [notify EXCEPT ![p] = TRUE]
=============================================================================
