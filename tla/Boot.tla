-------------------------------- MODULE Boot ---------------------------------
(***************************************************************************)
(* How processes start: newApp connects to a database that may not be up   *)
(* yet (init.go, connectWithRetry) and migrates it under an advisory lock  *)
(* (store/store.go, Migrate).  Any number of processes boot at the same    *)
(* time, and a newer one may know more migrations than an older one.       *)
(***************************************************************************)
EXTENDS Naturals, Sequences

CONSTANTS Processes,
          knows,        \* [Processes -> how many migrations are embedded in it]
          MaxTries,     \* connectWithRetry's attempts
          MaxFaults,    \* bound on the faults of a behaviour
          Nobody,       \* the advisory lock is free
          Orphan        \* a session whose process is gone, and which the database still keeps

ASSUME BootAssumption ==
  /\ knows \in [Processes -> Nat]
  /\ MaxTries \in Nat \ {0}
  /\ MaxFaults \in Nat
  /\ {Nobody, Orphan} \cap Processes = {} /\ Nobody # Orphan

VARIABLES stage,        \* [Processes -> the call of newApp that is next]
          tries,        \* [Processes -> failed attempts to connect]
          next,         \* [Processes -> the migration its loop has come to]
          database,     \* does the database answer
          holder,       \* the session that holds the advisory lock
          schema,       \* the migrations in effect, in the order they were committed
          recorded,     \* the versions in schema_migrations
          faults

vars == <<stage, tries, next, database, holder, schema, recorded, faults>>

\* "return" and "fail" are the deferred unlock, after the loop or after an error;
\* "failed" is a process that main ends with exit code 1.
Locked == {"table", "check", "apply", "return", "fail"}
Stages == {"down", "connect", "lock", "run", "failed"} \cup Locked

BootTypeOK ==
  /\ stage    \in [Processes -> Stages]
  /\ tries    \in [Processes -> 0..MaxTries]
  /\ next     \in [Processes -> Nat]
  /\ database \in BOOLEAN
  /\ holder   \in Processes \cup {Nobody, Orphan}
  /\ schema   \in Seq(Nat)
  /\ recorded \subseteq Nat
  /\ faults   \in 0..MaxFaults

Init ==
  /\ stage    = [p \in Processes |-> "down"]
  /\ tries    = [p \in Processes |-> 0]
  /\ next     = [p \in Processes |-> 1]
  /\ database = FALSE
  /\ holder   = Nobody
  /\ schema   = <<>>
  /\ recorded = {}
  /\ faults   = 0

-----------------------------------------------------------------------------
At(p, place) == stage[p] = place

GoTo(p, place) == stage' = [stage EXCEPT ![p] = place]

Fault == faults < MaxFaults /\ faults' = faults + 1

tables == <<schema, recorded>>

\* The process is started, for the first time or again.
Start(p) ==
  /\ stage[p] \in {"down", "failed"}
  /\ GoTo(p, "connect")
  /\ tries' = [tries EXCEPT ![p] = 0]
  /\ next'  = [next EXCEPT ![p] = 1]
  /\ UNCHANGED <<database, holder, tables, faults>>

\* Postgres accepts connections.
DatabaseUp ==
  /\ ~database
  /\ database' = TRUE
  /\ UNCHANGED <<stage, tries, next, holder, tables, faults>>

\* store.New and the Acquire of Migrate succeed.
Connect(p) ==
  /\ At(p, "connect") /\ database
  /\ GoTo(p, "lock")
  /\ UNCHANGED <<tries, next, database, holder, tables, faults>>

\* Mutant: nobody counts the attempts.
ConnectFailsEndlessly(p) ==
  /\ At(p, "connect") /\ ~database
  /\ tries' = [tries EXCEPT ![p] = @ + 1]
  /\ tries[p] <= MaxTries
  /\ UNCHANGED <<stage, next, database, holder, tables, faults>>

\* store.New fails: wait a second and try again, or give up.
ConnectFails(p) ==
  /\ At(p, "connect")
  /\ \/ ~database /\ UNCHANGED faults
     \/ database /\ Fault
  /\ tries' = [tries EXCEPT ![p] = @ + 1]
  /\ GoTo(p, IF tries'[p] = MaxTries THEN "failed" ELSE "connect")
  /\ UNCHANGED <<next, database, holder, tables>>

\* Mutant: nobody waits for the lock.
LockIgnored(p) ==
  /\ At(p, "lock")
  /\ GoTo(p, "table")
  /\ UNCHANGED <<tries, next, database, holder, tables, faults>>

\* pg_advisory_lock returns once the lock is free.
Lock(p) ==
  /\ At(p, "lock") /\ holder = Nobody
  /\ holder' = p
  /\ GoTo(p, "table")
  /\ UNCHANGED <<tries, next, database, tables, faults>>

\* CREATE TABLE IF NOT EXISTS schema_migrations.
EnsureTable(p) ==
  /\ At(p, "table")
  /\ GoTo(p, "check")
  /\ UNCHANGED <<tries, next, database, holder, tables, faults>>

\* SELECT EXISTS: skip what is recorded, apply what is not, until the files run out.
Check(p) ==
  /\ At(p, "check")
  /\ \/ /\ next[p] > knows[p]
        /\ GoTo(p, "return")
        /\ UNCHANGED next
     \/ /\ next[p] \in 1..knows[p] \cap recorded
        /\ next' = [next EXCEPT ![p] = @ + 1]
        /\ UNCHANGED stage
     \/ /\ next[p] \in 1..knows[p] \ recorded
        /\ GoTo(p, "apply")
        /\ UNCHANGED next
  /\ UNCHANGED <<tries, database, holder, tables, faults>>

\* Mutant: the version is recorded outside the transaction of its script.
ApplyUnrecorded(p) ==
  /\ At(p, "apply") /\ next[p] \notin recorded
  /\ schema'   = Append(schema, next[p])
  /\ recorded' \in {recorded, recorded \cup {next[p]}}
  /\ next'     = [next EXCEPT ![p] = @ + 1]
  /\ GoTo(p, "check")
  /\ UNCHANGED <<tries, database, holder, faults>>

\* The transaction of one migration: the script and its version together.  CREATE
\* TABLE, or the primary key of schema_migrations, would refuse a migration that
\* someone else has applied since the check; then it rolls back and Migrate fails.
Apply(p) ==
  LET fresh == next[p] \notin recorded
  IN  /\ At(p, "apply")
      /\ schema'   = IF fresh THEN Append(schema, next[p]) ELSE schema
      /\ recorded' = recorded \cup {next[p]}
      /\ next'     = [next EXCEPT ![p] = @ + 1]
      /\ GoTo(p, IF fresh THEN "check" ELSE "fail")
      /\ UNCHANGED <<tries, database, holder, faults>>

\* Mutants: the lock is kept; newApp ignores the error of Migrate.
UnlockForgotten(p) ==
  /\ stage[p] \in {"return", "fail"}
  /\ GoTo(p, IF At(p, "return") THEN "run" ELSE "failed")
  /\ UNCHANGED <<tries, next, database, holder, tables, faults>>

UnlockIgnoringError(p) ==
  /\ stage[p] \in {"return", "fail"}
  /\ holder' = Nobody
  /\ GoTo(p, "run")
  /\ UNCHANGED <<tries, next, database, tables, faults>>

\* The deferred pg_advisory_unlock, on a context of its own; then the process runs,
\* or it closes its pool and ends.
Unlock(p) ==
  /\ stage[p] \in {"return", "fail"}
  /\ holder' = Nobody
  /\ GoTo(p, IF At(p, "return") THEN "run" ELSE "failed")
  /\ UNCHANGED <<tries, next, database, tables, faults>>

-----------------------------------------------------------------------------
\* The database refuses a statement of Migrate.
StatementFails(p) ==
  /\ stage[p] \in {"table", "check", "apply"}
  /\ GoTo(p, "fail")
  /\ Fault
  /\ UNCHANGED <<tries, next, database, holder, tables>>

\* The connection of p breaks, or a signal cancels its context and pgx closes the
\* connection.  The statement may have been executed, and the session may hold the
\* lock until the database notices.  Only a failed unlock is ignored.
ConnectionLost(p) ==
  /\ stage[p] \in {"lock"} \cup Locked
  /\ \/ At(p, "lock") /\ holder = Nobody /\ holder' = Orphan
     \/ At(p, "lock") /\ UNCHANGED holder
     \/ stage[p] \in Locked /\ holder' = Orphan
  /\ \/ UNCHANGED tables
     \/ /\ At(p, "apply") /\ next[p] \notin recorded
        /\ schema'   = Append(schema, next[p])
        /\ recorded' = recorded \cup {next[p]}
  /\ GoTo(p, IF At(p, "return") THEN "run" ELSE "failed")
  /\ Fault
  /\ UNCHANGED <<tries, next, database>>

\* The process is killed, during its boot or later.
Killed(p) ==
  /\ stage[p] \notin {"down", "failed"}
  /\ GoTo(p, "down")
  /\ holder' = IF holder = p THEN Orphan ELSE holder
  /\ Fault
  /\ UNCHANGED <<tries, next, database, tables>>

\* The database ends a session that has lost its client.
SessionEnds ==
  /\ holder = Orphan
  /\ holder' = Nobody
  /\ UNCHANGED <<stage, tries, next, database, tables, faults>>

BootStep(p) ==
  \/ Connect(p)
  \/ ConnectFails(p)
  \/ EnsureTable(p)
  \/ Check(p)
  \/ Apply(p)
  \/ Unlock(p)

Next ==
  \/ \E p \in Processes :
       \/ Start(p) \/ BootStep(p) \/ Lock(p)
       \/ StatementFails(p) \/ ConnectionLost(p) \/ Killed(p)
  \/ DatabaseUp
  \/ SessionEnds

\* A booting process gets on, a dead session is noticed, and the waiters for an
\* advisory lock are served in turn.  Nobody has to start a process.
Fairness ==
  /\ \A p \in Processes : WF_vars(BootStep(p)) /\ SF_vars(Lock(p))
  /\ WF_vars(SessionEnds)

Spec == Init /\ [][Next]_vars /\ Fairness

-----------------------------------------------------------------------------
(* "Each in its own transaction, forward-only and idempotent" (Migrate): every *)
(* migration takes effect once and in order, and it is recorded exactly when   *)
(* it is in effect, whoever boots together, dies or loses its connection.      *)
SchemaIsRecorded ==
  /\ schema = [i \in 1..Len(schema) |-> i]
  /\ recorded = 1..Len(schema)

(* No process serves on a schema that lacks one of its migrations (newApp).    *)
RunningIsMigrated ==
  \A p \in Processes : At(p, "run") => 1..knows[p] \subseteq recorded

(* "The server and any number of worker containers can boot together"          *)
(* (Migrate): without a fault, the only boot that fails is one whose database  *)
(* did not come up in time.                                                    *)
BootsTogether ==
  faults = 0 => \A p \in Processes : At(p, "failed") => tries[p] = MaxTries

(* A boot ends: nobody waits forever for the lock of a process that has died,  *)
(* failed, or lost its connection in the middle of a migration.                *)
BootEnds ==
  \A p \in Processes :
    At(p, "connect") ~> stage[p] \in {"run", "failed", "down"}
=============================================================================
