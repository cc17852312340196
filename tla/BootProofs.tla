------------------------------ MODULE BootProofs -----------------------------
(***************************************************************************)
(* Theorems about Boot, for any number of processes, whatever migrations   *)
(* each of them knows, and any number of faults.                           *)
(***************************************************************************)
EXTENDS Boot, TLAPS

\* The advisory lock: who is past pg_advisory_lock holds it.
LockIsHeld ==
  \A p \in Processes : stage[p] \in Locked => holder = p

\* Where a process is tells which migrations are recorded.
Progress ==
  \A p \in Processes :
    /\ next[p] >= 1
    /\ stage[p] \in {"connect", "lock", "table"} => next[p] = 1
    /\ stage[p] \in {"check", "apply"} => 1..(next[p] - 1) \subseteq recorded
    /\ stage[p] = "apply" => next[p] \in 1..knows[p] \ recorded
    /\ stage[p] \in {"return", "run"} => 1..knows[p] \subseteq recorded

\* A process that still connects has attempts left.
TriesLeft ==
  \A p \in Processes : stage[p] = "connect" => tries[p] < MaxTries

\* Without a fault no statement of Migrate fails.
NoFailure ==
  faults = 0 => \A p \in Processes : stage[p] # "fail"

BootInv ==
  /\ BootTypeOK
  /\ LockIsHeld
  /\ SchemaIsRecorded
  /\ Progress
  /\ TriesLeft
  /\ NoFailure
  /\ BootsTogether

-----------------------------------------------------------------------------
(* Whoever applies a migration applies the one after the last.                 *)
LEMMA ApplyIsNext ==
  ASSUME BootInv, NEW p \in Processes, stage[p] = "apply"
  PROVE  next[p] \notin recorded /\ next[p] = Len(schema) + 1
<1>1. /\ next[p] \in Nat /\ next[p] >= 1
      /\ 1..(next[p] - 1) \subseteq recorded
      /\ next[p] \notin recorded
  BY DEF BootInv, BootTypeOK, Progress
<1>2. recorded = 1..Len(schema) /\ Len(schema) \in Nat
  BY DEF BootInv, BootTypeOK, SchemaIsRecorded
<1>3. next[p] > Len(schema)
  BY <1>1, <1>2
<1>4. next[p] - 1 <= Len(schema)
  <2>1. CASE next[p] = 1
    BY <1>2, <2>1
  <2>2. CASE next[p] > 1
    <3>1. next[p] - 1 \in 1..(next[p] - 1)
      BY <1>1, <2>2
    <3> QED
      BY <1>1, <1>2, <3>1
  <2> QED
    BY <1>1, <2>1, <2>2
<1> QED
  BY <1>1, <1>2, <1>3, <1>4

\* One more migration takes effect and is recorded.
Migrates(p) ==
  /\ schema'   = Append(schema, next[p])
  /\ recorded' = recorded \cup {next[p]}

(* The schema stays the migrations 1 to n, in order and recorded.              *)
LEMMA MigrateStep ==
  ASSUME BootInv, NEW p \in Processes, stage[p] = "apply", Migrates(p)
  PROVE  /\ schema' \in Seq(Nat)
         /\ recorded' \subseteq Nat
         /\ SchemaIsRecorded'
<1> DEFINE n == Len(schema)
<1>1. next[p] = n + 1 /\ n \in Nat
  BY ApplyIsNext DEF BootInv, BootTypeOK
<1>2. schema \in Seq(Nat) /\ schema = [i \in 1..n |-> i] /\ recorded = 1..n
  BY DEF BootInv, BootTypeOK, SchemaIsRecorded
<1>3. schema' \in Seq(Nat) /\ Len(schema') = n + 1
  BY <1>1, <1>2 DEF Migrates
<1>4. \A i \in 1..(n + 1) : schema'[i] = i
  BY <1>1, <1>2 DEF Migrates
<1>5. schema' = [i \in 1..(n + 1) |-> i]
  BY <1>3, <1>4
<1>6. recorded' = 1..(n + 1)
  BY <1>1, <1>2 DEF Migrates
<1> QED
  BY <1>3, <1>5, <1>6 DEF SchemaIsRecorded

\* What one step may do to the schema: nothing, or one migration more.
SchemaMoves ==
  \/ UNCHANGED tables
  \/ \E p \in Processes : stage[p] = "apply" /\ Migrates(p)

(* Two processes never apply the same migration, so that no transaction of     *)
(* Migrate is refused.                                                         *)
LEMMA SchemaStep ==
  ASSUME BootInv, [Next]_vars
  PROVE  SchemaMoves
<1> USE DEF SchemaMoves
<1>1. ASSUME NEW p \in Processes, Apply(p)
      PROVE  SchemaMoves
  BY <1>1, ApplyIsNext DEF Apply, At, Migrates
<1>2. ASSUME NEW p \in Processes, ConnectionLost(p)
      PROVE  SchemaMoves
  BY <1>2 DEF ConnectionLost, At, Migrates
<1>3. ASSUME NEW p \in Processes,
             \/ Start(p) \/ Connect(p) \/ ConnectFails(p) \/ EnsureTable(p) \/ Check(p)
             \/ Unlock(p) \/ Lock(p) \/ StatementFails(p) \/ Killed(p)
      PROVE  SchemaMoves
  BY <1>3 DEF Start, Connect, ConnectFails, EnsureTable, Check, Unlock, Lock, StatementFails, Killed
<1>4. CASE DatabaseUp \/ SessionEnds \/ UNCHANGED vars
  BY <1>4 DEF DatabaseUp, SessionEnds, vars, tables
<1> QED
  BY <1>1, <1>2, <1>3, <1>4 DEF Next, BootStep

(* The schema grows, and stays recorded.                                       *)
LEMMA SchemaGrows ==
  ASSUME BootInv, [Next]_vars
  PROVE  /\ schema' \in Seq(Nat)
         /\ recorded' \subseteq Nat
         /\ SchemaIsRecorded'
         /\ recorded \subseteq recorded'
<1>1. CASE UNCHANGED tables
  BY <1>1 DEF tables, BootInv, BootTypeOK, SchemaIsRecorded
<1>2. ASSUME NEW p \in Processes, stage[p] = "apply", Migrates(p)
      PROVE  /\ schema' \in Seq(Nat)
             /\ recorded' \subseteq Nat
             /\ SchemaIsRecorded'
             /\ recorded \subseteq recorded'
  BY <1>2, MigrateStep DEF Migrates
<1> QED
  BY <1>1, <1>2, SchemaStep DEF SchemaMoves

-----------------------------------------------------------------------------
(* One fault more stays within the bound.                                      *)
LEMMA FaultCounts ==
  ASSUME BootTypeOK, Fault
  PROVE  faults' \in 0..MaxFaults /\ faults' # 0
BY BootAssumption DEF BootTypeOK, Fault

(* The loop of Migrate counts.                                                 *)
LEMMA NextCounts ==
  ASSUME BootTypeOK, NEW p \in Processes, next' = next \/ next' = [next EXCEPT ![p] = @ + 1]
  PROVE  next' \in [Processes -> Nat]
BY DEF BootTypeOK

(* Everything keeps its type.                                                  *)
LEMMA BootTypesStep ==
  ASSUME BootInv, [Next]_vars
  PROVE  BootTypeOK'
<1>0. schema' \in Seq(Nat) /\ recorded' \subseteq Nat
  BY SchemaGrows
<1> USE <1>0, BootAssumption DEF BootInv, BootTypeOK, At, GoTo, Stages, Locked
<1>1. ASSUME NEW p \in Processes, Start(p)
      PROVE  BootTypeOK'
  BY <1>1 DEF Start
<1>2. ASSUME NEW p \in Processes, Connect(p) \/ EnsureTable(p) \/ Check(p)
      PROVE  BootTypeOK'
  <2>1. CASE Connect(p) \/ EnsureTable(p)
    BY <2>1 DEF Connect, EnsureTable
  <2>2. CASE Check(p)
    <3>1. stage' \in [Processes -> Stages]
      BY <2>2 DEF Check
    <3>2. next' = next \/ next' = [next EXCEPT ![p] = @ + 1]
      BY <2>2 DEF Check
    <3>3. next' \in [Processes -> Nat]
      BY <3>2, NextCounts
    <3> QED
      BY <2>2, <3>1, <3>3 DEF Check
  <2> QED
    BY <1>2, <2>1, <2>2
<1>3. ASSUME NEW p \in Processes, ConnectFails(p)
      PROVE  BootTypeOK'
  <2>1. faults' \in 0..MaxFaults
    BY <1>3, FaultCounts DEF ConnectFails
  <2>2. tries[p] < MaxTries
    BY <1>3 DEF ConnectFails, TriesLeft
  <2> QED
    BY <1>3, <2>1, <2>2 DEF ConnectFails
<1>4. ASSUME NEW p \in Processes, Apply(p)
      PROVE  BootTypeOK'
  BY <1>4 DEF Apply
<1>5. ASSUME NEW p \in Processes, Unlock(p) \/ Lock(p)
      PROVE  BootTypeOK'
  BY <1>5 DEF Unlock, Lock
<1>6. ASSUME NEW p \in Processes, StatementFails(p) \/ ConnectionLost(p) \/ Killed(p)
      PROVE  BootTypeOK'
  <2>1. faults' \in 0..MaxFaults
    BY <1>6, FaultCounts DEF StatementFails, ConnectionLost, Killed
  <2> QED
    BY <1>6, <2>1 DEF StatementFails, ConnectionLost, Killed
<1>7. CASE DatabaseUp \/ SessionEnds \/ UNCHANGED vars
  BY <1>7 DEF DatabaseUp, SessionEnds, vars
<1> QED
  BY <1>1, <1>2, <1>3, <1>4, <1>5, <1>6, <1>7 DEF Next, BootStep

(* Mutual exclusion: no step takes the lock from a process that is past it.    *)
LEMMA LockStep ==
  ASSUME BootInv, [Next]_vars
  PROVE  LockIsHeld'
<1> USE BootAssumption DEF BootInv, BootTypeOK, LockIsHeld, At, GoTo, Locked
<1>1. ASSUME NEW p \in Processes, Start(p) \/ Connect(p) \/ ConnectFails(p)
      PROVE  LockIsHeld'
  BY <1>1 DEF Start, Connect, ConnectFails
<1>2. ASSUME NEW p \in Processes, EnsureTable(p) \/ Check(p)
      PROVE  LockIsHeld'
  BY <1>2 DEF EnsureTable, Check
<1>3. ASSUME NEW p \in Processes, Apply(p)
      PROVE  LockIsHeld'
  BY <1>3 DEF Apply
<1>4. ASSUME NEW p \in Processes, Lock(p)
      PROVE  LockIsHeld'
  BY <1>4 DEF Lock
<1>5. ASSUME NEW p \in Processes, Unlock(p)
      PROVE  LockIsHeld'
  BY <1>5 DEF Unlock
<1>6. ASSUME NEW p \in Processes, StatementFails(p)
      PROVE  LockIsHeld'
  BY <1>6 DEF StatementFails
<1>7. ASSUME NEW p \in Processes, ConnectionLost(p)
      PROVE  LockIsHeld'
  BY <1>7 DEF ConnectionLost
<1>8. ASSUME NEW p \in Processes, Killed(p)
      PROVE  LockIsHeld'
  BY <1>8 DEF Killed
<1>9. CASE DatabaseUp \/ SessionEnds \/ UNCHANGED vars
  BY <1>9 DEF DatabaseUp, SessionEnds, vars
<1> QED
  BY <1>1, <1>2, <1>3, <1>4, <1>5, <1>6, <1>7, <1>8, <1>9 DEF Next, BootStep

\* What Progress says of one process.
ProgressOf(p) ==
  /\ next[p] >= 1
  /\ stage[p] \in {"connect", "lock", "table"} => next[p] = 1
  /\ stage[p] \in {"check", "apply"} => 1..(next[p] - 1) \subseteq recorded
  /\ stage[p] = "apply" => next[p] \in 1..knows[p] \ recorded
  /\ stage[p] \in {"return", "run"} => 1..knows[p] \subseteq recorded

\* A step of p, as the other processes see it.
Alone(p) ==
  /\ \A q \in Processes \ {p} : stage'[q] = stage[q] /\ next'[q] = next[q]
  /\ UNCHANGED tables \/ (stage[p] = "apply" /\ Migrates(p))

(* A step of p does not disturb what is known of another process: the schema   *)
(* grows, and while p applies a migration nobody else is about to.             *)
LEMMA OthersProgress ==
  ASSUME BootInv, [Next]_vars, NEW p \in Processes, Alone(p), ProgressOf(p)'
  PROVE  Progress'
<1> SUFFICES ASSUME NEW q \in Processes \ {p}
             PROVE  ProgressOf(q)'
  BY DEF Progress, ProgressOf
<1>1. recorded \subseteq recorded'
  BY SchemaGrows
<1>2. ProgressOf(q)
  BY DEF BootInv, Progress, ProgressOf
<1>3. stage'[q] = stage[q] /\ next'[q] = next[q]
  BY DEF Alone
<1>4. stage[q] = "apply" => UNCHANGED recorded
  BY DEF Alone, tables, BootInv, LockIsHeld, Locked
<1> QED
  BY <1>1, <1>2, <1>3, <1>4 DEF ProgressOf

(* The loop of Migrate does not miss a migration.                              *)
LEMMA ProgressStep ==
  ASSUME BootInv, [Next]_vars
  PROVE  Progress'
<1> USE DEF BootInv, BootTypeOK, At, GoTo
<1>0. \A p \in Processes : ProgressOf(p)
  BY DEF Progress, ProgressOf
<1>1. ASSUME NEW p \in Processes, Start(p) \/ Connect(p) \/ ConnectFails(p) \/ Lock(p)
      PROVE  Alone(p) /\ ProgressOf(p)'
  BY <1>0, <1>1 DEF Start, Connect, ConnectFails, Lock, Alone, ProgressOf, tables
<1>2. ASSUME NEW p \in Processes, EnsureTable(p)
      PROVE  Alone(p) /\ ProgressOf(p)'
  BY <1>0, <1>2 DEF EnsureTable, Alone, ProgressOf, tables
<1>3. ASSUME NEW p \in Processes, Check(p)
      PROVE  Alone(p) /\ ProgressOf(p)'
  <2>1. /\ stage[p] = "check" /\ next[p] \in Nat /\ next[p] >= 1 /\ knows[p] \in Nat
        /\ 1..(next[p] - 1) \subseteq recorded
    BY <1>0, <1>3, BootAssumption DEF Check, ProgressOf
  <2>2. Alone(p) /\ UNCHANGED recorded
    BY <1>3 DEF Check, Alone, tables
  <2>3. CASE next[p] > knows[p] /\ GoTo(p, "return") /\ UNCHANGED next
    <3>1. 1..knows[p] \subseteq recorded
      BY <2>1, <2>3
    <3> QED
      BY <2>1, <2>2, <2>3, <3>1 DEF ProgressOf
  <2>4. CASE next[p] \in 1..knows[p] \cap recorded /\ next' = [next EXCEPT ![p] = @ + 1]
             /\ UNCHANGED stage
    <3>1. 1..(next'[p] - 1) \subseteq recorded
      BY <2>1, <2>4
    <3> QED
      BY <2>1, <2>2, <2>4, <3>1 DEF ProgressOf
  <2>5. CASE next[p] \in 1..knows[p] \ recorded /\ GoTo(p, "apply") /\ UNCHANGED next
    BY <2>1, <2>2, <2>5 DEF ProgressOf
  <2> QED
    BY <1>3, <2>2, <2>3, <2>4, <2>5 DEF Check
<1>4. ASSUME NEW p \in Processes, Apply(p)
      PROVE  Alone(p) /\ ProgressOf(p)'
  <2>1. /\ stage[p] = "apply" /\ next[p] \in Nat /\ next[p] >= 1
        /\ 1..(next[p] - 1) \subseteq recorded
        /\ next[p] \notin recorded
    BY <1>0, <1>4, ApplyIsNext DEF Apply, ProgressOf
  <2>2. /\ Migrates(p)
        /\ stage' = [stage EXCEPT ![p] = "check"]
        /\ next' = [next EXCEPT ![p] = @ + 1]
    BY <1>4, <2>1 DEF Apply, Migrates
  <2>3. 1..(next'[p] - 1) \subseteq recorded'
    BY <2>1, <2>2 DEF Migrates
  <2> QED
    BY <2>1, <2>2, <2>3 DEF Alone, ProgressOf
<1>5. ASSUME NEW p \in Processes, Unlock(p) \/ StatementFails(p) \/ Killed(p)
      PROVE  Alone(p) /\ ProgressOf(p)'
  BY <1>0, <1>5 DEF Unlock, StatementFails, Killed, Alone, ProgressOf, tables
<1>6. ASSUME NEW p \in Processes, ConnectionLost(p)
      PROVE  Alone(p) /\ ProgressOf(p)'
  <2>1. /\ stage' = [stage EXCEPT ![p] = IF stage[p] = "return" THEN "run" ELSE "failed"]
        /\ UNCHANGED next
        /\ UNCHANGED tables \/ (stage[p] = "apply" /\ Migrates(p))
    BY <1>6 DEF ConnectionLost, Migrates
  <2>2. stage[p] = "return" => 1..knows[p] \subseteq recorded'
    BY <1>0, <2>1, SchemaGrows DEF ProgressOf
  <2> QED
    BY <1>0, <2>1, <2>2 DEF Alone, ProgressOf
<1>7. CASE DatabaseUp \/ SessionEnds \/ UNCHANGED vars
  BY <1>0, <1>7 DEF DatabaseUp, SessionEnds, vars, tables, Progress, ProgressOf
<1> QED
  BY <1>1, <1>2, <1>3, <1>4, <1>5, <1>6, <1>7, OthersProgress DEF Next, BootStep

(* Attempts run out only in a boot that fails for it, and nothing else fails   *)
(* without a fault.                                                            *)
LEMMA FailuresStep ==
  ASSUME BootInv, [Next]_vars
  PROVE  TriesLeft' /\ NoFailure' /\ BootsTogether'
<1> USE BootAssumption DEF BootInv, BootTypeOK, TriesLeft, NoFailure, BootsTogether, At, GoTo
<1>1. ASSUME NEW p \in Processes, Start(p) \/ Connect(p) \/ EnsureTable(p) \/ Lock(p)
      PROVE  TriesLeft' /\ NoFailure' /\ BootsTogether'
  <2>1. CASE Start(p)
    BY <2>1 DEF Start
  <2>2. CASE Connect(p) \/ EnsureTable(p) \/ Lock(p)
    BY <2>2 DEF Connect, EnsureTable, Lock
  <2> QED
    BY <1>1, <2>1, <2>2
<1>2. ASSUME NEW p \in Processes, ConnectFails(p)
      PROVE  TriesLeft' /\ NoFailure' /\ BootsTogether'
  <2>1. /\ stage[p] = "connect" /\ tries[p] < MaxTries
        /\ tries' = [tries EXCEPT ![p] = @ + 1]
        /\ stage' = [stage EXCEPT ![p] = IF tries[p] + 1 = MaxTries THEN "failed" ELSE "connect"]
        /\ faults' = 0 => faults = 0
    BY <1>2, FaultCounts DEF ConnectFails
  <2>2. TriesLeft'
    BY <2>1
  <2>3. NoFailure'
    BY <2>1
  <2>4. BootsTogether'
    BY <2>1
  <2> QED
    BY <2>2, <2>3, <2>4
<1>3. ASSUME NEW p \in Processes, Check(p)
      PROVE  TriesLeft' /\ NoFailure' /\ BootsTogether'
  <2>1. /\ UNCHANGED <<tries, faults>>
        /\ \A q \in Processes : stage'[q] \in {stage[q], "return", "apply"}
    BY <1>3 DEF Check
  <2> QED
    BY <2>1
<1>4. ASSUME NEW p \in Processes, Apply(p)
      PROVE  TriesLeft' /\ NoFailure' /\ BootsTogether'
  <2>1. stage' = [stage EXCEPT ![p] = "check"] /\ UNCHANGED <<tries, faults>>
    BY <1>4, ApplyIsNext DEF Apply
  <2> QED
    BY <2>1
<1>5. ASSUME NEW p \in Processes, Unlock(p)
      PROVE  TriesLeft' /\ NoFailure' /\ BootsTogether'
  BY <1>5 DEF Unlock
<1>6. ASSUME NEW p \in Processes, StatementFails(p) \/ ConnectionLost(p) \/ Killed(p)
      PROVE  TriesLeft' /\ NoFailure' /\ BootsTogether'
  <2>1. faults' # 0
    BY <1>6, FaultCounts DEF StatementFails, ConnectionLost, Killed
  <2>2. TriesLeft'
    BY <1>6 DEF StatementFails, ConnectionLost, Killed
  <2> QED
    BY <2>1, <2>2
<1>7. CASE DatabaseUp \/ SessionEnds \/ UNCHANGED vars
  BY <1>7 DEF DatabaseUp, SessionEnds, vars
<1> QED
  BY <1>1, <1>2, <1>3, <1>4, <1>5, <1>6, <1>7 DEF Next, BootStep

-----------------------------------------------------------------------------
(* The inductive invariant of the boot.                                        *)
THEOREM BootInvariance == Spec => []BootInv
<1>1. Init => BootInv
  <2> SUFFICES ASSUME Init
               PROVE  BootInv
    OBVIOUS
  <2> USE BootAssumption DEF Init
  <2>1. BootTypeOK
    <3>1. tries \in [Processes -> 0..MaxTries] /\ faults \in 0..MaxFaults
      OBVIOUS
    <3>2. stage \in [Processes -> Stages] /\ next \in [Processes -> Nat]
      BY DEF Stages
    <3>3. /\ holder \in Processes \cup {Nobody, Orphan}
          /\ schema \in Seq(Nat)
          /\ recorded \subseteq Nat
      OBVIOUS
    <3>4. database \in BOOLEAN
      BY Zenon
    <3> QED
      BY <3>1, <3>2, <3>3, <3>4 DEF BootTypeOK
  <2>2. SchemaIsRecorded
    BY DEF SchemaIsRecorded
  <2>3. LockIsHeld /\ Progress /\ TriesLeft /\ NoFailure /\ BootsTogether
    BY DEF LockIsHeld, Locked, Progress, TriesLeft, NoFailure, BootsTogether, At
  <2> QED
    BY <2>1, <2>2, <2>3 DEF BootInv
<1>2. BootInv /\ [Next]_vars => BootInv'
  BY BootTypesStep, LockStep, SchemaGrows, ProgressStep, FailuresStep DEF BootInv
<1> QED
  BY <1>1, <1>2, PTL DEF Spec

(* The state of a boot is well typed; connectWithRetry never counts beyond its *)
(* number of attempts.                                                         *)
THEOREM BootTypeCorrect == Spec => []BootTypeOK
<1>1. BootInv => BootTypeOK
  BY DEF BootInv
<1> QED
  BY <1>1, BootInvariance, PTL

(* Every migration takes effect once and in order, and is recorded exactly     *)
(* when it is in effect, whoever boots together, dies or loses its connection. *)
THEOREM MigrationsAreExact == Spec => []SchemaIsRecorded
<1>1. BootInv => SchemaIsRecorded
  BY DEF BootInv
<1> QED
  BY <1>1, BootInvariance, PTL

(* No process serves on a schema that lacks one of its migrations.             *)
THEOREM ServingIsMigrated == Spec => []RunningIsMigrated
<1>1. BootInv => RunningIsMigrated
  BY DEF BootInv, Progress, RunningIsMigrated, At
<1> QED
  BY <1>1, BootInvariance, PTL

(* Any number of processes can boot together: without a fault, the only boot   *)
(* that fails is one whose database did not come up in time.                   *)
THEOREM BootsDoNotCollide == Spec => []BootsTogether
<1>1. BootInv => BootsTogether
  BY DEF BootInv
<1> QED
  BY <1>1, BootInvariance, PTL
=============================================================================
