----------------------------- MODULE LeaseProofs -----------------------------
(***************************************************************************)
(* Theorems about Lease, for every value of its constants.                 *)
(***************************************************************************)
EXTENDS Lease, ServiceProofs

-----------------------------------------------------------------------------
(* Without its timers, a step of Lease is a step of Service.                   *)
LEMMA TimedIsService ==
  ASSUME [TimedNext]_timedvars
  PROVE  [Next]_vars
<1>1. CASE Timed
  <2>1. ASSUME NEW w \in Workers, WorkerNext(w)
        PROVE  QueueNext(w) \/ HandlerNext(w)
    BY <2>1 DEF WorkerNext, QueueNext, WorkerStep
  <2> QED
    BY <1>1, <2>1 DEF Timed, PlainNext, Next
<1>2. ASSUME NEW w \in Workers, Reschedule(w)
      PROVE  Next
  <2>1. QueueNext(w)
    BY <1>2 DEF Reschedule, QueueNext, WorkerStep
  <2> QED
    BY <2>1 DEF Next
<1>3. ASSUME NEW h \in Hashes, Expire(h)
      PROVE  Next
  BY <1>3 DEF Expire, Next
<1>4. CASE Advance
  BY <1>4 DEF Advance
<1>5. CASE UNCHANGED timedvars
  BY <1>5 DEF timedvars
<1> QED
  BY <1>1, <1>2, <1>3, <1>4, <1>5 DEF TimedNext

(* The service with a clock implements the service without one, so that the    *)
(* theorems on Service hold of it.                                             *)
THEOREM TimedImplementsService == TimedSpec => Spec
<1>1. TimedInit => Init
  BY DEF TimedInit
<1>2. [TimedNext]_timedvars => [Next]_vars
  BY TimedIsService
<1> QED
  BY <1>1, <1>2, PTL DEF TimedSpec, Spec

-----------------------------------------------------------------------------
\* A job in hand is held under a lease that started with its timer, and alone.
Held(w) ==
  /\ status[job[w]] = "PROCESSING"
  /\ lease_until[job[w]] = "live"
  /\ tries[w] = attempts[job[w]]
  /\ held[w] <= MaxHandle
  /\ left[job[w]] + held[w] = LeaseTime
  /\ \A v \in Workers : job[v] = job[w] => v = w

TimerTypes ==
  /\ left \in [Hashes -> Int]
  /\ held \in [Workers -> Nat]

LeaseInv ==
  /\ TimerTypes
  /\ \A w \in Workers : job[w] # NoJob => Held(w)

\* Row h and its lease are left alone.
RowKept(h) ==
  /\ status'[h] = status[h]
  /\ lease_until'[h] = lease_until[h]
  /\ attempts'[h] = attempts[h]

(* A step keeps LeaseInv if no worker takes up a job and the row of everyone   *)
(* who goes on with one is left alone, with its timers.                        *)
LEMMA LeaseKept ==
  ASSUME Types, LeaseInv, TimerTypes',
         \A w \in Workers : job'[w] # NoJob =>
           /\ job'[w] = job[w] /\ tries'[w] = tries[w] /\ held'[w] = held[w]
           /\ RowKept(job[w]) /\ left'[job[w]] = left[job[w]]
  PROVE  LeaseInv'
<1> SUFFICES ASSUME NEW w \in Workers, job'[w] # NoJob
             PROVE  Held(w)'
  BY DEF LeaseInv
<1>1. /\ job'[w] = job[w] /\ tries'[w] = tries[w] /\ held'[w] = held[w]
      /\ RowKept(job[w]) /\ left'[job[w]] = left[job[w]]
  OBVIOUS
<1>2. Held(w)
  BY <1>1 DEF LeaseInv
<1>3. \A v \in Workers : job'[v] = job'[w] => v = w
  BY <1>1, <1>2 DEF Held
<1> QED
  BY <1>1, <1>2, <1>3 DEF Held, RowKept

(* The timers stay numbers.                                                    *)
LEMMA TimerTypesStep ==
  ASSUME Types, BusyHasJob, TimerTypes, [TimedNext]_timedvars
  PROVE  TimerTypes'
<1> USE DurationsAssumption DEF TimerTypes
<1>1. CASE Timed
  BY <1>1 DEF Timed, HeldRestarts, LeaseRestarts
<1>2. ASSUME NEW w \in Workers, Reschedule(w)
      PROVE  TimerTypes'
  <2>1. PICK d \in backoff(tries[w]) : left' = [left EXCEPT ![job[w]] = d]
    BY <1>2 DEF Reschedule
  <2>2. d \in Int
    BY <2>1 DEF backoff, Jitter
  <2> QED
    BY <1>2, <2>1, <2>2 DEF Reschedule, HeldRestarts
<1>3. ASSUME NEW h \in Hashes, Expire(h)
      PROVE  TimerTypes'
  BY <1>3 DEF Expire
<1>4. CASE Advance
  BY <1>4 DEF Advance
<1>5. CASE UNCHANGED timedvars
  BY <1>5 DEF timedvars, timers
<1> QED
  BY <1>1, <1>2, <1>3, <1>4, <1>5 DEF TimedNext

(* In a step of Timed the timers of a worker that goes on with its job run on, *)
(* if the row keeps its lease.                                                 *)
LEMMA TimersKept ==
  ASSUME Types, LeaseInv, Timed,
         NEW w \in Workers, job'[w] = job[w], job[w] # NoJob, RowKept(job[w])
  PROVE  held'[w] = held[w] /\ left'[job[w]] = left[job[w]]
<1>1. job[w] \in Hashes /\ lease_until[job[w]] = "live"
  BY DEF Types, TypeOK, PoolTypeOK, LeaseInv, Held
<1> QED
  BY <1>1 DEF Timed, HeldRestarts, LeaseRestarts, RowKept

(* A plain step keeps LeaseInv if nobody takes up a job, and everyone who goes *)
(* on with one finds the row as it was.                                        *)
LEMMA PlainKept ==
  ASSUME Types, LeaseInv, TimerTypes', Timed,
         \A w \in Workers : job'[w] # NoJob =>
           job'[w] = job[w] /\ tries'[w] = tries[w] /\ RowKept(job[w])
  PROVE  LeaseInv'
<1>1. \A w \in Workers : job'[w] # NoJob => held'[w] = held[w] /\ left'[job[w]] = left[job[w]]
  BY TimersKept
<1> QED
  BY <1>1, LeaseKept

(* Nobody holds a row that may be claimed: this is what a lease is for.        *)
LEMMA ClaimableIsFree ==
  ASSUME LeaseInv, NEW h \in Hashes, Claimable(h)
  PROVE  \A w \in Workers : job[w] # h
BY WorkersAssumption DEF LeaseInv, Held, Claimable

(* A claim touches no row but the one it takes.                                *)
LEMMA ClaimRowKeeps ==
  ASSUME Types, NEW h \in Hashes, ClaimRow(h), NEW g \in Hashes \ {h}
  PROVE  RowKept(g)
BY DEF Types, TypeOK, QueueTypeOK, ClaimRow, RowKept

(* A claim starts a lease and a timer together.                                *)
LEMMA ClaimLeases ==
  ASSUME Types, BusyHasJob, LeaseInv, TimerTypes', Timed, NEW w \in Workers, Claim(w)
  PROVE  LeaseInv'
<1>0. /\ job \in [Workers -> Hashes \cup {NoJob}]
      /\ tries \in [Workers -> Nat]
      /\ status \in [Hashes -> Stored \cup {Absent}]
      /\ attempts \in [Hashes -> Nat]
      /\ lease_until \in [Hashes -> Leases]
  BY DEF Types, TypeOK, PoolTypeOK, QueueTypeOK
<1>1. PICK h \in Hashes :
        /\ Claimable(h)
        /\ ClaimRow(h)
        /\ job'   = [job EXCEPT ![w] = h]
        /\ tries' = [tries EXCEPT ![w] = attempts'[h]]
  BY DEF Claim, Selected
<1>2. job[w] = NoJob
  BY DEF Claim, BusyHasJob, Busy, Outcomes
<1>3. \A v \in Workers : job[v] # h
  BY <1>1, ClaimableIsFree
<1>4. /\ status'[h] = "PROCESSING" /\ lease_until'[h] = "live"
      /\ attempts'[h] = attempts[h] + 1 /\ attempts'[h] # attempts[h]
  BY <1>0, <1>1 DEF ClaimRow
<1>5. left'[h] = LeaseTime /\ held'[w] = 0
  BY <1>0, <1>1, <1>2, <1>4, WorkersAssumption DEF Timed, LeaseRestarts, HeldRestarts
<1>6. Held(w)'
  BY <1>0, <1>1, <1>3, <1>4, <1>5, DurationsAssumption DEF Held
<1>7. ASSUME NEW v \in Workers \ {w}, job'[v] # NoJob
      PROVE  Held(v)'
  <2>1. job'[v] = job[v] /\ tries'[v] = tries[v] /\ job[v] \in Hashes \ {h}
    BY <1>0, <1>1, <1>3, <1>7
  <2>2. RowKept(job[v])
    BY <1>1, <2>1, ClaimRowKeeps
  <2>3. held'[v] = held[v] /\ left'[job[v]] = left[job[v]]
    BY <1>7, <2>1, <2>2, TimersKept
  <2>4. Held(v)
    BY <1>7, <2>1 DEF LeaseInv
  <2>5. \A u \in Workers : job'[u] = job'[v] => u = v
    BY <1>0, <1>1, <2>1, <2>4 DEF Held
  <2> QED
    BY <2>1, <2>2, <2>3, <2>4, <2>5 DEF Held, RowKept
<1> QED
  BY <1>6, <1>7 DEF LeaseInv

\* What a closing statement for row h leaves alone: every other row.
OnlyRow(h) == \A g \in Hashes \ {h} : RowKept(g)

(* A worker that puts down its job may do to the row what it likes: it was the *)
(* only one to hold it.                                                        *)
LEMMA ClosingKeeps ==
  ASSUME Types, BusyHasJob, LeaseInv, TimerTypes', Timed, NEW w \in Workers,
         Busy(w), Release(w), OnlyRow(job[w])
  PROVE  LeaseInv'
<1>1. job \in [Workers -> Hashes \cup {NoJob}] /\ tries \in [Workers -> Nat]
  BY DEF Types, TypeOK, PoolTypeOK
<1>2. job[w] \in Hashes
  BY DEF BusyHasJob
<1>3. \A v \in Workers : job[v] = job[w] => v = w
  BY <1>2, WorkersAssumption DEF LeaseInv, Held
<1>4. ASSUME NEW v \in Workers, job'[v] # NoJob
      PROVE  job'[v] = job[v] /\ tries'[v] = tries[v] /\ RowKept(job[v])
  BY <1>1, <1>3, <1>4 DEF Release, OnlyRow
<1> QED
  BY <1>4, PlainKept

(* The closing statements are keyed by id.                                     *)
LEMMA ClosedRow ==
  ASSUME Types, NEW h \in Hashes, NEW reason, MarkProcessed(h) \/ FailRow(h, reason)
  PROVE  OnlyRow(h)
BY DEF Types, TypeOK, QueueTypeOK, MarkProcessed, FailRow, OnlyRow, RowKept

(* A step of a request disturbs no lease.                                      *)
LEMMA RequestKeeps ==
  ASSUME Types, LeaseInv, TimerTypes', Timed, NEW r \in Requests, RequestNext(r)
  PROVE  LeaseInv'
<1>1. UNCHANGED <<pc, job, tries>>
  BY DEF RequestNext, pool
<1>2. ASSUME NEW h \in Hashes, status[h] # Absent
      PROVE  RowKept(h)
  <2> USE DEF RowKept, raw_events
  <2>1. ASSUME NEW g \in Hashes, InsertRaw(g)
        PROVE  RowKept(h)
    BY <1>2, <2>1 DEF InsertRaw, Types, TypeOK, QueueTypeOK
  <2>2. CASE InsertNew(r) \/ InsertError(r)
    <3>1. CASE InsertRaw(body[r])
      BY <2>1, <3>1 DEF InsertRaw
    <3>2. CASE UNCHANGED raw_events
      BY <3>2
    <3> QED
      BY <2>2, <3>1, <3>2 DEF InsertNew, InsertError
  <2>3. CASE \/ Receive(r) \/ InsertRefused(r) \/ InsertConflict(r) \/ Lookup(r)
             \/ NotifyAndAck(r) \/ LookupError(r)
    BY <2>3 DEF Receive, InsertRefused, InsertConflict, Lookup, NotifyAndAck, LookupError
  <2> QED
    BY <2>2, <2>3 DEF RequestNext, RequestStep, RequestFault
<1>3. ASSUME NEW w \in Workers, job'[w] # NoJob
      PROVE  job'[w] = job[w] /\ tries'[w] = tries[w] /\ RowKept(job[w])
  <2>1. job'[w] = job[w] /\ tries'[w] = tries[w]
    BY <1>1
  <2>2. job[w] \in Hashes /\ status[job[w]] # Absent
    BY <1>3, <2>1 DEF Types, TypeOK, PoolTypeOK, LeaseInv, Held, Absent
  <2> QED
    BY <1>2, <2>1, <2>2
<1> QED
  BY <1>3, PlainKept

(* So is a step of a worker: it claims a row that nobody holds, or closes one  *)
(* that nobody else does.                                                      *)
LEMMA WorkerKeeps ==
  ASSUME Types, BusyHasJob, LeaseInv, TimerTypes', Timed, NEW w \in Workers, WorkerNext(w)
  PROVE  LeaseInv'
<1> USE DEF Outcomes
<1>1. CASE Claim(w)
  BY <1>1, ClaimLeases
<1>2. CASE ClaimLost(w)
  <2>1. PICK h \in Hashes : Claimable(h) /\ ClaimRow(h)
    BY <1>2 DEF ClaimLost, Selected
  <2>2. UNCHANGED <<job, tries>>
    BY <1>2 DEF ClaimLost
  <2>3. ASSUME NEW v \in Workers, job'[v] # NoJob
        PROVE  job'[v] = job[v] /\ tries'[v] = tries[v] /\ RowKept(job[v])
    <3>1. job[v] \in Hashes \ {h}
      BY <2>1, <2>2, <2>3, ClaimableIsFree DEF Types, TypeOK, PoolTypeOK
    <3> QED
      BY <2>1, <2>2, <3>1, ClaimRowKeeps
  <2> QED
    BY <2>3, PlainKept
<1>3. CASE Ack(w) \/ Fail(w) \/ (Retry(w) /\ tries[w] >= MaxAttempts)
  <2>1. Busy(w) /\ Release(w)
    BY <1>3 DEF Ack, Fail, Retry, Busy
  <2>2. job[w] \in Hashes
    BY <2>1 DEF BusyHasJob
  <2>3. MarkProcessed(job[w]) \/ \E reason \in Reasons : FailRow(job[w], reason)
    <3>1. CASE Ack(w)
      BY <3>1 DEF Ack
    <3>2. CASE Fail(w)
      BY <3>2 DEF Fail, Reasons
    <3>3. CASE Retry(w) /\ tries[w] >= MaxAttempts
      <4>1. tries[w] \in Nat /\ MaxAttempts \in Nat
        BY MaxAttemptsAssumption DEF Types, TypeOK, PoolTypeOK
      <4>2. ~(tries[w] < MaxAttempts)
        BY <3>3, <4>1
      <4> QED
        BY <3>3, <4>2 DEF Retry, RetryOrFail, Reasons
    <3> QED
      BY <1>3, <3>1, <3>2, <3>3
  <2> QED
    BY <2>1, <2>2, <2>3, ClosedRow, ClosingKeeps
<1>4. CASE ClosingLost(w)
  <2>1. Busy(w) /\ Release(w) /\ UNCHANGED raw_events
    BY <1>4 DEF ClosingLost, Busy
  <2> QED
    BY <2>1, ClosingKeeps DEF OnlyRow, RowKept, raw_events
<1>5. CASE \/ HandlerNext(w) \/ ClaimEmpty(w) \/ ClaimFails(w)
           \/ Wake(w) \/ Poll(w) \/ Resume(w) \/ Leave(w)
  <2>1. UNCHANGED <<raw_events, job, tries>>
    BY <1>5 DEF HandlerNext, HandlerReturns, ClaimEmpty, ClaimFails, Wake, Poll, Resume, Leave
  <2> QED
    BY <2>1, PlainKept DEF RowKept, raw_events
<1> QED
  BY <1>1, <1>2, <1>3, <1>4, <1>5 DEF WorkerNext, WorkerFault

(* A plain step keeps LeaseInv.                                                *)
LEMMA PlainStepKeeps ==
  ASSUME Types, BusyHasJob, LeaseInv, TimerTypes', Timed
  PROVE  LeaseInv'
<1>1. ASSUME NEW r \in Requests, RequestNext(r)
      PROVE  LeaseInv'
  BY <1>1, RequestKeeps
<1>2. ASSUME NEW w \in Workers, WorkerNext(w)
      PROVE  LeaseInv'
  BY <1>2, WorkerKeeps
<1>3. ASSUME NEW p \in Processes, Stop(p) \/ Exit(p) \/ Restart(p)
      PROVE  LeaseInv'
  <2>1. UNCHANGED <<raw_events, job, tries>>
    BY <1>3 DEF Stop, Exit, Restart, StartWorkers, pool
  <2> QED
    BY <2>1, PlainKept DEF RowKept, raw_events
<1>4. ASSUME NEW p \in Processes, Crash(p)
      PROVE  LeaseInv'
  <2>1. UNCHANGED raw_events
    BY <1>4 DEF Crash
  <2>2. \A w \in Workers : job'[w] # NoJob => job'[w] = job[w] /\ tries'[w] = tries[w]
    BY <1>4 DEF Crash, DropWorkers
  <2> QED
    BY <2>1, <2>2, PlainKept DEF RowKept, raw_events
<1> QED
  BY <1>1, <1>2, <1>3, <1>4 DEF Timed, PlainNext

(* LeaseInv is inductive.  Where a handler never outlasts the lease, time      *)
(* cannot run out on a row that is held; that is all the hypothesis is for.    *)
LEMMA LeaseStep ==
  ASSUME MaxHandle <= LeaseTime,
         Types, BusyHasJob, LeaseInv, [TimedNext]_timedvars
  PROVE  LeaseInv'
<1>0. /\ TimerTypes /\ TimerTypes'
      /\ job \in [Workers -> Hashes \cup {NoJob}]
      /\ LeaseTime \in Nat /\ MaxHandle \in Nat
  BY TimerTypesStep, DurationsAssumption DEF LeaseInv, Types, TypeOK, PoolTypeOK
<1>1. CASE Timed
  BY <1>0, <1>1, PlainStepKeeps
<1>2. ASSUME NEW w \in Workers, Reschedule(w)
      PROVE  LeaseInv'
  <2>1. Busy(w) /\ Release(w)
    BY <1>2 DEF Reschedule, Retry, Busy, Outcomes
  <2>2. job[w] \in Hashes /\ tries \in [Workers -> Nat]
    BY <2>1 DEF BusyHasJob, Types, TypeOK, PoolTypeOK
  <2>3. \A v \in Workers : job[v] = job[w] => v = w
    BY <2>2, WorkersAssumption DEF LeaseInv, Held
  <2>4. ASSUME NEW g \in Hashes \ {job[w]}
        PROVE  RowKept(g) /\ left'[g] = left[g]
    <3>1. tries[w] < MaxAttempts /\ RetryOrFail(job[w], tries[w])
      BY <1>2 DEF Reschedule, Retry
    <3>2. ~(tries[w] >= MaxAttempts)
      BY <2>2, <3>1, MaxAttemptsAssumption
    <3>3. RowKept(g)
      BY <3>1, <3>2 DEF RetryOrFail, RowKept, Types, TypeOK, QueueTypeOK
    <3>4. PICK d \in backoff(tries[w]) : left' = [left EXCEPT ![job[w]] = d]
      BY <1>2 DEF Reschedule
    <3> QED
      BY <1>0, <3>3, <3>4 DEF TimerTypes
  <2>5. ASSUME NEW v \in Workers, job'[v] # NoJob
        PROVE  /\ job'[v] = job[v] /\ tries'[v] = tries[v] /\ held'[v] = held[v]
               /\ job[v] \in Hashes \ {job[w]}
    BY <1>0, <1>2, <2>1, <2>2, <2>3, <2>5 DEF Release, Reschedule, HeldRestarts
  <2> QED
    BY <1>0, <2>4, <2>5, LeaseKept
<1>3. ASSUME NEW h \in Hashes, Expire(h)
      PROVE  LeaseInv'
  <2>1. ASSUME NEW w \in Workers, job[w] = h
        PROVE  FALSE
    <3>1. held[w] <= MaxHandle /\ left[h] + held[w] = LeaseTime
      BY <2>1, WorkersAssumption DEF LeaseInv, Held
    <3>2. left[h] < 0 /\ left[h] \in Int /\ held[w] \in Nat
      BY <1>0, <1>3 DEF Expire, TimerTypes
    <3> QED
      BY <1>0, <3>1, <3>2
  <2>2. UNCHANGED <<job, tries, held>>
    BY <1>3 DEF Expire, Tick, pool
  <2>3. ASSUME NEW g \in Hashes \ {h}
        PROVE  RowKept(g) /\ left'[g] = left[g]
    BY <1>0, <1>3 DEF Expire, Tick, LeaseExpires, RowKept, Types, TypeOK, QueueTypeOK, TimerTypes
  <2>4. \A w \in Workers : job'[w] # NoJob => job[w] \in Hashes \ {h}
    BY <1>0, <2>1, <2>2
  <2> QED
    BY <1>0, <2>2, <2>3, <2>4, LeaseKept
<1>4. CASE Advance
  <2> SUFFICES ASSUME NEW w \in Workers, job'[w] # NoJob
               PROVE  Held(w)'
    BY <1>0 DEF LeaseInv
  <2>1. UNCHANGED <<status, lease_until, attempts, job, tries>>
    BY <1>4 DEF Advance, vars, raw_events, pool
  <2>2. Held(w) /\ job[w] \in Hashes
    BY <1>0, <2>1 DEF LeaseInv
  <2>3. /\ held[w] < MaxHandle /\ held'[w] = held[w] + 1
        /\ left'[job[w]] = left[job[w]] - 1
    BY <1>4, <2>1, <2>2 DEF Advance, Held
  <2>4. held'[w] <= MaxHandle /\ left'[job[w]] + held'[w] = LeaseTime
    BY <1>0, <2>2, <2>3 DEF Held, TimerTypes
  <2> QED
    BY <2>1, <2>2, <2>4 DEF Held
<1>5. CASE UNCHANGED timedvars
  BY <1>0, <1>5, LeaseKept DEF timedvars, timers, vars, pool, raw_events, RowKept
<1> QED
  BY <1>1, <1>2, <1>3, <1>4, <1>5 DEF TimedNext

(* Nobody holds anything at first.                                             *)
LEMMA LeaseInit ==
  ASSUME TimedInit
  PROVE  Inv /\ LeaseInv
<1>1. Inv
  BY InvInit DEF TimedInit
<1>2. LeaseInv
  BY DEF TimedInit, Init, PoolInit, LeaseInv, TimerTypes
<1> QED
  BY <1>1, <1>2

(* A lease that outlasts the handler excludes: whoever holds a job holds it    *)
(* alone, under a live lease and with the row's latest attempt, so that the    *)
(* unguarded closing statements touch nobody else's row.                       *)
THEOREM LeasesExclude ==
  ASSUME MaxHandle <= LeaseTime
  PROVE  TimedSpec => []LeaseIsExclusive
<1>1. TimedInit => Inv /\ LeaseInv
  BY LeaseInit
<1>2. Inv /\ LeaseInv /\ [TimedNext]_timedvars => Inv' /\ LeaseInv'
  BY TimedIsService, InvStep, LeaseStep DEF Inv
<1>3. LeaseInv => LeaseIsExclusive
  BY DEF LeaseInv, Held, LeaseIsExclusive
<1> QED
  BY <1>1, <1>2, <1>3, PTL DEF TimedSpec

(* A step leaves a processed row processed, if nobody holds it.                *)
LEMMA ProcessedStays ==
  ASSUME Inv, LeaseInv, [Next]_vars, NEW h \in Hashes, status[h] = "PROCESSED"
  PROVE  status'[h] = "PROCESSED"
<1> USE DEF Inv, Types, raw_events
<1>0. status \in [Hashes -> Stored \cup {Absent}]
  BY DEF TypeOK, QueueTypeOK
<1>1. \A w \in Workers : job[w] # h
  BY WorkersAssumption DEF LeaseInv, Held
<1>2. ASSUME NEW g \in Hashes, InsertRaw(g) \/ (Claimable(g) /\ ClaimRow(g))
      PROVE  status'[h] = "PROCESSED"
  BY <1>0, <1>2 DEF InsertRaw, Claimable, ClaimRow, Absent
<1>3. ASSUME NEW w \in Workers, NEW reason, MarkProcessed(job[w]) \/ FailRow(job[w], reason)
      PROVE  status'[h] = "PROCESSED"
  BY <1>0, <1>1, <1>3 DEF MarkProcessed, FailRow
<1>4. ASSUME NEW r \in Requests, RequestNext(r)
      PROVE  status'[h] = "PROCESSED"
  <2>1. CASE InsertNew(r) \/ InsertError(r)
    <3>1. CASE InsertRaw(body[r])
      BY <1>2, <3>1 DEF InsertRaw
    <3>2. CASE UNCHANGED raw_events
      BY <3>2
    <3> QED
      BY <2>1, <3>1, <3>2 DEF InsertNew, InsertError
  <2>2. CASE \/ Receive(r) \/ InsertRefused(r) \/ InsertConflict(r) \/ Lookup(r)
             \/ NotifyAndAck(r) \/ LookupError(r)
    BY <2>2 DEF Receive, InsertRefused, InsertConflict, Lookup, NotifyAndAck, LookupError
  <2> QED
    BY <1>4, <2>1, <2>2 DEF RequestNext, RequestStep, RequestFault
<1>5. ASSUME NEW w \in Workers, QueueNext(w)
      PROVE  status'[h] = "PROCESSED"
  <2>1. CASE Claim(w) \/ ClaimLost(w)
    BY <1>2, <2>1 DEF Claim, ClaimLost, Selected
  <2>2. CASE Ack(w) \/ Fail(w) \/ Retry(w)
    BY <1>3, <2>2 DEF Ack, Fail, Retry, RetryOrFail
  <2>3. CASE \/ ClaimEmpty(w) \/ ClaimFails(w) \/ Wake(w) \/ Poll(w) \/ Resume(w)
             \/ Leave(w) \/ ClosingLost(w)
    BY <2>3 DEF ClaimEmpty, ClaimFails, Wake, Poll, Resume, Leave, ClosingLost
  <2> QED
    BY <1>5, <2>1, <2>2, <2>3 DEF QueueNext, WorkerStep, WorkerFault
<1>6. ASSUME NEW w \in Workers, HandlerNext(w)
      PROVE  status'[h] = "PROCESSED"
  BY <1>6 DEF HandlerNext, HandlerReturns
<1>7. ASSUME NEW g \in Hashes, Tick(g)
      PROVE  status'[h] = "PROCESSED"
  BY <1>7 DEF Tick, LeaseExpires
<1>8. ASSUME NEW p \in Processes, Stop(p) \/ Crash(p) \/ Exit(p) \/ Restart(p)
      PROVE  status'[h] = "PROCESSED"
  BY <1>8 DEF Stop, Crash, Exit, Restart
<1>9. CASE UNCHANGED vars
  BY <1>9 DEF vars
<1> QED
  BY <1>4, <1>5, <1>6, <1>7, <1>8, <1>9 DEF Next

(* "Ack completes a job" for a lease that outlasts the handler: no late call   *)
(* of another worker turns a processed row into a dead letter.                 *)
THEOREM AcksComplete ==
  ASSUME MaxHandle <= LeaseTime
  PROVE  TimedSpec => AckCompletes
<1>1. TimedInit => Inv /\ LeaseInv
  BY LeaseInit
<1>2. Inv /\ LeaseInv /\ [TimedNext]_timedvars => Inv' /\ LeaseInv'
  BY TimedIsService, InvStep, LeaseStep DEF Inv
<1>3. Inv /\ LeaseInv /\ [TimedNext]_timedvars =>
        [\A h \in Hashes : status[h] = "PROCESSED" => status'[h] = "PROCESSED"]_vars
  BY TimedIsService, ProcessedStays
<1> QED
  BY <1>1, <1>2, <1>3, PTL DEF TimedSpec, AckCompletes

-----------------------------------------------------------------------------
(* A claim leaves its row unsettled: whatever settles a row charges nothing.   *)
LEMMA SettlingIsFree ==
  ASSUME Types, [Next]_vars, NEW h \in Hashes, attempts'[h] # attempts[h]
  PROVE  status'[h] \notin Settled
<1> USE DEF Types, TypeOK, QueueTypeOK, raw_events
<1>1. ASSUME NEW g \in Hashes, ClaimRow(g)
      PROVE  status'[h] \notin Settled
  BY <1>1 DEF ClaimRow, Settled
<1>2. ASSUME NEW w \in Workers, QueueNext(w)
      PROVE  status'[h] \notin Settled
  BY <1>1, <1>2 DEF QueueNext, WorkerStep, WorkerFault, Claim, ClaimLost, ClaimEmpty,
     ClaimFails, Wake, Poll, Resume, Ack, MarkProcessed, Fail, FailRow, Retry, RetryOrFail,
     Leave, ClosingLost
<1>3. ASSUME NEW r \in Requests PROVE ~RequestNext(r)
  BY DEF RequestNext, RequestStep, RequestFault, Receive, InsertNew, InsertRefused,
     InsertConflict, Lookup, NotifyAndAck, InsertError, LookupError, InsertRaw
<1>4. ASSUME NEW w \in Workers PROVE ~HandlerNext(w)
  BY DEF HandlerNext, HandlerReturns
<1>5. ASSUME NEW g \in Hashes PROVE ~Tick(g)
  BY DEF Tick, LeaseExpires
<1>6. ASSUME NEW p \in Processes PROVE ~(Stop(p) \/ Crash(p) \/ Exit(p) \/ Restart(p))
  BY DEF Stop, Crash, Exit, Restart
<1>7. ~UNCHANGED vars
  BY DEF vars
<1> QED
  BY <1>2, <1>3, <1>4, <1>5, <1>6, <1>7 DEF Next

(* "Even a worker-killing poison payload eventually caps out" (store.Claim):   *)
(* no row is attempted more than MaxAttempts times, provided that the lease    *)
(* outlasts every handler and that nothing is killed, stopped or lost.  One    *)
(* fault is enough to refute it (see the run that refutes AttemptsCapped).     *)
THEOREM FaultlessCap ==
  ASSUME MaxHandle <= LeaseTime, MaxFaults = 0
  PROVE  TimedSpec => []AttemptsCapped
<1> DEFINE OpenCapped ==
             \A h \in Hashes : status[h] \notin Settled => attempts[h] <= MaxAttempts
<1>1. TimedInit => AttemptsCapped
  BY MaxAttemptsAssumption DEF TimedInit, Init, QueueInit, AttemptsCapped
<1>2. ASSUME Types, AttemptsBounded, LeaseIsExclusive,
             NEW h \in Hashes, status[h] \notin Settled
      PROVE  attempts[h] <= MaxAttempts
  <2> DEFINE late == {w \in Workers : job[w] = h /\ tries[w] >= MaxAttempts}
             n    == Cardinality(Workers)
  <2>1. late \in SUBSET Workers
    OBVIOUS
  <2>2. IsFiniteSet(late) /\ Cardinality(late) \in Nat /\ n \in Nat
    BY <2>1, WorkersCount
  <2>3. Cardinality(late) <= 1
    <3>1. CASE late = {}
      BY <3>1, FS_EmptySet
    <3>2. CASE late # {}
      <4>1. PICK w : w \in late
        BY <3>2
      <4>2. late = {} \cup {w}
        BY <1>2, <4>1, WorkersAssumption DEF LeaseIsExclusive
      <4> QED
        BY <4>2, FS_EmptySet, FS_AddElement
    <3> QED
      BY <3>1, <3>2
  <2>4. attempts[h] \in Nat /\ faults = 0 /\ MaxAttempts \in Nat
    BY <1>2, MaxFaults = 0, MaxAttemptsAssumption DEF Types, TypeOK, QueueTypeOK, HostTypeOK
  <2>5. attempts[h] < MaxAttempts + Cardinality(late) + faults * n
    BY <1>2 DEF AttemptsBounded
  <2> HIDE DEF late, n
  <2>6. faults * n = 0
    BY <2>2, <2>4
  <2> QED
    BY <2>2, <2>3, <2>4, <2>5, <2>6
<1>3. Inv /\ AttemptsBounded /\ LeaseIsExclusive => OpenCapped
  BY <1>2 DEF Inv
<1>4. ASSUME Types, AttemptsCapped, OpenCapped', [Next]_vars, NEW h \in Hashes
      PROVE  attempts'[h] <= MaxAttempts
  <2>1. CASE attempts'[h] = attempts[h]
    BY <1>4, <2>1 DEF AttemptsCapped
  <2>2. CASE attempts'[h] # attempts[h]
    BY <1>4, <2>2, SettlingIsFree
  <2> QED
    BY <2>1, <2>2
<1>5. AttemptsCapped /\ Inv /\ OpenCapped' /\ [TimedNext]_timedvars => AttemptsCapped'
  BY <1>4, TimedIsService DEF Inv, AttemptsCapped
<1>6. TimedSpec => []Inv /\ []AttemptsBounded
  BY TimedImplementsService, Invariance, RetryBudget, PTL
<1>7. TimedSpec => []LeaseIsExclusive
  BY LeasesExclude, MaxHandle <= LeaseTime
<1> HIDE DEF OpenCapped
<1> QED
  BY <1>1, <1>3, <1>5, <1>6, <1>7, PTL DEF TimedSpec

-----------------------------------------------------------------------------
\* What backoff needs of powers of two.  (Facts of arithmetic that take an induction,
\* and therefore hypotheses here.)
PowersOfTwo ==
  /\ \A n \in 1..MaxAttempts : 2^(n - 1) \in Nat \ {0}
  /\ 2^(Width - 1) \in Nat \ {0}
  /\ 2^Width = 2 * 2^(Width - 1)

(* The product that backoff shifts is a positive number.                       *)
LEMMA ShiftIsPositive ==
  ASSUME NEW a \in Nat \ {0}, NEW b \in Nat \ {0}
  PROVE  a * b \in Nat \ {0}
OBVIOUS

(* The delay that backoff starts from is the documented one, overflow or not.  *)
LEMMA BackoffIsDocumented ==
  ASSUME PowersOfTwo, NEW n \in 1..MaxAttempts
  PROVE  /\ backoff(n) = Jitter(Delay(n))
         /\ Delay(n) \in Nat
<1> DEFINE x == BaseBackoff * 2^(n - 1)
           top == 2^(Width - 1)
<1>1. /\ MaxBackoff \in Nat \ {0} /\ BaseBackoff \in Nat \ {0}
      /\ MaxBackoff < top /\ top \in Nat \ {0} /\ 2^Width = 2 * top
      /\ 2^(n - 1) \in Nat \ {0}
      /\ x >= top => Shifted(n) \notin 1..MaxBackoff
  BY DurationsAssumption DEF PowersOfTwo
<1>2. x \in Nat \ {0}
  BY <1>1, ShiftIsPositive
<1>3. /\ Delay(n) = IF x > MaxBackoff THEN MaxBackoff ELSE x
      /\ Shifted(n) = LET d == x % (2 * top) IN IF d < top THEN d ELSE d - 2 * top
  BY <1>1 DEF Delay, Shifted
<1> HIDE DEF x, top
<1>4. CASE x < top
  <2>1. Shifted(n) = x
    <3>1. x % (2 * top) = x
      BY <1>1, <1>2, <1>4
    <3> QED
      BY <1>3, <1>4, <3>1
  <2> QED
    BY <1>1, <1>2, <1>3, <2>1 DEF backoff
<1>5. CASE x >= top
  <2>1. Delay(n) = MaxBackoff
    BY <1>1, <1>2, <1>3, <1>5
  <2>2. Shifted(n) \in Int
    <3>1. x % (2 * top) \in Int
      BY <1>1, <1>2
    <3> QED
      BY <1>1, <1>3, <3>1
  <2>3. Shifted(n) <= 0 \/ Shifted(n) > MaxBackoff
    BY <1>1, <1>5, <2>2
  <2> QED
    BY <1>1, <2>1, <2>3 DEF backoff
<1> QED
  BY <1>1, <1>2, <1>4, <1>5

(* Jitter takes away no more than half.                                        *)
LEMMA BackoffIsLong ==
  ASSUME PowersOfTwo, NEW n \in 1..MaxAttempts, NEW d \in backoff(n)
  PROVE  Delay(n) \div 2 \in Nat /\ Delay(n) \div 2 <= d
<1>1. Delay(n) \in Nat /\ d \in Jitter(Delay(n))
  BY BackoffIsDocumented
<1> QED
  BY <1>1 DEF Jitter

\* While a delay is still promised, the row's lease keeps everyone away from it,
\* and nobody is left who holds the row from before.
QuietInv ==
  /\ TimerTypes
  /\ quiet \in [Hashes -> Nat]
  /\ \A h \in Hashes : quiet[h] > 0 =>
       /\ status[h] \in Stored \ {"PENDING"}
       /\ lease_until[h] = "live"
       /\ quiet[h] <= left[h]
  /\ \A w \in Workers : job[w] # NoJob => quiet[job[w]] = 0

(* Only a claim charges an attempt.                                            *)
LEMMA ChargedWasClaimable ==
  ASSUME Types, [Next]_vars, NEW h \in Hashes, attempts'[h] # attempts[h]
  PROVE  Claimable(h)
<1> USE DEF Types, raw_events
<1>1. ASSUME NEW g \in Hashes, Claimable(g), ClaimRow(g)
      PROVE  Claimable(h)
  BY <1>1 DEF ClaimRow, TypeOK, QueueTypeOK
<1>2. ASSUME NEW r \in Requests, RequestNext(r)
      PROVE  Claimable(h)
  BY <1>2 DEF RequestNext, RequestStep, RequestFault, Receive, InsertNew, InsertRefused,
     InsertConflict, Lookup, NotifyAndAck, InsertError, LookupError, InsertRaw
<1>3. ASSUME NEW w \in Workers, QueueNext(w)
      PROVE  Claimable(h)
  <2>1. CASE Claim(w) \/ ClaimLost(w)
    BY <1>1, <2>1 DEF Claim, ClaimLost, Selected
  <2>2. CASE Ack(w) \/ Fail(w) \/ Retry(w)
    BY <2>2 DEF Ack, Fail, Retry, RetryOrFail, MarkProcessed, FailRow
  <2>3. CASE \/ ClaimEmpty(w) \/ ClaimFails(w) \/ Wake(w) \/ Poll(w) \/ Resume(w)
             \/ Leave(w) \/ ClosingLost(w)
    BY <2>3 DEF ClaimEmpty, ClaimFails, Wake, Poll, Resume, Leave, ClosingLost
  <2> QED
    BY <1>3, <2>1, <2>2, <2>3 DEF QueueNext, WorkerStep, WorkerFault
<1>4. ASSUME NEW w \in Workers, HandlerNext(w)
      PROVE  Claimable(h)
  BY <1>4 DEF HandlerNext, HandlerReturns
<1>5. ASSUME NEW g \in Hashes, Tick(g)
      PROVE  Claimable(h)
  BY <1>5 DEF Tick, LeaseExpires
<1>6. ASSUME NEW p \in Processes, Stop(p) \/ Crash(p) \/ Exit(p) \/ Restart(p)
      PROVE  Claimable(h)
  BY <1>6 DEF Stop, Crash, Exit, Restart
<1>7. CASE UNCHANGED vars
  BY <1>7 DEF vars
<1> QED
  BY <1>2, <1>3, <1>4, <1>5, <1>6, <1>7 DEF Next

(* Only a claim gives a worker a job.                                          *)
LEMMA TakenWasClaimable ==
  ASSUME Types, [Next]_vars, NEW w \in Workers, job'[w] # NoJob, job'[w] # job[w]
  PROVE  job'[w] \in Hashes /\ Claimable(job'[w])
<1>0. job \in [Workers -> Hashes \cup {NoJob}]
  BY DEF Types, TypeOK, PoolTypeOK
<1>1. ASSUME NEW r \in Requests PROVE ~RequestNext(r)
  BY DEF RequestNext, pool
<1>2. ASSUME NEW v \in Workers, QueueNext(v)
      PROVE  job'[w] \in Hashes /\ Claimable(job'[w])
  <2>1. CASE Claim(v)
    BY <1>0, <2>1 DEF Claim, Selected
  <2>2. CASE Ack(v) \/ Fail(v) \/ Retry(v) \/ ClosingLost(v)
    BY <1>0, <2>2 DEF Ack, Fail, Retry, ClosingLost, Release
  <2>3. CASE \/ ClaimEmpty(v) \/ ClaimFails(v) \/ ClaimLost(v) \/ Wake(v) \/ Poll(v)
             \/ Resume(v) \/ Leave(v)
    BY <2>3 DEF ClaimEmpty, ClaimFails, ClaimLost, Wake, Poll, Resume, Leave
  <2> QED
    BY <1>2, <2>1, <2>2, <2>3 DEF QueueNext, WorkerStep, WorkerFault
<1>3. ASSUME NEW v \in Workers PROVE ~HandlerNext(v)
  BY DEF HandlerNext, HandlerReturns
<1>4. ASSUME NEW g \in Hashes PROVE ~Tick(g)
  BY DEF Tick, pool
<1>5. ASSUME NEW p \in Processes PROVE ~(Stop(p) \/ Crash(p) \/ Exit(p) \/ Restart(p))
  BY <1>0 DEF Stop, Crash, Exit, Restart, DropWorkers, StartWorkers, pool
<1>6. ~UNCHANGED vars
  BY DEF vars, pool
<1> QED
  BY <1>1, <1>2, <1>3, <1>4, <1>5, <1>6 DEF Next

(* A row whose delay is still running is not up for a claim.                   *)
LEMMA QuietIsUnclaimable ==
  ASSUME QuietInv, NEW h \in Hashes, Claimable(h)
  PROVE  quiet[h] = 0
BY DEF QuietInv, Claimable

(* QuietInv is inductive: a retry sets the lease and the promise together, and *)
(* both run down at one speed.  That the row was in one hand only is what      *)
(* keeps a second retry from putting its shorter delay in the place of a       *)
(* longer one.                                                                 *)
LEMMA QuietStep ==
  ASSUME PowersOfTwo, Inv, LeaseInv, QuietInv, [TimedNext]_timedvars
  PROVE  QuietInv'
<1>0. /\ TimerTypes /\ TimerTypes' /\ Types /\ [Next]_vars
      /\ status \in [Hashes -> Stored \cup {Absent}]
      /\ lease_until \in [Hashes -> Leases]
      /\ attempts \in [Hashes -> Nat]
      /\ quiet \in [Hashes -> Nat]
      /\ job \in [Workers -> Hashes \cup {NoJob}]
  BY TimerTypesStep, TimedIsService DEF QuietInv, Inv, Types, TypeOK, QueueTypeOK, PoolTypeOK
<1>1. CASE Timed
  <2>1. quiet' \in [Hashes -> Nat]
    BY <1>0, <1>1 DEF Timed
  <2>2. ASSUME NEW h \in Hashes, quiet'[h] > 0
        PROVE  /\ status'[h] \in Stored \ {"PENDING"}
               /\ lease_until'[h] = "live"
               /\ quiet'[h] <= left'[h]
    <3>1. lease_until'[h] = "live" /\ quiet'[h] = quiet[h]
      BY <1>0, <1>1, <2>2 DEF Timed
    <3>2. status[h] \in Stored \ {"PENDING"} /\ quiet[h] <= left[h] /\ quiet[h] # 0
      BY <2>2, <3>1 DEF QuietInv
    <3>3. attempts'[h] = attempts[h]
      BY <1>0, <3>2, ChargedWasClaimable, QuietIsUnclaimable
    <3>4. left'[h] = left[h]
      BY <1>1, <3>1, <3>3 DEF Timed, LeaseRestarts
    <3>5. status'[h] \in Stored \ {"PENDING"}
      BY <1>0, <3>2, RowsMoveForward DEF RowMoves, Stored, Settled, Absent
    <3> QED
      BY <3>1, <3>2, <3>4, <3>5
  <2>3. ASSUME NEW w \in Workers, job'[w] # NoJob
        PROVE  quiet'[job'[w]] = 0
    <3>1. job'[w] \in Hashes /\ quiet[job'[w]] = 0
      <4>1. CASE job'[w] = job[w]
        BY <1>0, <2>3, <4>1 DEF QuietInv
      <4>2. CASE job'[w] # job[w]
        BY <1>0, <2>3, <4>2, TakenWasClaimable, QuietIsUnclaimable
      <4> QED
        BY <4>1, <4>2
    <3> QED
      BY <1>1, <3>1 DEF Timed
  <2> QED
    BY <1>0, <2>1, <2>2, <2>3 DEF QuietInv
<1>2. ASSUME NEW w \in Workers, Reschedule(w)
      PROVE  QuietInv'
  <2>1. /\ Busy(w) /\ Release(w) /\ RetryOrFail(job[w], tries[w]) /\ tries[w] < MaxAttempts
        /\ quiet' = [quiet EXCEPT ![job[w]] =
                       IF quiet[job[w]] > Delay(tries[w]) \div 2
                         THEN quiet[job[w]] ELSE Delay(tries[w]) \div 2]
    BY <1>2 DEF Reschedule, Retry, Busy, Outcomes
  <2>2. /\ job[w] \in Hashes /\ status[job[w]] \in Stored \ {"PENDING"}
        /\ tries[w] \in 1..MaxAttempts
    <3>1. job[w] \in Hashes /\ job[w] # NoJob
      BY <2>1, WorkersAssumption DEF Inv, BusyHasJob
    <3>2. status[job[w]] \in Stored \ {"PENDING"} /\ tries[w] \in 1..attempts[job[w]]
      BY <3>1 DEF Inv, JobsAreClaims
    <3> QED
      BY <1>0, <2>1, <3>1, <3>2, MaxAttemptsAssumption
  <2>3. ~(tries[w] >= MaxAttempts)
    BY <2>1, <2>2, MaxAttemptsAssumption
  <2>4. /\ lease_until' = [lease_until EXCEPT ![job[w]] = "live"]
        /\ UNCHANGED status
    BY <2>1, <2>3 DEF RetryOrFail
  <2>5. PICK d \in backoff(tries[w]) : left' = [left EXCEPT ![job[w]] = d]
    BY <1>2 DEF Reschedule
  <2>6. Delay(tries[w]) \div 2 \in Nat /\ Delay(tries[w]) \div 2 <= d
    BY <2>2, <2>5, BackoffIsLong
  <2>7. /\ quiet' = [quiet EXCEPT ![job[w]] = Delay(tries[w]) \div 2]
        /\ quiet' \in [Hashes -> Nat]
    <3>1. quiet[job[w]] = 0
      BY <2>2, WorkersAssumption DEF QuietInv
    <3>2. ~(quiet[job[w]] > Delay(tries[w]) \div 2)
      BY <2>6, <3>1
    <3> QED
      BY <1>0, <2>1, <2>2, <2>6, <3>2
  <2>8. ASSUME NEW h \in Hashes, quiet'[h] > 0
        PROVE  /\ status'[h] \in Stored \ {"PENDING"}
               /\ lease_until'[h] = "live"
               /\ quiet'[h] <= left'[h]
    <3>1. CASE h = job[w]
      <4>1. quiet'[h] = Delay(tries[w]) \div 2 /\ left'[h] = d
        BY <1>0, <2>5, <2>7, <3>1 DEF TimerTypes
      <4> QED
        BY <1>0, <2>2, <2>4, <2>6, <3>1, <4>1
    <3>2. CASE h # job[w]
      <4>1. quiet'[h] = quiet[h] /\ left'[h] = left[h]
        BY <1>0, <2>5, <2>7, <3>2 DEF TimerTypes
      <4> QED
        BY <1>0, <2>4, <2>8, <3>2, <4>1 DEF QuietInv
    <3> QED
      BY <3>1, <3>2
  <2>9. ASSUME NEW v \in Workers, job'[v] # NoJob
        PROVE  quiet'[job'[v]] = 0
    <3>1. v # w /\ job'[v] = job[v] /\ job[v] \in Hashes
      BY <1>0, <2>1, <2>9 DEF Release
    <3>2. job[v] # job[w]
      BY <2>2, <3>1, WorkersAssumption DEF LeaseInv, Held
    <3>3. quiet[job[v]] = 0
      BY <2>9, <3>1 DEF QuietInv
    <3> QED
      BY <1>0, <2>7, <3>1, <3>2, <3>3
  <2> QED
    BY <1>0, <2>7, <2>8, <2>9 DEF QuietInv
<1>3. ASSUME NEW g \in Hashes, Expire(g)
      PROVE  QuietInv'
  <2>1. /\ left[g] < 0 /\ UNCHANGED <<quiet, status, job>>
        /\ lease_until' = [lease_until EXCEPT ![g] = "expired"]
        /\ left' = [left EXCEPT ![g] = 0]
    BY <1>3 DEF Expire, Tick, LeaseExpires, pool
  <2>2. ~(quiet[g] > 0)
    BY <1>0, <2>1 DEF QuietInv, TimerTypes
  <2>3. \A h \in Hashes : quiet[h] > 0 => lease_until'[h] = lease_until[h] /\ left'[h] = left[h]
    BY <1>0, <2>1, <2>2 DEF TimerTypes
  <2> QED
    BY <1>0, <2>1, <2>3 DEF QuietInv
<1>4. CASE Advance
  <2>1. UNCHANGED <<status, lease_until, job>>
    BY <1>4 DEF Advance, vars, raw_events, pool
  <2>2. quiet' \in [Hashes -> Nat]
    BY <1>0, <1>4 DEF Advance
  <2>3. ASSUME NEW h \in Hashes, quiet'[h] > 0
        PROVE  /\ quiet[h] > 0 /\ lease_until[h] = "live"
               /\ quiet'[h] <= left'[h]
    <3>1. quiet[h] > 0 /\ quiet'[h] = quiet[h] - 1
      BY <1>0, <1>4, <2>3 DEF Advance
    <3>2. lease_until[h] = "live" /\ quiet[h] <= left[h]
      BY <3>1 DEF QuietInv
    <3>3. left'[h] = left[h] - 1
      BY <1>4, <3>2 DEF Advance
    <3> QED
      BY <1>0, <3>1, <3>2, <3>3 DEF TimerTypes
  <2>4. ASSUME NEW w \in Workers, job'[w] # NoJob
        PROVE  quiet'[job'[w]] = 0
    <3>1. job'[w] = job[w] /\ job[w] \in Hashes /\ quiet[job[w]] = 0
      BY <1>0, <2>1, <2>4 DEF QuietInv
    <3> QED
      BY <1>4, <3>1 DEF Advance
  <2> QED
    BY <1>0, <2>1, <2>2, <2>3, <2>4 DEF QuietInv
<1>5. CASE UNCHANGED timedvars
  BY <1>0, <1>5 DEF QuietInv, timedvars, timers, vars, raw_events, pool
<1> QED
  BY <1>1, <1>2, <1>3, <1>4, <1>5 DEF TimedNext

(* The retry policy, for a lease that outlasts the handler: a row is not       *)
(* claimed again before half the documented delay of any Retry called for it,  *)
(* whoever dies, and also when the shift in backoff overflows.  (A worker that *)
(* outlives its lease breaks it: see the run that refutes BackoffIsKept.)      *)
THEOREM BackoffsAreKept ==
  ASSUME MaxHandle <= LeaseTime, PowersOfTwo
  PROVE  TimedSpec => BackoffIsKept
<1>1. TimedInit => Inv /\ LeaseInv /\ QuietInv
  <2>1. ASSUME TimedInit PROVE QuietInv
    BY <2>1 DEF TimedInit, Init, PoolInit, QuietInv, TimerTypes
  <2> QED
    BY <2>1, LeaseInit
<1>2. Inv /\ LeaseInv /\ QuietInv /\ [TimedNext]_timedvars => Inv' /\ LeaseInv' /\ QuietInv'
  BY TimedIsService, InvStep, LeaseStep, QuietStep DEF Inv
<1>3. Inv /\ QuietInv /\ [TimedNext]_timedvars =>
        [\A h \in Hashes : attempts'[h] # attempts[h] => quiet[h] = 0]_timedvars
  BY TimedIsService, ChargedWasClaimable, QuietIsUnclaimable DEF Inv
<1> QED
  BY <1>1, <1>2, <1>3, PTL DEF TimedSpec, BackoffIsKept
=============================================================================
