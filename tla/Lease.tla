-------------------------------- MODULE Lease --------------------------------
(***************************************************************************)
(* The service with a clock: how long a lease lasts, how long a worker     *)
(* takes between its claim and its closing call, and how long a retry is   *)
(* put off (queue/postgres.go).  Every step is a step of Service, or time. *)
(***************************************************************************)
EXTENDS ServiceClaims

CONSTANTS MaxHandle,    \* the longest a worker takes from its claim to its closing call
          LeaseTime,    \* queue.Config.Lease
          BaseBackoff,  \* queue.Config.BaseBackoff
          MaxBackoff,   \* queue.Config.MaxBackoff
          Width         \* bits of a time.Duration

VARIABLES left,         \* [Hashes -> what is left of a live lease; negative once it is past]
          held,         \* [Workers -> time since the claim of the job in hand]
          quiet         \* [Hashes -> what is left of the delay the retry policy promises]

timers    == <<left, held, quiet>>
timedvars == <<vars, timers>>

TimedInit ==
  /\ Init
  /\ left  = [h \in Hashes |-> 0]
  /\ held  = [w \in Workers |-> 0]
  /\ quiet = [h \in Hashes |-> 0]

-----------------------------------------------------------------------------
\* BaseBackoff << (n - 1) in Width-bit two's complement.
Shifted(n) ==
  LET d == (BaseBackoff * 2^(n - 1)) % 2^Width
  IN IF d < 2^(Width - 1) THEN d ELSE d - 2^Width

\* half + rand.Int64N(half + 1)
Jitter(d) == (d \div 2)..(2 * (d \div 2))

\* Mutant: only a negative result passes for an overflow.
backoffNegativeOnly(n) ==
  Jitter(IF Shifted(n) < 0 \/ Shifted(n) > MaxBackoff THEN MaxBackoff ELSE Shifted(n))

backoff(n) ==
  Jitter(IF Shifted(n) <= 0 \/ Shifted(n) > MaxBackoff THEN MaxBackoff ELSE Shifted(n))

\* The delay that the comment of backoff documents, in numbers without a width.
Delay(n) ==
  IF BaseBackoff * 2^(n - 1) > MaxBackoff THEN MaxBackoff ELSE BaseBackoff * 2^(n - 1)

\* The durations are positive and the width holds them; and a shift that overflows
\* shows (true of the default 2 s and 5 min in 64 bits, not of every setting).
ASSUME DurationsAssumption ==
  /\ LeaseTime \in Nat \ {0}
  /\ MaxHandle \in Nat
  /\ Width \in Nat \ {0}
  /\ {BaseBackoff, MaxBackoff} \subseteq 1..(2^(Width - 1) - 1)
  /\ \A n \in 1..MaxAttempts :
       BaseBackoff * 2^(n - 1) >= 2^(Width - 1) => Shifted(n) \notin 1..MaxBackoff

-----------------------------------------------------------------------------
\* A worker's timer restarts whenever it takes up or puts down a job.
HeldRestarts ==
  held' = [w \in Workers |-> IF job'[w] = job[w] THEN held[w] ELSE 0]

\* A claim leases the row for LeaseTime, and a closed row has no lease.
LeaseRestarts ==
  left' = [h \in Hashes |->
             IF lease_until'[h] # "live" THEN 0
             ELSE IF attempts'[h] # attempts[h] THEN LeaseTime ELSE left[h]]

\* Retry below the cap: the row becomes claimable again after the backoff.  The
\* promise of an earlier Retry that has not run out yet stands beside the new one.
Reschedule(w) ==
  /\ Retry(w) /\ tries[w] < MaxAttempts
  /\ \E d \in backoff(tries[w]) : left' = [left EXCEPT ![job[w]] = d]
  /\ quiet' = [quiet EXCEPT ![job[w]] =
                 IF @ > Delay(tries[w]) \div 2 THEN @ ELSE Delay(tries[w]) \div 2]
  /\ HeldRestarts
  /\ UNCHANGED req

\* The other steps of a worker.
WorkerNext(w) ==
  \/ HandlerNext(w)
  \/ /\ \/ Claim(w) \/ ClaimEmpty(w) \/ Wake(w) \/ Poll(w) \/ Resume(w) \/ Leave(w)
        \/ Ack(w) \/ Fail(w)
        \/ Retry(w) /\ tries[w] >= MaxAttempts
        \/ WorkerFault(w)
     /\ UNCHANGED req

\* The steps that set no other lease than that of a claim.
PlainNext ==
  \/ \E r \in Requests  : RequestNext(r)
  \/ \E w \in Workers   : WorkerNext(w)
  \/ \E p \in Processes : Stop(p) \/ Crash(p) \/ Exit(p) \/ Restart(p)

Timed ==
  /\ PlainNext
  /\ HeldRestarts /\ LeaseRestarts
  /\ quiet' = [h \in Hashes |-> IF lease_until'[h] = "live" THEN quiet[h] ELSE 0]

\* Mutant: lease_until <= now()
ExpireEarly(h) ==
  /\ left[h] <= 0
  /\ Tick(h)
  /\ left' = [left EXCEPT ![h] = 0]
  /\ UNCHANGED <<held, quiet>>

\* lease_until < now()
Expire(h) ==
  /\ left[h] < 0
  /\ Tick(h)
  /\ left' = [left EXCEPT ![h] = 0]
  /\ UNCHANGED <<held, quiet>>

\* Time passes: not past a lease that is due to expire, and not past the longest a
\* worker may take.
Advance ==
  /\ \A h \in Hashes  : lease_until[h] = "live" => left[h] >= 0
  /\ \A w \in Workers : job[w] # NoJob => held[w] < MaxHandle
  /\ left'  = [h \in Hashes |-> IF lease_until[h] = "live" THEN left[h] - 1 ELSE left[h]]
  /\ held'  = [w \in Workers |-> IF job[w] # NoJob THEN held[w] + 1 ELSE held[w]]
  /\ quiet' = [h \in Hashes |-> IF quiet[h] > 0 THEN quiet[h] - 1 ELSE 0]
  /\ UNCHANGED vars

TimedNext ==
  \/ Timed
  \/ \E w \in Workers : Reschedule(w)
  \/ \E h \in Hashes  : Expire(h)
  \/ Advance

TimedSpec == TimedInit /\ [][TimedNext]_timedvars

-----------------------------------------------------------------------------
(* A lease that outlasts the handler makes the closing calls safe although they*)
(* check nothing (MarkProcessed, RetryOrFail, Fail): whoever holds a job holds *)
(* it alone, under a live lease and with the row's latest attempt, so that no  *)
(* late call closes a row, or moves its lease, under another worker.           *)
LeaseIsExclusive ==
  \A w \in Workers : job[w] # NoJob =>
    /\ status[job[w]] = "PROCESSING" /\ lease_until[job[w]] = "live"
    /\ tries[w] = attempts[job[w]]
    /\ \A v \in Workers : job[v] = job[w] => v = w

(* The retry policy of backoff: a rescheduled row is not claimed again before  *)
(* half the documented delay of any Retry that was called for it, also when    *)
(* the shift overflows, and whoever dies.  Like LeaseIsExclusive it needs a    *)
(* lease that outlasts the handler: the reschedule checks nothing, and that of *)
(* a late worker puts its own, shorter delay in the place of a longer one.     *)
BackoffIsKept ==
  [][\A h \in Hashes : attempts'[h] # attempts[h] => quiet[h] = 0]_timedvars
=============================================================================
