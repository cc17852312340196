------------------------------- MODULE Service -------------------------------
(***************************************************************************)
(* The whole service around an opaque handler: HTTP requests, the worker   *)
(* pools of all processes, the processes themselves, and one database.     *)
(* Processes share nothing but the database (init.go, App.Run); requests   *)
(* and workers of one process also share its wake-up channel.              *)
(***************************************************************************)
EXTENDS Ingest, WorkerPool, FiniteSets

\* A process starts WORKER_CONCURRENCY goroutines.
ASSUME FiniteWorkersAssumption == IsFiniteSet(Workers)

vars == <<proc, faults, raw_events, notify, req, pool>>

Init ==
  /\ HostInit
  /\ QueueInit
  /\ IngestInit
  /\ PoolInit

TypeOK ==
  /\ HostTypeOK
  /\ QueueTypeOK
  /\ IngestTypeOK
  /\ PoolTypeOK

-----------------------------------------------------------------------------
\* The channel dies with its process; newApp makes an empty one.
DropTokens(p) == notify' = [notify EXCEPT ![p] = FALSE]

Stop(p) ==
  /\ Signalled(p)
  /\ UNCHANGED <<raw_events, notify, req, pool>>

Crash(p) ==
  /\ Killed(p)
  /\ DropTokens(p)
  /\ DropRequests(p)
  /\ DropWorkers(p)
  /\ UNCHANGED raw_events

\* runServer has drained its requests, or given up on them after the 15 seconds
\* of its Shutdown context, and wg.Wait has seen every worker leave.
Exit(p) ==
  /\ \A w \in Workers : home[w] = p => pc[w] = "down"
  /\ Exited(p)
  /\ DropTokens(p)
  /\ DropRequests(p)
  /\ UNCHANGED <<raw_events, pool>>

Restart(p) ==
  /\ Started(p)
  /\ StartWorkers(p)
  /\ UNCHANGED <<raw_events, notify, req>>

\* Time passes.
Tick(h) ==
  /\ LeaseExpires(h)
  /\ UNCHANGED <<proc, faults, req, pool>>

RequestNext(r) ==
  /\ RequestStep(r) \/ RequestFault(r)
  /\ UNCHANGED pool

QueueNext(w) ==
  /\ WorkerStep(w) \/ WorkerFault(w)
  /\ UNCHANGED req

HandlerNext(w) ==
  /\ \E outcome \in Outcomes : HandlerReturns(w, outcome)
  /\ UNCHANGED req

Next ==
  \/ \E r \in Requests  : RequestNext(r)
  \/ \E w \in Workers   : QueueNext(w) \/ HandlerNext(w)
  \/ \E h \in Hashes    : Tick(h)
  \/ \E p \in Processes : Stop(p) \/ Crash(p) \/ Exit(p) \/ Restart(p)

Spec == Init /\ [][Next]_vars

\* Goroutines are scheduled, statements and the handler return (each provider's
\* HTTP client has a timeout), time passes and a stopping process ends.  Nothing
\* obliges anyone to send a request, to fail, or to restart a process.
WorkerFairness(w) ==
  /\ WF_vars(QueueNext(w))
  /\ WF_vars(HandlerNext(w))

Fairness ==
  /\ \A w \in Workers   : WorkerFairness(w)
  /\ \A h \in Hashes    : WF_vars(Tick(h))
  /\ \A p \in Processes : WF_vars(Exit(p))

FairSpec == Spec /\ Fairness

-----------------------------------------------------------------------------
Accepted(r) == req[r] \in {"202 new", "202 duplicate"}

(* A 202 means "durably received" (ingest): whoever got one, new or duplicate, *)
(* has a row, whatever crashed, was lost or was refused in between.            *)
AckIsDurable ==
  \A r \in Requests : Accepted(r) => body[r] \in Hashes /\ status[body[r]] \in Stored

(* The idempotency gate of InsertRaw: of all requests with one body, at most   *)
(* one is ever told that it was new, and the table holds one row for it.       *)
OneNewPerPayload ==
  /\ \A r, s \in Requests :
       /\ r # s
       /\ body[r] = body[s]
       /\ req[r] \in {"notify", "202 new"}
       => req[s] \notin {"notify", "202 new"}
  /\ \A i, j \in DOMAIN received_at :
       received_at[i] = received_at[j] => i = j

(* dispatch only ever works on a row that was claimed, and the attempt number  *)
(* it hands to Retry is a genuine one: counted by a claim of that row, and     *)
(* never shared by two workers that hold the row one after the other, or at    *)
(* the same time once a lease has run out.                                     *)
JobsAreClaims ==
  /\ \A w \in Workers : job[w] # NoJob =>
       /\ status[job[w]] \in Stored \ {"PENDING"}
       /\ tries[w] \in 1..attempts[job[w]]
  /\ \A v, w \in Workers :
       v # w /\ job[v] = job[w] /\ job[v] # NoJob => tries[v] # tries[w]

(* The retry budget of RetryOrFail.  Claim itself never looks at the counter:  *)
(* a row passes the cap only through workers that still hold an attempt at or  *)
(* over it (slow ones whose lease ran out) and through those that faults took. *)
(* Once settled, SettledIsFinal freezes the counter.                           *)
AttemptsBounded ==
  \A h \in Hashes : status[h] \notin Settled =>
    attempts[h] < MaxAttempts
                    + Cardinality({w \in Workers : job[w] = h /\ tries[w] >= MaxAttempts})
                    + faults * Cardinality(Workers)

\* Process p has workers and they all block in Claim.
Asleep(p) ==
  /\ \E w \in Workers : home[w] = p
  /\ \A w \in Workers : home[w] = p => pc[w] = "wait"

\* Process p has acknowledged a new payload that nobody has claimed yet.
Unclaimed(p) ==
  \E r \in Requests :
    server[r] = p /\ req[r] = "202 new" /\ status[body[r]] = "PENDING"

(* The non-blocking, coalescing send of Notify never leaves a whole pool       *)
(* asleep on an acknowledged payload: when nobody has claimed it yet, a worker *)
(* of the process that took it in is busy or there is a token to wake one,     *)
(* also when the signal falls between an empty claim and the wait, and however *)
(* claims fail.  It says no more: of two payloads behind one token the second  *)
(* is left to the worker that is awake, or to the poll timer.  And it is said  *)
(* only where no claim of another process can fail, since the row lock of a    *)
(* claim that rolls back hides the row from the worker the token woke.         *)
NoLostWakeup ==
  \A p \in Processes :
    /\ faults = 0 \/ \A w \in Workers : home[w] = p
    /\ Asleep(p) /\ Unclaimed(p)
    => notify[p]

(* A row that has been processed or dead-lettered never runs again: no late    *)
(* call of a worker that lost its lease puts it back in the queue, and no claim*)
(* charges it another attempt.                                                 *)
SettledIsFinal ==
  [][\A h \in Hashes : status[h] \in Settled =>
       status'[h] \in Settled /\ attempts'[h] = attempts[h]]_vars

(* A row waits for a worker, not for its vendor: once stored it is processed   *)
(* or dead-lettered, as long as worker processes keep coming up, whatever was  *)
(* lost on the way (tokens, leases, closing calls, whole processes).           *)
EventuallySettled ==
  ([]<>(\E w \in Workers : Running(w)))
    => \A h \in Hashes : (status[h] \in Stored) ~> (status[h] \in Settled)

-----------------------------------------------------------------------------
\* What the service promises to a vendor, in terms of each payload's life.
life ==
  [h \in Hashes |->
     CASE status[h] = Absent      -> "absent"
       [] status[h] = "PROCESSED" -> "done"
       [] status[h] = "FAILED"    -> "dead"
       [] OTHER                   -> "open"]

acked == {body[r] : r \in {q \in Requests : Accepted(q)}}

Promise == INSTANCE AtLeastOnce WITH Payloads <- Hashes

(* The service implements the abstract delivery contract of AtLeastOnce.       *)
ImplementsAtLeastOnce == Promise!Spec
=============================================================================
