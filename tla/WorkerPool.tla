------------------------------ MODULE WorkerPool -----------------------------
(***************************************************************************)
(* The consumer goroutines (worker/worker.go) and the calls they make to   *)
(* queue.Postgres (queue/postgres.go).  The handler is opaque here: it     *)
(* runs for as long as it likes and returns one of the three outcomes that *)
(* dispatch tells apart.                                                   *)
(***************************************************************************)
EXTENDS Queue

CONSTANTS Workers,      \* worker goroutines, of all processes
          home,         \* [Workers -> the process it runs in]
          NoJob

ASSUME WorkersAssumption ==
  /\ home \in [Workers -> Processes]
  /\ NoJob \notin Hashes

VARIABLES pc,           \* [Workers -> where it is in worker() and dispatch()]
          job,          \* [Workers -> Job.ID of the job in hand, or NoJob]
          tries         \* [Workers -> Job.Attempts as of its claim]

pool == <<pc, job, tries>>

Outcomes == {"ack", "fail", "retry"}   \* which closing call dispatch will make
Places   == {"claim", "wait", "pause", "handle", "down"} \cup Outcomes

PoolTypeOK ==
  /\ pc    \in [Workers -> Places]
  /\ job   \in [Workers -> Hashes \cup {NoJob}]
  /\ tries \in [Workers -> Nat]

PoolInit ==
  /\ pc    = [w \in Workers |-> "claim"]
  /\ job   = [w \in Workers |-> NoJob]
  /\ tries = [w \in Workers |-> 0]

Running(w) == proc[home[w]] = "up"

MoveTo(w, place) == pc' = [pc EXCEPT ![w] = place]

\* Back to the top of the loop with no job.
Release(w) ==
  /\ MoveTo(w, "claim")
  /\ job'   = [job EXCEPT ![w] = NoJob]
  /\ tries' = [tries EXCEPT ![w] = 0]

-----------------------------------------------------------------------------
\* SKIP LOCKED passes over a row that a statement of another worker has locked:
\* the closing UPDATE of a worker that outlived its lease, the foreign-key check
\* of its InsertNormalized, or a claim in flight that is going to roll back, as it
\* may in a worker whose claim fails or whose context is cancelled.  (The claim of
\* a killed process still runs to its end: that is Claim, and then the kill.)
MayBeLocked(g, w) ==
  \E v \in Workers \ {w} :
    job[v] = g \/ pc[v] = "pause" \/ proc[home[v]] = "stopping"

\* The row LIMIT 1 may select for worker w.
Selected(w, h) ==
  /\ Claimable(h)
  /\ \A g \in Hashes : Claimable(g) /\ Older(g, h) => MayBeLocked(g, w)

\* Queue.Claim when the statement returns a row.
Claim(w) ==
  /\ pc[w] = "claim" /\ Running(w)
  /\ \E h \in Hashes :
       /\ Selected(w, h)
       /\ ClaimRow(h)
       /\ MoveTo(w, "handle")
       /\ job'   = [job EXCEPT ![w] = h]
       /\ tries' = [tries EXCEPT ![w] = attempts'[h]]
  /\ UNCHANGED <<notify, proc, faults>>

\* The claim fails and the worker logs it and sleeps for a second, deaf to the
\* channel: from here on the statement, rolled back or about to be, has no effect
\* but the lock it may hold.
ClaimFails(w) ==
  /\ pc[w] = "claim" /\ Running(w)
  /\ MoveTo(w, "pause")
  /\ Fault
  /\ UNCHANGED <<raw_events, notify, job, tries, proc>>

\* The claim fails for the worker although it is committed: nobody handles the
\* leased row.
ClaimLost(w) ==
  /\ pc[w] = "claim" /\ Running(w)
  /\ \E h \in Hashes : Selected(w, h) /\ ClaimRow(h)
  /\ MoveTo(w, "pause")
  /\ Fault
  /\ UNCHANGED <<notify, job, tries, proc>>

\* The second is over.
Resume(w) ==
  /\ pc[w] = "pause" /\ Running(w)
  /\ MoveTo(w, "claim")
  /\ UNCHANGED <<raw_events, notify, job, tries, proc, faults>>

\* No row to be had: block on the channel, the poll timer and the context.
ClaimEmpty(w) ==
  /\ pc[w] = "claim" /\ Running(w)
  /\ \A g \in Hashes : Claimable(g) => MayBeLocked(g, w)
  /\ MoveTo(w, "wait")
  /\ UNCHANGED <<raw_events, notify, job, tries, proc, faults>>

Wake(w) ==
  /\ pc[w] = "wait" /\ Running(w)
  /\ notify[home[w]]
  /\ notify' = [notify EXCEPT ![home[w]] = FALSE]
  /\ MoveTo(w, "claim")
  /\ UNCHANGED <<raw_events, job, tries, proc, faults>>

\* Mutant: the timer starts another wait, and only a signal ends it.
PollAgain(w) ==
  /\ pc[w] = "wait" /\ Running(w)
  /\ UNCHANGED <<pool, raw_events, notify, proc, faults>>

\* PollInterval has passed.
Poll(w) ==
  /\ pc[w] = "wait" /\ Running(w)
  /\ MoveTo(w, "claim")
  /\ UNCHANGED <<raw_events, notify, job, tries, proc, faults>>

-----------------------------------------------------------------------------
\* Handler.Handle returns nil, a Permanent error or any other error.
HandlerReturns(w, outcome) ==
  /\ pc[w] = "handle"
  /\ MoveTo(w, outcome)
  /\ UNCHANGED <<raw_events, notify, job, tries, proc, faults>>

Ack(w) ==
  /\ pc[w] = "ack" /\ Running(w)
  /\ MarkProcessed(job[w])
  /\ Release(w)
  /\ UNCHANGED <<notify, proc, faults>>

Fail(w) ==
  /\ pc[w] = "fail" /\ Running(w)
  /\ FailRow(job[w], "permanent")
  /\ Release(w)
  /\ UNCHANGED <<notify, proc, faults>>

Retry(w) ==
  /\ pc[w] = "retry" /\ Running(w)
  /\ RetryOrFail(job[w], tries[w])
  /\ Release(w)
  /\ UNCHANGED <<notify, proc, faults>>

\* The closing call fails and dispatch only logs it: the database refuses it, or
\* the context of a stopping process is already cancelled.
ClosingLost(w) ==
  /\ pc[w] \in Outcomes
  /\ Release(w)
  /\ \/ Running(w) /\ Fault
     \/ ~Running(w) /\ UNCHANGED faults
  /\ UNCHANGED <<raw_events, notify, proc>>

\* ctx.Done() in a claim, while waiting or in the pause after an error.
Leave(w) ==
  /\ pc[w] \in {"claim", "wait", "pause"}
  /\ proc[home[w]] = "stopping"
  /\ MoveTo(w, "down")
  /\ UNCHANGED <<raw_events, notify, job, tries, proc, faults>>

\* Process p goes down with all its goroutines and starts again with new ones.
DropWorkers(p) ==
  /\ pc'    = [w \in Workers |-> IF home[w] = p THEN "down" ELSE pc[w]]
  /\ job'   = [w \in Workers |-> IF home[w] = p THEN NoJob ELSE job[w]]
  /\ tries' = [w \in Workers |-> IF home[w] = p THEN 0 ELSE tries[w]]

StartWorkers(p) ==
  /\ pc' = [w \in Workers |-> IF home[w] = p THEN "claim" ELSE pc[w]]
  /\ UNCHANGED <<job, tries>>

\* What a worker does between two handler calls; the handler itself is apart.
WorkerStep(w) ==
  \/ Claim(w)
  \/ ClaimEmpty(w)
  \/ Wake(w)
  \/ Poll(w)
  \/ Resume(w)
  \/ Ack(w)
  \/ Fail(w)
  \/ Retry(w)
  \/ Leave(w)

WorkerFault(w) == ClaimFails(w) \/ ClaimLost(w) \/ ClosingLost(w)
=============================================================================
