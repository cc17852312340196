---------------------------- MODULE ServiceProofs ----------------------------
(***************************************************************************)
(* Theorems about Service, for every value of its constants.               *)
(***************************************************************************)
EXTENDS Service, FiniteSetTheorems, TLAPS

\* A request that got past the insert has a payload.
PayloadsOnly ==
  \A r \in Requests :
    req[r] \in {"lookup", "notify", "202 new", "202 duplicate"} => body[r] \in Hashes

Types == TypeOK /\ PayloadsOnly

USE DEF Null, Absent, Settled, Stored, Reasons, Leases, Replies, InFlight, Outcomes, Places

-----------------------------------------------------------------------------
(* One fault more stays within the bound.                                      *)
LEMMA FaultTypes ==
  ASSUME HostTypeOK, Fault
  PROVE  faults' \in 0..MaxFaults
BY MaxFaultsAssumption DEF HostTypeOK, Fault

(* A claim respects the types of the table.                                    *)
LEMMA ClaimRowTypes ==
  ASSUME QueueTypeOK, NEW h \in Hashes, ClaimRow(h)
  PROVE  /\ status' \in [Hashes -> Stored \cup {Absent}]
         /\ attempts' \in [Hashes -> Nat]
         /\ attempts'[h] \in Nat
         /\ lease_until' \in [Hashes -> Leases]
         /\ UNCHANGED <<error, received_at>>
BY DEF QueueTypeOK, ClaimRow

(* An insert respects the types of the table.                                  *)
LEMMA InsertRawTypes ==
  ASSUME QueueTypeOK, NEW h \in Hashes, InsertRaw(h)
  PROVE  /\ status' \in [Hashes -> Stored \cup {Absent}]
         /\ received_at' \in Seq(Hashes)
         /\ UNCHANGED <<attempts, error, lease_until>>
BY DEF QueueTypeOK, InsertRaw

(* A step of an HTTP request respects the types.                               *)
LEMMA RequestTypes ==
  ASSUME Types, NEW r \in Requests, RequestNext(r)
  PROVE  Types'
<1> USE RequestsAssumption DEF Types, TypeOK, HostTypeOK, QueueTypeOK, IngestTypeOK,
        PoolTypeOK, PayloadsOnly, raw_events, pool, GoTo
<1>0. UNCHANGED pool
  BY DEF RequestNext
<1>1. CASE Receive(r)
  <2>1. UNCHANGED <<raw_events, notify, proc, faults>>
    BY <1>1 DEF Receive
  <2>2. CASE body[r] = Oversized
    <3>1. req' = [req EXCEPT ![r] = "413"]
      BY <1>1, <2>2 DEF Receive
    <3> QED
      BY <1>0, <2>1, <3>1
  <2>3. CASE body[r] = NotJSON
    <3>1. req' = [req EXCEPT ![r] = "400"]
      BY <1>1, <2>3 DEF Receive
    <3> QED
      BY <1>0, <2>1, <3>1
  <2>4. CASE body[r] \notin {Oversized, NotJSON}
    <3>1. req' = [req EXCEPT ![r] = "insert"]
      BY <1>1, <2>4 DEF Receive
    <3> QED
      BY <1>0, <2>1, <3>1
  <2> QED
    BY <2>2, <2>3, <2>4
<1>2. CASE InsertNew(r)
  <2>1. /\ req[r] = "insert"
        /\ req' = [req EXCEPT ![r] = "notify"]
        /\ InsertRaw(body[r])
        /\ UNCHANGED <<notify, proc, faults>>
    BY <1>2 DEF InsertNew
  <2>2. body[r] \in Hashes
    BY <2>1 DEF InsertRaw
  <2>3. QueueTypeOK /\ UNCHANGED <<attempts, error, lease_until>>
    BY <2>1, <2>2, InsertRawTypes
  <2>4. status' \in [Hashes -> Stored \cup {Absent}] /\ received_at' \in Seq(Hashes)
    BY <2>1, <2>2, <2>3, InsertRawTypes
  <2> QED
    BY <1>0, <2>1, <2>2, <2>3, <2>4
<1>3. CASE InsertConflict(r)
  BY <1>0, <1>3 DEF InsertConflict
<1>4. CASE Lookup(r)
  BY <1>0, <1>4 DEF Lookup
<1>5. CASE NotifyAndAck(r)
  BY <1>0, <1>5 DEF NotifyAndAck, Notify
<1>6. CASE InsertError(r)
  <2>1. /\ req[r] = "insert"
        /\ req' = [req EXCEPT ![r] = "500"]
        /\ InsertRaw(body[r]) \/ UNCHANGED raw_events
        /\ Fault
        /\ UNCHANGED <<notify, proc>>
    BY <1>6 DEF InsertError
  <2>3. QueueTypeOK /\ HostTypeOK
    OBVIOUS
  <2>4. /\ status' \in [Hashes -> Stored \cup {Absent}]
        /\ received_at' \in Seq(Hashes)
        /\ UNCHANGED <<attempts, error, lease_until>>
    <3>1. CASE InsertRaw(body[r])
      <4>1. body[r] \in Hashes
        BY <3>1 DEF InsertRaw
      <4> QED
        BY <2>3, <3>1, <4>1, InsertRawTypes
    <3>2. CASE UNCHANGED raw_events
      BY <3>2
    <3> QED
      BY <2>1, <3>1, <3>2
  <2>5. faults' \in 0..MaxFaults
    BY <2>1, <2>3, FaultTypes
  <2> QED
    BY <1>0, <2>1, <2>4, <2>5
<1>7. CASE LookupError(r)
  <2>1. HostTypeOK /\ Fault
    BY <1>7 DEF LookupError
  <2>2. faults' \in 0..MaxFaults
    BY <2>1, FaultTypes
  <2> QED
    BY <1>0, <1>7, <2>2 DEF LookupError
<1>8. CASE InsertRefused(r)
  BY <1>0, <1>8 DEF InsertRefused
<1> QED
  BY <1>1, <1>2, <1>3, <1>4, <1>5, <1>6, <1>7, <1>8
     DEF RequestNext, RequestStep, RequestFault

(* A step of a worker outside its handler respects the types.                  *)
LEMMA QueueTypes ==
  ASSUME Types, NEW w \in Workers, QueueNext(w)
  PROVE  Types'
<1> USE WorkersAssumption DEF Types, TypeOK, HostTypeOK, QueueTypeOK, IngestTypeOK,
        PoolTypeOK, PayloadsOnly, raw_events, pool, MoveTo, Release
<1>0. UNCHANGED req
  BY DEF QueueNext
<1>1. CASE Claim(w)
  <2>1. PICK h \in Hashes :
          /\ ClaimRow(h)
          /\ pc' = [pc EXCEPT ![w] = "handle"]
          /\ job' = [job EXCEPT ![w] = h]
          /\ tries' = [tries EXCEPT ![w] = attempts'[h]]
    BY <1>1 DEF Claim
  <2>2. UNCHANGED <<notify, proc, faults>>
    BY <1>1 DEF Claim
  <2> QED
    BY <1>0, <2>1, <2>2, ClaimRowTypes
<1>2. CASE ClaimEmpty(w)
  BY <1>0, <1>2 DEF ClaimEmpty
<1>3. CASE Wake(w)
  BY <1>0, <1>3 DEF Wake
<1>4. CASE Poll(w)
  BY <1>0, <1>4 DEF Poll
<1>5. CASE Ack(w)
  BY <1>0, <1>5 DEF Ack, MarkProcessed
<1>6. CASE Fail(w)
  BY <1>0, <1>6 DEF Fail, FailRow
<1>7. CASE Retry(w)
  <2>1. /\ status' \in [Hashes -> Stored \cup {Absent}]
        /\ error' \in [Hashes -> Reasons \cup {Null}]
        /\ lease_until' \in [Hashes -> Leases]
        /\ UNCHANGED <<attempts, received_at>>
    <3>1. CASE FailRow(job[w], "transient")
      BY <3>1 DEF FailRow
    <3>2. CASE /\ error'       = [error EXCEPT ![job[w]] = "transient"]
               /\ lease_until' = [lease_until EXCEPT ![job[w]] = "live"]
               /\ UNCHANGED <<status, attempts, received_at>>
      BY <3>2
    <3> QED
      BY <1>7, <3>1, <3>2 DEF Retry, RetryOrFail
  <2> QED
    BY <1>0, <1>7, <2>1 DEF Retry
<1>8. CASE Leave(w)
  BY <1>0, <1>8 DEF Leave
<1>9. CASE ClaimLost(w)
  BY <1>0, <1>9, FaultTypes, ClaimRowTypes DEF ClaimLost
<1>10. CASE ClosingLost(w)
  BY <1>0, <1>10, FaultTypes DEF ClosingLost
<1>11. CASE ClaimFails(w)
  BY <1>0, <1>11, FaultTypes DEF ClaimFails
<1>12. CASE Resume(w)
  BY <1>0, <1>12 DEF Resume
<1> QED
  BY <1>1, <1>2, <1>3, <1>4, <1>5, <1>6, <1>7, <1>8, <1>9, <1>10, <1>11, <1>12
     DEF QueueNext, WorkerStep, WorkerFault

(* Every step respects the types.                                              *)
LEMMA TypesStep ==
  ASSUME Types, [Next]_vars
  PROVE  Types'
<1> USE DEF Types, TypeOK, HostTypeOK, QueueTypeOK, IngestTypeOK, PoolTypeOK,
        PayloadsOnly, raw_events, pool
<1>1. ASSUME NEW r \in Requests, RequestNext(r)
      PROVE  Types'
  BY <1>1, RequestTypes
<1>2. ASSUME NEW w \in Workers, QueueNext(w)
      PROVE  Types'
  BY <1>2, QueueTypes
<1>3. ASSUME NEW w \in Workers, HandlerNext(w)
      PROVE  Types'
  <2>1. PICK outcome \in Outcomes : HandlerReturns(w, outcome)
    BY <1>3 DEF HandlerNext
  <2>2. pc' = [pc EXCEPT ![w] = outcome] /\ outcome \in Places
    BY <2>1 DEF HandlerReturns, MoveTo
  <2>3. UNCHANGED <<raw_events, notify, job, tries, proc, faults, req>>
    BY <1>3, <2>1 DEF HandlerNext, HandlerReturns
  <2> QED
    BY <2>2, <2>3
<1>4. ASSUME NEW h \in Hashes, Tick(h)
      PROVE  Types'
  BY <1>4 DEF Tick, LeaseExpires
<1>5. ASSUME NEW p \in Processes, Stop(p)
      PROVE  Types'
  BY <1>5, FaultTypes DEF Stop, Signalled
<1>6. ASSUME NEW p \in Processes, Crash(p)
      PROVE  Types'
  BY <1>6, FaultTypes
     DEF Crash, Killed, DropTokens, DropRequests, DropWorkers
<1>7. ASSUME NEW p \in Processes, Exit(p)
      PROVE  Types'
  BY <1>7 DEF Exit, Exited, DropTokens, DropRequests
<1>8. ASSUME NEW p \in Processes, Restart(p)
      PROVE  Types'
  BY <1>8 DEF Restart, Started, StartWorkers
<1>9. CASE UNCHANGED vars
  BY <1>9 DEF vars
<1> QED
  BY <1>1, <1>2, <1>3, <1>4, <1>5, <1>6, <1>7, <1>8, <1>9 DEF Next

(* Type correctness.  TypeOK is not inductive alone: that a request in flight  *)
(* has a payload is what keeps garbage out of raw_events.                      *)
THEOREM TypeCorrect == Spec => []TypeOK
<1>1. Init => Types
  BY MaxFaultsAssumption
     DEF Init, HostInit, QueueInit, IngestInit, PoolInit, Types, TypeOK, HostTypeOK,
         QueueTypeOK, IngestTypeOK, PoolTypeOK, PayloadsOnly
<1>2. Types /\ [Next]_vars => Types'
  BY TypesStep
<1>3. Types => TypeOK
  BY DEF Types
<1> QED
  BY <1>1, <1>2, <1>3, PTL DEF Spec

-----------------------------------------------------------------------------
\* How one step may change a row.
RowMoves(h) ==
  /\ status[h] \in Stored => status'[h] \in Stored
  /\ status[h] \in Settled => status'[h] \in Settled /\ attempts'[h] = attempts[h]
  /\ status[h] \notin {Absent, "PENDING"} => status'[h] # "PENDING"

(* A row is never deleted, a settled row never runs again and is charged no    *)
(* attempt, and only an insert makes a row PENDING.                            *)
LEMMA RowsMoveForward ==
  ASSUME Types, [Next]_vars, NEW h \in Hashes
  PROVE  RowMoves(h)
<1> USE DEF Types, TypeOK, QueueTypeOK, raw_events, RowMoves
<1>1. CASE UNCHANGED <<status, attempts>>
  BY <1>1
<1>2. ASSUME NEW g \in Hashes, InsertRaw(g)
      PROVE  RowMoves(h)
  BY <1>2 DEF InsertRaw
<1>3. ASSUME NEW g \in Hashes, Claimable(g), ClaimRow(g)
      PROVE  RowMoves(h)
  BY <1>3 DEF Claimable, ClaimRow
<1>4. ASSUME NEW g \in Hashes \cup {NoJob}, NEW reason,
             MarkProcessed(g) \/ FailRow(g, reason)
      PROVE  RowMoves(h)
  BY <1>4 DEF MarkProcessed, FailRow
<1>5. ASSUME NEW r \in Requests, RequestNext(r)
      PROVE  RowMoves(h)
  <2>1. CASE InsertNew(r)
    BY <2>1, <1>2 DEF InsertNew, InsertRaw
  <2>2. CASE InsertError(r)
    BY <2>2, <1>1, <1>2 DEF InsertError, InsertRaw
  <2>3. CASE \/ Receive(r) \/ InsertRefused(r) \/ InsertConflict(r)
             \/ Lookup(r) \/ NotifyAndAck(r) \/ LookupError(r)
    BY <2>3, <1>1 DEF Receive, InsertRefused, InsertConflict, Lookup, NotifyAndAck, LookupError
  <2> QED
    BY <1>5, <2>1, <2>2, <2>3 DEF RequestNext, RequestStep, RequestFault
<1>6. ASSUME NEW w \in Workers, QueueNext(w)
      PROVE  RowMoves(h)
  <2> USE DEF PoolTypeOK
  <2>1. CASE Claim(w)
    BY <2>1, <1>3 DEF Claim, Selected
  <2>2. CASE ClaimLost(w)
    BY <2>2, <1>3 DEF ClaimLost, Selected
  <2>3. CASE Ack(w)
    BY <2>3, <1>4 DEF Ack
  <2>4. CASE Fail(w)
    BY <2>4, <1>4 DEF Fail
  <2>5. CASE Retry(w)
    BY <2>5, <1>1, <1>4 DEF Retry, RetryOrFail
  <2>6. CASE \/ ClaimFails(w) \/ Resume(w) \/ ClaimEmpty(w) \/ Wake(w) \/ Poll(w)
             \/ Leave(w) \/ ClosingLost(w)
    BY <2>6, <1>1 DEF ClaimFails, Resume, ClaimEmpty, Wake, Poll, Leave, ClosingLost
  <2> QED
    BY <1>6, <2>1, <2>2, <2>3, <2>4, <2>5, <2>6 DEF QueueNext, WorkerStep, WorkerFault
<1>7. ASSUME NEW w \in Workers, HandlerNext(w)
      PROVE  RowMoves(h)
  BY <1>7, <1>1 DEF HandlerNext, HandlerReturns
<1>8. ASSUME NEW g \in Hashes, Tick(g)
      PROVE  RowMoves(h)
  BY <1>8, <1>1 DEF Tick, LeaseExpires
<1>9. ASSUME NEW p \in Processes, Stop(p) \/ Crash(p) \/ Exit(p) \/ Restart(p)
      PROVE  RowMoves(h)
  BY <1>9, <1>1 DEF Stop, Crash, Exit, Restart
<1>10. CASE UNCHANGED vars
  BY <1>10, <1>1 DEF vars
<1> QED
  BY <1>5, <1>6, <1>7, <1>8, <1>9, <1>10 DEF Next

(* A processed or dead-lettered row never runs again.  The closing statements  *)
(* check nothing, so this rests on Claim and InsertRaw alone: no statement of  *)
(* a late worker can produce a claimable status.                               *)
THEOREM SettledForGood == Spec => SettledIsFinal
<1>1. Init => Types
  BY MaxFaultsAssumption
     DEF Init, HostInit, QueueInit, IngestInit, PoolInit, Types, TypeOK, HostTypeOK,
         QueueTypeOK, IngestTypeOK, PoolTypeOK, PayloadsOnly
<1>2. Types /\ [Next]_vars => Types'
  BY TypesStep
<1>3. Types /\ [Next]_vars =>
        [\A h \in Hashes : status[h] \in Settled =>
           status'[h] \in Settled /\ attempts'[h] = attempts[h]]_vars
  BY RowsMoveForward DEF RowMoves
<1> QED
  BY <1>1, <1>2, <1>3, PTL DEF Spec, SettledIsFinal

-----------------------------------------------------------------------------
\* A worker has a job exactly while it handles or closes one, and the workers of
\* a process are down when it is.
Busy(w) == pc[w] \in {"handle"} \cup Outcomes

BusyHasJob ==
  \A w \in Workers :
    /\ Busy(w) => job[w] \in Hashes
    /\ ~Busy(w) => job[w] = NoJob
    /\ proc[home[w]] = "down" => pc[w] = "down"

\* Whoever is past the insert has a row; the index of rows lists rows.
RowsExist ==
  /\ \A r \in Requests :
       req[r] \in {"lookup", "notify", "202 new", "202 duplicate"} => status[body[r]] \in Stored
  /\ \A i \in DOMAIN received_at : status[received_at[i]] \in Stored

\* Until something fails no process stops and no worker pauses.
Calm ==
  faults = 0 =>
    /\ \A p \in Processes : proc[p] # "stopping"
    /\ \A w \in Workers : pc[w] # "pause"

Inv ==
  /\ Types
  /\ BusyHasJob
  /\ Calm
  /\ RowsExist
  /\ OneNewPerPayload
  /\ JobsAreClaims
  /\ NoLostWakeup

(* Jobs are held exactly by busy workers, whatever stops, dies or restarts.    *)
LEMMA BusyStep ==
  ASSUME Types, BusyHasJob, [Next]_vars
  PROVE  BusyHasJob'
<1> USE WorkersAssumption DEF Types, TypeOK, HostTypeOK, PoolTypeOK, BusyHasJob, Busy,
        pool, MoveTo, Release, Running
<1>1. ASSUME NEW r \in Requests, RequestNext(r)
      PROVE  BusyHasJob'
  <2>1. UNCHANGED <<proc, pc, job>>
    BY <1>1 DEF RequestNext, RequestStep, RequestFault, Receive, InsertNew, InsertRefused,
         InsertConflict, Lookup, NotifyAndAck, InsertError, LookupError
  <2> QED
    BY <2>1
<1>2. ASSUME NEW w \in Workers, QueueNext(w)
      PROVE  BusyHasJob'
  <2>1. CASE Claim(w)
    BY <2>1 DEF Claim
  <2>2. CASE ClaimEmpty(w) \/ Wake(w) \/ Poll(w) \/ Resume(w)
    BY <2>2 DEF ClaimEmpty, Wake, Poll, Resume
  <2>3. CASE Ack(w) \/ Fail(w) \/ Retry(w)
    BY <2>3 DEF Ack, Fail, Retry
  <2>4. CASE Leave(w)
    BY <2>4 DEF Leave
  <2>5. CASE ClaimLost(w) \/ ClaimFails(w)
    BY <2>5 DEF ClaimLost, ClaimFails
  <2>6. CASE ClosingLost(w)
    BY <2>6 DEF ClosingLost
  <2> QED
    BY <1>2, <2>1, <2>2, <2>3, <2>4, <2>5, <2>6 DEF QueueNext, WorkerStep, WorkerFault
<1>3. ASSUME NEW w \in Workers, HandlerNext(w)
      PROVE  BusyHasJob'
  BY <1>3 DEF HandlerNext, HandlerReturns
<1>4. ASSUME NEW h \in Hashes, Tick(h)
      PROVE  BusyHasJob'
  BY <1>4 DEF Tick
<1>5. ASSUME NEW p \in Processes, Stop(p)
      PROVE  BusyHasJob'
  BY <1>5 DEF Stop, Signalled
<1>6. ASSUME NEW p \in Processes, Crash(p)
      PROVE  BusyHasJob'
  BY <1>6 DEF Crash, Killed, DropWorkers
<1>7. ASSUME NEW p \in Processes, Exit(p)
      PROVE  BusyHasJob'
  BY <1>7 DEF Exit, Exited
<1>8. ASSUME NEW p \in Processes, Restart(p)
      PROVE  BusyHasJob'
  BY <1>8 DEF Restart, Started, StartWorkers
<1>9. CASE UNCHANGED vars
  BY <1>9 DEF vars
<1> QED
  BY <1>1, <1>2, <1>3, <1>4, <1>5, <1>6, <1>7, <1>8, <1>9 DEF Next

(* What JobsAreClaims says survives a step that hands out no job and charges   *)
(* no attempt.                                                                 *)
LEMMA ClaimsKept ==
  ASSUME Types, JobsAreClaims, [Next]_vars, UNCHANGED attempts,
         \A w \in Workers : \/ job'[w] = NoJob
                            \/ job'[w] = job[w] /\ tries'[w] = tries[w]
  PROVE  JobsAreClaims'
<1>1. \A h \in Hashes : status[h] \in Stored \ {"PENDING"} => status'[h] \in Stored \ {"PENDING"}
  BY RowsMoveForward DEF RowMoves
<1> QED
  BY <1>1 DEF JobsAreClaims, Types, TypeOK, PoolTypeOK

(* A claim takes a number that nobody else holds for the row.                  *)
LEMMA ClaimsStep ==
  ASSUME Types, JobsAreClaims, [Next]_vars
  PROVE  JobsAreClaims'
<1> USE WorkersAssumption DEF Types, TypeOK, QueueTypeOK, PoolTypeOK, pool, raw_events
<1>1. ASSUME NEW r \in Requests, RequestNext(r)
      PROVE  JobsAreClaims'
  <2>1. UNCHANGED <<attempts, job, tries>>
    BY <1>1 DEF RequestNext, RequestStep, RequestFault, Receive, InsertNew, InsertRefused,
         InsertConflict, Lookup, NotifyAndAck, InsertError, LookupError, InsertRaw
  <2> QED
    BY <2>1, ClaimsKept
<1>2. ASSUME NEW w \in Workers, QueueNext(w)
      PROVE  JobsAreClaims'
  <2>1. CASE Claim(w)
    <3>1. PICK h \in Hashes :
            /\ Claimable(h)
            /\ ClaimRow(h)
            /\ job'   = [job EXCEPT ![w] = h]
            /\ tries' = [tries EXCEPT ![w] = attempts'[h]]
      BY <2>1 DEF Claim, Selected
    <3>2. /\ status'   = [status EXCEPT ![h] = "PROCESSING"]
          /\ attempts' = [attempts EXCEPT ![h] = @ + 1]
          /\ attempts'[h] = attempts[h] + 1
      BY <3>1 DEF ClaimRow
    <3>3. ASSUME NEW v \in Workers, job'[v] # NoJob
          PROVE  /\ status'[job'[v]] \in Stored \ {"PENDING"}
                 /\ tries'[v] \in 1..attempts'[job'[v]]
      BY <3>1, <3>2, <3>3 DEF JobsAreClaims
    <3>4. ASSUME NEW v \in Workers \ {w}, job[v] = h
          PROVE  tries'[v] # tries'[w]
      <4>1. tries'[v] = tries[v] /\ tries'[w] = attempts[h] + 1
        BY <3>1, <3>2, <3>4
      <4>2. tries[v] \in 1..attempts[h] /\ attempts[h] \in Nat
        BY <3>4 DEF JobsAreClaims
      <4> QED
        BY <4>1, <4>2
    <3>5. ASSUME NEW u \in Workers, NEW v \in Workers, u # v, job'[u] = job'[v], job'[u] # NoJob
          PROVE  tries'[u] # tries'[v]
      BY <3>1, <3>4, <3>5 DEF JobsAreClaims
    <3> QED
      BY <3>3, <3>5 DEF JobsAreClaims
  <2>2. CASE ClaimLost(w)
    <3>1. PICK h \in Hashes : ClaimRow(h)
      BY <2>2 DEF ClaimLost
    <3>2. UNCHANGED <<job, tries>>
      BY <2>2 DEF ClaimLost
    <3>3. /\ status'   = [status EXCEPT ![h] = "PROCESSING"]
          /\ \A g \in Hashes : attempts'[g] \in Nat /\ attempts'[g] >= attempts[g]
      BY <3>1 DEF ClaimRow
    <3>4. ASSUME NEW v \in Workers, job[v] # NoJob
          PROVE  /\ status'[job[v]] \in Stored \ {"PENDING"}
                 /\ tries[v] \in 1..attempts'[job[v]]
      BY <3>3, <3>4 DEF JobsAreClaims
    <3> QED
      BY <3>2, <3>4 DEF JobsAreClaims
  <2>3. CASE Ack(w) \/ Fail(w) \/ Retry(w) \/ ClosingLost(w)
    BY <2>3, ClaimsKept DEF Ack, Fail, Retry, ClosingLost, Release, MarkProcessed,
         FailRow, RetryOrFail
  <2>4. CASE ClaimFails(w) \/ Resume(w) \/ ClaimEmpty(w) \/ Wake(w) \/ Poll(w) \/ Leave(w)
    BY <2>4, ClaimsKept DEF ClaimFails, Resume, ClaimEmpty, Wake, Poll, Leave
  <2> QED
    BY <1>2, <2>1, <2>2, <2>3, <2>4 DEF QueueNext, WorkerStep, WorkerFault
<1>3. ASSUME NEW w \in Workers, HandlerNext(w)
      PROVE  JobsAreClaims'
  BY <1>3, ClaimsKept DEF HandlerNext, HandlerReturns
<1>4. ASSUME NEW h \in Hashes, Tick(h)
      PROVE  JobsAreClaims'
  BY <1>4, ClaimsKept DEF Tick, LeaseExpires
<1>5. ASSUME NEW p \in Processes, Stop(p) \/ Crash(p) \/ Exit(p) \/ Restart(p)
      PROVE  JobsAreClaims'
  BY <1>5, ClaimsKept DEF Stop, Crash, Exit, Restart, DropWorkers, StartWorkers
<1>6. CASE UNCHANGED vars
  BY <1>6, ClaimsKept DEF vars
<1> QED
  BY <1>1, <1>2, <1>3, <1>4, <1>5, <1>6 DEF Next

-----------------------------------------------------------------------------
\* How one step may change a request and the order of the rows.
RequestMoves ==
  \/ UNCHANGED <<req, received_at>>
  \/ \E r \in Requests :
       /\ req[r] = "insert" /\ status[body[r]] = Absent /\ body[r] \in Hashes
       /\ req' = [req EXCEPT ![r] = "notify"] \/ req' = [req EXCEPT ![r] = "500"]
       /\ status' = [status EXCEPT ![body[r]] = "PENDING"]
       /\ received_at' = Append(received_at, body[r])
  \/ /\ UNCHANGED received_at
     /\ \A r \in Requests :
          \/ req'[r] = req[r]
          \/ req'[r] \in {"insert", "400", "413", "500", "lost"}
          \/ req[r] = "insert" /\ req'[r] = "lookup" /\ body[r] \in Hashes
             /\ status[body[r]] \in Stored
          \/ req[r] = "lookup" /\ req'[r] = "202 duplicate"
          \/ req[r] = "notify" /\ req'[r] = "202 new"

(* The row and the place of its request change together.                       *)
LEMMA RequestsMove ==
  ASSUME Types, [Next]_vars
  PROVE  RequestMoves
<1> USE DEF Types, TypeOK, QueueTypeOK, IngestTypeOK, raw_events, GoTo, PayloadsOnly
<1>1. CASE UNCHANGED <<req, received_at>>
  BY <1>1 DEF RequestMoves
<1>2. ASSUME NEW r \in Requests, RequestNext(r)
      PROVE  RequestMoves
  <2>1. CASE Receive(r)
    <3>1. /\ UNCHANGED received_at
          /\ req'[r] \in {"insert", "400", "413", "500"}
          /\ \A s \in Requests \ {r} : req'[s] = req[s]
      BY <2>1 DEF Receive
    <3> QED
      BY <3>1 DEF RequestMoves
  <2>2. CASE InsertNew(r)
    BY <2>2 DEF InsertNew, InsertRaw, RequestMoves
  <2>3. CASE InsertError(r)
    <3>1. CASE InsertRaw(body[r])
      BY <2>3, <3>1 DEF InsertError, InsertRaw, RequestMoves
    <3>2. CASE UNCHANGED raw_events
      BY <2>3, <3>2 DEF InsertError, RequestMoves
    <3> QED
      BY <2>3, <3>1, <3>2 DEF InsertError
  <2>4. CASE InsertConflict(r)
    BY <2>4 DEF InsertConflict, RequestMoves
  <2>5. CASE Lookup(r)
    BY <2>5 DEF Lookup, RequestMoves
  <2>6. CASE NotifyAndAck(r)
    BY <2>6 DEF NotifyAndAck, RequestMoves
  <2>7. CASE LookupError(r)
    BY <2>7 DEF LookupError, RequestMoves
  <2>8. CASE InsertRefused(r)
    BY <2>8 DEF InsertRefused, RequestMoves
  <2> QED
    BY <1>2, <2>1, <2>2, <2>3, <2>4, <2>5, <2>6, <2>7, <2>8
       DEF RequestNext, RequestStep, RequestFault
<1>3. ASSUME NEW w \in Workers, QueueNext(w)
      PROVE  RequestMoves
  BY <1>1, <1>3 DEF QueueNext, WorkerStep, WorkerFault, Claim, ClaimFails, ClaimLost, ClaimRow,
     Resume, ClaimEmpty, Wake, Poll, Ack, MarkProcessed, Fail, FailRow, Retry, RetryOrFail, Leave, ClosingLost
<1>4. ASSUME NEW w \in Workers, HandlerNext(w)
      PROVE  RequestMoves
  BY <1>1, <1>4 DEF HandlerNext, HandlerReturns
<1>5. ASSUME NEW h \in Hashes, Tick(h)
      PROVE  RequestMoves
  BY <1>1, <1>5 DEF Tick, LeaseExpires
<1>6. ASSUME NEW p \in Processes, Stop(p) \/ Restart(p)
      PROVE  RequestMoves
  BY <1>1, <1>6 DEF Stop, Restart
<1>7. ASSUME NEW p \in Processes, Crash(p) \/ Exit(p)
      PROVE  RequestMoves
  <2>1. UNCHANGED received_at
    BY <1>7 DEF Crash, Exit
  <2>2. DropRequests(p)
    BY <1>7 DEF Crash, Exit
  <2>3. \A r \in Requests : req'[r] = req[r] \/ req'[r] = "lost"
    BY <2>2 DEF DropRequests
  <2> QED
    BY <2>1, <2>3 DEF RequestMoves
<1>8. CASE UNCHANGED vars
  BY <1>1, <1>8 DEF vars
<1> QED
  BY <1>2, <1>3, <1>4, <1>5, <1>6, <1>7, <1>8 DEF Next

(* The rows are the hashes at the positions of received_at.                    *)
LEMMA Positions ==
  ASSUME NEW S, NEW s \in Seq(S)
  PROVE  /\ Len(s) \in Nat
         /\ DOMAIN s = 1..Len(s)
         /\ \A i \in DOMAIN s : s[i] \in S
OBVIOUS

(* What Append does, in terms of positions.                                    *)
LEMMA AppendPositions ==
  ASSUME NEW S, NEW s \in Seq(S), NEW e \in S
  PROVE  /\ DOMAIN Append(s, e) = 1..(Len(s) + 1)
         /\ \A i \in 1..Len(s) : Append(s, e)[i] = s[i]
         /\ Append(s, e)[Len(s) + 1] = e
OBVIOUS

(* Every position of Append is an old one or the new one.                      *)
LEMMA AppendElements ==
  ASSUME NEW S, NEW s \in Seq(S), NEW e \in S, NEW i \in DOMAIN Append(s, e)
  PROVE  \/ i \in DOMAIN s /\ Append(s, e)[i] = s[i]
         \/ i = Len(s) + 1 /\ i \notin DOMAIN s /\ Append(s, e)[i] = e
<1>1. Len(s) \in Nat /\ DOMAIN s = 1..Len(s)
  BY Positions
<1>2. i \in 1..(Len(s) + 1)
  BY AppendPositions
<1>3. CASE i \in 1..Len(s)
  BY <1>1, <1>3, AppendPositions
<1>4. CASE i = Len(s) + 1
  BY <1>1, <1>4, AppendPositions
<1> QED
  BY <1>1, <1>2, <1>3, <1>4

(* Rows stay where a request left them.                                        *)
LEMMA RowsExistStep ==
  ASSUME Types, RowsExist, [Next]_vars
  PROVE  RowsExist'
<1> USE DEF Types, TypeOK, QueueTypeOK, IngestTypeOK, PayloadsOnly, RowsExist
<1>0. \A i \in DOMAIN received_at : received_at[i] \in Hashes
  BY Positions
<1>1. \A h \in Hashes : status[h] \in Stored => status'[h] \in Stored
  BY RowsMoveForward DEF RowMoves
<1>2. RequestMoves
  BY RequestsMove
<1>3. CASE UNCHANGED <<req, received_at>>
  <2>1. \A r \in Requests :
          req'[r] \in {"lookup", "notify", "202 new", "202 duplicate"} => status'[body[r]] \in Stored
    BY <1>1, <1>3
  <2>2. \A i \in DOMAIN received_at' : status'[received_at'[i]] \in Stored
    BY <1>0, <1>1, <1>3
  <2> QED
    BY <2>1, <2>2
<1>4. ASSUME NEW r \in Requests,
             body[r] \in Hashes,
             req' = [req EXCEPT ![r] = "notify"] \/ req' = [req EXCEPT ![r] = "500"],
             status' = [status EXCEPT ![body[r]] = "PENDING"],
             received_at' = Append(received_at, body[r])
      PROVE  RowsExist'
  <2>1. \A s \in Requests : s = r \/ req'[s] = req[s]
    BY <1>4
  <2>2. status'[body[r]] \in Stored
    BY <1>4
  <2>3. \A i \in DOMAIN received_at' :
          \/ i \in DOMAIN received_at /\ received_at'[i] = received_at[i]
          \/ received_at'[i] = body[r]
    <3>1. received_at \in Seq(Hashes)
      OBVIOUS
    <3> HIDE DEF Types, RowsExist
    <3> QED
      BY <1>4, <3>1, AppendElements
  <2>4. \A s \in Requests :
          req'[s] \in {"lookup", "notify", "202 new", "202 duplicate"} => status'[body[s]] \in Stored
    BY <1>1, <2>1, <2>2
  <2>5. \A i \in DOMAIN received_at' : status'[received_at'[i]] \in Stored
    BY <1>0, <1>1, <2>2, <2>3
  <2> QED
    BY <2>4, <2>5
<1>5. CASE /\ UNCHANGED received_at
           /\ \A r \in Requests :
                \/ req'[r] = req[r]
                \/ req'[r] \in {"insert", "400", "413", "500", "lost"}
                \/ req[r] = "insert" /\ req'[r] = "lookup" /\ body[r] \in Hashes
                   /\ status[body[r]] \in Stored
                \/ req[r] = "lookup" /\ req'[r] = "202 duplicate"
                \/ req[r] = "notify" /\ req'[r] = "202 new"
  <2>1. \A r \in Requests :
          req'[r] \in {"lookup", "notify", "202 new", "202 duplicate"} => status'[body[r]] \in Stored
    <3>1. SUFFICES ASSUME NEW r \in Requests,
                          req'[r] \in {"lookup", "notify", "202 new", "202 duplicate"}
                   PROVE  status'[body[r]] \in Stored
      OBVIOUS
    <3>2. \/ req[r] \in {"lookup", "notify", "202 new", "202 duplicate"}
          \/ req[r] = "insert" /\ body[r] \in Hashes /\ status[body[r]] \in Stored
      BY <1>5, <3>1
    <3>3. body[r] \in Hashes
      BY <3>2
    <3>4. status[body[r]] \in Stored
      BY <3>2
    <3> QED
      BY <1>1, <3>3, <3>4
  <2>2. \A i \in DOMAIN received_at' : status'[received_at'[i]] \in Stored
    BY <1>0, <1>1, <1>5
  <2> QED
    BY <2>1, <2>2
<1> QED
  BY <1>2, <1>3, <1>4, <1>5 DEF RequestMoves

(* A second insert of a payload finds the row of the first.                    *)
LEMMA OneNewStep ==
  ASSUME Types, RowsExist, OneNewPerPayload, [Next]_vars
  PROVE  OneNewPerPayload'
<1> USE DEF Types, TypeOK, QueueTypeOK, IngestTypeOK, PayloadsOnly, OneNewPerPayload
<1>1. RequestMoves
  BY RequestsMove
<1>2. CASE UNCHANGED <<req, received_at>>
  BY <1>2
<1>3. ASSUME NEW r \in Requests,
             status[body[r]] = Absent, body[r] \in Hashes,
             req' = [req EXCEPT ![r] = "notify"] \/ req' = [req EXCEPT ![r] = "500"],
             received_at' = Append(received_at, body[r])
      PROVE  OneNewPerPayload'
  <2>1. \A s \in Requests \ {r} :
          body[s] = body[r] => req'[s] \notin {"notify", "202 new"}
    BY <1>3 DEF RowsExist
  <2>2. \A i \in DOMAIN received_at : received_at[i] # body[r]
    BY <1>3 DEF RowsExist
  <2>3. \A i, j \in DOMAIN received_at' : received_at'[i] = received_at'[j] => i = j
    <3>1. received_at \in Seq(Hashes) /\ body[r] \in Hashes
      BY <1>3
    <3>2. \A i, j \in DOMAIN received_at : received_at[i] = received_at[j] => i = j
      OBVIOUS
    <3> HIDE DEF Types, OneNewPerPayload
    <3>3. \A i \in DOMAIN received_at' :
            \/ i \in DOMAIN received_at /\ received_at'[i] = received_at[i]
            \/ i = Len(received_at) + 1 /\ received_at'[i] = body[r]
      BY <1>3, <3>1, AppendElements
    <3> QED
      BY <2>2, <3>2, <3>3
  <2>4. \A s \in Requests \ {r} : req'[s] = req[s]
    BY <1>3
  <2> QED
    BY <2>1, <2>3, <2>4
<1>4. CASE /\ UNCHANGED received_at
           /\ \A r \in Requests :
                \/ req'[r] = req[r]
                \/ req'[r] \in {"insert", "400", "413", "500", "lost"}
                \/ req[r] = "insert" /\ req'[r] = "lookup" /\ body[r] \in Hashes
                   /\ status[body[r]] \in Stored
                \/ req[r] = "lookup" /\ req'[r] = "202 duplicate"
                \/ req[r] = "notify" /\ req'[r] = "202 new"
  BY <1>4
<1> QED
  BY <1>1, <1>2, <1>3, <1>4 DEF RequestMoves

-----------------------------------------------------------------------------
(* Faults are only ever counted up.                                            *)
LEMMA FaultsGrow ==
  ASSUME Types, [Next]_vars
  PROVE  faults' = 0 => faults = 0
<1> USE DEF Types, TypeOK, HostTypeOK
<1>1. CASE UNCHANGED faults
  BY <1>1
<1>2. CASE Fault
  BY <1>2 DEF Fault
<1>3. ASSUME NEW r \in Requests, RequestNext(r)
      PROVE  UNCHANGED faults \/ Fault
  BY <1>3 DEF RequestNext, RequestStep, RequestFault, Receive, InsertNew, InsertRefused,
     InsertConflict, Lookup, NotifyAndAck, InsertError, LookupError
<1>4. ASSUME NEW w \in Workers, QueueNext(w)
      PROVE  UNCHANGED faults \/ Fault
  BY <1>4 DEF QueueNext, WorkerStep, WorkerFault, Claim, ClaimFails, ClaimLost, Resume,
     ClaimEmpty, Wake, Poll, Ack, Fail, Retry, Leave, ClosingLost
<1>5. ASSUME NEW w \in Workers, HandlerNext(w)
      PROVE  UNCHANGED faults
  BY <1>5 DEF HandlerNext, HandlerReturns
<1>6. ASSUME NEW p \in Processes, Stop(p) \/ Crash(p) \/ Exit(p) \/ Restart(p)
      PROVE  UNCHANGED faults \/ Fault
  BY <1>6 DEF Stop, Crash, Exit, Restart, Signalled, Killed, Exited, Started
<1>7. ASSUME NEW h \in Hashes, Tick(h)
      PROVE  UNCHANGED faults
  BY <1>7 DEF Tick
<1>8. CASE UNCHANGED vars
  BY <1>8 DEF vars
<1> QED
  BY <1>1, <1>2, <1>3, <1>4, <1>5, <1>6, <1>7, <1>8 DEF Next

(* A stop signal and a failed claim are faults.                                *)
LEMMA CalmStep ==
  ASSUME Types, Calm, [Next]_vars
  PROVE  Calm'
<1> SUFFICES ASSUME faults' = 0
             PROVE  /\ \A p \in Processes : proc'[p] # "stopping"
                    /\ \A w \in Workers : pc'[w] # "pause"
  BY DEF Calm
<1> USE WorkersAssumption DEF pool, MoveTo, Release
<1>0. /\ faults = 0
      /\ ~Fault
      /\ \A p \in Processes : proc[p] # "stopping"
      /\ \A w \in Workers : pc[w] # "pause"
      /\ proc \in [Processes -> {"up", "stopping", "down"}]
      /\ pc \in [Workers -> Places]
  BY FaultsGrow DEF Calm, Fault, Types, TypeOK, HostTypeOK, PoolTypeOK
<1>1. ASSUME NEW r \in Requests, RequestNext(r)
      PROVE  UNCHANGED <<proc, pc>>
  BY <1>1 DEF RequestNext, RequestStep, RequestFault, Receive, InsertNew, InsertRefused,
     InsertConflict, Lookup, NotifyAndAck, InsertError, LookupError
<1>2. ASSUME NEW w \in Workers, QueueNext(w)
      PROVE  UNCHANGED proc /\ \A v \in Workers : pc'[v] # "pause"
  <2>1. CASE WorkerStep(w)
    BY <1>0, <2>1 DEF WorkerStep, Claim, Resume, ClaimEmpty, Wake, Poll, Ack, Fail, Retry, Leave
  <2>2. CASE WorkerFault(w)
    BY <1>0, <2>2 DEF WorkerFault, ClaimFails, ClaimLost, ClosingLost
  <2> QED
    BY <1>2, <2>1, <2>2 DEF QueueNext
<1>3. ASSUME NEW w \in Workers, HandlerNext(w)
      PROVE  UNCHANGED proc /\ \A v \in Workers : pc'[v] # "pause"
  BY <1>0, <1>3 DEF HandlerNext, HandlerReturns
<1>4. ASSUME NEW h \in Hashes, Tick(h)
      PROVE  UNCHANGED <<proc, pc>>
  BY <1>4 DEF Tick
<1>5. ASSUME NEW q \in Processes, Stop(q) \/ Crash(q)
      PROVE  FALSE
  BY <1>0, <1>5 DEF Stop, Crash, Signalled, Killed
<1>6. ASSUME NEW q \in Processes, Exit(q)
      PROVE  FALSE
  BY <1>0, <1>6 DEF Exit, Exited
<1>7. ASSUME NEW q \in Processes, Restart(q)
      PROVE  /\ \A p \in Processes : proc'[p] # "stopping"
             /\ \A w \in Workers : pc'[w] # "pause"
  BY <1>0, <1>7 DEF Restart, Started, StartWorkers
<1>8. CASE UNCHANGED vars
  BY <1>0, <1>8 DEF vars
<1> QED
  BY <1>0, <1>1, <1>2, <1>3, <1>4, <1>5, <1>6, <1>7, <1>8 DEF Next

(* The wake-up of process p is safe in a step that neither takes its token nor *)
(* puts one of its workers to sleep nor acknowledges a request of its own.     *)
LEMMA WakeupKept ==
  ASSUME Inv, [Next]_vars, NEW p \in Processes,
         notify[p] => notify'[p],
         \A w \in Workers : home[w] = p /\ pc'[w] = "wait" => pc[w] = "wait",
         \A r \in Requests : server[r] = p /\ req'[r] = "202 new" => req[r] = "202 new",
         faults' = 0 \/ \A w \in Workers : home[w] = p,
         Asleep(p)', Unclaimed(p)'
  PROVE  notify'[p]
<1>1. PICK r \in Requests : server[r] = p /\ req'[r] = "202 new" /\ status'[body[r]] = "PENDING"
  BY DEF Unclaimed
<1>2. req[r] = "202 new" /\ body[r] \in Hashes /\ status[body[r]] \in Stored
  BY <1>1 DEF Inv, Types, PayloadsOnly, RowsExist
<1>3. status[body[r]] = "PENDING"
  BY <1>1, <1>2, RowsMoveForward DEF RowMoves, Inv
<1>4. Unclaimed(p)
  BY <1>1, <1>2, <1>3 DEF Unclaimed
<1>5. Asleep(p)
  BY DEF Asleep
<1>6. faults = 0 \/ \A w \in Workers : home[w] = p
  BY FaultsGrow DEF Inv
<1> QED
  BY <1>4, <1>5, <1>6 DEF Inv, NoLostWakeup

(* Notify leaves a token, and no worker goes to sleep over a PENDING row while *)
(* the others are asleep: a row that it passes over is held by a claim that    *)
(* has counted, and is not PENDING, or by one that is failing, in a worker     *)
(* that is not asleep.                                                         *)
LEMMA WakeupStep ==
  ASSUME Inv, [Next]_vars
  PROVE  NoLostWakeup'
<1> SUFFICES ASSUME NEW p \in Processes,
                    faults' = 0 \/ \A w \in Workers : home[w] = p,
                    Asleep(p)', Unclaimed(p)'
             PROVE  notify'[p]
  BY DEF NoLostWakeup
<1> USE DEF raw_events, pool, GoTo, MoveTo, Release
<1>0. /\ notify \in [Processes -> BOOLEAN]
      /\ req \in [Requests -> {"unsent"} \cup InFlight \cup Replies]
      /\ pc \in [Workers -> Places]
      /\ server \in [Requests -> Processes]
      /\ home \in [Workers -> Processes]
  BY RequestsAssumption, WorkersAssumption
     DEF Inv, Types, TypeOK, QueueTypeOK, IngestTypeOK, PoolTypeOK
<1>1. ASSUME NEW r \in Requests, RequestNext(r)
      PROVE  notify'[p]
  <2>0. UNCHANGED <<pc, job, tries>>
    BY <1>1 DEF RequestNext
  <2>1. CASE NotifyAndAck(r)
    <3>1. CASE server[r] = p
      BY <1>0, <2>1, <3>1 DEF NotifyAndAck, Notify
    <3>2. CASE server[r] # p
      BY <1>0, <2>0, <2>1, <3>2, WakeupKept DEF NotifyAndAck, Notify
    <3> QED
      BY <3>1, <3>2
  <2>2. CASE Receive(r)
    <3>1. \A s \in Requests : req'[s] = req[s] \/ req'[s] \in {"insert", "400", "413", "500"}
      BY <1>0, <2>2 DEF Receive
    <3>2. UNCHANGED notify
      BY <2>2 DEF Receive
    <3> QED
      BY <1>0, <2>0, <3>1, <3>2, WakeupKept
  <2>3. CASE InsertNew(r) \/ InsertRefused(r) \/ InsertConflict(r) \/ InsertError(r)
    BY <1>0, <2>0, <2>3, WakeupKept DEF InsertNew, InsertRefused, InsertConflict, InsertError
  <2>4. CASE Lookup(r) \/ LookupError(r)
    BY <1>0, <2>0, <2>4, WakeupKept DEF Lookup, LookupError
  <2> QED
    BY <1>1, <2>1, <2>2, <2>3, <2>4 DEF RequestNext, RequestStep, RequestFault
<1>2. ASSUME NEW w \in Workers, QueueNext(w)
      PROVE  notify'[p]
  <2>0. UNCHANGED req
    BY <1>2 DEF QueueNext
  <2>1. CASE ClaimEmpty(w)
    <3>1. PICK r \in Requests :
            server[r] = p /\ req'[r] = "202 new" /\ status'[body[r]] = "PENDING"
      BY DEF Unclaimed
    <3>2. body[r] \in Hashes /\ status[body[r]] = "PENDING"
      BY <2>0, <2>1, <3>1 DEF ClaimEmpty, PayloadsOnly, Inv, Types
    <3>3. PICK v \in Workers \ {w} :
            job[v] = body[r] \/ pc[v] = "pause" \/ proc[home[v]] = "stopping"
      BY <2>1, <3>2 DEF ClaimEmpty, Claimable, MayBeLocked
    <3>4. CASE job[v] = body[r]
      BY <3>2, <3>3, <3>4, WorkersAssumption DEF JobsAreClaims, Inv
    <3>5. CASE faults' = 0
      <4>1. faults = 0
        BY <2>1, <3>5 DEF ClaimEmpty
      <4> QED
        BY <1>0, <3>3, <3>4, <4>1 DEF Inv, Calm
    <3>6. CASE \A u \in Workers : home[u] = p
      <4>1. pc'[v] = "wait" /\ pc'[v] = pc[v]
        BY <1>0, <2>1, <3>3, <3>6 DEF ClaimEmpty, Asleep
      <4>2. proc[home[v]] = "up"
        BY <2>1, <3>3, <3>6 DEF ClaimEmpty, Running
      <4> QED
        BY <3>3, <3>4, <4>1, <4>2
    <3> QED
      BY <3>5, <3>6
  <2>2. CASE Wake(w)
    <3>1. CASE home[w] = p
      BY <1>0, <2>2, <3>1 DEF Wake, Asleep
    <3>2. CASE home[w] # p
      BY <1>0, <2>0, <2>2, <3>2, WakeupKept DEF Wake
    <3> QED
      BY <3>1, <3>2
  <2>3. CASE Claim(w)
    BY <1>0, <2>0, <2>3, WakeupKept DEF Claim
  <2>4. CASE Poll(w) \/ Resume(w) \/ Leave(w)
    BY <1>0, <2>0, <2>4, WakeupKept DEF Poll, Resume, Leave
  <2>5. CASE Ack(w) \/ Fail(w) \/ Retry(w)
    BY <1>0, <2>0, <2>5, WakeupKept DEF Ack, Fail, Retry
  <2>6. CASE ClaimFails(w) \/ ClaimLost(w) \/ ClosingLost(w)
    BY <1>0, <2>0, <2>6, WakeupKept DEF ClaimFails, ClaimLost, ClosingLost
  <2> QED
    BY <1>2, <2>1, <2>2, <2>3, <2>4, <2>5, <2>6 DEF QueueNext, WorkerStep, WorkerFault
<1>3. ASSUME NEW w \in Workers, HandlerNext(w)
      PROVE  notify'[p]
  BY <1>0, <1>3, WakeupKept DEF HandlerNext, HandlerReturns
<1>4. ASSUME NEW h \in Hashes, Tick(h)
      PROVE  notify'[p]
  BY <1>0, <1>4, WakeupKept DEF Tick, LeaseExpires
<1>5. ASSUME NEW q \in Processes, Stop(q)
      PROVE  notify'[p]
  BY <1>0, <1>5, WakeupKept DEF Stop
<1>6. ASSUME NEW q \in Processes, Crash(q)
      PROVE  notify'[p]
  <2>1. CASE q = p
    BY <1>0, <1>6, <2>1 DEF Crash, DropWorkers, Asleep
  <2>2. CASE q # p
    BY <1>0, <1>6, <2>2, WakeupKept DEF Crash, DropTokens, DropRequests, DropWorkers
  <2> QED
    BY <2>1, <2>2
<1>7. ASSUME NEW q \in Processes, Exit(q)
      PROVE  notify'[p]
  <2>1. CASE q = p
    BY <1>0, <1>7, <2>1 DEF Exit, Asleep
  <2>2. CASE q # p
    BY <1>0, <1>7, <2>2, WakeupKept DEF Exit, DropTokens, DropRequests
  <2> QED
    BY <2>1, <2>2
<1>8. ASSUME NEW q \in Processes, Restart(q)
      PROVE  notify'[p]
  BY <1>0, <1>8, WakeupKept DEF Restart, StartWorkers
<1>9. CASE UNCHANGED vars
  BY <1>0, <1>9, WakeupKept DEF vars
<1> QED
  BY <1>1, <1>2, <1>3, <1>4, <1>5, <1>6, <1>7, <1>8, <1>9 DEF Next

-----------------------------------------------------------------------------
(* Inv holds initially.                                                        *)
LEMMA InvInit ==
  ASSUME Init
  PROVE  Inv
<1> USE DEF Init, HostInit, QueueInit, IngestInit, PoolInit
<1>1. Types
  BY MaxFaultsAssumption DEF Types, TypeOK, HostTypeOK, QueueTypeOK, IngestTypeOK,
     PoolTypeOK, PayloadsOnly
<1>2. BusyHasJob
  BY WorkersAssumption DEF BusyHasJob, Busy
<1>3. RowsExist /\ OneNewPerPayload
  BY DEF RowsExist, OneNewPerPayload
<1>4. Calm /\ JobsAreClaims /\ NoLostWakeup
  BY DEF Calm, JobsAreClaims, NoLostWakeup, Unclaimed
<1> QED
  BY <1>1, <1>2, <1>3, <1>4 DEF Inv

(* Inv is inductive.                                                           *)
LEMMA InvStep ==
  ASSUME Inv, [Next]_vars
  PROVE  Inv'
BY TypesStep, BusyStep, CalmStep, RowsExistStep, OneNewStep, ClaimsStep, WakeupStep DEF Inv

(* The inductive invariant of the service.                                     *)
THEOREM Invariance == Spec => []Inv
<1>1. Init => Inv
  BY InvInit
<1>2. Inv /\ [Next]_vars => Inv'
  BY InvStep
<1> QED
  BY <1>1, <1>2, PTL DEF Spec

(* A 202 means that the payload has a row, whatever crashes or gets lost.      *)
THEOREM DurableAck == Spec => []AckIsDurable
<1>1. Inv => AckIsDurable
  BY DEF Inv, Types, PayloadsOnly, RowsExist, AckIsDurable, Accepted
<1> QED
  BY <1>1, Invariance, PTL

(* The idempotency gate: one row and at most one "new" for each payload.       *)
THEOREM Deduplication == Spec => []OneNewPerPayload
<1>1. Inv => OneNewPerPayload
  BY DEF Inv
<1> QED
  BY <1>1, Invariance, PTL

(* dispatch works on claimed rows, under attempt numbers that are its own.     *)
THEOREM ClaimsAreGenuine == Spec => []JobsAreClaims
<1>1. Inv => JobsAreClaims
  BY DEF Inv
<1> QED
  BY <1>1, Invariance, PTL

(* Within one process, or where nothing has failed, a pool never sleeps without*)
(* a token on an acknowledged payload that nobody has claimed, for any number  *)
(* of workers, payloads and failing claims (Notify and Claim of                *)
(* queue/postgres.go).                                                         *)
THEOREM WakeupsArrive == Spec => []NoLostWakeup
<1>1. Inv => NoLostWakeup
  BY DEF Inv
<1> QED
  BY <1>1, Invariance, PTL

-----------------------------------------------------------------------------
\* Of the workers that hold an attempt at or over the cap, those of a process that is
\* up: the others can no longer dead-letter the row, and the fault that stopped their
\* process has paid for them.
LateFor(h) ==
  {w \in Workers : job[w] = h /\ tries[w] >= MaxAttempts /\ Running(w)}

WithinBudget(h) ==
  attempts[h] < MaxAttempts + Cardinality(LateFor(h)) + faults * Cardinality(Workers)

Budget == \A h \in Hashes : status[h] \notin Settled => WithinBudget(h)

(* Sets of workers are counted by naturals, up to the number of all workers.   *)
LEMMA WorkersCount ==
  ASSUME NEW T \in SUBSET Workers
  PROVE  /\ IsFiniteSet(T)
         /\ Cardinality(T) \in Nat
         /\ Cardinality(Workers) \in Nat
         /\ Cardinality(T) <= Cardinality(Workers)
BY FiniteWorkersAssumption, FS_Subset, FS_CardinalityType

(* One fault more is worth one attempt of every worker.                        *)
LEMMA OneMore ==
  ASSUME NEW f \in Nat, NEW n \in Nat
  PROVE  f * n \in Nat /\ (f + 1) * n = f * n + n
OBVIOUS

(* A step that takes no late worker away from a row costs it nothing.          *)
LEMMA BudgetKept ==
  ASSUME Types, NEW h \in Hashes, WithinBudget(h),
         attempts'[h] = attempts[h], UNCHANGED faults, LateFor(h) \subseteq LateFor(h)'
  PROVE  WithinBudget(h)'
<1> DEFINE old == LateFor(h)
           new == LateFor(h)'
           n   == Cardinality(Workers)
<1>1. old \in SUBSET Workers /\ new \in SUBSET Workers
  BY DEF LateFor
<1>2. IsFiniteSet(new) /\ Cardinality(old) \in Nat /\ Cardinality(new) \in Nat /\ n \in Nat
  BY <1>1, WorkersCount
<1>3. Cardinality(old) <= Cardinality(new)
  BY <1>2, FS_Subset
<1>4. attempts[h] \in Nat /\ faults \in Nat /\ MaxAttempts \in Nat
  BY MaxAttemptsAssumption DEF Types, TypeOK, QueueTypeOK, HostTypeOK
<1>5. faults * n \in Nat
  BY <1>2, <1>4, OneMore
<1>6. attempts[h] < MaxAttempts + Cardinality(old) + faults * n
  BY DEF WithinBudget
<1>7. attempts'[h] < MaxAttempts + Cardinality(new) + faults' * n
  <2> HIDE DEF old, new, n
  <2> QED
    BY <1>2, <1>3, <1>4, <1>5, <1>6
<1> QED
  BY <1>7 DEF WithinBudget

(* A fault may take all of a row's late workers away.                          *)
LEMMA BudgetOfFault ==
  ASSUME Types, NEW h \in Hashes, WithinBudget(h), Fault, attempts'[h] = attempts[h]
  PROVE  WithinBudget(h)'
<1> DEFINE old == LateFor(h)
           new == LateFor(h)'
           n   == Cardinality(Workers)
<1>1. old \in SUBSET Workers /\ new \in SUBSET Workers
  BY DEF LateFor
<1>2. /\ Cardinality(old) \in Nat /\ Cardinality(new) \in Nat /\ n \in Nat
      /\ Cardinality(old) <= n
  BY <1>1, WorkersCount
<1>3. attempts[h] \in Nat /\ faults \in Nat /\ MaxAttempts \in Nat
  BY MaxAttemptsAssumption DEF Types, TypeOK, QueueTypeOK, HostTypeOK
<1>4. faults' = faults + 1
  BY DEF Fault
<1>5. faults * n \in Nat /\ faults' * n = faults * n + n
  BY <1>2, <1>3, <1>4, OneMore
<1>6. attempts[h] < MaxAttempts + Cardinality(old) + faults * n
  BY DEF WithinBudget
<1>7. attempts'[h] < MaxAttempts + Cardinality(new) + faults' * n
  <2> HIDE DEF old, new, n
  <2> QED
    BY <1>2, <1>3, <1>5, <1>6
<1> QED
  BY <1>7 DEF WithinBudget

(* A claim whose result is lost is an attempt that no worker holds.            *)
LEMMA BudgetOfLostClaim ==
  ASSUME Types, NEW h \in Hashes, WithinBudget(h), NEW w \in Workers, Fault,
         attempts'[h] = attempts[h] + 1, UNCHANGED <<job, tries, proc>>
  PROVE  WithinBudget(h)'
<1> DEFINE old == LateFor(h)
           n   == Cardinality(Workers)
<1>1. old \in SUBSET Workers /\ {w} \in SUBSET Workers
  BY DEF LateFor
<1>2. LateFor(h)' = old
  BY DEF LateFor, Running
<1>3. Cardinality(old) \in Nat /\ n \in Nat
  BY <1>1, WorkersCount
<1>4. n # 0
  BY FiniteWorkersAssumption, FS_EmptySet
<1>5. attempts[h] \in Nat /\ faults \in Nat /\ MaxAttempts \in Nat
  BY MaxAttemptsAssumption DEF Types, TypeOK, QueueTypeOK, HostTypeOK
<1>6. faults' = faults + 1
  BY DEF Fault
<1>7. faults * n \in Nat /\ faults' * n = faults * n + n
  BY <1>3, <1>5, <1>6, OneMore
<1>8. attempts[h] < MaxAttempts + Cardinality(old) + faults * n
  BY DEF WithinBudget
<1>9. attempts'[h] < MaxAttempts + Cardinality(old) + faults' * n
  <2> HIDE DEF old, n
  <2> QED
    BY <1>3, <1>4, <1>5, <1>7, <1>8
<1> QED
  BY <1>2, <1>9 DEF WithinBudget

(* A claim over the cap adds its worker to the late ones.                      *)
LEMMA BudgetOfClaim ==
  ASSUME Types, BusyHasJob, NEW h \in Hashes, WithinBudget(h), NEW w \in Workers,
         pc[w] = "claim", Running(w), UNCHANGED <<faults, proc>>,
         attempts'[h] = attempts[h] + 1,
         job' = [job EXCEPT ![w] = h], tries' = [tries EXCEPT ![w] = attempts'[h]]
  PROVE  WithinBudget(h)'
<1> DEFINE old == LateFor(h)
           new == LateFor(h)'
           n   == Cardinality(Workers)
<1>1. old \in SUBSET Workers /\ new \in SUBSET Workers
  BY DEF LateFor
<1>2. /\ IsFiniteSet(old) /\ Cardinality(old) \in Nat
      /\ Cardinality(new) \in Nat /\ n \in Nat
  BY <1>1, WorkersCount
<1>3. attempts[h] \in Nat /\ faults \in Nat /\ MaxAttempts \in Nat
  BY MaxAttemptsAssumption DEF Types, TypeOK, QueueTypeOK, HostTypeOK
<1>4. faults * n \in Nat
  BY <1>2, <1>3, OneMore
<1>5. attempts[h] < MaxAttempts + Cardinality(old) + faults * n
  BY DEF WithinBudget
<1>6. CASE attempts[h] + 1 < MaxAttempts
  <2>1. attempts'[h] < MaxAttempts + Cardinality(new) + faults * n
    <3> HIDE DEF new, n
    <3> QED
      BY <1>2, <1>3, <1>4, <1>6
  <2> QED
    BY <2>1 DEF WithinBudget
<1>7. CASE attempts[h] + 1 >= MaxAttempts
  <2>1. w \notin old
    BY WorkersAssumption DEF LateFor, BusyHasJob, Busy
  <2>2. new = old \cup {w}
    <3>1. job'[w] = h /\ tries'[w] >= MaxAttempts /\ Running(w)'
      BY <1>7 DEF Types, TypeOK, PoolTypeOK, Running
    <3>2. \A v \in Workers \ {w} : /\ job'[v] = job[v] /\ tries'[v] = tries[v]
                                   /\ Running(v)' <=> Running(v)
      BY DEF Types, TypeOK, PoolTypeOK, Running
    <3> QED
      BY <3>1, <3>2 DEF LateFor
  <2>3. Cardinality(new) = Cardinality(old) + 1
    <3> HIDE DEF old, new
    <3> QED
      BY <1>2, <2>1, <2>2, FS_AddElement
  <2>4. attempts'[h] < MaxAttempts + Cardinality(new) + faults * n
    <3> HIDE DEF old, new, n
    <3> QED
      BY <1>2, <1>3, <1>4, <1>5, <2>3
  <2> QED
    BY <2>4 DEF WithinBudget
<1> QED
  BY <1>3, <1>6, <1>7

(* Every step keeps every row within its budget.                               *)
LEMMA BudgetStep ==
  ASSUME Types, BusyHasJob, Budget, [Next]_vars
  PROVE  Budget'
<1> SUFFICES ASSUME NEW h \in Hashes, status'[h] \notin Settled
             PROVE  WithinBudget(h)'
  BY DEF Budget
<1> USE WorkersAssumption DEF Types, TypeOK, HostTypeOK, QueueTypeOK, PoolTypeOK, pool, raw_events
<1>0. status[h] \notin Settled /\ WithinBudget(h)
  BY RowsMoveForward DEF RowMoves, Budget
<1>1. CASE UNCHANGED <<attempts, job, tries, proc, faults>>
  <2>1. LateFor(h)' = LateFor(h)
    BY <1>1 DEF LateFor, Running
  <2> QED
    BY <1>0, <1>1, <2>1, BudgetKept
<1>2. CASE UNCHANGED attempts /\ Fault
  BY <1>0, <1>2, BudgetOfFault
<1>3. ASSUME NEW r \in Requests, RequestNext(r)
      PROVE  WithinBudget(h)'
  <2>1. CASE RequestStep(r)
    BY <1>1, <1>3, <2>1 DEF RequestNext, RequestStep, Receive, InsertNew, InsertRefused,
       InsertConflict, Lookup, NotifyAndAck, InsertRaw
  <2>2. CASE RequestFault(r)
    BY <1>2, <2>2 DEF RequestFault, InsertError, LookupError, InsertRaw
  <2> QED
    BY <1>3, <2>1, <2>2 DEF RequestNext
<1>4. ASSUME NEW w \in Workers, QueueNext(w)
      PROVE  WithinBudget(h)'
  <2>1. CASE Claim(w)
    <3>1. PICK g \in Hashes :
            /\ ClaimRow(g)
            /\ job'   = [job EXCEPT ![w] = g]
            /\ tries' = [tries EXCEPT ![w] = attempts'[g]]
      BY <2>1 DEF Claim
    <3>2. pc[w] = "claim" /\ Running(w) /\ UNCHANGED <<faults, proc>>
      BY <2>1 DEF Claim
    <3>3. attempts' = [attempts EXCEPT ![g] = @ + 1]
      BY <3>1 DEF ClaimRow
    <3>4. CASE g = h
      BY <1>0, <3>1, <3>2, <3>3, <3>4, BudgetOfClaim
    <3>5. CASE g # h
      <4>1. job[w] = NoJob /\ job[w] # h
        <5>1. ~Busy(w)
          BY <3>2 DEF Busy
        <5>2. job[w] = NoJob
          BY <5>1 DEF BusyHasJob
        <5> QED
          BY <5>2
      <4>2. LateFor(h) \subseteq LateFor(h)'
        <5>1. \A v \in Workers \ {w} : job'[v] = job[v] /\ tries'[v] = tries[v]
          BY <3>1
        <5>2. w \notin LateFor(h) /\ UNCHANGED proc
          BY <3>2, <4>1 DEF LateFor
        <5> QED
          BY <5>1, <5>2 DEF LateFor, Running
      <4> QED
        BY <1>0, <3>2, <3>3, <3>5, <4>2, BudgetKept
    <3> QED
      BY <3>4, <3>5
  <2>2. CASE ClaimLost(w)
    <3>1. PICK g \in Hashes : ClaimRow(g)
      BY <2>2 DEF ClaimLost
    <3>2. Fault /\ UNCHANGED <<job, tries, proc>>
      BY <2>2 DEF ClaimLost
    <3>3. attempts' = [attempts EXCEPT ![g] = @ + 1]
      BY <3>1 DEF ClaimRow
    <3>4. CASE g = h
      BY <1>0, <3>2, <3>3, <3>4, BudgetOfLostClaim
    <3>5. CASE g # h
      BY <1>0, <3>2, <3>3, <3>5, BudgetOfFault
    <3> QED
      BY <3>4, <3>5
  <2>3. CASE Ack(w) \/ Fail(w) \/ Retry(w)
    <3>1. /\ UNCHANGED <<attempts, faults, proc>>
          /\ job' = [job EXCEPT ![w] = NoJob] /\ tries' = [tries EXCEPT ![w] = 0]
      BY <2>3 DEF Ack, Fail, Retry, Release, MarkProcessed, FailRow, RetryOrFail
    <3>2. job[w] = h => tries[w] < MaxAttempts
      BY <2>3 DEF Ack, Fail, Retry, MarkProcessed, FailRow, RetryOrFail
    <3>3. w \notin LateFor(h)
      BY <3>2, MaxAttemptsAssumption DEF LateFor
    <3>4. LateFor(h) \subseteq LateFor(h)'
      BY <3>1, <3>3 DEF LateFor, Running
    <3> QED
      BY <1>0, <3>1, <3>4, BudgetKept
  <2>4. CASE ClosingLost(w)
    <3>1. CASE Running(w) /\ Fault
      BY <1>2, <2>4, <3>1 DEF ClosingLost
    <3>2. CASE ~Running(w) /\ UNCHANGED faults
      <4>1. w \notin LateFor(h)
        BY <3>2 DEF LateFor
      <4>2. LateFor(h) \subseteq LateFor(h)'
        BY <2>4, <4>1 DEF ClosingLost, Release, LateFor, Running
      <4> QED
        BY <1>0, <2>4, <3>2, <4>2, BudgetKept DEF ClosingLost
    <3> QED
      BY <2>4, <3>1, <3>2 DEF ClosingLost
  <2>5. CASE ClaimEmpty(w) \/ Wake(w) \/ Poll(w) \/ Resume(w) \/ Leave(w)
    BY <1>1, <2>5 DEF ClaimEmpty, Wake, Poll, Resume, Leave
  <2>6. CASE ClaimFails(w)
    BY <1>2, <2>6 DEF ClaimFails
  <2> QED
    BY <1>4, <2>1, <2>2, <2>3, <2>4, <2>5, <2>6 DEF QueueNext, WorkerStep, WorkerFault
<1>5. ASSUME NEW w \in Workers, HandlerNext(w)
      PROVE  WithinBudget(h)'
  BY <1>1, <1>5 DEF HandlerNext, HandlerReturns
<1>6. ASSUME NEW g \in Hashes, Tick(g)
      PROVE  WithinBudget(h)'
  BY <1>1, <1>6 DEF Tick, LeaseExpires
<1>7. ASSUME NEW p \in Processes, Stop(p) \/ Crash(p)
      PROVE  WithinBudget(h)'
  BY <1>2, <1>7 DEF Stop, Signalled, Crash, Killed
<1>8. ASSUME NEW p \in Processes, Exit(p) \/ Restart(p)
      PROVE  WithinBudget(h)'
  <2>1. UNCHANGED <<attempts, job, tries, faults>>
    BY <1>8 DEF Exit, Exited, Restart, Started, StartWorkers
  <2>2. \A w \in Workers : Running(w) => Running(w)'
    BY <1>8 DEF Exit, Exited, Restart, Started, Running
  <2>3. LateFor(h) \subseteq LateFor(h)'
    BY <2>1, <2>2 DEF LateFor
  <2> QED
    BY <1>0, <2>1, <2>3, BudgetKept
<1>9. CASE UNCHANGED vars
  BY <1>1, <1>9 DEF vars
<1> QED
  BY <1>3, <1>4, <1>5, <1>6, <1>7, <1>8, <1>9 DEF Next

(* AttemptsBounded: the cap of RetryOrFail is passed only by workers that still*)
(* hold an attempt at or over it and by what faults took, whatever the number  *)
(* of workers, processes, rows and faults.  Counting all holders is not        *)
(* inductive (a stopping process drops its jobs at no further fault), so Budget*)
(* counts those of running processes and charges the others to the stop.       *)
THEOREM RetryBudget == Spec => []AttemptsBounded
<1>1. Init => Budget
  <2>1. ASSUME Init, NEW h \in Hashes PROVE WithinBudget(h)
    <3>1. LateFor(h) \in SUBSET Workers
      BY DEF LateFor
    <3>2. Cardinality(LateFor(h)) \in Nat /\ Cardinality(Workers) \in Nat
      BY <3>1, WorkersCount
    <3>3. attempts[h] = 0 /\ faults = 0
      BY <2>1 DEF Init, QueueInit, HostInit
    <3> QED
      BY <3>2, <3>3, MaxAttemptsAssumption DEF WithinBudget
  <2> QED
    BY <2>1 DEF Budget
<1>2. Inv /\ Budget /\ [Next]_vars => Budget'
  BY BudgetStep DEF Inv
<1>3. Inv /\ Budget => AttemptsBounded
  <2> SUFFICES ASSUME Inv, Budget, NEW h \in Hashes, status[h] \notin Settled
               PROVE  attempts[h] < MaxAttempts
                        + Cardinality({w \in Workers : job[w] = h /\ tries[w] >= MaxAttempts})
                        + faults * Cardinality(Workers)
    BY DEF AttemptsBounded
  <2> DEFINE all  == {w \in Workers : job[w] = h /\ tries[w] >= MaxAttempts}
             late == LateFor(h)
             n    == Cardinality(Workers)
  <2>1. all \in SUBSET Workers /\ late \in SUBSET Workers /\ late \in SUBSET all
    BY DEF LateFor
  <2>2. IsFiniteSet(all) /\ Cardinality(all) \in Nat /\ Cardinality(late) \in Nat /\ n \in Nat
    BY <2>1, WorkersCount
  <2>3. Cardinality(late) <= Cardinality(all)
    <3> HIDE DEF all, late
    <3> QED
      BY <2>1, <2>2, FS_Subset
  <2>4. attempts[h] \in Nat /\ faults \in Nat /\ MaxAttempts \in Nat
    BY MaxAttemptsAssumption DEF Inv, Types, TypeOK, QueueTypeOK, HostTypeOK
  <2>5. faults * n \in Nat
    BY <2>2, <2>4, OneMore
  <2>6. attempts[h] < MaxAttempts + Cardinality(late) + faults * n
    BY DEF Budget, WithinBudget
  <2>7. attempts[h] < MaxAttempts + Cardinality(all) + faults * n
    <3> HIDE DEF all, late, n
    <3> QED
      BY <2>2, <2>3, <2>4, <2>5, <2>6
  <2> QED
    BY <2>7
<1> QED
  BY <1>1, <1>2, <1>3, Invariance, PTL DEF Spec

-----------------------------------------------------------------------------
(* A change of one row to a settled status is a Settle of the contract.        *)
LEMMA SettleRefines ==
  ASSUME Types, NEW h \in Hashes, status[h] # Absent,
         NEW s \in Settled, status' = [status EXCEPT ![h] = s], UNCHANGED req
  PROVE  Promise!Next
<1>1. acked' = acked
  BY DEF acked, Accepted
<1>2. life[h] # "absent"
  BY DEF life, Types, TypeOK, QueueTypeOK
<1>3. CASE s = "PROCESSED"
  <2>1. life' = [life EXCEPT ![h] = "done"]
    BY <1>3 DEF life, Types, TypeOK, QueueTypeOK
  <2> QED
    BY <1>1, <1>2, <2>1 DEF Promise!Next, Promise!Settle
<1>4. CASE s = "FAILED"
  <2>1. life' = [life EXCEPT ![h] = "dead"]
    BY <1>4 DEF life, Types, TypeOK, QueueTypeOK
  <2> QED
    BY <1>1, <1>2, <2>1 DEF Promise!Next, Promise!Settle
<1> QED
  BY <1>3, <1>4

(* A claim is invisible in the contract.                                       *)
LEMMA ClaimRefines ==
  ASSUME Types, NEW h \in Hashes, Claimable(h), ClaimRow(h), UNCHANGED req
  PROVE  UNCHANGED <<life, acked>>
<1>1. status[h] \in {"PENDING", "PROCESSING"} /\ status' = [status EXCEPT ![h] = "PROCESSING"]
  BY DEF Claimable, ClaimRow
<1>2. life' = life
  BY <1>1 DEF life, Types, TypeOK, QueueTypeOK
<1> QED
  BY <1>2 DEF acked, Accepted

(* An insert is an Accept of the contract.                                     *)
LEMMA AcceptRefines ==
  ASSUME Types, NEW r \in Requests, req[r] = "insert", InsertRaw(body[r]),
         req' = [req EXCEPT ![r] = "notify"] \/ req' = [req EXCEPT ![r] = "500"]
  PROVE  Promise!Next
<1>1. body[r] \in Hashes
  BY DEF InsertRaw
<1>2. life[body[r]] = "absent" /\ life' = [life EXCEPT ![body[r]] = "open"]
  BY <1>1 DEF life, InsertRaw, Types, TypeOK, QueueTypeOK
<1>3. \A q \in Requests : Accepted(q)' <=> Accepted(q)
  BY DEF Accepted, Types, TypeOK, IngestTypeOK
<1>4. acked' = acked
  BY <1>3 DEF acked
<1> QED
  BY <1>1, <1>2, <1>4 DEF Promise!Next, Promise!Accept

(* A 202 is an Acknowledge of the contract.                                    *)
LEMMA AcknowledgeRefines ==
  ASSUME Inv, NEW r \in Requests, req[r] \in {"lookup", "notify"}, UNCHANGED status,
         NEW reply \in {"202 new", "202 duplicate"}, req' = [req EXCEPT ![r] = reply]
  PROVE  Promise!Next
<1>1. body[r] \in Hashes /\ status[body[r]] \in Stored
  BY DEF Inv, Types, PayloadsOnly, RowsExist
<1>2. life[body[r]] # "absent" /\ UNCHANGED life
  BY <1>1 DEF life
<1>3. Accepted(r)' /\ \A q \in Requests \ {r} : Accepted(q)' <=> Accepted(q)
  BY DEF Accepted, Inv, Types, TypeOK, IngestTypeOK
<1>4. ~Accepted(r)
  BY DEF Accepted
<1>5. acked' = acked \cup {body[r]}
  BY <1>3, <1>4 DEF acked
<1> QED
  BY <1>1, <1>2, <1>5 DEF Promise!Next, Promise!Acknowledge

(* A step that touches no row's status and acknowledges nothing is invisible.  *)
LEMMA Invisible ==
  ASSUME UNCHANGED status, \A q \in Requests : Accepted(q)' <=> Accepted(q)
  PROVE  UNCHANGED <<life, acked>>
BY DEF life, acked

(* Every step of the service is a step of the contract, or invisible in it.    *)
LEMMA StepRefines ==
  ASSUME Inv, [Next]_vars
  PROVE  [Promise!Next]_<<life, acked>>
<1> USE DEF raw_events, pool, GoTo
<1>0. Types /\ req \in [Requests -> {"unsent"} \cup InFlight \cup Replies]
  BY DEF Inv, Types, TypeOK, IngestTypeOK
<1>1. CASE UNCHANGED <<status, req>>
  BY <1>1, Invisible DEF Accepted
<1>2. ASSUME NEW r \in Requests, RequestNext(r)
      PROVE  [Promise!Next]_<<life, acked>>
  <2>1. CASE Receive(r)
    <3>1. UNCHANGED status /\ \A q \in Requests : Accepted(q)' <=> Accepted(q)
      BY <1>0, <2>1 DEF Receive, Accepted
    <3> QED
      BY <3>1, Invisible
  <2>2. CASE InsertNew(r)
    BY <1>0, <2>2, AcceptRefines DEF InsertNew
  <2>3. CASE InsertError(r)
    <3>1. CASE InsertRaw(body[r])
      BY <1>0, <2>3, <3>1, AcceptRefines DEF InsertError
    <3>2. CASE UNCHANGED raw_events
      <4>1. UNCHANGED status /\ \A q \in Requests : Accepted(q)' <=> Accepted(q)
        BY <1>0, <2>3, <3>2 DEF InsertError, Accepted
      <4> QED
        BY <4>1, Invisible
    <3> QED
      BY <2>3, <3>1, <3>2 DEF InsertError
  <2>4. CASE InsertRefused(r) \/ InsertConflict(r) \/ LookupError(r)
    <3>1. UNCHANGED status /\ \A q \in Requests : Accepted(q)' <=> Accepted(q)
      BY <1>0, <2>4 DEF InsertRefused, InsertConflict, LookupError, Accepted
    <3> QED
      BY <3>1, Invisible
  <2>5. CASE Lookup(r)
    <3>1. status[body[r]] \in Stored
      BY <2>5 DEF Lookup, Inv, RowsExist
    <3>2. /\ req[r] = "lookup" /\ UNCHANGED status
          /\ req' = [req EXCEPT ![r] = "202 duplicate"]
      BY <2>5, <3>1 DEF Lookup
    <3> QED
      BY <3>2, AcknowledgeRefines
  <2>6. CASE NotifyAndAck(r)
    BY <2>6, AcknowledgeRefines DEF NotifyAndAck
  <2> QED
    BY <1>2, <2>1, <2>2, <2>3, <2>4, <2>5, <2>6 DEF RequestNext, RequestStep, RequestFault
<1>3. ASSUME NEW w \in Workers, QueueNext(w)
      PROVE  [Promise!Next]_<<life, acked>>
  <2>0. UNCHANGED req
    BY <1>3 DEF QueueNext
  <2>1. CASE Claim(w) \/ ClaimLost(w)
    BY <1>0, <2>0, <2>1, ClaimRefines DEF Claim, ClaimLost, Selected
  <2>2. ASSUME pc[w] \in Outcomes
        PROVE  job[w] \in Hashes /\ status[job[w]] # Absent
    BY <2>2, WorkersAssumption DEF Inv, BusyHasJob, Busy, JobsAreClaims
  <2>3. CASE Ack(w)
    BY <1>0, <2>0, <2>2, <2>3, SettleRefines DEF Ack, MarkProcessed
  <2>4. CASE Fail(w)
    BY <1>0, <2>0, <2>2, <2>4, SettleRefines DEF Fail, FailRow
  <2>5. CASE Retry(w)
    BY <1>0, <1>1, <2>0, <2>2, <2>5, SettleRefines DEF Retry, RetryOrFail, FailRow
  <2>6. CASE \/ ClaimFails(w) \/ Resume(w) \/ ClaimEmpty(w) \/ Wake(w) \/ Poll(w)
             \/ Leave(w) \/ ClosingLost(w)
    BY <1>1, <2>0, <2>6 DEF ClaimFails, Resume, ClaimEmpty, Wake, Poll, Leave, ClosingLost
  <2> QED
    BY <1>3, <2>1, <2>3, <2>4, <2>5, <2>6 DEF QueueNext, WorkerStep, WorkerFault
<1>4. ASSUME NEW w \in Workers, HandlerNext(w)
      PROVE  [Promise!Next]_<<life, acked>>
  BY <1>1, <1>4 DEF HandlerNext, HandlerReturns
<1>5. ASSUME NEW h \in Hashes, Tick(h)
      PROVE  [Promise!Next]_<<life, acked>>
  BY <1>1, <1>5 DEF Tick, LeaseExpires
<1>6. ASSUME NEW p \in Processes, Stop(p) \/ Restart(p)
      PROVE  [Promise!Next]_<<life, acked>>
  BY <1>1, <1>6 DEF Stop, Restart
<1>7. ASSUME NEW p \in Processes, Crash(p) \/ Exit(p)
      PROVE  [Promise!Next]_<<life, acked>>
  <2>1. UNCHANGED status /\ \A q \in Requests : Accepted(q)' <=> Accepted(q)
    BY <1>0, <1>7 DEF Crash, Exit, DropRequests, Accepted
  <2> QED
    BY <2>1, Invisible
<1>8. CASE UNCHANGED vars
  BY <1>1, <1>8 DEF vars
<1> QED
  BY <1>2, <1>3, <1>4, <1>5, <1>6, <1>7, <1>8 DEF Next

(* The service keeps the delivery contract of AtLeastOnce.                     *)
THEOREM KeepsPromise == Spec => ImplementsAtLeastOnce
<1>1. Init => Promise!Init
  BY DEF Init, QueueInit, IngestInit, Promise!Init, life, acked, Accepted
<1>2. Inv /\ [Next]_vars => [Promise!Next]_<<life, acked>>
  BY StepRefines
<1> QED
  BY <1>1, <1>2, Invariance, PTL DEF Spec, ImplementsAtLeastOnce, Promise!Spec
=============================================================================
