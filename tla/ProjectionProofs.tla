-------------------------- MODULE ProjectionProofs ---------------------------
(***************************************************************************)
(* What the tables of Pipeline hold, whatever the model answers and however*)
(* handlers, retries, late workers and crashes interleave; and, for a model*)
(* that does not contradict itself, that entities follow from facts.       *)
(***************************************************************************)
EXTENDS PipelineProofs, ServiceProofs, NormalizeProofs

\* The local variables of Handle: none outside of it, a fact from the gate on, and
\* a stored fact from the insert on.
HandlerState ==
  \A w \in Workers :
    /\ pc[w] # "handle" => stage[w] = "llm"
    /\ stage[w] # "llm" => norm[w] \in Facts
    /\ stage[w] \in {"project", "write"} => normalized_events[job[w]] # None
    /\ stage[w] = "write" => norm[w].classification = "INVOICE"

\* Worker w is in ApplyInvoice and holds the lock of its row.
Holds(w) == At(w, "write") /\ seen[w] # None

\* SELECT ... FOR UPDATE excludes, and what it returned is still so.
LocksHold ==
  /\ \A w \in Workers : Holds(w) =>
       /\ entities[norm[w].entity_key] # None
       /\ entities[norm[w].entity_key].current_state = seen[w]
  /\ \A v, w \in Workers :
       Holds(v) /\ Holds(w) /\ norm[v].entity_key = norm[w].entity_key => v = w

\* What a row of raw_events tells of its past.
RowHistory ==
  \A h \in Hashes :
    /\ status[h] \in {Absent, "PENDING"} <=> attempts[h] = 0
    /\ attempts[h] = 0 => error[h] = Null
    /\ status[h] = "FAILED" => error[h] # Null

\* Facts belong to claimed rows, and no row is closed as processed without one.
FactsAndRows ==
  /\ \A h \in Hashes : normalized_events[h] # None => status[h] \notin {Absent, "PENDING"}
  /\ \A h \in Hashes : status[h] = "PROCESSED" => normalized_events[h] # None
  /\ \A w \in Workers : pc[w] = "ack" => normalized_events[job[w]] # None

\* An entity has the type of a fact with its key.
TypeFromFacts ==
  \A k \in Keys : entities[k] # None =>
    \E f \in Facts : f.entity_key = k /\ f.classification = entities[k].type

PipelineInv ==
  /\ Inv
  /\ PipelineTypeOK
  /\ HandlerState
  /\ LocksHold
  /\ RowHistory
  /\ FactsAndRows
  /\ TypeFromFacts
  /\ MoneyIsPair

-----------------------------------------------------------------------------
\* A payload that the gate accepts is always read in the same way.
AnswersAgree ==
  \A h \in Hashes : \A a, b \in answers[h] :
    Apply(a) # None /\ Apply(b) # None => Apply(a) = Apply(b)

\* No shipment and no invoice share a key.
KeysApart ==
  \A f, g \in Facts :
    f.entity_key = g.entity_key /\ f.entity_key # Blank => f.classification = g.classification

\* The facts that payload h may become.
FactsFor(h) == {Apply(a) : a \in answers[h]} \ {None}

\* Every fact in hand or stored is one of its payload.
FactsBelong ==
  /\ \A w \in Workers : stage[w] # "llm" => norm[w] \in FactsFor(job[w])
  /\ \A h \in Hashes : normalized_events[h] # None => normalized_events[h] \in FactsFor(h)

\* What a worker is about to project is what it, or someone before it, has stored.
InHandIsStored ==
  \A w \in Workers :
    stage[w] \in {"project", "write"} => normalized_events[job[w]] = norm[w]

\* The entity of a shipment fact f has taken it in.
Projected(f) ==
  f.classification = "SHIPMENT" =>
    /\ entities[f.entity_key] # None
    /\ entities[f.entity_key].current_rank >= ShipmentRank(f.canonical_state)

\* Who is about to close a row has projected its fact; so has who has closed it.
ClosedIsProjected ==
  /\ \A w \in Workers : pc[w] = "ack" => Projected(normalized_events[job[w]])
  /\ \A h \in Hashes : status[h] = "PROCESSED" => Projected(normalized_events[h])

ProjectionInv ==
  /\ PipelineInv
  /\ FactsBelong
  /\ InHandIsStored
  /\ ProjectionFromFacts
  /\ ClosedIsProjected

-----------------------------------------------------------------------------
(* The facts that the model's answers may become are sound, and the key of a   *)
(* classified one has a place in the table of entities.                        *)
LEMMA FactShape ==
  ASSUME NEW f \in Facts
  PROVE  /\ SoundFact(f)
         /\ f # None
         /\ f.classification # "UNCLASSIFIED" => f.entity_key \in Keys
<1>1. PICK a \in Responses : f = Apply(a) /\ Apply(a) # None
  BY DEF Facts
<1>2. a \in LLMResponses
  BY AnswersAssumption DEF Responses
<1>3. SoundFact(f) /\ f.classification = Classify(a)
  BY <1>1, <1>2, ApplySound
<1>4. Classify(a) # "UNCLASSIFIED" => f.entity_key = CanonicalKey(a.entity_key)
  BY <1>1, <1>2, ApplySound
<1>5. f.classification # "UNCLASSIFIED" => f.entity_key # Blank
  BY <1>3 DEF SoundFact
<1> QED
  BY <1>1, <1>3, <1>4, <1>5 DEF Keys

(* What payload h may become is a fact.                                        *)
LEMMA FactsForAreFacts ==
  ASSUME NEW h \in Hashes
  PROVE  FactsFor(h) \subseteq Facts
BY AnswersAssumption DEF FactsFor, Facts, Responses

-----------------------------------------------------------------------------
\* What a step of the queue, a request or a process does to worker w.
WorkerMoves(w) ==
  /\ pc[w] = "handle" => pc'[w] = "handle" /\ job'[w] = job[w]
  /\ pc'[w] = "handle" => pc[w] \in {"handle", "claim"}
  /\ pc'[w] = "ack" => pc[w] = "ack" /\ job'[w] = job[w]

(* Nothing but Handle itself ends a handler, short of a crash.                 *)
LEMMA PlainKeeps ==
  ASSUME Types, BusyHasJob, PlainStep, NEW w \in Workers
  PROVE  WorkerMoves(w)
<1> USE WorkersAssumption DEF Types, TypeOK, HostTypeOK, PoolTypeOK, WorkerMoves, pool, MoveTo,
        Release, Outcomes, Places
<1>1. CASE UNCHANGED pool
  BY <1>1
<1>2. ASSUME NEW r \in Requests, RequestNext(r)
      PROVE  UNCHANGED pool
  BY <1>2 DEF RequestNext
<1>3. ASSUME NEW v \in Workers, QueueNext(v)
      PROVE  WorkerMoves(w)
  <2>1. CASE Claim(v)
    BY <2>1 DEF Claim
  <2>2. CASE ClaimEmpty(v) \/ Wake(v) \/ Poll(v) \/ Resume(v) \/ Leave(v)
    BY <2>2 DEF ClaimEmpty, Wake, Poll, Resume, Leave
  <2>3. CASE Ack(v) \/ Fail(v) \/ Retry(v)
    BY <2>3 DEF Ack, Fail, Retry
  <2>4. CASE ClaimFails(v) \/ ClaimLost(v)
    BY <2>4 DEF ClaimFails, ClaimLost
  <2>5. CASE ClosingLost(v)
    BY <2>5 DEF ClosingLost
  <2> QED
    BY <1>3, <2>1, <2>2, <2>3, <2>4, <2>5 DEF QueueNext, WorkerStep, WorkerFault
<1>4. ASSUME NEW h \in Hashes, Tick(h)
      PROVE  UNCHANGED pool
  BY <1>4 DEF Tick
<1>5. ASSUME NEW p \in Processes, Stop(p) \/ Exit(p)
      PROVE  UNCHANGED pool
  BY <1>5 DEF Stop, Exit
<1>6. ASSUME NEW p \in Processes, Restart(p)
      PROVE  WorkerMoves(w)
  BY <1>6 DEF Restart, Started, StartWorkers, BusyHasJob
<1> QED
  BY <1>1, <1>2, <1>3, <1>4, <1>5, <1>6 DEF PlainStep

HandlerTypes ==
  /\ stage \in [Workers -> Stages]
  /\ norm  \in [Workers -> Facts \cup {None}]
  /\ seen  \in [Workers -> ShipmentStates \cup InvoiceStates \cup {None}]

\* A step in which no handler takes part: nothing happens to the tables of facts and
\* entities, and a handler goes on or is gone.
Bystander ==
  /\ HandlerTypes'
  /\ UNCHANGED tables
  /\ \A w \in Workers :
       \/ /\ WorkerMoves(w)
          /\ stage'[w] = stage[w] /\ norm'[w] = norm[w] /\ seen'[w] = seen[w]
       \/ /\ pc'[w] = "down"
          /\ stage'[w] = "llm" /\ norm'[w] = None /\ seen'[w] = None

\* Handle returns without having written an entity ...
Quits(w, outcome) ==
  /\ Return(w, outcome)
  /\ UNCHANGED tables
  /\ outcome = "ack" =>
       stage[w] \in {"project", "write"} /\ norm[w].classification # "SHIPMENT"

\* ... or with a write that was committed.
Writes(w, outcome) ==
  /\ Return(w, outcome)
  /\ UNCHANGED normalized_events
  /\ \/ /\ stage[w] = "project"
        /\ norm[w].classification = "SHIPMENT"
        /\ ~Locked(norm[w].entity_key)
        /\ UpsertShipment(norm[w])
     \/ /\ Holds(w)
        /\ InvoiceTransitionAllowed(seen[w], norm[w].canonical_state)
        /\ UpdateInvoice(norm[w])
     \/ /\ stage[w] = "write"
        /\ entities[norm[w].entity_key] = None
        /\ entities' = [entities EXCEPT ![norm[w].entity_key] = Entity("INVOICE", norm[w])]

\* One step of Handle, by what it does to the tables.
HandleCases(w) ==
  \/ Normalized(w)
  \/ InsertNormalized(w)
  \/ SelectForUpdate(w)
  \/ \E outcome \in Outcomes : Quits(w, outcome) \/ Writes(w, outcome)

(* The eleven actions of Handle are of five kinds.                             *)
LEMMA HandleStepCases ==
  ASSUME HandlerState, NEW w \in Workers, HandleStep(w)
  PROVE  HandleCases(w)
<1> USE DEF HandleCases, Outcomes
<1>1. CASE Rejected(w) \/ LLMError(w) \/ SeedConflict(w)
  BY <1>1 DEF Rejected, LLMError, SeedConflict, Quits
<1>2. CASE StoreError(w)
  BY <1>2 DEF StoreError, Quits
<1>3. CASE SkipProjection(w)
  BY <1>3 DEF SkipProjection, Quits, At
<1>4. CASE ApplyShipment(w)
  BY <1>4 DEF ApplyShipment, Committed, Writes, At
<1>5. CASE ApplyInvoice(w)
  <2>1. stage[w] = "write" /\ norm[w].classification # "SHIPMENT"
    BY <1>5 DEF ApplyInvoice, At, HandlerState
  <2>2. CASE InvoiceTransitionAllowed(seen[w], norm[w].canonical_state)
    BY <1>5, <2>2 DEF ApplyInvoice, Committed, Writes, Holds
  <2>3. CASE ~InvoiceTransitionAllowed(seen[w], norm[w].canonical_state)
    BY <1>5, <2>1, <2>3 DEF ApplyInvoice, Committed, Quits, tables
  <2> QED
    BY <2>2, <2>3
<1>6. CASE SeedInvoice(w)
  BY <1>6 DEF SeedInvoice, Committed, Writes, At
<1> QED
  BY <1>1, <1>2, <1>3, <1>4, <1>5, <1>6 DEF HandleStep

(* All steps of the pipeline, by their effect on handlers and tables.          *)
LEMMA PipelineCases ==
  ASSUME Types, BusyHasJob, HandlerTypes, HandlerState, [PipelineNext]_allvars
  PROVE  Bystander \/ \E w \in Workers : HandleCases(w)
<1> USE DEF HandlerTypes, handler
<1>1. CASE UNCHANGED allvars
  BY <1>1 DEF allvars, vars, pool, Bystander, WorkerMoves
<1>2. CASE PlainStep /\ UNCHANGED <<handler, tables>>
  <2>1. \A w \in Workers : WorkerMoves(w)
    BY <1>2, PlainKeeps
  <2> QED
    BY <1>2, <2>1 DEF Bystander
<1>3. ASSUME NEW p \in Processes, Crash(p) /\ DropHandlers(p) /\ UNCHANGED tables
      PROVE  Bystander
  BY <1>3 DEF Crash, DropWorkers, DropHandlers, Bystander, WorkerMoves, Stages
<1>4. ASSUME NEW w \in Workers, HandleStep(w)
      PROVE  HandleCases(w)
  BY <1>4, HandleStepCases
<1> QED
  BY <1>1, <1>2, <1>3, <1>4 DEF PipelineNext

\* What a step of the handler of w leaves alone.
HandlerFrame(w) ==
  /\ HandlerTypes'
  /\ pc[w] = "handle"
  /\ UNCHANGED <<status, attempts, error, job>>
  /\ \A v \in Workers \ {w} :
       pc'[v] = pc[v] /\ stage'[v] = stage[v] /\ norm'[v] = norm[v] /\ seen'[v] = seen[v]

(* A handler touches no row of raw_events and no other handler.                *)
LEMMA ReturnFrame ==
  ASSUME Types, HandlerTypes, NEW w \in Workers, NEW outcome \in Outcomes, Return(w, outcome)
  PROVE  /\ HandlerFrame(w)
         /\ pc'[w] = outcome
         /\ stage'[w] = "llm" /\ norm'[w] = None /\ seen'[w] = None
BY DEF Return, HandlerReturns, MoveTo, HandlerFrame, HandlerTypes, Stages, raw_events, Types,
   TypeOK, PoolTypeOK

(* An accepted answer puts a fact of the payload into the worker's hand.       *)
LEMMA NormalizedFrame ==
  ASSUME Types, BusyHasJob, HandlerTypes, NEW w \in Workers, Normalized(w)
  PROVE  /\ HandlerFrame(w)
         /\ pc'[w] = "handle" /\ stage'[w] = "insert" /\ norm'[w] \in FactsFor(job[w])
         /\ UNCHANGED tables
<1>1. job[w] \in Hashes
  BY DEF Normalized, At, BusyHasJob, Busy
<1>2. PICK a \in answers[job[w]] : Apply(a) # None /\ norm' = [norm EXCEPT ![w] = Apply(a)]
  BY DEF Normalized
<1>3. Apply(a) \in FactsFor(job[w]) /\ Apply(a) \in Facts
  BY <1>1, <1>2, FactsForAreFacts DEF FactsFor
<1> QED
  BY <1>2, <1>3 DEF Normalized, At, Proceed, vars, pool, raw_events, HandlerFrame, HandlerTypes,
     Stages

(* The insert writes the fact in hand and nothing else.                        *)
LEMMA InsertFrame ==
  ASSUME Types, HandlerTypes, NEW w \in Workers, InsertNormalized(w)
  PROVE  /\ HandlerFrame(w)
         /\ pc'[w] = "handle" /\ stage[w] = "insert" /\ stage'[w] = "project"
         /\ UNCHANGED <<norm, seen, entities>>
         /\ InsertFact(w)
BY DEF InsertNormalized, At, Proceed, vars, pool, raw_events, HandlerFrame, HandlerTypes, Stages

(* The SELECT waits for the lock and remembers what it found.                  *)
LEMMA SelectFrame ==
  ASSUME Types, PipelineTypeOK, HandlerState, NEW w \in Workers, SelectForUpdate(w)
  PROVE  LET e == entities[norm[w].entity_key]
         IN /\ HandlerFrame(w)
            /\ pc'[w] = "handle" /\ stage[w] = "project" /\ stage'[w] = "write"
            /\ norm[w].classification = "INVOICE"
            /\ ~Locked(norm[w].entity_key)
            /\ UNCHANGED <<norm, tables>>
            /\ seen'[w] = IF e = None THEN None ELSE e.current_state
<1> DEFINE e == entities[norm[w].entity_key]
<1>1. /\ stage[w] = "project" /\ norm[w].classification = "INVOICE"
      /\ seen' = [seen EXCEPT ![w] = IF e = None THEN None ELSE e.current_state]
  BY DEF SelectForUpdate, At
<1>2. norm[w].entity_key \in Keys
  BY <1>1, FactShape DEF HandlerState
<1>3. e = None \/ e.current_state \in ShipmentStates \cup InvoiceStates
  BY <1>2 DEF PipelineTypeOK, EntityRows
<1>4. HandlerTypes'
  BY <1>1, <1>3 DEF SelectForUpdate, Proceed, HandlerTypes, PipelineTypeOK, Stages
<1> QED
  BY <1>1, <1>4 DEF SelectForUpdate, At, Proceed, vars, pool, raw_events, HandlerFrame,
     PipelineTypeOK
-----------------------------------------------------------------------------
\* The one row that a fact f may write, and what becomes of it.
RowWrite(f, row) ==
  LET old == entities[f.entity_key]
  IN  /\ entities' = [entities EXCEPT ![f.entity_key] = row]
      /\ row \in EntityRows
      /\ row.current_rank = ShipmentRank(row.current_state)
      /\ \/ row = old
         \/ row.current_state = f.canonical_state /\ row.last_event_time = f.event_time
      /\ \/ old # None /\ row.amount_minor = old.amount_minor /\ row.currency = old.currency
         \/ row.amount_minor = f.amount_minor /\ row.currency = f.currency
      /\ old = None => row.type = f.classification
      /\ old # None => row.type = old.type /\ row.current_rank >= old.current_rank
      /\ f.classification = "SHIPMENT" => row.current_rank >= ShipmentRank(f.canonical_state)
      /\ f.classification = "INVOICE" /\ old # None =>
           InvoiceTransitionAllowed(old.current_state, row.current_state)

(* A new row of the table entities is made of one fact.                        *)
LEMMA NewRow ==
  ASSUME NEW f \in Facts, NEW type \in {"SHIPMENT", "INVOICE"}, f.classification = type
  PROVE  LET row == Entity(type, f)
         IN /\ row \in EntityRows
            /\ row.type = type
            /\ row.current_state = f.canonical_state
            /\ row.current_rank = ShipmentRank(f.canonical_state)
            /\ row.last_event_time = f.event_time
            /\ row.amount_minor = f.amount_minor
            /\ row.currency = f.currency
<1>1. SoundFact(f)
  BY FactShape
<1>2. f.canonical_state \in ShipmentStates \cup InvoiceStates
  BY <1>1 DEF SoundFact
<1>3. ShipmentRank(f.canonical_state) \in 0..4
  BY <1>2, RankOfShipment, RankOfInvoice
<1> QED
  BY <1>1, <1>2, <1>3 DEF Entity, EntityRows, SoundFact, NormalizedFacts

(* The conditional upsert: a new row, a row of a higher rank, or the old row.  *)
LEMMA ShipmentWrite ==
  ASSUME PipelineTypeOK, NEW f \in Facts, f.classification = "SHIPMENT", UpsertShipment(f)
  PROVE  \E row : RowWrite(f, row)
<1> DEFINE old  == entities[f.entity_key]
           rank == ShipmentRank(f.canonical_state)
           upd  == [old EXCEPT !.current_state   = f.canonical_state,
                               !.current_rank    = rank,
                               !.last_event_time = f.event_time]
<1>1. /\ SoundFact(f)
      /\ f.entity_key \in Keys
      /\ f.canonical_state \in ShipmentStates
  BY FactShape DEF SoundFact
<1>2. /\ entities \in [Keys -> EntityRows \cup {None}]
      /\ old = None \/ (old \in EntityRows /\ old.current_rank = ShipmentRank(old.current_state))
  BY <1>1 DEF PipelineTypeOK
<1>3. rank \in 1..4
  BY <1>1, RankOfShipment
<1>4. CASE old = None
  <2>1. entities' = [entities EXCEPT ![f.entity_key] = Entity("SHIPMENT", f)]
    BY <1>4 DEF UpsertShipment
  <2>2. RowWrite(f, Entity("SHIPMENT", f))
    BY <1>3, <1>4, <2>1, NewRow DEF RowWrite
  <2> QED
    BY <2>2
<1>5. CASE old # None /\ old.current_rank < rank
  <2>1. entities' = [entities EXCEPT ![f.entity_key] = upd]
    BY <1>5 DEF UpsertShipment
  <2>2. /\ old \in EntityRows
        /\ f.canonical_state \in ShipmentStates \cup InvoiceStates
        /\ f.event_time \in {utc[s] : s \in Spellings}
        /\ rank \in 0..4
    BY <1>1, <1>2, <1>3, <1>5 DEF SoundFact, NormalizedFacts
  <2> HIDE DEF old, rank
  <2>3. /\ upd \in EntityRows
        /\ upd.current_state = f.canonical_state
        /\ upd.current_rank = rank
        /\ upd.last_event_time = f.event_time
        /\ upd.type = old.type
        /\ upd.amount_minor = old.amount_minor
        /\ upd.currency = old.currency
    BY <2>2 DEF EntityRows
  <2>4. RowWrite(f, upd)
    <3>1. old.current_rank \in 0..4
      BY <2>2 DEF EntityRows
    <3> HIDE DEF upd
    <3> QED
      BY <1>3, <1>5, <2>1, <2>3, <3>1 DEF RowWrite, old, rank
  <2> QED
    BY <2>4
<1>6. CASE old # None /\ ~(old.current_rank < rank)
  <2>1. entities' = [entities EXCEPT ![f.entity_key] = old]
    BY <1>6 DEF UpsertShipment
  <2>2. old.current_rank \in 0..4
    BY <1>2, <1>6 DEF EntityRows
  <2>3. RowWrite(f, old)
    BY <1>2, <1>3, <1>6, <2>1, <2>2 DEF RowWrite
  <2> QED
    BY <2>3
<1> QED
  BY <1>4, <1>5, <1>6

(* The UPDATE of an invoice that is in one of the two lifecycles' states.  The *)
(* rank stays as it is, which is right because both states have rank 0.        *)
LEMMA InvoiceWrite ==
  ASSUME PipelineTypeOK, NEW f \in Facts, f.classification = "INVOICE",
         entities[f.entity_key] # None,
         InvoiceTransitionAllowed(entities[f.entity_key].current_state, f.canonical_state),
         UpdateInvoice(f)
  PROVE  \E row : RowWrite(f, row)
<1> DEFINE old == entities[f.entity_key]
           upd == [old EXCEPT !.current_state   = f.canonical_state,
                              !.last_event_time = f.event_time,
                              !.amount_minor    = IF f.amount_minor = None THEN old.amount_minor
                                                  ELSE f.amount_minor,
                              !.currency        = IF f.currency = Blank THEN old.currency
                                                  ELSE f.currency]
<1>1. /\ SoundFact(f)
      /\ f.entity_key \in Keys
      /\ f.canonical_state \in InvoiceStates
  BY FactShape DEF SoundFact
<1>2. /\ entities \in [Keys -> EntityRows \cup {None}]
      /\ old \in EntityRows
      /\ old.current_rank = ShipmentRank(old.current_state)
  BY <1>1 DEF PipelineTypeOK
<1>3. old.current_rank = 0 /\ ShipmentRank(f.canonical_state) = 0
  BY <1>1, <1>2, RankOfInvoice, TransitionStates
<1>4. entities' = [entities EXCEPT ![f.entity_key] = upd]
  BY <1>1, <1>2 DEF UpdateInvoice, EntityRows
<1>5. /\ upd \in EntityRows
      /\ upd.current_state = f.canonical_state
      /\ upd.current_rank = old.current_rank
      /\ upd.last_event_time = f.event_time
      /\ upd.type = old.type
  BY <1>1, <1>2 DEF EntityRows, SoundFact, NormalizedFacts
<1>6. \/ upd.amount_minor = old.amount_minor /\ upd.currency = old.currency
      \/ upd.amount_minor = f.amount_minor /\ upd.currency = f.currency
  BY <1>1, <1>2 DEF EntityRows, SoundFact
<1>7. RowWrite(f, upd)
  <2> HIDE DEF upd
  <2> QED
    BY <1>2, <1>3, <1>4, <1>5, <1>6 DEF RowWrite
<1> QED
  BY <1>7

(* Whatever Handle commits to entities is such a write, to a row that no other *)
(* handler has locked.  Here the lock matters: it is why the state that the    *)
(* transition was checked against is still the state of the row.               *)
LEMMA WriteWritesRow ==
  ASSUME PipelineTypeOK, HandlerState, LocksHold, NEW w \in Workers, NEW outcome \in Outcomes,
         Writes(w, outcome)
  PROVE  /\ norm[w] \in Facts
         /\ norm[w].classification \in {"SHIPMENT", "INVOICE"}
         /\ \E row : RowWrite(norm[w], row)
         /\ \A v \in Workers \ {w} : Holds(v) => norm[v].entity_key # norm[w].entity_key
<1>1. stage[w] \in {"project", "write"} /\ pc[w] = "handle"
  BY DEF Writes, Holds, At, Return, HandlerReturns
<1>2. norm[w] \in Facts
  BY <1>1 DEF HandlerState
<1>3. CASE /\ stage[w] = "project"
           /\ norm[w].classification = "SHIPMENT"
           /\ ~Locked(norm[w].entity_key)
           /\ UpsertShipment(norm[w])
  BY <1>2, <1>3, ShipmentWrite DEF Locked, Holds
<1>4. CASE /\ Holds(w)
           /\ InvoiceTransitionAllowed(seen[w], norm[w].canonical_state)
           /\ UpdateInvoice(norm[w])
  <2>1. norm[w].classification = "INVOICE"
    BY <1>4 DEF Holds, At, HandlerState
  <2>2. /\ entities[norm[w].entity_key] # None
        /\ entities[norm[w].entity_key].current_state = seen[w]
        /\ \A v \in Workers \ {w} : Holds(v) => norm[v].entity_key # norm[w].entity_key
    BY <1>4 DEF LocksHold
  <2> QED
    BY <1>2, <1>4, <2>1, <2>2, InvoiceWrite
<1>5. CASE /\ stage[w] = "write"
           /\ entities[norm[w].entity_key] = None
           /\ entities' = [entities EXCEPT ![norm[w].entity_key] = Entity("INVOICE", norm[w])]
  <2>1. norm[w].classification = "INVOICE"
    BY <1>5 DEF HandlerState
  <2>2. RowWrite(norm[w], Entity("INVOICE", norm[w]))
    BY <1>2, <1>5, <2>1, NewRow DEF RowWrite
  <2> QED
    BY <1>2, <1>5, <2>1, <2>2 DEF LocksHold
<1> QED
  BY <1>3, <1>4, <1>5 DEF Writes
-----------------------------------------------------------------------------
\* What a step of the service may do to the rows of raw_events.
RowCase ==
  \/ UNCHANGED <<status, attempts, error>>
  \/ \E h \in Hashes : InsertRaw(h) \/ (Claimable(h) /\ ClaimRow(h))
  \/ \E w \in Workers : pc[w] = "ack" /\ MarkProcessed(job[w])
  \/ \E w \in Workers : Busy(w) /\ \E reason \in Reasons : FailRow(job[w], reason)
  \/ \E w \in Workers :
       /\ Busy(w)
       /\ error' = [error EXCEPT ![job[w]] = "transient"]
       /\ UNCHANGED <<status, attempts>>

(* The statements of store/raw.go are all there is.                            *)
LEMMA RowCases ==
  ASSUME Types, [Next]_vars
  PROVE  RowCase
<1> USE DEF RowCase, raw_events
<1>1. ASSUME NEW r \in Requests, RequestNext(r)
      PROVE  RowCase
  <2>1. CASE InsertNew(r)
    BY <2>1 DEF InsertNew, InsertRaw
  <2>2. CASE InsertError(r)
    BY <2>2 DEF InsertError, InsertRaw
  <2>3. CASE \/ Receive(r) \/ InsertRefused(r) \/ InsertConflict(r) \/ Lookup(r)
             \/ NotifyAndAck(r) \/ LookupError(r)
    BY <2>3 DEF Receive, InsertRefused, InsertConflict, Lookup, NotifyAndAck, LookupError
  <2> QED
    BY <1>1, <2>1, <2>2, <2>3 DEF RequestNext, RequestStep, RequestFault
<1>2. ASSUME NEW w \in Workers, QueueNext(w)
      PROVE  RowCase
  <2>1. CASE Claim(w) \/ ClaimLost(w)
    BY <2>1 DEF Claim, ClaimLost, Selected
  <2>2. CASE Ack(w)
    BY <2>2 DEF Ack
  <2>3. CASE Fail(w)
    BY <2>3 DEF Fail, Busy, Outcomes, Reasons
  <2>4. CASE Retry(w)
    BY <2>4 DEF Retry, RetryOrFail, Busy, Outcomes, Reasons
  <2>5. CASE \/ ClaimEmpty(w) \/ ClaimFails(w) \/ Wake(w) \/ Poll(w) \/ Resume(w)
             \/ Leave(w) \/ ClosingLost(w)
    BY <2>5 DEF ClaimEmpty, ClaimFails, Wake, Poll, Resume, Leave, ClosingLost
  <2> QED
    BY <1>2, <2>1, <2>2, <2>3, <2>4, <2>5 DEF QueueNext, WorkerStep, WorkerFault
<1>3. ASSUME NEW w \in Workers, HandlerNext(w)
      PROVE  RowCase
  BY <1>3 DEF HandlerNext, HandlerReturns
<1>4. ASSUME NEW h \in Hashes, Tick(h)
      PROVE  RowCase
  BY <1>4 DEF Tick, LeaseExpires
<1>5. ASSUME NEW p \in Processes, Stop(p) \/ Crash(p) \/ Exit(p) \/ Restart(p)
      PROVE  RowCase
  BY <1>5 DEF Stop, Crash, Exit, Restart
<1>6. CASE UNCHANGED vars
  BY <1>6 DEF vars
<1> QED
  BY <1>1, <1>2, <1>3, <1>4, <1>5, <1>6 DEF Next

(* A row keeps a true record of its past.                                      *)
LEMMA RowHistoryStep ==
  ASSUME Types, BusyHasJob, JobsAreClaims, RowHistory, [Next]_vars
  PROVE  RowHistory'
<1> USE DEF Types, TypeOK, QueueTypeOK, RowHistory, Stored, Settled, Absent, Null, Reasons
<1>1. \A w \in Workers : Busy(w) => job[w] \in Hashes /\ attempts[job[w]] # 0
                                      /\ status[job[w]] \notin {Absent, "PENDING"}
  <2> SUFFICES ASSUME NEW w \in Workers, Busy(w)
               PROVE  /\ job[w] \in Hashes /\ attempts[job[w]] # 0
                      /\ status[job[w]] \notin {Absent, "PENDING"}
    OBVIOUS
  <2>1. job[w] \in Hashes /\ job[w] # NoJob
    BY WorkersAssumption DEF BusyHasJob
  <2>2. tries[w] \in 1..attempts[job[w]] /\ status[job[w]] \in Stored \ {"PENDING"}
    BY <2>1 DEF JobsAreClaims
  <2> QED
    BY <2>1, <2>2
<1>2. CASE UNCHANGED <<status, attempts, error>>
  BY <1>2
<1>3. ASSUME NEW h \in Hashes, InsertRaw(h)
      PROVE  RowHistory'
  BY <1>3 DEF InsertRaw
<1>4. ASSUME NEW h \in Hashes, ClaimRow(h)
      PROVE  RowHistory'
  BY <1>4 DEF ClaimRow
<1>5. ASSUME NEW w \in Workers, Busy(w), MarkProcessed(job[w])
      PROVE  RowHistory'
  BY <1>1, <1>5 DEF MarkProcessed
<1>6. ASSUME NEW w \in Workers, Busy(w), NEW reason \in Reasons, FailRow(job[w], reason)
      PROVE  RowHistory'
  BY <1>1, <1>6 DEF FailRow
<1>7. ASSUME NEW w \in Workers, Busy(w), error' = [error EXCEPT ![job[w]] = "transient"],
             UNCHANGED <<status, attempts>>
      PROVE  RowHistory'
  BY <1>1, <1>7
<1>8. \A w \in Workers : pc[w] = "ack" => Busy(w)
  BY DEF Busy, Outcomes
<1> QED
  BY <1>2, <1>3, <1>4, <1>5, <1>6, <1>7, <1>8, RowCases DEF RowCase

(* Only an Ack makes a row PROCESSED.                                          *)
LEMMA ProcessedByAck ==
  ASSUME Types, BusyHasJob, [Next]_vars, NEW h \in Hashes, status'[h] = "PROCESSED"
  PROVE  status[h] = "PROCESSED" \/ \E w \in Workers : pc[w] = "ack" /\ job[w] = h
<1> USE DEF Types, TypeOK, QueueTypeOK
<1>1. ASSUME NEW g \in Hashes, InsertRaw(g) \/ ClaimRow(g)
      PROVE  status[h] = "PROCESSED"
  BY <1>1 DEF InsertRaw, ClaimRow
<1>2. ASSUME NEW w \in Workers, pc[w] = "ack", MarkProcessed(job[w])
      PROVE  status[h] = "PROCESSED" \/ job[w] = h
  BY <1>2 DEF MarkProcessed
<1>3. ASSUME NEW w \in Workers, NEW reason, FailRow(job[w], reason)
      PROVE  status[h] = "PROCESSED"
  BY <1>3 DEF FailRow
<1> QED
  BY <1>1, <1>2, <1>3, RowCases DEF RowCase
-----------------------------------------------------------------------------
\* What a step may do to entities: nothing, or one write of the fact in a worker's hand.
EntityMove ==
  \/ UNCHANGED entities
  \/ \E w \in Workers :
       /\ stage[w] \in {"project", "write"}
       /\ norm[w] \in Facts
       /\ norm[w].entity_key \in Keys
       /\ norm[w].classification \in {"SHIPMENT", "INVOICE"}
       /\ \E row : RowWrite(norm[w], row)

(* Entities change by whole, committed writes of sound facts only.             *)
LEMMA EntityMoves ==
  ASSUME PipelineInv, [PipelineNext]_allvars
  PROVE  EntityMove
<1> USE DEF PipelineInv, EntityMove, tables
<1>1. CASE Bystander
  BY <1>1 DEF Bystander
<1>2. ASSUME NEW w \in Workers, Normalized(w) \/ InsertNormalized(w) \/ SelectForUpdate(w)
      PROVE  EntityMove
  BY <1>2 DEF Normalized, InsertNormalized, SelectForUpdate
<1>3. ASSUME NEW w \in Workers, NEW outcome \in Outcomes, Quits(w, outcome)
      PROVE  EntityMove
  BY <1>3 DEF Quits
<1>4. ASSUME NEW w \in Workers, NEW outcome \in Outcomes, Writes(w, outcome)
      PROVE  EntityMove
  <2>1. /\ norm[w] \in Facts
        /\ norm[w].classification \in {"SHIPMENT", "INVOICE"}
        /\ \E row : RowWrite(norm[w], row)
    BY <1>4, WriteWritesRow
  <2>2. norm[w].entity_key \in Keys
    BY <2>1, FactShape
  <2>3. stage[w] \in {"project", "write"}
    BY <1>4 DEF Writes, Holds, At
  <2> QED
    BY <2>1, <2>2, <2>3
<1>5. Types /\ BusyHasJob /\ HandlerTypes
  BY DEF Inv, PipelineTypeOK, HandlerTypes
<1> QED
  BY <1>1, <1>2, <1>3, <1>4, <1>5, PipelineCases DEF HandleCases

(* The invariant of Service, in its parts.                                     *)
LEMMA ServiceParts ==
  ASSUME PipelineInv
  PROVE  Types /\ BusyHasJob /\ HandlerTypes /\ JobsAreClaims
BY DEF PipelineInv, Inv, PipelineTypeOK, HandlerTypes

(* The handlers keep their types.                                              *)
LEMMA HandlerTypesStep ==
  ASSUME PipelineInv, [PipelineNext]_allvars
  PROVE  HandlerTypes'
<1> USE ServiceParts DEF PipelineInv, HandlerFrame
<1>1. CASE Bystander
  BY <1>1 DEF Bystander
<1>2. ASSUME NEW w \in Workers, HandleCases(w)
      PROVE  HandlerTypes'
  <2>1. CASE Normalized(w)
    BY <2>1, NormalizedFrame
  <2>2. CASE InsertNormalized(w)
    BY <2>2, InsertFrame
  <2>3. CASE SelectForUpdate(w)
    BY <2>3, SelectFrame
  <2>4. ASSUME NEW outcome \in Outcomes, Return(w, outcome)
        PROVE  HandlerTypes'
    BY <2>4, ReturnFrame
  <2> QED
    BY <1>2, <2>1, <2>2, <2>3, <2>4 DEF HandleCases, Quits, Writes
<1> QED
  BY <1>1, <1>2, PipelineCases

(* The table of facts holds facts, and so does entities its rows.              *)
LEMMA TablesTypeStep ==
  ASSUME PipelineInv, [PipelineNext]_allvars
  PROVE  PipelineTypeOK'
<1> USE ServiceParts
<1>1. TypeOK'
  BY InvStep, StepOfService DEF PipelineInv, Inv, Types
<1>2. normalized_events' \in [Hashes -> Facts \cup {None}]
  <2>1. CASE UNCHANGED normalized_events
    BY <2>1 DEF PipelineInv, PipelineTypeOK
  <2>2. ASSUME NEW w \in Workers, InsertNormalized(w)
        PROVE  normalized_events' \in [Hashes -> Facts \cup {None}]
    <3>1. stage[w] = "insert" /\ InsertFact(w)
      BY <2>2, InsertFrame
    <3>2. norm[w] \in Facts
      BY <3>1 DEF PipelineInv, HandlerState
    <3> QED
      BY <3>1, <3>2 DEF InsertFact, PipelineInv, PipelineTypeOK
  <2>3. ASSUME NEW w \in Workers, HandleCases(w), ~InsertNormalized(w)
        PROVE  UNCHANGED normalized_events
    BY <2>3 DEF HandleCases, Normalized, SelectForUpdate, Quits, Writes, tables
  <2> QED
    BY <2>1, <2>2, <2>3, PipelineCases DEF PipelineInv, Bystander, tables
<1>3. /\ entities' \in [Keys -> EntityRows \cup {None}]
      /\ \A k \in Keys : entities'[k] # None =>
           entities'[k].current_rank = ShipmentRank(entities'[k].current_state)
  <2>1. CASE UNCHANGED entities
    BY <2>1 DEF PipelineInv, PipelineTypeOK
  <2>2. ASSUME NEW w \in Workers, norm[w].entity_key \in Keys, NEW row, RowWrite(norm[w], row)
        PROVE  /\ entities' \in [Keys -> EntityRows \cup {None}]
               /\ \A k \in Keys : entities'[k] # None =>
                    entities'[k].current_rank = ShipmentRank(entities'[k].current_state)
    BY <2>2 DEF RowWrite, PipelineInv, PipelineTypeOK
  <2> QED
    BY <2>1, <2>2, EntityMoves DEF EntityMove
<1>4. HandlerTypes'
  BY HandlerTypesStep
<1> QED
  BY <1>1, <1>2, <1>3, <1>4 DEF PipelineTypeOK, HandlerTypes

-----------------------------------------------------------------------------
(* The local variables of Handle are what the code says they are.              *)
LEMMA HandlerStateStep ==
  ASSUME PipelineInv, [PipelineNext]_allvars
  PROVE  HandlerState'
<1> USE ServiceParts
<1>1. FactTable
  BY DEF PipelineInv, PipelineTypeOK, FactTable
<1>2. \A h \in Hashes : normalized_events[h] # None => normalized_events'[h] # None
  BY <1>1, FactStep
<1>3. CASE Bystander
  BY <1>2, <1>3 DEF Bystander, WorkerMoves, PipelineInv, HandlerState, BusyHasJob, Busy, tables
<1>4. ASSUME NEW w \in Workers, HandleCases(w)
      PROVE  HandlerState'
  <2>1. job[w] \in Hashes
    BY <1>4, NormalizedFrame, InsertFrame, SelectFrame, ReturnFrame
       DEF HandleCases, Quits, Writes, HandlerFrame, BusyHasJob, Busy, PipelineInv
  <2>2. ASSUME NEW v \in Workers \ {w}, HandlerFrame(w)
        PROVE  /\ pc'[v] # "handle" => stage'[v] = "llm"
               /\ stage'[v] # "llm" => norm'[v] \in Facts
               /\ stage'[v] \in {"project", "write"} => normalized_events'[job'[v]] # None
               /\ stage'[v] = "write" => norm'[v].classification = "INVOICE"
    BY <1>2, <2>2 DEF HandlerFrame, PipelineInv, HandlerState, BusyHasJob, Busy
  <2>3. CASE Normalized(w)
    <3>1. /\ HandlerFrame(w)
          /\ pc'[w] = "handle" /\ stage'[w] = "insert" /\ norm'[w] \in FactsFor(job[w])
      BY <2>3, NormalizedFrame
    <3> QED
      BY <2>1, <2>2, <3>1, FactsForAreFacts DEF HandlerState
  <2>4. CASE InsertNormalized(w)
    <3>1. /\ HandlerFrame(w)
          /\ pc'[w] = "handle" /\ stage[w] = "insert" /\ stage'[w] = "project"
          /\ norm' = norm
          /\ InsertFact(w)
      BY <2>4, InsertFrame
    <3>2. norm[w] \in Facts /\ norm[w] # None
      BY <3>1, FactShape DEF PipelineInv, HandlerState
    <3>3. normalized_events'[job[w]] # None
      BY <2>1, <3>1, <3>2 DEF InsertFact, PipelineInv, PipelineTypeOK
    <3>4. job' = job
      BY <3>1 DEF HandlerFrame
    <3> QED
      BY <2>2, <3>1, <3>2, <3>3, <3>4 DEF HandlerState
  <2>5. CASE SelectForUpdate(w)
    <3>1. /\ HandlerFrame(w)
          /\ pc'[w] = "handle" /\ stage[w] = "project" /\ stage'[w] = "write"
          /\ norm[w].classification = "INVOICE"
          /\ norm' = norm
      BY <2>5, SelectFrame DEF PipelineInv
    <3>2. norm[w] \in Facts /\ normalized_events'[job[w]] # None
      BY <1>2, <2>1, <3>1 DEF PipelineInv, HandlerState
    <3>3. job' = job
      BY <3>1 DEF HandlerFrame
    <3> QED
      BY <2>2, <3>1, <3>2, <3>3 DEF HandlerState
  <2>6. ASSUME NEW outcome \in Outcomes, Return(w, outcome)
        PROVE  HandlerState'
    BY <2>2, <2>6, ReturnFrame DEF HandlerState
  <2> QED
    BY <1>4, <2>3, <2>4, <2>5, <2>6 DEF HandleCases, Quits, Writes
<1> QED
  BY <1>3, <1>4, PipelineCases DEF PipelineInv

(* Row locks exclude, and protect what their holders have read, from invoices  *)
(* and shipments alike; a crash gives them back.                               *)
LEMMA LocksStep ==
  ASSUME PipelineInv, [PipelineNext]_allvars
  PROVE  LocksHold'
<1> USE ServiceParts
<1>1. CASE Bystander
  <2>1. ASSUME NEW w \in Workers, Holds(w)'
        PROVE  Holds(w) /\ norm'[w] = norm[w] /\ seen'[w] = seen[w]
    BY <1>1, <2>1 DEF Bystander, WorkerMoves, Holds, At, PipelineInv, HandlerState
  <2>2. UNCHANGED entities
    BY <1>1 DEF Bystander, tables
  <2> QED
    BY <2>1, <2>2 DEF LocksHold, PipelineInv
<1>2. ASSUME NEW w \in Workers, HandlerFrame(w), NEW v \in Workers \ {w}
      PROVE  /\ Holds(v)' <=> Holds(v)
             /\ norm'[v] = norm[v] /\ seen'[v] = seen[v]
  BY <1>2 DEF HandlerFrame, Holds, At
<1>3. ASSUME NEW w \in Workers, HandlerFrame(w), ~Holds(w)', UNCHANGED entities
      PROVE  LocksHold'
  BY <1>2, <1>3 DEF LocksHold, PipelineInv
<1>4. ASSUME NEW w \in Workers, Normalized(w) \/ InsertNormalized(w)
      PROVE  LocksHold'
  <2>1. HandlerFrame(w) /\ stage'[w] # "write" /\ UNCHANGED entities
    BY <1>4, NormalizedFrame, InsertFrame DEF tables
  <2> QED
    BY <1>3, <2>1 DEF Holds, At
<1>5. ASSUME NEW w \in Workers, SelectForUpdate(w)
      PROVE  LocksHold'
  <2> DEFINE e == entities[norm[w].entity_key]
  <2>1. /\ HandlerFrame(w)
        /\ ~Locked(norm[w].entity_key)
        /\ norm' = norm /\ entities' = entities
        /\ seen'[w] = IF e = None THEN None ELSE e.current_state
    BY <1>5, SelectFrame DEF PipelineInv, tables
  <2>2. \A v \in Workers : Holds(v) => norm[v].entity_key # norm[w].entity_key
    BY <2>1 DEF Locked, Holds
  <2>3. Holds(w)' => e # None /\ e.current_state = seen'[w]
    BY <2>1 DEF Holds
  <2> QED
    BY <1>2, <2>1, <2>2, <2>3 DEF LocksHold, PipelineInv
<1>6. ASSUME NEW w \in Workers, NEW outcome \in Outcomes, Quits(w, outcome)
      PROVE  LocksHold'
  <2>1. HandlerFrame(w) /\ stage'[w] = "llm" /\ UNCHANGED entities
    BY <1>6, ReturnFrame DEF Quits, tables
  <2> QED
    BY <1>3, <2>1 DEF Holds, At
<1>7. ASSUME NEW w \in Workers, NEW outcome \in Outcomes, Writes(w, outcome)
      PROVE  LocksHold'
  <2>1. HandlerFrame(w) /\ stage'[w] = "llm"
    BY <1>7, ReturnFrame DEF Writes
  <2>2. ~Holds(w)'
    BY <2>1 DEF Holds, At
  <2>3. PICK row : RowWrite(norm[w], row)
    BY <1>7, WriteWritesRow DEF PipelineInv
  <2>4. \A v \in Workers \ {w} : Holds(v) => norm[v].entity_key # norm[w].entity_key
    BY <1>7, WriteWritesRow DEF PipelineInv
  <2>5. \A v \in Workers : Holds(v) => norm[v].entity_key \in Keys
    BY FactShape DEF Holds, At, PipelineInv, HandlerState
  <2>6. \A v \in Workers \ {w} : Holds(v) =>
          entities'[norm[v].entity_key] = entities[norm[v].entity_key]
    BY <2>3, <2>4, <2>5 DEF RowWrite, PipelineInv, PipelineTypeOK
  <2> QED
    BY <1>2, <2>1, <2>2, <2>6 DEF LocksHold, PipelineInv
<1> QED
  BY <1>1, <1>4, <1>5, <1>6, <1>7, PipelineCases DEF HandleCases, PipelineInv

(* A row is acknowledged only after its fact was stored, and a fact is stored  *)
(* only for a row that was claimed.                                            *)
LEMMA FactsAndRowsStep ==
  ASSUME PipelineInv, [PipelineNext]_allvars
  PROVE  FactsAndRows'
<1> USE ServiceParts
<1>0. [Next]_vars
  BY StepOfService
<1>1. \A h \in Hashes : normalized_events[h] # None => normalized_events'[h] # None
  BY FactStep DEF PipelineInv, PipelineTypeOK, FactTable
<1>2. \A h \in Hashes : status[h] \notin {Absent, "PENDING"} => status'[h] \notin {Absent, "PENDING"}
  BY <1>0, RowsMoveForward DEF RowMoves, Types, TypeOK, QueueTypeOK, Stored, Settled, Absent
<1>3. \A h \in Hashes : status'[h] = "PROCESSED" => normalized_events'[h] # None
  BY <1>0, <1>1, ProcessedByAck DEF PipelineInv, FactsAndRows
<1>4. \A w \in Workers : Busy(w) => job[w] \in Hashes /\ status[job[w]] \notin {Absent, "PENDING"}
  <2> SUFFICES ASSUME NEW w \in Workers, Busy(w)
               PROVE  job[w] \in Hashes /\ status[job[w]] \notin {Absent, "PENDING"}
    OBVIOUS
  <2>1. job[w] \in Hashes /\ job[w] # NoJob
    BY WorkersAssumption DEF BusyHasJob
  <2>2. status[job[w]] \in Stored \ {"PENDING"}
    BY <2>1 DEF JobsAreClaims
  <2> QED
    BY <2>1, <2>2 DEF Stored, Settled, Absent
<1>5. CASE Bystander
  <2>1. \A h \in Hashes : normalized_events'[h] # None => status'[h] \notin {Absent, "PENDING"}
    BY <1>2, <1>5 DEF Bystander, tables, PipelineInv, FactsAndRows
  <2>2. \A w \in Workers : pc'[w] = "ack" => normalized_events'[job'[w]] # None
    BY <1>5 DEF Bystander, WorkerMoves, tables, PipelineInv, FactsAndRows
  <2> QED
    BY <1>3, <2>1, <2>2 DEF FactsAndRows
<1>6. ASSUME NEW w \in Workers, HandlerFrame(w), UNCHANGED normalized_events,
             pc'[w] = "ack" => normalized_events[job[w]] # None
      PROVE  FactsAndRows'
  BY <1>3, <1>6 DEF HandlerFrame, PipelineInv, FactsAndRows
<1>7. ASSUME NEW w \in Workers, Normalized(w) \/ SelectForUpdate(w)
      PROVE  FactsAndRows'
  <2>1. HandlerFrame(w) /\ pc'[w] = "handle" /\ UNCHANGED normalized_events
    BY <1>7, NormalizedFrame, SelectFrame DEF tables, PipelineInv
  <2> QED
    BY <1>6, <2>1
<1>8. ASSUME NEW w \in Workers, InsertNormalized(w)
      PROVE  FactsAndRows'
  <2>1. HandlerFrame(w) /\ pc'[w] = "handle" /\ InsertFact(w)
    BY <1>8, InsertFrame
  <2>2. Busy(w)
    BY <2>1 DEF HandlerFrame, Busy
  <2>3. \A h \in Hashes : normalized_events'[h] # None => status[h] \notin {Absent, "PENDING"}
    BY <1>4, <2>1, <2>2 DEF InsertFact, PipelineInv, PipelineTypeOK, FactsAndRows
  <2>4. \A v \in Workers : pc'[v] = "ack" => pc[v] = "ack" /\ job'[v] = job[v]
    BY <2>1 DEF HandlerFrame
  <2>5. \A v \in Workers : pc[v] = "ack" => job[v] \in Hashes /\ normalized_events[job[v]] # None
    BY DEF PipelineInv, FactsAndRows, BusyHasJob, Busy, Outcomes
  <2> QED
    BY <1>1, <1>3, <2>1, <2>3, <2>4, <2>5 DEF HandlerFrame, FactsAndRows
<1>9. ASSUME NEW w \in Workers, NEW outcome \in Outcomes, Quits(w, outcome) \/ Writes(w, outcome)
      PROVE  FactsAndRows'
  <2>1. HandlerFrame(w) /\ pc'[w] = outcome /\ UNCHANGED normalized_events
    BY <1>9, ReturnFrame DEF Quits, Writes, tables
  <2>2. outcome = "ack" => stage[w] \in {"project", "write"}
    BY <1>9 DEF Quits, Writes, Holds, At
  <2>3. outcome = "ack" => normalized_events[job[w]] # None
    BY <2>2 DEF PipelineInv, HandlerState
  <2> QED
    BY <1>6, <2>1, <2>3
<1> QED
  BY <1>5, <1>7, <1>8, <1>9, PipelineCases DEF HandleCases, PipelineInv

(* An entity's type and its money come from facts with its key; amount and     *)
(* currency from the same one, even though the UPDATE coalesces each of them   *)
(* on its own.                                                                 *)
LEMMA EntityFactsStep ==
  ASSUME PipelineInv, [PipelineNext]_allvars
  PROVE  TypeFromFacts' /\ MoneyIsPair'
<1>1. CASE UNCHANGED entities
  BY <1>1 DEF PipelineInv, TypeFromFacts, MoneyIsPair
<1>2. ASSUME NEW f \in Facts, f.entity_key \in Keys, f.classification \in {"SHIPMENT", "INVOICE"},
             NEW row, RowWrite(f, row)
      PROVE  TypeFromFacts' /\ MoneyIsPair'
  <2> DEFINE key == f.entity_key
             old == entities[key]
  <2>1. entities' = [entities EXCEPT ![key] = row] /\ entities \in [Keys -> EntityRows \cup {None}]
    BY <1>2 DEF RowWrite, PipelineInv, PipelineTypeOK
  <2>2. \E g \in Facts : g.entity_key = key /\ g.classification = row.type
    BY <1>2 DEF RowWrite, PipelineInv, TypeFromFacts
  <2>3. (f.amount_minor = None) <=> (f.currency = Blank)
    BY FactShape DEF SoundFact
  <2>4. /\ (row.amount_minor = None) = (row.currency = Blank)
        /\ row.amount_minor # None =>
             \E g \in Facts :
               /\ g.entity_key = key
               /\ g.amount_minor = row.amount_minor
               /\ g.currency = row.currency
    <3>1. CASE row.amount_minor = f.amount_minor /\ row.currency = f.currency
      BY <2>3, <3>1
    <3>2. CASE old # None /\ row.amount_minor = old.amount_minor /\ row.currency = old.currency
      BY <1>2, <3>2 DEF PipelineInv, MoneyIsPair
    <3> QED
      BY <1>2, <3>1, <3>2 DEF RowWrite
  <2>5. \A k \in Keys : entities'[k] = IF k = key THEN row ELSE entities[k]
    BY <2>1
  <2>6. TypeFromFacts'
    BY <2>2, <2>5 DEF PipelineInv, TypeFromFacts
  <2>7. MoneyIsPair'
    BY <2>4, <2>5 DEF PipelineInv, MoneyIsPair
  <2> QED
    BY <2>6, <2>7
<1> QED
  BY <1>1, <1>2, EntityMoves DEF EntityMove
-----------------------------------------------------------------------------
(* PipelineInv holds initially.                                                *)
LEMMA PipelineInvInit ==
  ASSUME PipelineInit
  PROVE  PipelineInv
<1> USE DEF PipelineInit
<1>1. Inv
  BY InvInit
<1>2. PipelineTypeOK
  BY <1>1 DEF Inv, Types, PipelineTypeOK, Stages
<1>3. HandlerState /\ LocksHold
  BY DEF HandlerState, LocksHold, Holds, At
<1>4. RowHistory /\ FactsAndRows
  BY DEF Init, QueueInit, PoolInit, RowHistory, FactsAndRows, Absent, Null
<1>5. TypeFromFacts /\ MoneyIsPair
  BY DEF TypeFromFacts, MoneyIsPair
<1> QED
  BY <1>1, <1>2, <1>3, <1>4, <1>5 DEF PipelineInv

(* PipelineInv is inductive.                                                   *)
LEMMA PipelineInvStep ==
  ASSUME PipelineInv, [PipelineNext]_allvars
  PROVE  PipelineInv'
<1>1. [Next]_vars
  BY StepOfService
<1>2. Inv' /\ RowHistory'
  BY <1>1, InvStep, RowHistoryStep, ServiceParts DEF PipelineInv
<1> QED
  BY <1>2, TablesTypeStep, HandlerStateStep, LocksStep, FactsAndRowsStep, EntityFactsStep
     DEF PipelineInv

(* The inductive invariant of the pipeline: what handlers hold, what row locks *)
(* protect, and how the three tables belong together.                          *)
THEOREM PipelineInvariance == PipelineSpec => []PipelineInv
<1>1. PipelineInit => PipelineInv
  BY PipelineInvInit
<1>2. PipelineInv /\ [PipelineNext]_allvars => PipelineInv'
  BY PipelineInvStep
<1> QED
  BY <1>1, <1>2, PTL DEF PipelineSpec

(* The tables are well typed, and an entity's rank is always that of its state,*)
(* also where an invoice and a shipment share a key: the UPDATE of an invoice  *)
(* leaves the rank alone, and the row lock keeps shipments out meanwhile.      *)
THEOREM PipelineTypeCorrect == PipelineSpec => []PipelineTypeOK
<1>1. PipelineInv => PipelineTypeOK
  BY DEF PipelineInv
<1> QED
  BY <1>1, PipelineInvariance, PTL

(* GET /events/{id} shows a coherent view at every moment: a fact with every   *)
(* processed event, a reason with every failed one, and no trace of an attempt *)
(* with a pending one.                                                         *)
THEOREM ViewsAreCoherent == PipelineSpec => []EventViewIsCoherent
<1>1. PipelineInv => EventViewIsCoherent
  <2> SUFFICES ASSUME PipelineInv, NEW h \in Hashes, status[h] # Absent
               PROVE  /\ status[h] = "PROCESSED" => normalized_events[h] # None
                      /\ status[h] = "FAILED" => error[h] # Null
                      /\ status[h] = "PENDING" <=>
                           attempts[h] = 0 /\ error[h] = Null /\ normalized_events[h] = None
    BY DEF EventViewIsCoherent, GetEvent
  <2>1. /\ status[h] = "PROCESSED" => normalized_events[h] # None
        /\ status[h] = "PENDING" => normalized_events[h] = None
    BY DEF PipelineInv, FactsAndRows
  <2>2. /\ status[h] = "FAILED" => error[h] # Null
        /\ status[h] = "PENDING" <=> attempts[h] = 0
        /\ attempts[h] = 0 => error[h] = Null
    BY DEF PipelineInv, RowHistory
  <2> QED
    BY <2>1, <2>2
<1> QED
  BY <1>1, PipelineInvariance, PTL

(* An entity has an amount exactly when it has a currency, and both come from  *)
(* one event.                                                                  *)
THEOREM MoneyStaysPaired == PipelineSpec => []MoneyIsPair
<1>1. PipelineInv => MoneyIsPair
  BY DEF PipelineInv
<1> QED
  BY <1>1, PipelineInvariance, PTL

(* No step deletes an entity or lowers its rank.                               *)
LEMMA RanksGrow ==
  ASSUME PipelineInv, [PipelineNext]_allvars, NEW k \in Keys, entities[k] # None
  PROVE  /\ entities'[k] # None
         /\ entities'[k].current_rank >= entities[k].current_rank
<1>1. /\ entities \in [Keys -> EntityRows \cup {None}]
      /\ entities[k].current_rank \in 0..4
  BY DEF PipelineInv, PipelineTypeOK, EntityRows
<1>2. CASE UNCHANGED entities
  BY <1>1, <1>2
<1>3. ASSUME NEW f, f.entity_key \in Keys, NEW row, RowWrite(f, row)
      PROVE  /\ entities'[k] # None
             /\ entities'[k].current_rank >= entities[k].current_rank
  <2>1. CASE f.entity_key = k
    BY <1>1, <1>3, <2>1, NoRowAssumption DEF RowWrite
  <2>2. CASE f.entity_key # k
    BY <1>1, <1>3, <2>2 DEF RowWrite
  <2> QED
    BY <2>1, <2>2
<1> QED
  BY <1>2, <1>3, EntityMoves DEF EntityMove

(* A late or concurrent event never takes an entity back.                      *)
THEOREM EntitiesNeverRegress == PipelineSpec => NeverRegresses
<1>1. PipelineInv /\ [PipelineNext]_allvars =>
        [\A k \in Keys : entities[k] # None =>
           /\ entities'[k] # None
           /\ entities'[k].current_rank >= entities[k].current_rank]_allvars
  BY RanksGrow
<1> QED
  BY <1>1, PipelineInvariance, PTL DEF PipelineSpec, NeverRegresses

(* Where no shipment shares its key with an invoice, an invoice changes state  *)
(* only along invoiceTransitions, however transactions interleave.  (Where one *)
(* does, the conditional upsert of ApplyShipment finds rank 0 and overwrites   *)
(* the state of the invoice.)                                                  *)
THEOREM InvoicesMoveLegally ==
  ASSUME KeysApart
  PROVE  PipelineSpec => InvoiceMovesLegally
<1>1. ASSUME PipelineInv, [PipelineNext]_allvars, NEW k \in Keys, entities[k] # None,
             entities[k].type = "INVOICE",
             entities'[k].current_state # entities[k].current_state
      PROVE  InvoiceTransitionAllowed(entities[k].current_state, entities'[k].current_state)
  <2>1. PICK w \in Workers : /\ norm[w] \in Facts
                             /\ norm[w].entity_key \in Keys
                             /\ norm[w].classification \in {"SHIPMENT", "INVOICE"}
                             /\ \E row : RowWrite(norm[w], row)
    BY <1>1, EntityMoves DEF EntityMove
  <2>2. PICK row : RowWrite(norm[w], row)
    BY <2>1
  <2>3. entities' = [entities EXCEPT ![norm[w].entity_key] = row]
        /\ entities \in [Keys -> EntityRows \cup {None}]
    BY <1>1, <2>2 DEF RowWrite, PipelineInv, PipelineTypeOK
  <2>4. norm[w].entity_key = k /\ entities'[k] = row
    BY <1>1, <2>1, <2>3
  <2>5. PICK g \in Facts : g.entity_key = k /\ g.classification = "INVOICE"
    BY <1>1 DEF PipelineInv, TypeFromFacts
  <2>6. k # Blank
    BY DEF Keys
  <2>7. norm[w].classification = "INVOICE"
    BY <2>1, <2>4, <2>5, <2>6, KeysApart DEF KeysApart
  <2> QED
    BY <1>1, <2>2, <2>4, <2>7 DEF RowWrite
<1>2. PipelineInv /\ [PipelineNext]_allvars =>
        [\A k \in Keys :
           /\ entities[k] # None
           /\ entities[k].type = "INVOICE"
           /\ entities'[k].current_state # entities[k].current_state
           => InvoiceTransitionAllowed(entities[k].current_state,
                                       entities'[k].current_state)]_allvars
  BY <1>1
<1> QED
  BY <1>2, PipelineInvariance, PTL DEF PipelineSpec, InvoiceMovesLegally

\* An invoice event in state s has nothing left to do to an entity.
Considered(e, s) == e # None /\ ~InvoiceTransitionAllowed(e.current_state, s)

(* No step but that of its own handler ends a transaction of ApplyInvoice with *)
(* an acknowledgement.                                                         *)
LEMMA OwnStepEnds ==
  ASSUME PipelineInv, [PipelineNext]_allvars, NEW w \in Workers, At(w, "write"), pc'[w] = "ack"
  PROVE  HandleStep(w)
<1>0. pc[w] = "handle" /\ pc \in [Workers -> Places]
  BY DEF PipelineInv, PipelineTypeOK, TypeOK, PoolTypeOK, At
<1>1. CASE UNCHANGED allvars
  BY <1>0, <1>1 DEF allvars, vars, pool
<1>2. CASE PlainStep
  BY <1>0, <1>2, PlainKeeps DEF PipelineInv, Inv, WorkerMoves
<1>3. ASSUME NEW p \in Processes, Crash(p)
      PROVE  FALSE
  BY <1>0, <1>3 DEF Crash, DropWorkers
<1>4. ASSUME NEW v \in Workers \ {w}, HandleStep(v)
      PROVE  FALSE
  <2>1. HandleCases(v)
    BY <1>4, HandleStepCases DEF PipelineInv
  <2>2. pc'[w] = pc[w]
    BY <1>0, <2>1 DEF HandleCases, Normalized, InsertNormalized, SelectForUpdate, Proceed, vars,
       pool, Quits, Writes, Return, HandlerReturns, MoveTo
  <2> QED
    BY <1>0, <2>2
<1> QED
  BY <1>1, <1>2, <1>3, <1>4 DEF PipelineNext

(* The three ways in which ApplyInvoice succeeds.  The lock is why the state   *)
(* that it decided on is still that of the row; and a row that was not there   *)
(* to be locked is found out by the unique key.                                *)
LEMMA ApplyConsiders ==
  ASSUME PipelineInv, NEW w \in Workers, At(w, "write"), pc'[w] = "ack", HandleStep(w)
  PROVE  Considered(entities'[norm[w].entity_key], norm[w].canonical_state)
<1> DEFINE f == norm[w]
<1>1. /\ f \in Facts /\ f.classification = "INVOICE" /\ f.entity_key \in Keys
      /\ entities \in [Keys -> EntityRows \cup {None}]
      /\ pc \in [Workers -> Places]
  <2>1. f \in Facts /\ f.classification = "INVOICE"
    BY DEF At, PipelineInv, HandlerState
  <2> QED
    BY <2>1, FactShape DEF PipelineInv, PipelineTypeOK, TypeOK, PoolTypeOK
<1>2. \A s : ~InvoiceTransitionAllowed(s, s)
  BY InvoiceStatesAre DEF InvoiceTransitionAllowed, invoiceTransitions
<1>3. CASE ApplyInvoice(w)
  <2>1. /\ entities[f.entity_key] # None
        /\ entities[f.entity_key].current_state = seen[w]
    BY <1>3 DEF ApplyInvoice, PipelineInv, LocksHold, Holds
  <2>2. CASE ~InvoiceTransitionAllowed(seen[w], f.canonical_state)
    BY <1>3, <2>1, <2>2 DEF ApplyInvoice, Considered
  <2>3. CASE InvoiceTransitionAllowed(seen[w], f.canonical_state)
    <3>1. UpdateInvoice(f)
      BY <1>3, <2>3 DEF ApplyInvoice
    <3>2. entities[f.entity_key] \in EntityRows
      BY <1>1, <2>1
    <3>3. entities'[f.entity_key].current_state = f.canonical_state
      BY <1>1, <3>1, <3>2 DEF UpdateInvoice, EntityRows
    <3>4. PICK row : RowWrite(f, row)
      BY <1>1, <2>1, <2>3, <3>1, InvoiceWrite DEF PipelineInv
    <3>5. entities'[f.entity_key] # None
      BY <1>1, <3>4, NoRowAssumption DEF RowWrite
    <3> QED
      BY <1>2, <3>3, <3>5 DEF Considered
  <2> QED
    BY <2>2, <2>3
<1>4. CASE SeedInvoice(w)
  <2>1. entities'[f.entity_key] = Entity("INVOICE", f)
    BY <1>1, <1>4 DEF SeedInvoice
  <2>2. Entity("INVOICE", f) # None /\ Entity("INVOICE", f).current_state = f.canonical_state
    BY <1>1, NewRow, NoRowAssumption DEF Entity
  <2> QED
    BY <1>2, <2>1, <2>2 DEF Considered
<1>5. CASE SeedConflict(w) \/ StoreError(w)
  BY <1>1, <1>5 DEF SeedConflict, StoreError, Return, HandlerReturns, MoveTo
<1>6. CASE Normalized(w) \/ Rejected(w) \/ LLMError(w) \/ InsertNormalized(w)
           \/ ApplyShipment(w) \/ SelectForUpdate(w) \/ SkipProjection(w)
  BY <1>6 DEF Normalized, Rejected, LLMError, InsertNormalized, ApplyShipment, SelectForUpdate,
     SkipProjection, At
<1> QED
  BY <1>3, <1>4, <1>5, <1>6 DEF HandleStep

(* No invoice event is lost between concurrent workers: one that ApplyInvoice  *)
(* reports as done has set the state of its invoice, or comes too late for the *)
(* state that the invoice has at that moment, also when two workers seed it,   *)
(* and whatever shipment shares its key.                                       *)
THEOREM InvoicesAreConsidered == PipelineSpec => InvoiceIsConsidered
<1>1. ASSUME PipelineInv, [PipelineNext]_allvars, NEW w \in Workers,
             At(w, "write"), pc'[w] = "ack"
      PROVE  LET e == entities'[norm[w].entity_key]
             IN e # None /\ ~InvoiceTransitionAllowed(e.current_state, norm[w].canonical_state)
  BY <1>1, OwnStepEnds, ApplyConsiders DEF Considered
<1>2. PipelineInv /\ [PipelineNext]_allvars =>
        [\A w \in Workers :
           /\ At(w, "write")
           /\ pc'[w] = "ack"
           => LET e == entities'[norm[w].entity_key]
              IN e # None /\ ~InvoiceTransitionAllowed(e.current_state,
                                                       norm[w].canonical_state)]_allvars
  BY <1>1
<1> QED
  BY <1>2, PipelineInvariance, PTL DEF PipelineSpec, InvoiceIsConsidered

(* "One row per shipment/invoice" (0001_init.sql): an entity is one or the     *)
(* other, and stands in a state of its own lifecycle.                          *)
OneRowPerEntity ==
  \A k \in Keys : entities[k] # None =>
    entities[k].current_state \in
      (IF entities[k].type = "SHIPMENT" THEN ShipmentStates ELSE InvoiceStates)

(* That is so where no shipment shares its key with an invoice, which nothing  *)
(* in the code ensures: an entity is known by entity_key alone, and the upsert *)
(* of ApplyShipment leaves the type of the row it finds.                       *)
THEOREM EntitiesKeepTheirKind ==
  ASSUME KeysApart
  PROVE  PipelineSpec => []OneRowPerEntity
<1> DEFINE Lifecycle(type) == IF type = "SHIPMENT" THEN ShipmentStates ELSE InvoiceStates
<1>1. PipelineInit => OneRowPerEntity
  BY DEF PipelineInit, OneRowPerEntity
<1>2. ASSUME PipelineInv, OneRowPerEntity, [PipelineNext]_allvars,
             NEW k \in Keys, entities'[k] # None
      PROVE  entities'[k].current_state \in Lifecycle(entities'[k].type)
  <2>1. CASE entities'[k] = entities[k]
    BY <1>2, <2>1 DEF OneRowPerEntity
  <2>2. CASE entities'[k] # entities[k]
    <3>1. PICK w \in Workers : /\ norm[w] \in Facts
                               /\ norm[w].entity_key \in Keys
                               /\ norm[w].classification \in {"SHIPMENT", "INVOICE"}
                               /\ \E row : RowWrite(norm[w], row)
      BY <1>2, <2>2, EntityMoves DEF EntityMove
    <3>2. PICK row : RowWrite(norm[w], row)
      BY <3>1
    <3>3. entities' = [entities EXCEPT ![norm[w].entity_key] = row]
          /\ entities \in [Keys -> EntityRows \cup {None}]
      BY <1>2, <3>2 DEF RowWrite, PipelineInv, PipelineTypeOK
    <3>4. norm[w].entity_key = k /\ entities'[k] = row /\ row # entities[k]
      BY <2>2, <3>1, <3>3
    <3>5. row.current_state = norm[w].canonical_state
      BY <3>2, <3>4 DEF RowWrite
    <3>6. row.type = norm[w].classification
      <4>1. CASE entities[k] = None
        BY <3>2, <3>4, <4>1 DEF RowWrite
      <4>2. CASE entities[k] # None
        <5>1. row.type = entities[k].type
          BY <3>2, <3>4, <4>2 DEF RowWrite
        <5>2. PICK g \in Facts : g.entity_key = k /\ g.classification = entities[k].type
          BY <1>2, <4>2 DEF PipelineInv, TypeFromFacts
        <5>3. k # Blank
          BY DEF Keys
        <5> QED
          BY <3>1, <3>4, <5>1, <5>2, <5>3, KeysApart DEF KeysApart
      <4> QED
        BY <4>1, <4>2
    <3>7. SoundFact(norm[w])
      BY <3>1, FactShape
    <3> QED
      BY <3>1, <3>4, <3>5, <3>6, <3>7 DEF SoundFact
  <2> QED
    BY <2>1, <2>2
<1>3. PipelineInv /\ OneRowPerEntity /\ [PipelineNext]_allvars => OneRowPerEntity'
  BY <1>2 DEF OneRowPerEntity
<1> QED
  BY <1>1, <1>3, PipelineInvariance, PTL DEF PipelineSpec

-----------------------------------------------------------------------------
(* Facts stay with their payload, also when several workers hold it.           *)
LEMMA FactsBelongStep ==
  ASSUME PipelineInv, FactsBelong, [PipelineNext]_allvars
  PROVE  FactsBelong'
<1> USE ServiceParts
<1>1. CASE Bystander
  BY <1>1 DEF Bystander, WorkerMoves, PipelineInv, HandlerState, FactsBelong, tables
<1>2. ASSUME NEW w \in Workers, HandlerFrame(w), UNCHANGED normalized_events,
             stage'[w] # "llm" => norm'[w] \in FactsFor(job[w])
      PROVE  FactsBelong'
  BY <1>2 DEF HandlerFrame, FactsBelong
<1>3. ASSUME NEW w \in Workers, Normalized(w)
      PROVE  FactsBelong'
  BY <1>2, <1>3, NormalizedFrame DEF tables
<1>4. ASSUME NEW w \in Workers, InsertNormalized(w)
      PROVE  FactsBelong'
  <2>1. /\ HandlerFrame(w) /\ stage[w] = "insert"
        /\ norm' = norm /\ InsertFact(w)
    BY <1>4, InsertFrame
  <2>2. norm[w] \in FactsFor(job[w]) /\ job' = job
    BY <2>1 DEF FactsBelong, HandlerFrame
  <2>3. \A h \in Hashes : normalized_events'[h] # None => normalized_events'[h] \in FactsFor(h)
    BY <2>1, <2>2 DEF InsertFact, FactsBelong, PipelineInv, PipelineTypeOK
  <2> QED
    BY <2>1, <2>2, <2>3 DEF HandlerFrame, FactsBelong
<1>5. ASSUME NEW w \in Workers, SelectForUpdate(w)
      PROVE  FactsBelong'
  <2>1. /\ HandlerFrame(w) /\ stage[w] = "project" /\ norm' = norm
        /\ UNCHANGED normalized_events
    BY <1>5, SelectFrame DEF PipelineInv, tables
  <2> QED
    BY <1>2, <2>1 DEF FactsBelong
<1>6. ASSUME NEW w \in Workers, NEW outcome \in Outcomes, Quits(w, outcome) \/ Writes(w, outcome)
      PROVE  FactsBelong'
  BY <1>2, <1>6, ReturnFrame DEF Quits, Writes, tables
<1> QED
  BY <1>1, <1>3, <1>4, <1>5, <1>6, PipelineCases DEF HandleCases, PipelineInv

(* With a model that does not contradict itself, the insert that does nothing  *)
(* (ON CONFLICT) leaves behind the very fact that the worker has in hand.      *)
LEMMA InHandStep ==
  ASSUME AnswersAgree, PipelineInv, FactsBelong, InHandIsStored, [PipelineNext]_allvars
  PROVE  InHandIsStored'
<1> USE ServiceParts
<1>1. \A h \in Hashes : normalized_events[h] # None => normalized_events'[h] = normalized_events[h]
  BY FactStep DEF PipelineInv, PipelineTypeOK, FactTable
<1>2. \A w \in Workers : stage[w] # "llm" => pc[w] = "handle" /\ job[w] \in Hashes
  BY DEF PipelineInv, HandlerState, BusyHasJob, Busy
<1>3. \A w \in Workers : stage[w] \in {"project", "write"} =>
        normalized_events'[job[w]] = norm[w]
  BY <1>1, <1>2 DEF InHandIsStored, PipelineInv, HandlerState
<1>4. CASE Bystander
  BY <1>2, <1>3, <1>4 DEF Bystander, WorkerMoves, InHandIsStored
<1>5. ASSUME NEW w \in Workers, HandlerFrame(w),
             stage'[w] \in {"project", "write"} => normalized_events'[job[w]] = norm'[w]
      PROVE  InHandIsStored'
  BY <1>3, <1>5 DEF HandlerFrame, InHandIsStored
<1>6. ASSUME NEW w \in Workers, Normalized(w)
      PROVE  InHandIsStored'
  BY <1>5, <1>6, NormalizedFrame
<1>7. ASSUME NEW w \in Workers, InsertNormalized(w)
      PROVE  InHandIsStored'
  <2>1. /\ HandlerFrame(w) /\ stage[w] = "insert"
        /\ norm' = norm /\ InsertFact(w)
    BY <1>7, InsertFrame
  <2>2. job[w] \in Hashes /\ norm[w] \in FactsFor(job[w])
    BY <1>2, <2>1 DEF FactsBelong
  <2>3. CASE normalized_events[job[w]] = None
    BY <1>5, <2>1, <2>2, <2>3 DEF InsertFact, PipelineInv, PipelineTypeOK
  <2>4. CASE normalized_events[job[w]] # None
    <3>1. normalized_events[job[w]] \in FactsFor(job[w])
      BY <2>2, <2>4 DEF FactsBelong
    <3>2. normalized_events[job[w]] = norm[w]
      BY <2>2, <3>1, AnswersAgree DEF AnswersAgree, FactsFor
    <3> QED
      BY <1>1, <1>5, <2>1, <2>2, <2>4, <3>2
  <2> QED
    BY <2>3, <2>4
<1>8. ASSUME NEW w \in Workers, SelectForUpdate(w)
      PROVE  InHandIsStored'
  <2>1. HandlerFrame(w) /\ stage[w] = "project" /\ norm' = norm
    BY <1>8, SelectFrame DEF PipelineInv
  <2> QED
    BY <1>3, <1>5, <2>1
<1>9. ASSUME NEW w \in Workers, NEW outcome \in Outcomes, Quits(w, outcome) \/ Writes(w, outcome)
      PROVE  InHandIsStored'
  BY <1>5, <1>9, ReturnFrame DEF Quits, Writes
<1> QED
  BY <1>4, <1>6, <1>7, <1>8, <1>9, PipelineCases DEF HandleCases, PipelineInv

(* Every write of an entity takes state and time from a stored fact, and       *)
(* stored facts stay.                                                          *)
LEMMA ProjectionStep ==
  ASSUME PipelineInv, InHandIsStored, ProjectionFromFacts, [PipelineNext]_allvars
  PROVE  ProjectionFromFacts'
<1> USE ServiceParts
<1>1. \A h \in Hashes : normalized_events[h] # None => normalized_events'[h] = normalized_events[h]
  BY FactStep DEF PipelineInv, PipelineTypeOK, FactTable
<1>2. ASSUME NEW k \in Keys, entities[k] # None,
             entities'[k].current_state = entities[k].current_state,
             entities'[k].last_event_time = entities[k].last_event_time
      PROVE  \E h \in FactsOf(k)' :
               /\ normalized_events'[h].canonical_state = entities'[k].current_state
               /\ normalized_events'[h].event_time = entities'[k].last_event_time
  BY <1>1, <1>2 DEF ProjectionFromFacts, FactsOf
<1>3. CASE UNCHANGED entities
  BY <1>2, <1>3 DEF ProjectionFromFacts
<1>4. ASSUME NEW w \in Workers, stage[w] \in {"project", "write"}, norm[w] \in Facts,
             norm[w].entity_key \in Keys, NEW row, RowWrite(norm[w], row)
      PROVE  ProjectionFromFacts'
  <2> DEFINE key == norm[w].entity_key
  <2>1. entities' = [entities EXCEPT ![key] = row] /\ entities \in [Keys -> EntityRows \cup {None}]
    BY <1>4 DEF RowWrite, PipelineInv, PipelineTypeOK
  <2>2. job[w] \in Hashes /\ normalized_events'[job[w]] = norm[w] /\ norm[w] # None
    BY <1>1, <1>4, FactShape DEF PipelineInv, HandlerState, BusyHasJob, Busy, InHandIsStored
  <2>3. ASSUME NEW k \in Keys, k = key
        PROVE  job[w] \in FactsOf(k)'
    BY <2>2, <2>3 DEF FactsOf
  <2>4. row # None
    BY <1>4, NoRowAssumption DEF RowWrite
  <2>5. ASSUME NEW k \in Keys, entities'[k] # None
        PROVE  \E h \in FactsOf(k)' :
                 /\ normalized_events'[h].canonical_state = entities'[k].current_state
                 /\ normalized_events'[h].event_time = entities'[k].last_event_time
    <3>1. CASE k # key \/ row = entities[key]
      <4>1. entities'[k] = entities[k]
        BY <1>4, <2>1, <3>1
      <4> QED
        BY <1>2, <2>5, <4>1
    <3>2. CASE k = key /\ row # entities[key]
      <4>1. entities'[k] = row
        BY <1>4, <2>1, <3>2
      <4>2. row.current_state = norm[w].canonical_state /\ row.last_event_time = norm[w].event_time
        BY <1>4, <3>2 DEF RowWrite
      <4> QED
        BY <2>2, <2>3, <3>2, <4>1, <4>2
    <3> QED
      BY <3>1, <3>2
  <2> QED
    BY <2>5 DEF ProjectionFromFacts
<1> QED
  BY <1>3, <1>4, EntityMoves DEF EntityMove

(* An event is acknowledged only once its entity has taken it in, and no later *)
(* event undoes that.                                                          *)
LEMMA ClosedStep ==
  ASSUME PipelineInv, InHandIsStored, ClosedIsProjected, [PipelineNext]_allvars
  PROVE  ClosedIsProjected'
<1> USE ServiceParts
<1>0. [Next]_vars
  BY StepOfService
<1>1. \A h \in Hashes : normalized_events[h] # None => normalized_events'[h] = normalized_events[h]
  BY FactStep DEF PipelineInv, PipelineTypeOK, FactTable
<1>2. ASSUME NEW f \in Facts, Projected(f)
      PROVE  Projected(f)'
  <2>1. CASE f.classification # "SHIPMENT"
    BY <2>1 DEF Projected
  <2>2. CASE f.classification = "SHIPMENT"
    <3>1. /\ f.entity_key \in Keys
          /\ f.canonical_state \in ShipmentStates
      BY <2>2, FactShape DEF SoundFact
    <3>2. ShipmentRank(f.canonical_state) \in 1..4
      BY <3>1, RankOfShipment
    <3>3. entities[f.entity_key] # None
          /\ entities[f.entity_key].current_rank >= ShipmentRank(f.canonical_state)
      BY <1>2, <2>2 DEF Projected
    <3>4. /\ entities'[f.entity_key] # None
          /\ entities'[f.entity_key].current_rank >= entities[f.entity_key].current_rank
      BY <3>1, <3>3, RanksGrow
    <3>5. /\ entities[f.entity_key].current_rank \in Int
          /\ entities'[f.entity_key].current_rank \in Int
      BY <3>1, <3>3, <3>4, TablesTypeStep DEF PipelineInv, PipelineTypeOK, EntityRows
    <3> QED
      BY <3>2, <3>3, <3>4, <3>5 DEF Projected
  <2> QED
    BY <2>1, <2>2
<1>3. ASSUME NEW h \in Hashes, normalized_events[h] # None, Projected(normalized_events[h])
      PROVE  Projected(normalized_events[h])'
  <2>1. normalized_events[h] \in Facts /\ normalized_events'[h] = normalized_events[h]
    BY <1>1, <1>3 DEF PipelineInv, PipelineTypeOK
  <2> QED
    BY <1>2, <1>3, <2>1 DEF Projected
<1>4. ASSUME NEW w \in Workers, pc[w] = "ack"
      PROVE  job[w] \in Hashes /\ \A h \in Hashes : h = job[w] => Projected(normalized_events[h])'
  BY <1>3, <1>4 DEF PipelineInv, FactsAndRows, ClosedIsProjected, BusyHasJob, Busy, Outcomes
<1>5. ASSUME NEW h \in Hashes, status'[h] = "PROCESSED"
      PROVE  Projected(normalized_events[h])'
  BY <1>0, <1>3, <1>4, <1>5, ProcessedByAck DEF PipelineInv, FactsAndRows, ClosedIsProjected
<1>6. ASSUME \A w \in Workers : pc'[w] = "ack" => pc[w] = "ack" /\ job'[w] = job[w]
      PROVE  ClosedIsProjected'
  <2>1. ASSUME NEW w \in Workers, pc'[w] = "ack"
        PROVE  Projected(normalized_events[job[w]])'
    BY <1>4, <1>6, <2>1
  <2> QED
    BY <1>5, <2>1 DEF ClosedIsProjected
<1>7. CASE Bystander
  BY <1>6, <1>7 DEF Bystander, WorkerMoves
<1>8. ASSUME NEW w \in Workers, Normalized(w) \/ InsertNormalized(w) \/ SelectForUpdate(w)
      PROVE  ClosedIsProjected'
  <2>1. HandlerFrame(w) /\ pc'[w] = "handle"
    BY <1>8, NormalizedFrame, InsertFrame, SelectFrame DEF PipelineInv
  <2> QED
    BY <1>6, <2>1 DEF HandlerFrame
<1>9. ASSUME NEW w \in Workers, NEW outcome \in Outcomes, Quits(w, outcome) \/ Writes(w, outcome)
      PROVE  ClosedIsProjected'
  <2>1. HandlerFrame(w) /\ pc'[w] = outcome
    BY <1>9, ReturnFrame DEF Quits, Writes
  <2>2. CASE outcome # "ack"
    BY <1>6, <2>1, <2>2 DEF HandlerFrame
  <2>3. CASE outcome = "ack"
    <3>1. stage[w] \in {"project", "write"}
      BY <1>9, <2>3 DEF Quits, Writes, Holds, At
    <3>2. /\ job[w] \in Hashes
          /\ norm[w] \in Facts
          /\ norm[w] # None
          /\ normalized_events[job[w]] = norm[w]
      BY <3>1, FactShape DEF PipelineInv, HandlerState, InHandIsStored, BusyHasJob, Busy
    <3>3. normalized_events'[job'[w]] = norm[w]
      BY <1>1, <2>1, <3>2 DEF HandlerFrame
    <3>4. Projected(normalized_events[job[w]])'
      <4>1. CASE norm[w].classification # "SHIPMENT"
        BY <3>3, <4>1 DEF Projected
      <4>2. CASE norm[w].classification = "SHIPMENT"
        <5>1. Writes(w, outcome)
          BY <1>9, <2>3, <4>2 DEF Quits
        <5>2. PICK row : RowWrite(norm[w], row)
          BY <5>1, WriteWritesRow DEF PipelineInv
        <5>3. norm[w].entity_key \in Keys
          BY <3>2, <4>2, FactShape
        <5>4. entities'[norm[w].entity_key] = row /\ row # None
          BY <5>2, <5>3, NoRowAssumption DEF RowWrite, PipelineInv, PipelineTypeOK
        <5>5. row.current_rank >= ShipmentRank(norm[w].canonical_state)
          BY <4>2, <5>2 DEF RowWrite
        <5> QED
          BY <3>3, <5>4, <5>5 DEF Projected
      <4> QED
        BY <4>1, <4>2
    <3>5. ASSUME NEW v \in Workers \ {w}, pc'[v] = "ack"
          PROVE  Projected(normalized_events[job[v]])'
      BY <1>4, <2>1, <3>5 DEF HandlerFrame
    <3> QED
      BY <1>5, <3>4, <3>5 DEF ClosedIsProjected
  <2> QED
    BY <2>2, <2>3
<1> QED
  BY <1>7, <1>8, <1>9, PipelineCases DEF HandleCases, PipelineInv

(* The second inductive invariant, for a model that reads a payload in one way.*)
LEMMA ProjectionInvariance ==
  ASSUME AnswersAgree
  PROVE  PipelineSpec => []ProjectionInv
<1>1. PipelineInit => ProjectionInv
  <2> SUFFICES ASSUME PipelineInit
               PROVE  ProjectionInv
    OBVIOUS
  <2>1. PipelineInv
    BY PipelineInvInit
  <2>2. FactsBelong /\ InHandIsStored /\ ProjectionFromFacts /\ ClosedIsProjected
    BY DEF PipelineInit, Init, QueueInit, PoolInit, FactsBelong, InHandIsStored,
       ProjectionFromFacts, ClosedIsProjected, Absent
  <2> QED
    BY <2>1, <2>2 DEF ProjectionInv
<1>2. ProjectionInv /\ [PipelineNext]_allvars => ProjectionInv'
  BY AnswersAgree, PipelineInvStep, FactsBelongStep, InHandStep, ProjectionStep, ClosedStep
     DEF ProjectionInv
<1> QED
  BY <1>1, <1>2, PTL DEF PipelineSpec

(* The entity is a projection over the stored facts: its state and time are    *)
(* those of one stored fact with its key.  (The run that refutes this for a    *)
(* model that reads one payload in two ways shows that the hypothesis is       *)
(* needed.)                                                                    *)
THEOREM EntitiesProjectFacts ==
  ASSUME AnswersAgree
  PROVE  PipelineSpec => []ProjectionFromFacts
<1>1. ProjectionInv => ProjectionFromFacts
  BY DEF ProjectionInv
<1> QED
  BY <1>1, AnswersAgree, ProjectionInvariance, PTL

(* A processed shipment event has reached its entity, and GET /entities/{key}  *)
(* finds it under the key as the event spells it, at its rank or beyond.       *)
THEOREM ProcessedReachesEntity ==
  ASSUME AnswersAgree
  PROVE  PipelineSpec => []ProcessedIsProjected
<1>1. ProjectionInv => ProcessedIsProjected
  <2> SUFFICES ASSUME ProjectionInv, NEW h \in Hashes, NEW a \in answers[h],
                      status[h] = "PROCESSED", Apply(a) = normalized_events[h],
                      normalized_events[h].classification = "SHIPMENT"
               PROVE  /\ GetEntity(a.entity_key) # None
                      /\ GetEntity(a.entity_key).current_rank
                           >= ShipmentRank(normalized_events[h].canonical_state)
    BY DEF ProcessedIsProjected
  <2>1. a \in LLMResponses
    BY AnswersAssumption
  <2>2. Apply(a) # None /\ Apply(a) \in Facts
    BY AnswersAssumption DEF ProjectionInv, PipelineInv, FactsAndRows, Facts, Responses
  <2>3. Apply(a).entity_key = CanonicalKey(a.entity_key)
    BY <2>1, <2>2, ApplySound
  <2>4. CanonicalKey(a.entity_key) \in Keys
    BY <2>2, <2>3, FactShape
  <2>5. GetEntity(a.entity_key) = entities[normalized_events[h].entity_key]
    BY <2>3, <2>4 DEF GetEntity
  <2> QED
    BY <2>5 DEF ProjectionInv, ClosedIsProjected, Projected
<1> QED
  BY <1>1, AnswersAgree, ProjectionInvariance, PTL
=============================================================================
