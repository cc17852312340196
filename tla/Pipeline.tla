------------------------------- MODULE Pipeline ------------------------------
(***************************************************************************)
(* The service with its real handler: processor.Handle, which asks the     *)
(* model, validates its answer, stores it as a fact (store/normalized.go)  *)
(* and projects it onto an entity (store/entity.go).  Every step of the    *)
(* handler leaves the variables of Service alone except for the last one,  *)
(* which is a HandlerReturns of Service.                                   *)
(***************************************************************************)
EXTENDS Service, Normalize

CONSTANT answers    \* [Hashes -> the responses the model may give for a payload]

ASSUME AnswersAssumption == answers \in [Hashes -> SUBSET LLMResponses]

VARIABLES stage,              \* [Workers -> the call of Handle that is next]
          norm,               \* [Workers -> the fact in hand, or None]
          seen,               \* [Workers -> what SELECT ... FOR UPDATE returned]
          normalized_events,  \* [Hashes -> the fact of the row, or None]
          entities            \* [Keys -> the projection, or None]

handler == <<stage, norm, seen>>
tables  == <<normalized_events, entities>>
allvars == <<vars, handler, tables>>

Responses == UNION {answers[h] : h \in Hashes}
Facts     == {Apply(a) : a \in Responses} \ {None}
Keys      == {CanonicalKey(a.entity_key) : a \in Responses} \ {Blank}
Stages    == {"llm", "insert", "project", "write"}

\* The rows of the table entities; current_rank is 0 for an invoice.
EntityRows ==
  [type : {"SHIPMENT", "INVOICE"}, current_state : ShipmentStates \cup InvoiceStates,
   current_rank : 0..4, last_event_time : {utc[s] : s \in Spellings},
   amount_minor : Nat \cup {None}, currency : Currencies \cup {Blank}]

\* A SELECT that finds no row is told from one that finds any.
ASSUME NoRowAssumption == None \notin EntityRows /\ None \notin ShipmentStates \cup InvoiceStates

PipelineTypeOK ==
  /\ TypeOK
  /\ stage \in [Workers -> Stages]
  /\ norm  \in [Workers -> Facts \cup {None}]
  /\ seen  \in [Workers -> ShipmentStates \cup InvoiceStates \cup {None}]
  /\ normalized_events \in [Hashes -> Facts \cup {None}]
  /\ entities \in [Keys -> EntityRows \cup {None}]
  /\ \A k \in Keys : entities[k] # None =>
       entities[k].current_rank = ShipmentRank(entities[k].current_state)

PipelineInit ==
  /\ Init
  /\ stage = [w \in Workers |-> "llm"]
  /\ norm  = [w \in Workers |-> None]
  /\ seen  = [w \in Workers |-> None]
  /\ normalized_events = [h \in Hashes |-> None]
  /\ entities = [k \in Keys |-> None]

-----------------------------------------------------------------------------
At(w, place) == pc[w] = "handle" /\ stage[w] = place

\* The next call of Handle, in the same process and with the same fact.
Proceed(w, place) ==
  /\ stage' = [stage EXCEPT ![w] = place]
  /\ UNCHANGED vars

\* Handle returns, and its local variables are gone.
Return(w, outcome) ==
  /\ HandlerReturns(w, outcome)
  /\ UNCHANGED req
  /\ stage' = [stage EXCEPT ![w] = "llm"]
  /\ norm'  = [norm EXCEPT ![w] = None]
  /\ seen'  = [seen EXCEPT ![w] = None]

\* Mutant: the handler closes the row itself.
CommittedSelfAck(w) ==
  /\ MarkProcessed(job[w])
  /\ MoveTo(w, "ack")
  /\ UNCHANGED <<notify, job, tries, proc, faults, req, handler>>

\* The statement, or the COMMIT, went through; its result may still be lost.
Committed(w) == Return(w, "ack") \/ Return(w, "retry")

\* The model answers and the gate accepts the answer.
Normalized(w) ==
  /\ At(w, "llm")
  /\ \E a \in answers[job[w]] :
       /\ Apply(a) # None
       /\ norm' = [norm EXCEPT ![w] = Apply(a)]
  /\ Proceed(w, "insert")
  /\ UNCHANGED <<seen, tables>>

\* It answers and the gate refuses: permanent.
Rejected(w) ==
  /\ At(w, "llm")
  /\ \E a \in answers[job[w]] : Apply(a) = None
  /\ Return(w, "fail")
  /\ UNCHANGED tables

\* The provider errs: retryable or not (llm.Retryable).
LLMError(w) ==
  /\ At(w, "llm")
  /\ Return(w, "retry") \/ Return(w, "fail")
  /\ UNCHANGED tables

\* Mutant: ON CONFLICT DO UPDATE.
InsertFactOverwriting(w) ==
  normalized_events' = [normalized_events EXCEPT ![job[w]] = norm[w]]

\* INSERT ... ON CONFLICT (raw_event_id) DO NOTHING.
InsertFact(w) ==
  normalized_events' =
    [normalized_events EXCEPT ![job[w]] = IF @ = None THEN norm[w] ELSE @]

\* Mutants: the error of the insert is ignored; a fact that is already there passes
\* for work already done.
InsertNormalizedIgnored(w) ==
  /\ At(w, "insert") /\ Running(w)
  /\ InsertFact(w) \/ UNCHANGED normalized_events
  /\ Proceed(w, "project")
  /\ UNCHANGED <<norm, seen, entities>>

InsertNormalizedShortcut(w) ==
  /\ At(w, "insert") /\ Running(w)
  /\ InsertFact(w)
  /\ \/ normalized_events[job[w]] = None /\ Proceed(w, "project") /\ UNCHANGED <<norm, seen>>
     \/ normalized_events[job[w]] # None /\ Return(w, "ack")
  /\ UNCHANGED entities

InsertNormalized(w) ==
  /\ At(w, "insert") /\ Running(w)
  /\ InsertFact(w)
  /\ Proceed(w, "project")
  /\ UNCHANGED <<norm, seen, entities>>

-----------------------------------------------------------------------------
\* The row lock of SELECT ... FOR UPDATE, held until the transaction ends.
Locked(k) ==
  \E v \in Workers : At(v, "write") /\ seen[v] # None /\ norm[v].entity_key = k

Entity(type, f) ==
  [type |-> type, current_state |-> f.canonical_state,
   current_rank |-> ShipmentRank(f.canonical_state), last_event_time |-> f.event_time,
   amount_minor |-> f.amount_minor, currency |-> f.currency]

\* Mutants: the upsert has no WHERE clause; its SET clause forgets the rank.
UpsertShipmentUnguarded(f) ==
  entities' = [entities EXCEPT ![f.entity_key] = Entity("SHIPMENT", f)]

UpsertShipmentStaleRank(f) ==
  LET old == entities[f.entity_key]
  IN entities' = [entities EXCEPT ![f.entity_key] =
       IF old = None THEN Entity("SHIPMENT", f)
       ELSE IF old.current_rank < ShipmentRank(f.canonical_state)
         THEN [old EXCEPT !.current_state = f.canonical_state]
         ELSE old]

\* The conditional upsert.  It looks at the rank only, not at the type.
UpsertShipment(f) ==
  LET old == entities[f.entity_key]
      new == IF old = None
               THEN Entity("SHIPMENT", f)
               ELSE [old EXCEPT !.current_state   = f.canonical_state,
                                !.current_rank    = ShipmentRank(f.canonical_state),
                                !.last_event_time = f.event_time]
  IN entities' = [entities EXCEPT ![f.entity_key] =
                    IF old = None \/ old.current_rank < ShipmentRank(f.canonical_state)
                      THEN new ELSE old]

ApplyShipment(w) ==
  /\ At(w, "project") /\ Running(w)
  /\ norm[w].classification = "SHIPMENT"
  /\ ~Locked(norm[w].entity_key)
  /\ UpsertShipment(norm[w])
  /\ Committed(w)
  /\ UNCHANGED normalized_events

\* Mutant: SELECT without FOR UPDATE.
SelectUnlocked(w) ==
  /\ At(w, "project") /\ Running(w)
  /\ norm[w].classification = "INVOICE"
  /\ seen' = [seen EXCEPT ![w] =
                LET e == entities[norm[w].entity_key]
                IN IF e = None THEN None ELSE e.current_state]
  /\ Proceed(w, "write")
  /\ UNCHANGED <<norm, tables>>

\* ApplyInvoice, up to and including SELECT current_state ... FOR UPDATE.
SelectForUpdate(w) ==
  /\ At(w, "project") /\ Running(w)
  /\ norm[w].classification = "INVOICE"
  /\ ~Locked(norm[w].entity_key)
  /\ seen' = [seen EXCEPT ![w] =
                LET e == entities[norm[w].entity_key]
                IN IF e = None THEN None ELSE e.current_state]
  /\ Proceed(w, "write")
  /\ UNCHANGED <<norm, tables>>

\* Mutant: the currency is not updated with the amount.
UpdateInvoiceAmountOnly(f) ==
  entities' =
    [entities EXCEPT
      ![f.entity_key].current_state   = f.canonical_state,
      ![f.entity_key].last_event_time = f.event_time,
      ![f.entity_key].amount_minor    = IF f.amount_minor = None THEN @ ELSE f.amount_minor]

\* UPDATE: a missing amount or currency keeps the stored one (COALESCE).
UpdateInvoice(f) ==
  entities' =
    [entities EXCEPT
      ![f.entity_key].current_state   = f.canonical_state,
      ![f.entity_key].last_event_time = f.event_time,
      ![f.entity_key].amount_minor    = IF f.amount_minor = None THEN @ ELSE f.amount_minor,
      ![f.entity_key].currency        = IF f.currency = Blank THEN @ ELSE f.currency]

\* The rest of ApplyInvoice when the row was there: UPDATE, or nothing, and COMMIT.
ApplyInvoice(w) ==
  /\ At(w, "write") /\ Running(w)
  /\ seen[w] # None
  /\ \/ /\ InvoiceTransitionAllowed(seen[w], norm[w].canonical_state)
        /\ UpdateInvoice(norm[w])
     \/ /\ ~InvoiceTransitionAllowed(seen[w], norm[w].canonical_state)
        /\ UNCHANGED entities
  /\ Committed(w)
  /\ UNCHANGED normalized_events

\* ... and when it was not: INSERT and COMMIT.  There was nothing to lock, so
\* another worker may have inserted the key first: a unique violation, retried.
SeedInvoice(w) ==
  /\ At(w, "write") /\ Running(w)
  /\ seen[w] = None
  /\ entities[norm[w].entity_key] = None
  /\ entities' = [entities EXCEPT ![norm[w].entity_key] = Entity("INVOICE", norm[w])]
  /\ Committed(w)
  /\ UNCHANGED normalized_events

\* Mutant: a unique violation passes for success, as with ON CONFLICT DO NOTHING.
SeedConflictIgnored(w) ==
  /\ At(w, "write") /\ Running(w)
  /\ seen[w] = None
  /\ entities[norm[w].entity_key] # None
  /\ Return(w, "ack")
  /\ UNCHANGED tables

SeedConflict(w) ==
  /\ At(w, "write") /\ Running(w)
  /\ seen[w] = None
  /\ entities[norm[w].entity_key] # None
  /\ Return(w, "retry")
  /\ UNCHANGED tables

\* project has nothing to do.
SkipProjection(w) ==
  /\ At(w, "project")
  /\ norm[w].classification = "UNCLASSIFIED"
  /\ Return(w, "ack")
  /\ UNCHANGED tables

\* A database call of Handle fails: the one of this stage, with nothing committed,
\* or the one before, InsertNormalized with a lost result.  It always does once
\* the context of the process is cancelled.
StoreError(w) ==
  /\ pc[w] = "handle" /\ stage[w] # "llm"
  /\ Return(w, "retry")
  /\ UNCHANGED tables

\* One step of Handle.
HandleStep(w) ==
  \/ Normalized(w)
  \/ Rejected(w)
  \/ LLMError(w)
  \/ InsertNormalized(w)
  \/ ApplyShipment(w)
  \/ SelectForUpdate(w)
  \/ ApplyInvoice(w)
  \/ SeedInvoice(w)
  \/ SeedConflict(w)
  \/ SkipProjection(w)
  \/ StoreError(w)

-----------------------------------------------------------------------------
\* The handlers of process p die with it, and their transactions roll back.
DropHandlers(p) ==
  /\ stage' = [w \in Workers |-> IF home[w] = p THEN "llm" ELSE stage[w]]
  /\ norm'  = [w \in Workers |-> IF home[w] = p THEN None ELSE norm[w]]
  /\ seen'  = [w \in Workers |-> IF home[w] = p THEN None ELSE seen[w]]

\* The steps of Service that no handler has a part in.
PlainStep ==
  \/ \E r \in Requests  : RequestNext(r)
  \/ \E w \in Workers   : QueueNext(w)
  \/ \E h \in Hashes    : Tick(h)
  \/ \E p \in Processes : Stop(p) \/ Exit(p) \/ Restart(p)

PipelineNext ==
  \/ PlainStep /\ UNCHANGED <<handler, tables>>
  \/ \E w \in Workers   : HandleStep(w)
  \/ \E p \in Processes : Crash(p) /\ DropHandlers(p) /\ UNCHANGED tables

PipelineSpec == PipelineInit /\ [][PipelineNext]_allvars

-----------------------------------------------------------------------------
\* GET /events/{id}: a row joined with its fact; None is a 404.
GetEvent(h) ==
  IF status[h] = Absent THEN None
  ELSE [status |-> status[h], attempts |-> attempts[h], error |-> error[h],
        fact |-> normalized_events[h]]

\* GET /entities/{key}, for a key as the caller spells it.
GetEntity(s) ==
  IF CanonicalKey(s) \in Keys THEN entities[CanonicalKey(s)] ELSE None

FactsOf(k) == {h \in Hashes : normalized_events[h] # None
                                /\ normalized_events[h].entity_key = k}

(* normalized_events is an immutable audit log: whatever a retried or a late   *)
(* worker got from the model, the first fact of a row stays as it is.          *)
FactIsImmutable ==
  [][\A h \in Hashes : normalized_events[h] # None =>
       normalized_events'[h] = normalized_events[h]]_allvars

(* GET /events/{id}, in spite of lost results, cancelled contexts and late      *)
(* workers: a processed event shows its fact, a failed one its reason, and a    *)
(* pending one no trace of an attempt.  (Nothing is said of the error that a    *)
(* late Retry may leave on a processed row, nor of the fact that an event which *)
(* is still being processed, or has failed, may already show.)                  *)
EventViewIsCoherent ==
  \A h \in Hashes : GetEvent(h) # None =>
    LET view == GetEvent(h)
        Untouched == view.attempts = 0 /\ view.error = Null /\ view.fact = None
    IN  /\ view.status = "PROCESSED" => view.fact # None
        /\ view.status = "FAILED"    => view.error # Null
        /\ view.status = "PENDING"  <=> Untouched

(* A processed shipment event has reached its entity, GET /entities/{key} finds*)
(* it under the key as the event spells it, and out-of-order and concurrent    *)
(* events converge: it stands at the rank of that event or beyond.  (For a     *)
(* model that answers a payload in one way only.)                              *)
ProcessedIsProjected ==
  \A h \in Hashes : \A a \in answers[h] :
    /\ status[h] = "PROCESSED"
    /\ Apply(a) = normalized_events[h]
    /\ normalized_events[h].classification = "SHIPMENT"
    => /\ GetEntity(a.entity_key) # None
       /\ GetEntity(a.entity_key).current_rank
            >= ShipmentRank(normalized_events[h].canonical_state)

(* The entity is a projection over the stored facts: its state and its         *)
(* last_event_time are those of one and the same fact with its key, whatever   *)
(* events of a lower or an equal rank came later.  (For a model that answers a *)
(* payload in one way only.)                                                   *)
ProjectionFromFacts ==
  \A k \in Keys : entities[k] # None =>
    \E h \in FactsOf(k) :
      /\ normalized_events[h].canonical_state = entities[k].current_state
      /\ normalized_events[h].event_time = entities[k].last_event_time

(* A late or concurrent shipment event never takes an entity back.             *)
NeverRegresses ==
  [][\A k \in Keys : entities[k] # None =>
       /\ entities'[k] # None
       /\ entities'[k].current_rank >= entities[k].current_rank]_allvars

(* An invoice changes state only along invoiceTransitions, however the         *)
(* transactions of several workers interleave.                                 *)
InvoiceMovesLegally ==
  [][\A k \in Keys :
       /\ entities[k] # None
       /\ entities[k].type = "INVOICE"
       /\ entities'[k].current_state # entities[k].current_state
       => InvoiceTransitionAllowed(entities[k].current_state,
                                   entities'[k].current_state)]_allvars

(* No invoice event is lost between concurrent workers: one that ApplyInvoice  *)
(* reports as done has set the state of its invoice, or comes too late for the *)
(* state the invoice is in at that moment.  Of two workers that seed the same  *)
(* invoice the loser is retried, and nobody decides on a state that another    *)
(* worker has changed since.                                                   *)
InvoiceIsConsidered ==
  [][\A w \in Workers :
       /\ At(w, "write")
       /\ pc'[w] = "ack"
       => LET e == entities'[norm[w].entity_key]
          IN e # None /\ ~InvoiceTransitionAllowed(e.current_state,
                                                   norm[w].canonical_state)]_allvars

(* sanitizeMoney, NULLIF and COALESCE together: an entity has an amount exactly*)
(* when it has a currency, and the two come from one and the same event.       *)
MoneyIsPair ==
  \A k \in Keys : entities[k] # None =>
    /\ (entities[k].amount_minor = None) = (entities[k].currency = Blank)
    /\ entities[k].amount_minor # None =>
         \E f \in Facts :
           /\ f.entity_key = k
           /\ f.amount_minor = entities[k].amount_minor
           /\ f.currency = entities[k].currency

(* Handle is a handler: the pipeline implements the service with an opaque     *)
(* handler, and so everything that holds of Service holds of it.               *)
ImplementsService == Spec
=============================================================================
