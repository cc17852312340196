---------------------------- MODULE PipelineProofs ---------------------------
(***************************************************************************)
(* Theorems about Pipeline, for every value of its constants, whatever the *)
(* model answers.                                                          *)
(***************************************************************************)
EXTENDS Pipeline, TLAPS

(* What Handle does is invisible to the service until it returns.              *)
LEMMA HandleRefines ==
  ASSUME NEW w \in Workers, HandleStep(w)
  PROVE  [Next]_vars
<1>1. ASSUME NEW place, Proceed(w, place)
      PROVE  [Next]_vars
  BY <1>1 DEF Proceed
<1>2. ASSUME NEW outcome \in Outcomes, Return(w, outcome)
      PROVE  [Next]_vars
  <2>1. HandlerNext(w)
    BY <1>2 DEF Return, HandlerNext
  <2> QED
    BY <2>1 DEF Next
<1>3. ASSUME Committed(w)
      PROVE  [Next]_vars
  BY <1>2, <1>3 DEF Committed, Outcomes
<1>4. CASE Normalized(w)
  BY <1>1, <1>4 DEF Normalized
<1>5. CASE Rejected(w)
  BY <1>2, <1>5 DEF Rejected, Outcomes
<1>6. CASE LLMError(w)
  BY <1>2, <1>6 DEF LLMError, Outcomes
<1>7. CASE InsertNormalized(w)
  BY <1>1, <1>7 DEF InsertNormalized
<1>8. CASE ApplyShipment(w)
  BY <1>3, <1>8 DEF ApplyShipment
<1>9. CASE SelectForUpdate(w)
  BY <1>1, <1>9 DEF SelectForUpdate
<1>10. CASE ApplyInvoice(w)
  BY <1>3, <1>10 DEF ApplyInvoice
<1>11. CASE SeedInvoice(w)
  BY <1>3, <1>11 DEF SeedInvoice
<1>12. CASE SeedConflict(w)
  BY <1>2, <1>12 DEF SeedConflict, Outcomes
<1>13. CASE SkipProjection(w)
  BY <1>2, <1>13 DEF SkipProjection, Outcomes
<1>14. CASE StoreError(w)
  BY <1>2, <1>14 DEF StoreError, Outcomes
<1> QED
  BY <1>4, <1>5, <1>6, <1>7, <1>8, <1>9, <1>10, <1>11, <1>12, <1>13, <1>14 DEF HandleStep

(* Every step of the pipeline is one of the service, or invisible to it.       *)
LEMMA StepOfService ==
  ASSUME [PipelineNext]_allvars
  PROVE  [Next]_vars
<1>1. CASE PlainStep
  BY <1>1 DEF PlainStep, Next
<1>2. ASSUME NEW w \in Workers, HandleStep(w)
      PROVE  [Next]_vars
  BY <1>2, HandleRefines
<1>3. ASSUME NEW p \in Processes, Crash(p)
      PROVE  [Next]_vars
  BY <1>3 DEF Next
<1>4. CASE UNCHANGED allvars
  BY <1>4 DEF allvars
<1> QED
  BY <1>1, <1>2, <1>3, <1>4 DEF PipelineNext

(* The pipeline implements the service, so that what is proved of the service  *)
(* with an opaque handler holds with the real one.                             *)
THEOREM PipelineImplementsService == PipelineSpec => ImplementsService
<1>1. PipelineInit => Init
  BY DEF PipelineInit
<1>2. [PipelineNext]_allvars => [Next]_vars
  BY StepOfService
<1> QED
  BY <1>1, <1>2, PTL DEF PipelineSpec, ImplementsService, Spec

-----------------------------------------------------------------------------
\* The table of facts has one place for each row.
FactTable == normalized_events = [h \in Hashes |-> normalized_events[h]]

(* Only InsertNormalized writes facts, and it leaves a fact that is there.     *)
LEMMA FactStep ==
  ASSUME FactTable, [PipelineNext]_allvars
  PROVE  /\ FactTable'
         /\ \A h \in Hashes : normalized_events[h] # None =>
              normalized_events'[h] = normalized_events[h]
<1>1. CASE UNCHANGED normalized_events
  BY <1>1 DEF FactTable
<1>2. ASSUME NEW w \in Workers, InsertFact(w)
      PROVE  /\ FactTable'
             /\ \A h \in Hashes : normalized_events[h] # None =>
                  normalized_events'[h] = normalized_events[h]
  BY <1>2 DEF FactTable, InsertFact
<1>3. ASSUME NEW w \in Workers, HandleStep(w)
      PROVE  UNCHANGED normalized_events \/ InsertFact(w)
  BY <1>3 DEF HandleStep, Normalized, Rejected, LLMError, InsertNormalized, ApplyShipment,
     SelectForUpdate, ApplyInvoice, SeedInvoice, SeedConflict, SkipProjection, StoreError, tables
<1>4. CASE UNCHANGED allvars
  BY <1>1, <1>4 DEF allvars, tables
<1> QED
  BY <1>1, <1>2, <1>3, <1>4 DEF PipelineNext, tables

(* The first fact of a row is its only one, even when a retried or a late      *)
(* worker gets another answer from the model.                                  *)
THEOREM FactsAreImmutable == PipelineSpec => FactIsImmutable
<1>1. PipelineInit => FactTable
  BY DEF PipelineInit, FactTable
<1>2. FactTable /\ [PipelineNext]_allvars => FactTable'
  BY FactStep
<1>3. FactTable /\ [PipelineNext]_allvars =>
        [\A h \in Hashes : normalized_events[h] # None =>
           normalized_events'[h] = normalized_events[h]]_allvars
  BY FactStep
<1> QED
  BY <1>1, <1>2, <1>3, PTL DEF PipelineSpec, FactIsImmutable
=============================================================================
