-------------------------------- MODULE Gate ---------------------------------
(***************************************************************************)
(* The first half of processor.Handle, reply by reply: the provider that   *)
(* buildLLM selects, what its client makes of the reply, and what the      *)
(* validation gate makes of the answer.                                    *)
(***************************************************************************)
EXTENDS Providers

CONSTANTS Settings,   \* pairs of LLM_PROVIDER and whether there is an LLM_API_KEY
          Answers,    \* responses a hosted model may give
          Errors,     \* the other replies to an HTTP call
          Payloads    \* payloads for the mock

\* Fields of a payload are strings, an error is no answer, and an HTTP status a number.
ASSUME GateAssumption ==
  /\ \A s \in Settings : s[1] \in DOMAIN lower /\ s[2] \in BOOLEAN
  /\ Answers \subseteq LLMResponses
  /\ \A e \in Errors : e.kind # "answer" /\ (e.kind = "status" => e.status \in Nat)
  /\ \A p \in Payloads :
       /\ p.fields \in [DOMAIN p.fields -> Spellings]
       /\ p.transaction.fields \in [DOMAIN p.transaction.fields -> Spellings]

VARIABLES setting, input, outcome, fact

Hosted == {"openai", "ollama"}

provider == buildLLM(setting[1], setting[2])

\* A hosted model is shown the answers and the errors, the mock the payloads.
Init ==
  /\ setting \in Settings
  /\ input \in IF provider = "mock" THEN Payloads
                ELSE Errors \cup [kind : {"answer"}, response : Answers]
  /\ outcome = "asked"
  /\ fact = None

\* Handle up to the insert: an error is retried or not, an answer that the gate
\* refuses is not, and a fact goes on to the store.
Next ==
  LET result == Ask(provider, input)
  IN  /\ outcome = "asked"
      /\ fact' = IF result.err = "nil" THEN Apply(result.response) ELSE None
      /\ outcome' = IF result.err = "retryable" THEN "retry"
                    ELSE IF fact' = None THEN "fail" ELSE "store"
      /\ UNCHANGED <<setting, input>>

Spec == Init /\ [][Next]_<<setting, input, outcome, fact>>

StatesOf(class) ==
  CASE class = "SHIPMENT" -> ShipmentStates
    [] class = "INVOICE"  -> InvoiceStates
    [] OTHER              -> {Blank}

Unsure(r) == r.confidence < MinConfidence

(* What passes is fit for the tables: the class is one the CHECK constraint    *)
(* allows, a classified fact was confident and has a canonical key and a state *)
(* of its own lifecycle, an unclassified one has neither, and money is a       *)
(* non-negative amount with a currency, on invoices only, or nothing.          *)
PassedIsSound ==
  outcome = "store" =>
    /\ fact.classification \in Classifications
    /\ fact.canonical_state \in StatesOf(fact.classification)
    /\ fact.classification # "UNCLASSIFIED" =>
         /\ ~Unsure(Ask(provider, input).response)
         /\ fact.entity_key # Blank /\ canon[fact.entity_key] = fact.entity_key
    /\ fact.classification = "UNCLASSIFIED" => fact.entity_key = Blank
    /\ \/ fact.amount_minor = None /\ fact.currency = Blank
       \/ /\ fact.classification = "INVOICE"
          /\ fact.amount_minor \in Nat
          /\ fact.currency \in Currencies

\* The model was sure of itself and named an unknown class, a state outside its
\* class, or no key.
Nonsense(r) ==
  /\ ~Unsure(r)
  /\ canon[r.classification] # "UNCLASSIFIED"
  /\ \/ canon[r.classification] \notin Classifications
     \/ canon[r.canonical_state] \notin StatesOf(canon[r.classification])
     \/ canon[r.entity_key] = Blank

(* Only structural nonsense is refused (and so dead-lettered at once): doubt, a*)
(* bad amount or an unreadable time never is.                                  *)
RejectedIsNonsense ==
  outcome # "asked" /\ provider \in Hosted /\ input.kind = "answer" =>
    (outcome = "fail" <=> Nonsense(input.response))

(* "Transient classes (timeout, 429, 5xx) are retryable" (APIError), said of   *)
(* every provider.  It is no invariant: the Ollama client retries 5xx only, so *)
(* that its 429 is dead-lettered at once.                                      *)
TransientIsRetried ==
  outcome # "asked" /\ provider \in Hosted /\ input.kind = "status" =>
    (input.type = Blank /\ (input.status = 429 \/ input.status >= 500) => outcome = "retry")

(* Without a key and a forced provider the service runs end to end on the mock *)
(* (buildLLM): no payload is retried, and one that the mock cannot read is     *)
(* stored as UNCLASSIFIED.  Only a payload with a state and no key is refused. *)
MockRunsEndToEnd ==
  outcome # "asked" /\ ~setting[2] /\ lower[setting[1]] \notin Hosted =>
    /\ outcome # "retry"
    /\ outcome = "fail" =>
         \/ looksInvoice(input) /\ canon[firstString(input, invoiceKeys)] = Blank
         \/ looksShipment(input) /\ canon[firstString(input, shipmentKeys)] = Blank

(* Spelling is immaterial: upper-casing and trimming the fields beforehand     *)
(* changes nothing, so that differently spelled events meet on one entity.     *)
SpellingIsImmaterial ==
  outcome # "asked" /\ provider \in Hosted /\ input.kind = "answer" =>
    fact = Apply([input.response EXCEPT !.classification  = canon[@],
                                        !.canonical_state = canon[@],
                                        !.entity_key      = canon[@],
                                        !.currency        = canon[@]])
=============================================================================
