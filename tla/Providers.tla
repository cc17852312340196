------------------------------ MODULE Providers ------------------------------
(***************************************************************************)
(* The clients of internal/llm: what OpenAI and Ollama make of the reply   *)
(* to their HTTP call, and the rules of the offline mock.  A client returns*)
(* a response, or an error that is worth retrying or is not.               *)
(***************************************************************************)
EXTENDS Normalize, SequencesExt

CONSTANT lower      \* strings.ToLower, on the spellings of LLM_PROVIDER

Success(r) == [err |-> "nil", response |-> r]

\* llm.Retryable: an APIError says so itself, and any other error is retryable.
Failure(retryable) ==
  [err |-> IF retryable THEN "retryable" ELSE "permanent", response |-> None]

\* buildLLM: a forced provider, in any case, or whatever the API key allows.
buildLLM(name, hasKey) ==
  IF lower[name] \in {"ollama", "mock", "openai"} THEN lower[name]
  ELSE IF hasKey THEN "openai" ELSE "mock"

-----------------------------------------------------------------------------
\* A reply is of kind "status" (not 200, with the type in its error object),
\* "answer" (a response), or no use at all: not even sent, lost on the network,
\* an envelope that does not parse or is empty, content that is not JSON.

retryableStatus(status, type) ==
  /\ type \notin {"insufficient_quota", "invalid_api_key"}
  /\ status = 429 \/ status >= 500

OpenAI(reply) ==
  CASE reply.kind = "status" -> Failure(retryableStatus(reply.status, reply.type))
    [] reply.kind = "answer" -> Success(reply.response)
    [] OTHER                 -> Failure(TRUE)

Ollama(reply) ==
  CASE reply.kind = "status" -> Failure(reply.status >= 500)
    [] reply.kind = "answer" -> Success(reply.response)
    [] OTHER                 -> Failure(TRUE)

-----------------------------------------------------------------------------
\* The mock sees a payload as its fields (transport_doc.number among them, Blank for
\* a value that is no string), those of its transaction, and the phrases it contains.
firstString(p, keys) ==
  LET i == SelectInSeq(keys, LAMBDA k : k \in DOMAIN p.fields /\ p.fields[k] # Blank)
  IN IF i = 0 THEN Blank ELSE p.fields[keys[i]]

looksInvoice(p) ==
  \/ DOMAIN p.fields \cap {"transaction", "doc_ref"} # {}
  \/ p.phrases \cap {"invoice", "remitter"} # {}

looksShipment(p) ==
  DOMAIN p.fields \cap {"container", "container_no", "transport_doc", "carrier_scac",
                        "milestone", "milestone_text", "house_bl", "master_bl"} # {}

\* The cases of shipmentState and invoiceState, in their order.
shipmentStates ==
  << <<"OUT_FOR_DELIVERY", {"out for delivery"}>>,
     <<"DELIVERED", {"released to consignee", "delivered", "consignee facility"}>>,
     <<"PICKED_UP", {"received at origin", "gate-in", "gate in", "empty container released",
                     "picked up", "pickup"}>>,
     <<"IN_TRANSIT", {"sailed", "departed", "loaded onboard", "in transit", "vessel"}>> >>

invoiceStates ==
  << <<"REFUNDED", {"refund"}>>,
     <<"VOIDED", {"void", "cancel"}>>,
     <<"PAID", {"settled", "paid", "payment received"}>>,
     <<"ISSUED", {"raised", "issued"}>> >>

firstState(p, table) ==
  LET i == SelectInSeq(table, LAMBDA row : row[2] \cap p.phrases # {})
  IN IF i = 0 THEN Blank ELSE table[i][1]

invoiceKeys  == <<"doc_ref", "invoice_id", "invoice_no", "invoice_ref">>
shipmentKeys == <<"transport_doc.number", "master_bl", "house_bl", "container_no", "container">>

timeKeys     == <<"milestone_at", "milestone_local_time", "issued_at", "settled_at",
                  "occurred_at", "event_time", "timestamp">>

\* The times of the payload itself come before those of its transaction.
firstTimeString(p) ==
  LET time == firstString(p, timeKeys)
  IN IF time # Blank THEN time ELSE firstString(p.transaction, timeKeys)

MockResponse(class, key, state, time, confidence) ==
  Success([classification |-> class, entity_key |-> key, canonical_state |-> state,
           event_time |-> time, amount_minor |-> None, currency |-> Blank,
           confidence |-> confidence])

\* Mutant: a state that is not clear does not lower the confidence.
ConfidenceUnconditional(state) == 90

Confidence(state) == IF state = Blank THEN 40 ELSE 90

\* (canon also trims the key, which Apply does next.)
Mock(p) ==
  LET issued == firstState(p, invoiceStates)
      moved  == firstState(p, shipmentStates)
      time   == firstTimeString(p)
  IN IF looksInvoice(p)
       THEN MockResponse("INVOICE", canon[firstString(p, invoiceKeys)], issued, time, Confidence(issued))
     ELSE IF looksShipment(p)
       THEN MockResponse("SHIPMENT", canon[firstString(p, shipmentKeys)], moved, time, Confidence(moved))
     ELSE MockResponse("UNCLASSIFIED", Blank, Blank, Blank, 30)

-----------------------------------------------------------------------------
\* Client.Normalize of the provider.
Ask(provider, input) ==
  CASE provider = "openai" -> OpenAI(input)
    [] provider = "ollama" -> Ollama(input)
    [] provider = "mock"   -> Mock(input)
=============================================================================
