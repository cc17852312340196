------------------------------- MODULE MCGate --------------------------------
(***************************************************************************)
(* Every response made of a few spellings of each field, every error that  *)
(* the clients tell apart, and payloads for the mock.                      *)
(***************************************************************************)
EXTENDS Gate, TLC

Variants == [shipment |-> "SHIPMENT", invoice |-> "INVOICE",
             unclassified |-> "UNCLASSIFIED", advisory |-> "ADVISORY",
             bl |-> "BL", usd |-> "USD", paid |-> "PAID", delivered |-> "DELIVERED"]

MCSpellings ==
  DOMAIN Variants \cup {Variants[s] : s \in DOMAIN Variants}
    \cup ShipmentStates \cup InvoiceStates \cup {"", " ", "2026-04-21"}

MCcanon ==
  [s \in MCSpellings |-> CASE s \in DOMAIN Variants -> Variants[s]
                           [] s = " "              -> ""
                           [] OTHER                -> s]

MCutc == [s \in MCSpellings |-> IF s = "2026-04-21" THEN 1 ELSE None]

MCSettings == {<<"openai", TRUE>>, <<"Ollama", FALSE>>, <<"", TRUE>>,
               <<"MOCK", TRUE>>, <<"", FALSE>>, <<"gemini", FALSE>>}

MClower ==
  [name \in {s[1] : s \in MCSettings} |-> CASE name = "Ollama" -> "ollama"
                                            [] name = "MOCK"   -> "mock"
                                            [] OTHER           -> name]

MCAnswers ==
  [classification  : {"shipment", "INVOICE", "unclassified", "UNCLASSIFIED", "advisory", " "},
   entity_key      : {"bl", "BL", " ", ""},
   canonical_state : {"delivered", "PAID", "paid", "usd", ""},
   event_time      : {"2026-04-21", "bl"},
   amount_minor    : {-1, 0, 5, None},
   currency        : {"usd", "USD", "bl", ""},
   confidence      : {59, 60}]

MCErrors ==
  [kind : {"unsent", "network", "garbled", "empty", "prose"}]
    \cup [kind : {"status"}, status : {204, 400, 401, 429, 500, 503},
          type : {"", "insufficient_quota", "invalid_api_key"}]

\* A payload with these string fields, in one with the objects they are part of and
\* the phrase that the name of a field makes.
Payload(strings, settled, phrases) ==
  [fields |-> strings
                @@ (IF settled THEN [transaction |-> ""] ELSE <<>>)
                @@ (IF "transport_doc.number" \in DOMAIN strings
                      THEN [transport_doc |-> ""] ELSE <<>>),
   transaction |-> [fields |-> IF settled THEN [settled_at |-> "2026-04-21"] ELSE <<>>],
   phrases |-> phrases \cup IF settled THEN {"settled"} ELSE {}]

Strings ==
  UNION {[names -> {"bl", " ", ""}] :
           names \in SUBSET {"doc_ref", "container", "transport_doc.number", "milestone_at"}}

MCPayloads ==
  {Payload(strings, settled, phrases) :
     strings \in Strings, settled \in BOOLEAN,
     phrases \in SUBSET {"invoice", "delivered", "out for delivery", "void"}}
=============================================================================
