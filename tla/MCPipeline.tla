----------------------------- MODULE MCPipeline ------------------------------
(***************************************************************************)
(* Instances of Pipeline for TLC: one process, and payloads that the model *)
(* answers in the ways each run needs.                                     *)
(***************************************************************************)
EXTENDS Pipeline, TLC

CONSTANTS p1, w1, w2, h1, h2, r1, r2

MCserver == [r \in Requests |-> p1]
MChome   == [w \in Workers |-> p1]

\* The workers of one process are alike.
WorkerSymmetry == Permutations(Workers)

\* One request for each payload.
MCbody == [r \in Requests |-> IF r = r1 THEN h1 ELSE h2]

Lower == {"shipment", "invoice", "unclassified", "bl-1", "usd", "picked_up", "paid"}
Upper == {"SHIPMENT", "INVOICE", "UNCLASSIFIED", "BL-1", "INV-1", "USD", "EUR",
          "PICKED_UP", "IN_TRANSIT", "OUT_FOR_DELIVERY", "DELIVERED",
          "ISSUED", "PAID", "VOIDED", "REFUNDED", "LOST"}
Times == {"2026-04-21", "2026-04-22 10:00:00"}

MCSpellings  == Lower \cup Upper \cup Times \cup {"", " ", "someday", "SOMEDAY"}
MCCurrencies == {"USD", "EUR"}

MCcanon ==
  [s \in MCSpellings |->
     CASE s = "shipment"     -> "SHIPMENT"
       [] s = "invoice"      -> "INVOICE"
       [] s = "unclassified" -> "UNCLASSIFIED"
       [] s = "bl-1"         -> "BL-1"
       [] s = "usd"          -> "USD"
       [] s = "picked_up"    -> "PICKED_UP"
       [] s = "paid"         -> "PAID"
       [] s = " "            -> ""
       [] s = "someday"      -> "SOMEDAY"
       [] OTHER              -> s]

MCutc ==
  [s \in MCSpellings |->
     CASE s = "2026-04-21"          -> 1
       [] s = "2026-04-22 10:00:00" -> 2
       [] OTHER                     -> None]

Answer(class, key, state, time, amount, currency, confidence) ==
  [classification |-> class, entity_key |-> key, canonical_state |-> state,
   event_time |-> time, amount_minor |-> amount, currency |-> currency,
   confidence |-> confidence]

Shipment(key, state, time) == Answer("shipment", key, state, time, None, "", 90)
Invoice(state, amount, currency) ==
  Answer("INVOICE", "INV-1", state, "someday", amount, currency, 90)

\* Two events of one shipment, the second of which the vendor spells in its own way
\* and the model sometimes gets wrong.
MCshipments ==
  [h \in Hashes |-> IF h = h1 THEN {Shipment("BL-1", "DELIVERED", "2026-04-22 10:00:00")}
                              ELSE {Shipment("bl-1", "picked_up", "2026-04-21"),
                                    Shipment("bl-1", "LOST", "")}]

\* An invoice that is issued, and a second payload that the model reads now as
\* its payment, now as its cancellation and now as neither: two workers that hold
\* it at the same time, one of them past its lease, race for the two branches, and
\* either payload may be the one that seeds the invoice.
MCinvoices ==
  [h \in Hashes |-> IF h = h1 THEN {Invoice("ISSUED", 100, "usd")}
                              ELSE {Invoice("paid", 80, "EUR"), Invoice("VOIDED", -5, "usd"),
                                    Answer("invoice", "", "", "", None, "", 40)}]

\* A shipment event that the model reads in two ways.
MCambiguous ==
  [h \in Hashes |-> {Shipment("BL-1", "PICKED_UP", ""), Shipment("BL-1", "DELIVERED", "")}]
=============================================================================
