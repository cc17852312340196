------------------------------ MODULE Normalize ------------------------------
(***************************************************************************)
(* The validation gate between the model and the database                  *)
(* (normalize/normalize.go).  A spelling is a string as the model wrote it;*)
(* what trimming, upper-casing and time parsing do to spellings is given by*)
(* the constants, since only their results matter downstream.              *)
(***************************************************************************)
EXTENDS Lifecycle

CONSTANTS Spellings,      \* strings the model may put in a field
          canon,          \* strings.ToUpper(strings.TrimSpace(s))
          utc,            \* the instant a spelling denotes, None if no layout fits
          Currencies,     \* canonical spellings of three letters A to Z
          MinConfidence,  \* Normalizer.MinConfidence, in percent
          None            \* a nil pointer, or a rejected response

Blank == ""

ASSUME SpellingsAssumption ==
  /\ canon \in [Spellings -> Spellings]
  /\ \A s \in Spellings : canon[canon[s]] = canon[s]
  /\ \A s \in Classifications \cup ShipmentStates \cup InvoiceStates :
       s \in Spellings /\ canon[s] = s
  /\ DOMAIN utc = Spellings
  /\ Blank \in Spellings /\ canon[Blank] = Blank /\ utc[Blank] = None
  /\ Currencies \subseteq Spellings \ {Blank}
  /\ MinConfidence \in Int

\* llm.Response, without the fields kept for audit only.
LLMResponses ==
  [classification : Spellings, entity_key : Spellings, canonical_state : Spellings,
   event_time : Spellings, amount_minor : Int \cup {None}, currency : Spellings,
   confidence : Int]

\* model.Normalized, likewise.
NormalizedFacts ==
  [classification : Classifications, entity_key : Spellings, canonical_state : Spellings,
   event_time : {utc[s] : s \in Spellings}, amount_minor : Nat \cup {None},
   currency : Currencies \cup {Blank}]

\* A nil pointer is no number and no struct.
ASSUME NoneAssumption == None \notin Int /\ None \notin NormalizedFacts

\* Mutant: the key is only looked at, not rewritten.
CanonicalKeyVerbatim(s) == s

CanonicalKey(s) == canon[s]

parseEventTime(s) == utc[s]

\* Mutant: the sign of the amount is not checked.
sanitizeMoneySigned(amount, currency) ==
  IF amount # None /\ canon[currency] \in Currencies
    THEN [amount_minor |-> amount, currency |-> canon[currency]]
    ELSE [amount_minor |-> None, currency |-> Blank]

\* Amount and currency survive together or not at all.
sanitizeMoney(amount, currency) ==
  IF amount # None /\ amount >= 0 /\ canon[currency] \in Currencies
    THEN [amount_minor |-> amount, currency |-> canon[currency]]
    ELSE [amount_minor |-> None, currency |-> Blank]

NoMoney == [amount_minor |-> None, currency |-> Blank]

Fact(class, key, state, time, money) ==
  [classification |-> class, entity_key |-> key, canonical_state |-> state,
   event_time |-> time, amount_minor |-> money.amount_minor, currency |-> money.currency]

\* Mutant: no confidence gate.
ClassifyUngated(r) == canon[r.classification]

\* The confidence gate: unsure is UNCLASSIFIED, whatever the class was.
Classify(r) ==
  LET class == canon[r.classification]
  IN IF class # "UNCLASSIFIED" /\ r.confidence < MinConfidence
       THEN "UNCLASSIFIED" ELSE class

\* Normalizer.Apply: the fact, or None where the code returns an error.
Apply(r) ==
  LET class == Classify(r)
      state == canon[r.canonical_state]
      key   == CanonicalKey(r.entity_key)
      time  == parseEventTime(r.event_time)
  IN CASE class = "UNCLASSIFIED" ->
            Fact(class, Blank, Blank, time, NoMoney)
       [] class = "SHIPMENT" /\ state \in ShipmentStates /\ key # Blank ->
            Fact(class, key, state, time, NoMoney)
       [] class = "INVOICE" /\ state \in InvoiceStates /\ key # Blank ->
            Fact(class, key, state, time, sanitizeMoney(r.amount_minor, r.currency))
       [] OTHER -> None
=============================================================================
