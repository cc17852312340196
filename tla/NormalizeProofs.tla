--------------------------- MODULE NormalizeProofs ---------------------------
(***************************************************************************)
(* What the lifecycles and the validation gate guarantee, for every        *)
(* response: the facts that the proofs about Pipeline and Gate rest on.    *)
(***************************************************************************)
EXTENDS Normalize, TLAPS

(* The literal states of the lifecycles.                                       *)
LEMMA InvoiceStatesAre == InvoiceStates = {"ISSUED", "PAID", "VOIDED", "REFUNDED"}
BY DEF InvoiceStates, invoiceTransitions

(* ShipmentRank orders the shipment states from 1 to 4.                        *)
LEMMA RankOfShipment ==
  ASSUME NEW s \in ShipmentStates
  PROVE  ShipmentRank(s) \in 1..4
<1>1. CASE s = "PICKED_UP"
  BY <1>1 DEF ShipmentRank
<1>2. CASE s = "IN_TRANSIT"
  BY <1>2 DEF ShipmentRank
<1>3. CASE s = "OUT_FOR_DELIVERY"
  BY <1>3 DEF ShipmentRank
<1>4. CASE s = "DELIVERED"
  BY <1>4 DEF ShipmentRank
<1> QED
  BY <1>1, <1>2, <1>3, <1>4 DEF ShipmentStates

(* A state that is no shipment state has rank 0, invoice states among them.    *)
LEMMA RankOfOthers ==
  ASSUME NEW s, s \notin ShipmentStates
  PROVE  ShipmentRank(s) = 0
BY DEF ShipmentRank, ShipmentStates

(* The two lifecycles share no state.                                          *)
LEMMA RankOfInvoice ==
  ASSUME NEW s \in InvoiceStates
  PROVE  ShipmentRank(s) = 0
BY InvoiceStatesAre, RankOfOthers DEF ShipmentStates

(* A legal transition of an invoice leads from one of its states to another.   *)
LEMMA TransitionStates ==
  ASSUME NEW s, NEW t, InvoiceTransitionAllowed(s, t)
  PROVE  s \in InvoiceStates /\ t \in InvoiceStates
<1>1. s \in InvoiceStates /\ t \in invoiceTransitions[s]
  BY DEF InvoiceTransitionAllowed
<1>2. t \in {"PAID", "VOIDED", "REFUNDED"}
  BY <1>1, InvoiceStatesAre DEF invoiceTransitions
<1> QED
  BY <1>1, <1>2, InvoiceStatesAre

-----------------------------------------------------------------------------
\* A fact that the tables may hold: see PassedIsSound of Gate.
SoundFact(f) ==
  /\ f \in NormalizedFacts
  /\ f.classification = "SHIPMENT" => f.canonical_state \in ShipmentStates
  /\ f.classification = "INVOICE"  => f.canonical_state \in InvoiceStates
  /\ f.classification = "UNCLASSIFIED" => f.canonical_state = Blank /\ f.entity_key = Blank
  /\ f.classification # "UNCLASSIFIED" => f.entity_key # Blank
  /\ canon[f.entity_key] = f.entity_key
  /\ (f.amount_minor = None) <=> (f.currency = Blank)
  /\ f.classification # "INVOICE" => f.amount_minor = None

(* Amount and currency survive together or not at all.                         *)
LEMMA MoneyPairs ==
  ASSUME NEW amount \in Int \cup {None}, NEW currency \in Spellings
  PROVE  LET money == sanitizeMoney(amount, currency)
         IN  /\ money.amount_minor \in Nat \cup {None}
             /\ money.currency \in Currencies \cup {Blank}
             /\ (money.amount_minor = None) <=> (money.currency = Blank)
BY SpellingsAssumption, NoneAssumption DEF sanitizeMoney

\* Apply, one definition per case of its CASE.
Accepts(r) ==
  \/ Classify(r) = "UNCLASSIFIED"
  \/ /\ Classify(r) = "SHIPMENT"
     /\ canon[r.canonical_state] \in ShipmentStates
     /\ CanonicalKey(r.entity_key) # Blank
  \/ /\ Classify(r) = "INVOICE"
     /\ canon[r.canonical_state] \in InvoiceStates
     /\ CanonicalKey(r.entity_key) # Blank

(* The CASE of Apply, arm by arm.                                              *)
LEMMA ApplyArms ==
  ASSUME NEW r
  PROVE  /\ Classify(r) = "UNCLASSIFIED" =>
              Apply(r) = Fact("UNCLASSIFIED", Blank, Blank, parseEventTime(r.event_time), NoMoney)
         /\ Classify(r) = "SHIPMENT" /\ Accepts(r) =>
              Apply(r) = Fact("SHIPMENT", CanonicalKey(r.entity_key), canon[r.canonical_state],
                              parseEventTime(r.event_time), NoMoney)
         /\ Classify(r) = "INVOICE" /\ Accepts(r) =>
              Apply(r) = Fact("INVOICE", CanonicalKey(r.entity_key), canon[r.canonical_state],
                              parseEventTime(r.event_time),
                              sanitizeMoney(r.amount_minor, r.currency))
         /\ ~Accepts(r) => Apply(r) = None
<1>1. CASE Classify(r) = "UNCLASSIFIED"
  BY <1>1 DEF Apply, Accepts
<1>2. CASE Classify(r) = "SHIPMENT"
  BY <1>2 DEF Apply, Accepts
<1>3. CASE Classify(r) = "INVOICE"
  BY <1>3 DEF Apply, Accepts
<1>4. CASE Classify(r) \notin {"UNCLASSIFIED", "SHIPMENT", "INVOICE"}
  BY <1>4 DEF Apply, Accepts
<1> QED
  BY <1>1, <1>2, <1>3, <1>4

(* Whatever the model answers, the gate lets through a sound fact or nothing.  *)
LEMMA ApplySound ==
  ASSUME NEW r \in LLMResponses
  PROVE  /\ Accepts(r) => SoundFact(Apply(r)) /\ Apply(r).classification = Classify(r)
         /\ Accepts(r) <=> Apply(r) # None
         /\ Classify(r) # "UNCLASSIFIED" /\ Accepts(r) =>
              Apply(r).entity_key = CanonicalKey(r.entity_key)
<1> USE SpellingsAssumption DEF LLMResponses
<1>1. parseEventTime(r.event_time) \in {utc[s] : s \in Spellings}
  BY DEF parseEventTime
<1>2. /\ NoMoney.amount_minor = None
      /\ NoMoney.currency = Blank
  BY DEF NoMoney
<1>3. CASE Classify(r) = "UNCLASSIFIED"
  <2>1. Apply(r) = Fact("UNCLASSIFIED", Blank, Blank, parseEventTime(r.event_time), NoMoney)
    BY <1>3, ApplyArms
  <2>2. SoundFact(Apply(r)) /\ Apply(r).classification = Classify(r)
    BY <1>1, <1>2, <1>3, <2>1 DEF SoundFact, NormalizedFacts, Fact, Classifications
  <2> QED
    BY <1>3, <2>2, NoneAssumption DEF Accepts, SoundFact
<1>4. CASE Classify(r) = "SHIPMENT" /\ Accepts(r)
  <2>1. Apply(r) = Fact("SHIPMENT", CanonicalKey(r.entity_key), canon[r.canonical_state],
                        parseEventTime(r.event_time), NoMoney)
    BY <1>4, ApplyArms
  <2>2. /\ CanonicalKey(r.entity_key) \in Spellings \ {Blank}
        /\ canon[CanonicalKey(r.entity_key)] = CanonicalKey(r.entity_key)
        /\ canon[r.canonical_state] \in ShipmentStates
        /\ canon[r.canonical_state] \in Spellings
    BY <1>4 DEF Accepts, CanonicalKey
  <2>3. SoundFact(Apply(r)) /\ Apply(r).classification = Classify(r)
    BY <1>1, <1>2, <1>4, <2>1, <2>2 DEF SoundFact, NormalizedFacts, Fact, Classifications
  <2>4. Apply(r).entity_key = CanonicalKey(r.entity_key)
    BY <2>1 DEF Fact
  <2> QED
    BY <1>4, <2>3, <2>4, NoneAssumption DEF SoundFact
<1>5. CASE Classify(r) = "INVOICE" /\ Accepts(r)
  <2> DEFINE money == sanitizeMoney(r.amount_minor, r.currency)
  <2>1. Apply(r) = Fact("INVOICE", CanonicalKey(r.entity_key), canon[r.canonical_state],
                        parseEventTime(r.event_time), money)
    BY <1>5, ApplyArms
  <2>2. /\ CanonicalKey(r.entity_key) \in Spellings \ {Blank}
        /\ canon[CanonicalKey(r.entity_key)] = CanonicalKey(r.entity_key)
        /\ canon[r.canonical_state] \in InvoiceStates
        /\ canon[r.canonical_state] \in Spellings
    BY <1>5 DEF Accepts, CanonicalKey
  <2>3. /\ money.amount_minor \in Nat \cup {None}
        /\ money.currency \in Currencies \cup {Blank}
        /\ (money.amount_minor = None) <=> (money.currency = Blank)
    BY MoneyPairs
  <2> HIDE DEF money
  <2>4. SoundFact(Apply(r)) /\ Apply(r).classification = Classify(r)
    BY <1>1, <1>5, <2>1, <2>2, <2>3 DEF SoundFact, NormalizedFacts, Fact, Classifications
  <2>5. Apply(r).entity_key = CanonicalKey(r.entity_key)
    BY <2>1 DEF Fact
  <2> QED
    BY <1>5, <2>4, <2>5, NoneAssumption DEF SoundFact
<1>6. CASE ~Accepts(r)
  BY <1>6, ApplyArms
<1>7. Accepts(r) => Classify(r) \in {"UNCLASSIFIED", "SHIPMENT", "INVOICE"}
  BY DEF Accepts
<1> QED
  BY <1>3, <1>4, <1>5, <1>6, <1>7
=============================================================================
