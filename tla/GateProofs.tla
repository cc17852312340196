----------------------------- MODULE GateProofs ------------------------------
(***************************************************************************)
(* Proofs about Gate: what each provider's client and the validation gate  *)
(* make of every reply, for all spellings, answers, errors and payloads.   *)
(***************************************************************************)
EXTENDS Gate, NormalizeProofs, WellFoundedInduction

(* A set of indices has a least element, which is the first match.             *)
LEMMA FirstIndex ==
  ASSUME NEW I \in SUBSET Nat, I # {}
  PROVE  Min(I) \in I
<1> DEFINE Less == {ss \in Nat \X Nat : ss[1] < ss[2]}
<1>1. IsWellFoundedOn(Less, Nat)
  BY NatLessThanWellFounded, Zenon DEF OpToRel
<1>2. PICK x \in I : \A y \in I : <<y, x>> \notin Less
  <2> HIDE DEF Less
  <2> QED
    BY <1>1, WFMin
<1>3. ASSUME NEW y \in I PROVE x =< y
  <2>1. <<y, x>> \notin Less
    BY <1>2
  <2>2. x \in Nat /\ y \in Nat
    OBVIOUS
  <2>3. ~(y < x)
    BY <2>1, <2>2
  <2> QED
    BY <2>2, <2>3
<1> QED
  BY <1>3 DEF Min

(* firstState finds a state of its table, or Blank.                            *)
LEMMA FirstStateTyped ==
  ASSUME NEW p
  PROVE  /\ firstState(p, invoiceStates) \in InvoiceStates \cup {Blank}
         /\ firstState(p, shipmentStates) \in ShipmentStates \cup {Blank}
<1>1. ASSUME NEW table, NEW S, \A j \in 1..Len(table) : table[j][1] \in S
      PROVE  firstState(p, table) \in S \cup {Blank}
  <2> DEFINE I == {j \in 1..Len(table) : table[j][2] \cap p.phrases # {}}
             i == IF I # {} THEN Min(I) ELSE 0
  <2>1. firstState(p, table) = IF i = 0 THEN Blank ELSE table[i][1]
    BY DEF firstState, SelectInSeq
  <2>2. CASE I # {}
    <3>1. I \in SUBSET Nat
      OBVIOUS
    <3>2. i = Min(I)
      BY <2>2
    <3>3. i \in I
      <4> HIDE DEF I, i
      <4> QED
        BY <3>1, <3>2, <2>2, FirstIndex
    <3> QED
      BY <3>3, <2>1, <1>1
  <2>3. CASE I = {}
    BY <2>1, <2>3
  <2> QED
    BY <2>2, <2>3
<1>2. \A j \in 1..Len(invoiceStates) : invoiceStates[j][1] \in InvoiceStates
  <2>1. Len(invoiceStates) = 4
    BY DEF invoiceStates
  <2>2. invoiceStates[1][1] = "REFUNDED"
    BY DEF invoiceStates
  <2>3. invoiceStates[2][1] = "VOIDED"
    BY DEF invoiceStates
  <2>4. invoiceStates[3][1] = "PAID"
    BY DEF invoiceStates
  <2>5. invoiceStates[4][1] = "ISSUED"
    BY DEF invoiceStates
  <2> QED
    BY <2>1, <2>2, <2>3, <2>4, <2>5, InvoiceStatesAre
<1>3. \A j \in 1..Len(shipmentStates) : shipmentStates[j][1] \in ShipmentStates
  <2>1. Len(shipmentStates) = 4
    BY DEF shipmentStates
  <2>2. shipmentStates[1][1] = "OUT_FOR_DELIVERY"
    BY DEF shipmentStates
  <2>3. shipmentStates[2][1] = "DELIVERED"
    BY DEF shipmentStates
  <2>4. shipmentStates[3][1] = "PICKED_UP"
    BY DEF shipmentStates
  <2>5. shipmentStates[4][1] = "IN_TRANSIT"
    BY DEF shipmentStates
  <2> QED
    BY <2>1, <2>2, <2>3, <2>4, <2>5 DEF ShipmentStates
<1> QED
  BY <1>1, <1>2, <1>3

(* firstString finds a string: a field of the payload, or Blank.               *)
LEMMA FirstStringTyped ==
  ASSUME NEW p, p.fields \in [DOMAIN p.fields -> Spellings],
         NEW keys
  PROVE  firstString(p, keys) \in Spellings
<1> DEFINE I == {j \in 1..Len(keys) : keys[j] \in DOMAIN p.fields /\ p.fields[keys[j]] # Blank}
           i == IF I # {} THEN Min(I) ELSE 0
<1>1. firstString(p, keys) = IF i = 0 THEN Blank ELSE p.fields[keys[i]]
  BY DEF firstString, SelectInSeq
<1>2. CASE I # {}
  <2>1. I \in SUBSET Nat
    OBVIOUS
  <2>2. i = Min(I)
    BY <1>2
  <2>3. i \in I
    <3> HIDE DEF I, i
    <3> QED
      BY <2>1, <2>2, <1>2, FirstIndex
  <2> QED
    BY <2>3, <1>1, SpellingsAssumption
<1>3. CASE I = {}
  BY <1>1, <1>3, SpellingsAssumption
<1> QED
  BY <1>2, <1>3

(* The CASE of Ask, arm by arm.                                                *)
LEMMA AskArms ==
  ASSUME NEW r
  PROVE  /\ Ask("openai", r) = OpenAI(r)
         /\ Ask("ollama", r) = Ollama(r)
         /\ Ask("mock", r) = Mock(r)
<1>1. "openai" # "ollama" /\ "openai" # "mock" /\ "ollama" # "mock"
  OBVIOUS
<1> QED
  BY <1>1 DEF Ask

(* What the hosted clients return: the answer as it is, or an error that is    *)
(* retryable as the client's own rule has it.                                  *)
LEMMA HostedReplies ==
  ASSUME NEW r
  PROVE  /\ r.kind = "answer" =>
              /\ OpenAI(r) = Success(r.response)
              /\ Ollama(r) = Success(r.response)
         /\ r.kind = "status" =>
              /\ OpenAI(r).err =
                   IF retryableStatus(r.status, r.type) THEN "retryable" ELSE "permanent"
              /\ Ollama(r).err = IF r.status >= 500 THEN "retryable" ELSE "permanent"
         /\ r.kind \notin {"answer", "status"} =>
              OpenAI(r).err = "retryable" /\ Ollama(r).err = "retryable"
<1>1. CASE r.kind = "answer"
  BY <1>1 DEF OpenAI, Ollama
<1>2. CASE r.kind = "status"
  <2>1. /\ OpenAI(r) = Failure(retryableStatus(r.status, r.type))
        /\ Ollama(r) = Failure(r.status >= 500)
    BY <1>2 DEF OpenAI, Ollama
  <2> QED
    BY <1>2, <2>1 DEF Failure
<1>3. CASE r.kind \notin {"answer", "status"}
  <2>1. OpenAI(r) = Failure(TRUE) /\ Ollama(r) = Failure(TRUE)
    BY <1>3 DEF OpenAI, Ollama
  <2> QED
    BY <1>3, <2>1 DEF Failure
<1> QED
  BY <1>1, <1>2, <1>3

(* The mock always answers, with a typed response; and under a confidence gate *)
(* above its own 40% of doubt, the validation gate refuses nothing but a       *)
(* payload that has no key.                                                    *)
LEMMA MockAnswers ==
  ASSUME NEW p \in Payloads
  PROVE  /\ Mock(p).err = "nil"
         /\ Mock(p).response \in LLMResponses
         /\ MinConfidence > 40 /\ ~Accepts(Mock(p).response) =>
              \/ looksInvoice(p) /\ canon[firstString(p, invoiceKeys)] = Blank
              \/ looksShipment(p) /\ canon[firstString(p, shipmentKeys)] = Blank
<1> USE SpellingsAssumption
<1>0. /\ p.fields \in [DOMAIN p.fields -> Spellings]
      /\ p.transaction.fields \in [DOMAIN p.transaction.fields -> Spellings]
  BY GateAssumption
<1>1. \A keys : firstString(p, keys) \in Spellings
  BY <1>0, FirstStringTyped
<1>2. firstTimeString(p) \in Spellings
  <2>1. \A keys : firstString(p.transaction, keys) \in Spellings
    BY <1>0, FirstStringTyped
  <2> QED
    BY <1>1, <2>1 DEF firstTimeString
<1>3. ASSUME NEW class \in Classifications, NEW key \in Spellings, NEW state \in Spellings,
             NEW time \in Spellings, NEW c \in Int
      PROVE  LET answer == MockResponse(class, key, state, time, c)
             IN  /\ answer.err = "nil"
                 /\ answer.response \in LLMResponses
                 /\ answer.response.classification = class
                 /\ answer.response.entity_key = key
                 /\ answer.response.canonical_state = state
                 /\ answer.response.confidence = c
  BY DEF MockResponse, Success, LLMResponses
<1>4. ASSUME NEW class \in Classifications \ {"UNCLASSIFIED"}, NEW key \in Spellings,
             NEW state \in Spellings, NEW time \in Spellings,
             NEW answer, answer = MockResponse(class, canon[key], state, time, Confidence(state))
      PROVE  /\ answer.err = "nil"
             /\ answer.response \in LLMResponses
             /\ answer.response.entity_key = canon[key]
             /\ answer.response.canonical_state = state
             /\ MinConfidence > 40 /\ state = Blank =>
                  Classify(answer.response) = "UNCLASSIFIED"
             /\ Classify(answer.response) \in {"UNCLASSIFIED", class}
  <2>1. Confidence(state) = (IF state = Blank THEN 40 ELSE 90) /\ Confidence(state) \in Int
    BY DEF Confidence
  <2>2. canon[key] \in Spellings /\ canon[class] = class
    OBVIOUS
  <2>3. /\ answer.err = "nil"
        /\ answer.response \in LLMResponses
        /\ answer.response.classification = class
        /\ answer.response.entity_key = canon[key]
        /\ answer.response.canonical_state = state
        /\ answer.response.confidence = Confidence(state)
    BY <1>3, <1>4, <2>1, <2>2
  <2> QED
    BY <2>1, <2>2, <2>3 DEF Classify
<1>5. CASE looksInvoice(p)
  <2> DEFINE state == firstState(p, invoiceStates)
             key == firstString(p, invoiceKeys)
  <2>1. Mock(p) = MockResponse("INVOICE", canon[key], state, firstTimeString(p), Confidence(state))
    BY <1>5 DEF Mock
  <2>2. state \in InvoiceStates \cup {Blank} /\ state \in Spellings /\ canon[state] = state
    BY FirstStateTyped
  <2>3. key \in Spellings
    BY <1>1
  <2>4. "INVOICE" \in Classifications \ {"UNCLASSIFIED"}
    BY DEF Classifications
  <2> HIDE DEF state, key
  <2>5. /\ Mock(p).err = "nil"
        /\ Mock(p).response \in LLMResponses
        /\ Mock(p).response.entity_key = canon[key]
        /\ Mock(p).response.canonical_state = state
        /\ MinConfidence > 40 /\ state = Blank => Classify(Mock(p).response) = "UNCLASSIFIED"
        /\ Classify(Mock(p).response) \in {"UNCLASSIFIED", "INVOICE"}
    BY <1>2, <1>4, <2>1, <2>2, <2>3, <2>4
  <2>6. MinConfidence > 40 /\ ~Accepts(Mock(p).response) => canon[key] = Blank
    BY <2>2, <2>3, <2>5 DEF Accepts, CanonicalKey
  <2> QED
    BY <1>5, <2>5, <2>6 DEF key
<1>6. CASE ~looksInvoice(p) /\ looksShipment(p)
  <2> DEFINE state == firstState(p, shipmentStates)
             key == firstString(p, shipmentKeys)
  <2>1. Mock(p) = MockResponse("SHIPMENT", canon[key], state, firstTimeString(p), Confidence(state))
    BY <1>6 DEF Mock
  <2>2. state \in ShipmentStates \cup {Blank} /\ state \in Spellings /\ canon[state] = state
    BY FirstStateTyped
  <2>3. key \in Spellings
    BY <1>1
  <2>4. "SHIPMENT" \in Classifications \ {"UNCLASSIFIED"}
    BY DEF Classifications
  <2> HIDE DEF state, key
  <2>5. /\ Mock(p).err = "nil"
        /\ Mock(p).response \in LLMResponses
        /\ Mock(p).response.entity_key = canon[key]
        /\ Mock(p).response.canonical_state = state
        /\ MinConfidence > 40 /\ state = Blank => Classify(Mock(p).response) = "UNCLASSIFIED"
        /\ Classify(Mock(p).response) \in {"UNCLASSIFIED", "SHIPMENT"}
    BY <1>2, <1>4, <2>1, <2>2, <2>3, <2>4
  <2>6. MinConfidence > 40 /\ ~Accepts(Mock(p).response) => canon[key] = Blank
    BY <2>2, <2>3, <2>5 DEF Accepts, CanonicalKey
  <2> QED
    BY <1>6, <2>5, <2>6 DEF key
<1>7. CASE ~looksInvoice(p) /\ ~looksShipment(p)
  <2>1. Mock(p) = MockResponse("UNCLASSIFIED", Blank, Blank, Blank, 30)
    BY <1>7 DEF Mock
  <2>2. "UNCLASSIFIED" \in Classifications /\ canon["UNCLASSIFIED"] = "UNCLASSIFIED"
    BY DEF Classifications
  <2>3. /\ Mock(p).err = "nil"
        /\ Mock(p).response \in LLMResponses
        /\ Mock(p).response.classification = "UNCLASSIFIED"
    BY <1>3, <2>1, <2>2
  <2> QED
    BY <2>2, <2>3 DEF Accepts, Classify
<1> QED
  BY <1>5, <1>6, <1>7

-----------------------------------------------------------------------------
\* What a hosted model or the mock is shown.
Shown ==
  /\ setting \in Settings
  /\ provider \in Hosted \cup {"mock"}
  /\ provider = "mock" => input \in Payloads
  /\ provider \in Hosted => input \in Errors \cup [kind : {"answer"}, response : Answers]

\* Nothing is known of an event before the step, and after it only what the client
\* and the gate made of the reply.
Judged ==
  LET result == Ask(provider, input)
  IN  \/ outcome = "asked" /\ fact = None
      \/ /\ fact = IF result.err = "nil" THEN Apply(result.response) ELSE None
         /\ outcome = IF result.err = "retryable" THEN "retry"
                      ELSE IF fact = None THEN "fail" ELSE "store"

GateInv == Shown /\ Judged

(* The providers are three: buildLLM never falls through.                      *)
LEMMA ProviderIsKnown ==
  ASSUME NEW name, NEW hasKey \in BOOLEAN
  PROVE  /\ buildLLM(name, hasKey) \in Hosted \cup {"mock"}
         /\ ~hasKey /\ lower[name] \notin Hosted => buildLLM(name, hasKey) = "mock"
BY DEF buildLLM, Hosted

(* The inductive invariant of Gate.                                            *)
THEOREM GateInvariance == Spec => []GateInv
<1>1. Init => GateInv
  <2> SUFFICES ASSUME Init PROVE GateInv
    OBVIOUS
  <2>1. provider \in Hosted \cup {"mock"}
    BY GateAssumption, ProviderIsKnown DEF Init, provider
  <2>2. Shown
    BY <2>1 DEF Init, Shown, Hosted
  <2> QED
    BY <2>2 DEF Init, GateInv, Judged
<1>2. GateInv /\ [Next]_<<setting, input, outcome, fact>> => GateInv'
  <2> SUFFICES ASSUME GateInv, [Next]_<<setting, input, outcome, fact>> PROVE GateInv'
    OBVIOUS
  <2>1. setting' = setting /\ input' = input
    BY DEF Next
  <2>2. provider' = provider
    BY <2>1 DEF provider
  <2>3. Shown'
    BY <2>1, <2>2 DEF GateInv, Shown
  <2>4. CASE Next
    BY <2>1, <2>2, <2>3, <2>4 DEF Next, GateInv, Judged
  <2>5. CASE UNCHANGED <<setting, input, outcome, fact>>
    BY <2>2, <2>3, <2>5 DEF GateInv, Judged
  <2> QED
    BY <2>4, <2>5
<1> QED
  BY <1>1, <1>2, PTL DEF Spec

(* What an answer of a hosted model comes to: stored or refused, as the gate   *)
(* decides; every other reply is an error.                                     *)
LEMMA HostedVerdict ==
  ASSUME GateInv, outcome # "asked", provider \in Hosted
  PROVE  /\ input.kind = "answer" =>
              /\ input.response \in LLMResponses
              /\ Ask(provider, input) = Success(input.response)
              /\ fact = Apply(input.response)
              /\ outcome = IF Accepts(input.response) THEN "store" ELSE "fail"
         /\ input.kind # "answer" =>
              /\ input \in Errors
              /\ fact = None
              /\ outcome = IF Ask(provider, input).err = "retryable" THEN "retry" ELSE "fail"
              /\ Ask(provider, input).err # "nil"
<1>1. provider = "openai" \/ provider = "ollama"
  BY DEF Hosted
<1>2. CASE input.kind = "answer"
  <2>1. input.response \in LLMResponses
    BY <1>2, GateAssumption DEF GateInv, Shown
  <2>2. Ask(provider, input) = Success(input.response)
    BY <1>1, <1>2, AskArms, HostedReplies
  <2>3. fact = Apply(input.response) /\ outcome = IF fact = None THEN "fail" ELSE "store"
    BY <2>2 DEF GateInv, Judged, Success
  <2> QED
    BY <1>2, <2>1, <2>2, <2>3, ApplySound
<1>3. CASE input.kind # "answer"
  <2>1. input \in Errors
    BY <1>3 DEF GateInv, Shown
  <2>2. OpenAI(input).err # "nil" /\ Ollama(input).err # "nil"
    BY <1>3, HostedReplies
  <2>3. Ask(provider, input).err # "nil"
    BY <1>1, <2>2, AskArms
  <2>4. fact = None /\ outcome = IF Ask(provider, input).err = "retryable" THEN "retry" ELSE "fail"
    BY <2>3 DEF GateInv, Judged
  <2> QED
    BY <1>3, <2>1, <2>3, <2>4
<1> QED
  BY <1>2, <1>3

(* The CASE of StatesOf, arm by arm.                                           *)
LEMMA StatesOfArms ==
  /\ StatesOf("SHIPMENT") = ShipmentStates
  /\ StatesOf("INVOICE") = InvoiceStates
  /\ StatesOf("UNCLASSIFIED") = {Blank}
<1>1. "SHIPMENT" # "INVOICE" /\ "UNCLASSIFIED" \notin {"SHIPMENT", "INVOICE"}
  OBVIOUS
<1> QED
  BY <1>1 DEF StatesOf

(* Whatever is stored is a fact that the gate made of a typed response.        *)
LEMMA StoredIsAccepted ==
  ASSUME GateInv, outcome = "store"
  PROVE  LET r == Ask(provider, input).response
         IN  r \in LLMResponses /\ Accepts(r) /\ fact = Apply(r)
<1>1. CASE provider \in Hosted
  <2>1. input.kind = "answer"
    BY <1>1, HostedVerdict
  <2>2. Ask(provider, input).response = input.response
    BY <1>1, <2>1, HostedVerdict DEF Success
  <2> QED
    BY <1>1, <2>1, <2>2, HostedVerdict
<1>2. CASE provider = "mock"
  <2>1. Ask(provider, input) = Mock(input) /\ input \in Payloads
    BY <1>2, AskArms DEF GateInv, Shown
  <2>2. Ask(provider, input).err = "nil" /\ Ask(provider, input).response \in LLMResponses
    BY <2>1, MockAnswers
  <2>3. fact = Apply(Ask(provider, input).response) /\ fact # None
    BY <2>2 DEF GateInv, Judged
  <2> QED
    BY <2>2, <2>3, ApplySound
<1> QED
  BY <1>1, <1>2 DEF GateInv, Shown

(* PassedIsSound, for every provider, response and payload: whatever Handle    *)
(* stores, Normalizer.Apply made fit for the tables.                           *)
THEOREM StoredFactsAreSound == Spec => []PassedIsSound
<1>1. GateInv => PassedIsSound
  <2> SUFFICES ASSUME GateInv, outcome = "store",
                      NEW r, r = Ask(provider, input).response
               PROVE  /\ fact.classification \in Classifications
                      /\ fact.canonical_state \in StatesOf(fact.classification)
                      /\ fact.classification # "UNCLASSIFIED" =>
                           /\ ~Unsure(r)
                           /\ fact.entity_key # Blank /\ canon[fact.entity_key] = fact.entity_key
                      /\ fact.classification = "UNCLASSIFIED" => fact.entity_key = Blank
                      /\ \/ fact.amount_minor = None /\ fact.currency = Blank
                         \/ /\ fact.classification = "INVOICE"
                            /\ fact.amount_minor \in Nat
                            /\ fact.currency \in Currencies
    BY DEF PassedIsSound
  <2>1. r \in LLMResponses /\ SoundFact(fact) /\ fact.classification = Classify(r)
    BY StoredIsAccepted, ApplySound
  <2>2. fact.classification \in {"SHIPMENT", "INVOICE", "UNCLASSIFIED"}
    BY <2>1 DEF SoundFact, NormalizedFacts, Classifications
  <2>3. fact.canonical_state \in StatesOf(fact.classification)
    BY <2>1, <2>2, StatesOfArms DEF SoundFact
  <2>4. fact.classification # "UNCLASSIFIED" => ~Unsure(r)
    BY <2>1 DEF Classify, Unsure
  <2>5. \/ fact.amount_minor = None /\ fact.currency = Blank
        \/ /\ fact.classification = "INVOICE"
           /\ fact.amount_minor \in Nat
           /\ fact.currency \in Currencies
    BY <2>1, NoneAssumption DEF SoundFact, NormalizedFacts
  <2> QED
    BY <2>1, <2>2, <2>3, <2>4, <2>5 DEF SoundFact, Classifications
<1> QED
  BY <1>1, GateInvariance, PTL

(* RejectedIsNonsense: Apply refuses an answer exactly when the model was sure *)
(* of structural nonsense.                                                     *)
THEOREM OnlyNonsenseIsRejected == Spec => []RejectedIsNonsense
<1>1. ASSUME NEW r \in LLMResponses
      PROVE  ~Accepts(r) <=> Nonsense(r)
  <2> DEFINE class == canon[r.classification]
  <2>1. Classify(r) = IF class # "UNCLASSIFIED" /\ Unsure(r) THEN "UNCLASSIFIED" ELSE class
    BY DEF Classify, Unsure
  <2>2. CASE class = "UNCLASSIFIED" \/ Unsure(r)
    BY <2>1, <2>2 DEF Accepts, Nonsense
  <2>3. CASE class \in {"SHIPMENT", "INVOICE"} /\ ~Unsure(r)
    BY <2>1, <2>3, StatesOfArms DEF Accepts, Nonsense, CanonicalKey, Classifications
  <2>4. CASE class \notin {"SHIPMENT", "INVOICE", "UNCLASSIFIED"} /\ ~Unsure(r)
    BY <2>1, <2>4 DEF Accepts, Nonsense, Classifications
  <2> QED
    BY <2>2, <2>3, <2>4
<1>2. GateInv => RejectedIsNonsense
  BY <1>1, HostedVerdict DEF RejectedIsNonsense
<1> QED
  BY <1>2, GateInvariance, PTL

(* What APIError says of transient errors, TransientIsRetried, holds of every  *)
(* deployment that does not use Ollama, whose client gives up on a 429.        *)
THEOREM TransientIsRetriedByOpenAI ==
  ASSUME \A s \in Settings : buildLLM(s[1], s[2]) # "ollama"
  PROVE  Spec => []TransientIsRetried
<1>1. ASSUME GateInv, outcome # "asked", provider \in Hosted, input.kind = "status",
             input.type = Blank, input.status = 429 \/ input.status >= 500
      PROVE  outcome = "retry"
  <2>1. provider = "openai"
    BY <1>1 DEF Hosted, GateInv, Shown, provider
  <2>2. Ask(provider, input).err =
          IF retryableStatus(input.status, input.type) THEN "retryable" ELSE "permanent"
    BY <1>1, <2>1, AskArms, HostedReplies
  <2>3. retryableStatus(input.status, input.type)
    BY <1>1 DEF retryableStatus, Blank
  <2>4. outcome = IF Ask(provider, input).err = "retryable" THEN "retry" ELSE "fail"
    BY <1>1, HostedVerdict
  <2> QED
    BY <2>2, <2>3, <2>4
<1>2. GateInv => TransientIsRetried
  BY <1>1 DEF TransientIsRetried
<1> QED
  BY <1>2, GateInvariance, PTL

(* MockRunsEndToEnd, whenever CONFIDENCE_THRESHOLD is above the 0.4 of a mock  *)
(* that found no state (its default is 0.6): under a lower threshold a payload *)
(* without a readable state would pass the confidence gate and be refused.     *)
THEOREM MockNeedsNoModel ==
  ASSUME MinConfidence > 40
  PROVE  Spec => []MockRunsEndToEnd
<1>1. ASSUME GateInv, outcome # "asked", ~setting[2], lower[setting[1]] \notin Hosted
      PROVE  /\ outcome # "retry"
             /\ outcome = "fail" =>
                  \/ looksInvoice(input) /\ canon[firstString(input, invoiceKeys)] = Blank
                  \/ looksShipment(input) /\ canon[firstString(input, shipmentKeys)] = Blank
  <2>1. provider = "mock"
    BY <1>1, GateAssumption, ProviderIsKnown DEF provider, GateInv, Shown
  <2>2. Ask(provider, input) = Mock(input) /\ input \in Payloads
    BY <1>1, <2>1, AskArms DEF GateInv, Shown
  <2>3. Mock(input).err = "nil" /\ Mock(input).response \in LLMResponses
    BY <2>2, MockAnswers
  <2>4. outcome = IF Apply(Mock(input).response) = None THEN "fail" ELSE "store"
    BY <1>1, <2>2, <2>3 DEF GateInv, Judged
  <2>5. outcome = "fail" => ~Accepts(Mock(input).response)
    BY <2>3, <2>4, ApplySound
  <2> QED
    BY <2>2, <2>4, <2>5, MockAnswers
<1>2. GateInv => MockRunsEndToEnd
  BY <1>1 DEF MockRunsEndToEnd
<1> QED
  BY <1>2, GateInvariance, PTL

(* SpellingIsImmaterial: Apply canonicalises every field it compares, so no    *)
(* two spellings of one answer come to different facts.                        *)
THEOREM SpellingsComeToOneFact == Spec => []SpellingIsImmaterial
<1>1. ASSUME NEW r \in LLMResponses,
             NEW s, s = [r EXCEPT !.classification  = canon[@], !.canonical_state = canon[@],
                                  !.entity_key      = canon[@], !.currency        = canon[@]]
      PROVE  Apply(r) = Apply(s)
  <2>1. /\ s.classification = canon[r.classification]
        /\ s.canonical_state = canon[r.canonical_state]
        /\ s.entity_key = canon[r.entity_key]
        /\ s.currency = canon[r.currency]
        /\ s.event_time = r.event_time
        /\ s.amount_minor = r.amount_minor
        /\ s.confidence = r.confidence
    BY <1>1 DEF LLMResponses
  <2>2. /\ canon[s.classification] = canon[r.classification]
        /\ canon[s.canonical_state] = canon[r.canonical_state]
        /\ canon[s.entity_key] = canon[r.entity_key]
        /\ canon[s.currency] = canon[r.currency]
    BY <2>1, SpellingsAssumption DEF LLMResponses
  <2>3. Classify(s) = Classify(r) /\ CanonicalKey(s.entity_key) = CanonicalKey(r.entity_key)
    BY <2>1, <2>2 DEF Classify, CanonicalKey
  <2>4. sanitizeMoney(s.amount_minor, s.currency) = sanitizeMoney(r.amount_minor, r.currency)
    BY <2>1, <2>2 DEF sanitizeMoney
  <2>5. Accepts(s) <=> Accepts(r)
    BY <2>2, <2>3 DEF Accepts
  <2>6. CASE ~Accepts(r)
    BY <2>5, <2>6, ApplyArms
  <2>7. CASE Accepts(r)
    <3>1. Classify(r) \in {"UNCLASSIFIED", "SHIPMENT", "INVOICE"}
      BY <2>7 DEF Accepts
    <3> QED
      BY <2>1, <2>2, <2>3, <2>4, <2>5, <2>7, <3>1, ApplyArms
  <2> QED
    BY <2>6, <2>7
<1>2. GateInv => SpellingIsImmaterial
  BY <1>1, HostedVerdict DEF SpellingIsImmaterial
<1> QED
  BY <1>2, GateInvariance, PTL
=============================================================================
