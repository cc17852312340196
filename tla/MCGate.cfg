SPECIFICATION Spec
CONSTANTS
  Spellings <- MCSpellings
  canon <- MCcanon
  utc <- MCutc
  lower <- MClower
  Currencies = {"USD"}
  MinConfidence = 60
  None = None
  Settings <- MCSettings
  Answers <- MCAnswers
  Errors <- MCErrors
  Payloads <- MCPayloads
INVARIANTS
  PassedIsSound
  RejectedIsNonsense
  MockRunsEndToEnd
  SpellingIsImmaterial
CHECK_DEADLOCK FALSE
