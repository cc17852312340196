SPECIFICATION Spec
CONSTANTS
  p1 = p1
  p2 = p2
  w1 = w1
  w2 = w2
  h1 = h1
  h2 = h2
  r1 = r1
  r2 = r2
  r3 = r3
  Processes = {p1, p2}
  Workers = {w1, w2}
  Hashes = {h1}
  Requests = {r1, r2, r3}
  server <- MCserver
  home <- MChome
  body <- MCbodyRefused
  NoJob = NoJob
  Oversized = Oversized
  NotJSON = NotJSON
  NotJSONB = NotJSONB
  MaxAttempts = 2
  MaxFaults = 2
INVARIANTS
  TypeOK
  AckIsDurable
  OneNewPerPayload
  JobsAreClaims
  AttemptsBounded
PROPERTIES
  SettledIsFinal
  ImplementsAtLeastOnce
