SPECIFICATION PipelineSpec
SYMMETRY WorkerSymmetry
CONSTANTS
  p1 = p1
  w1 = w1
  w2 = w2
  h1 = h1
  h2 = h2
  r1 = r1
  r2 = r2
  Processes = {p1}
  Workers = {w1, w2}
  Hashes = {h1, h2}
  Requests = {r1, r2}
  server <- MCserver
  home <- MChome
  body <- MCbody
  NoJob = NoJob
  Oversized = Oversized
  NotJSON = NotJSON
  NotJSONB = NotJSONB
  MaxAttempts = 1
  MaxFaults = 1
  Spellings <- MCSpellings
  canon <- MCcanon
  utc <- MCutc
  Currencies <- MCCurrencies
  MinConfidence = 60
  None = None
  answers <- MCshipments
INVARIANTS
  PipelineTypeOK
  EventViewIsCoherent
  ProcessedIsProjected
  ProjectionFromFacts
PROPERTIES
  NeverRegresses
  ImplementsService
