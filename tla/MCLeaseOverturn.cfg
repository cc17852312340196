SPECIFICATION TimedSpec
CONSTANTS
  p1 = p1
  w1 = w1
  w2 = w2
  h1 = h1
  h2 = h2
  r1 = r1
  r2 = r2
  Processes = {p1}
  Workers = {w1, w2}
  Hashes = {h1}
  Requests = {r1}
  server <- MCserver
  home <- MChome
  body <- MCbody
  NoJob = NoJob
  Oversized = Oversized
  NotJSON = NotJSON
  NotJSONB = NotJSONB
  MaxAttempts = 4
  MaxFaults = 0
  LeaseTime = 2
  MaxHandle = 4
  BaseBackoff = 4
  MaxBackoff = 5
  Width = 4
PROPERTY
  AckCompletes
