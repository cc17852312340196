SPECIFICATION FairSpec
CONSTANTS
  p1 = p1
  p2 = p2
  w1 = w1
  w2 = w2
  h1 = h1
  h2 = h2
  r1 = r1
  r2 = r2
  r3 = r3
  Processes = {p1}
  Workers = {w1, w2}
  Hashes = {h1, h2}
  Requests = {r1, r3}
  server <- MCserver
  home <- MChomeTogether
  body <- MCbody
  NoJob = NoJob
  Oversized = Oversized
  NotJSON = NotJSON
  NotJSONB = NotJSONB
  MaxAttempts = 1
  MaxFaults = 1
INVARIANT
  NoLostWakeup
PROPERTY
  EventuallySettled
