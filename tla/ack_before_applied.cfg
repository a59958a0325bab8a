SPECIFICATION Spec
CONSTANTS
  c1 = c1  c2 = c2  t1 = t1  t2 = t2  knob = knob  dial = dial  NULL = NULL
  Clients = {c1, c2}
  Threads = {t1, t2}
  Uuids = {knob}
  ClientOf <- OneThreadEach
  Api <- ApiCommands
  Objects <- TwoKnobs
  RequestValues = {1, 3}
  RequestTargets = {}
  MaxCalls = 2
  HwlocScopes = {}
  Outputs <- NoOutput
  ControlValues = {}
  MaxTimer = 0
  Signals = FALSE
PROPERTIES
  AckMeansApplied
CHECK_DEADLOCK FALSE
