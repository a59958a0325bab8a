SPECIFICATION FairSpec
CONSTANTS
  c1 = c1  c2 = c2  t1 = t1  t2 = t2  knob = knob  dial = dial  NULL = NULL
  Clients = {c1, c2}
  Threads = {t1, t2}
  Uuids = {knob}
  ClientOf <- OneThreadEach
  Api <- ApiShutdown
  Objects <- TwoKnobs
  RequestValues = {1, 3}
  RequestTargets = {"SENSOR"}
  MaxCalls = 2
  HwlocScopes = {}
  Outputs <- NoOutput
  ControlValues = {}
  MaxTimer = 0
  Signals = TRUE
PROPERTIES
  Answered
  ExitHonoured
  ShutdownCompletes
CHECK_DEADLOCK FALSE
