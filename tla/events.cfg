SPECIFICATION Spec
CONSTANTS
  c1 = c1  c2 = c2  t1 = t1  t2 = t2  knob = knob  dial = dial  NULL = NULL
  Clients = {c1, c2}
  Threads = {t1, t2}
  Uuids = {knob}
  ClientOf <- OneThreadEach
  Api <- ApiEvents
  Objects <- TwoKnobs
  RequestValues = {1, 3}
  RequestTargets = {}
  MaxCalls = 3
  HwlocScopes = {}
  Outputs <- NoOutput
  ControlValues = {}
  MaxTimer = 1
  Signals = FALSE
INVARIANTS
  EventsInOrder
  HeardContiguous
  SubCallbackReady
  ReplyAfterEvents
CHECK_DEADLOCK FALSE
