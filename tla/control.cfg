SPECIFICATION Spec
CONSTANTS
  c1 = c1  c2 = c2  t1 = t1  t2 = t2  knob = knob  dial = dial  NULL = NULL
  Clients = {c1, c2}
  Threads = {t1, t2}
  Uuids = {knob, dial}
  ClientOf <- OneThreadEach
  Api <- ApiControl
  Objects <- KnobAndDial
  RequestValues = {1, 3}
  RequestTargets = {}
  MaxCalls = 2
  HwlocScopes = {}
  Outputs <- BothOutputs
  ControlValues = {0, 2}
  MaxTimer = 1
  Signals = FALSE
INVARIANTS
  TypeOK
  AgreeOnValue
  CommandsValid
CHECK_DEADLOCK FALSE
