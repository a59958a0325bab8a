\* Two helpers send two events each, for the control input and for another
\* scope, while the daemon ticks; five instants touch three slices.
SPECIFICATION FairSpec
CONSTANTS
    Period = 2
    Senders = {a, b}
    Sensors = {rate}
    Scopes = {node, core}
    node = node
    core = core
    Streams <- MCStreams
    InSensor = rate
    InScope = node
    MaxEvents = 2
    MaxTime = 4
INVARIANTS
    LossExplained
    SeriesInOrder
PROPERTIES
    CountsOnce
    DecisionComes
CHECK_DEADLOCK FALSE
