------------------------------ MODULE NrmGeopm ------------------------------
(* nrm-geopm once it runs.  Its main thread reads the GEOPM signals on a   *)
(* timer and sends them as events; the broker thread of its client runs    *)
(* the actuation callback, which writes the GEOPM controls.  GEOPM is not  *)
(* thread safe, so both work under geopm_lock: the main thread holds it    *)
(* while it sends events through the broker, and the broker waits for it   *)
(* while it should be moving those events.                                 *)
EXTENDS Naturals, Sequences

CONSTANTS
    NumEvents,      \* GEOPM signals reported
    NumDomains,     \* domains of each of them
    Packages,       \* number of packages with a power control
    Powers,         \* values the daemon may command
    MaxTicks,       \* bound on the timer's wake-ups
    MaxCommands     \* bound on the daemon's commands

ASSUME GeopmAssumption ==
    /\ {NumEvents, NumDomains, Packages} \subseteq Nat \ {0}
    /\ {MaxTicks, MaxCommands} \subseteq Nat

VARIABLES
    mainpc,     \* the main thread
    event,      \* its place in the vector of events
    domain,     \* its place in the event's domains
    holder,     \* who holds geopm_lock
    actpc,      \* the broker thread
    command,    \* the value its callback writes
    package,    \* its place in the packages
    control,    \* the power limit of each package
    failed,     \* GEOPM has refused a write
    tobroker,   \* the pipe, main thread to broker
    tomain,     \* the pipe, broker to main thread
    fromdaemon, \* what the daemon has sent
    ticks,
    commands

geopmvars == <<mainpc, event, domain, holder, actpc, command, package,
               control, failed, tobroker, tomain, fromdaemon, ticks, commands>>

Nobody == "nobody"

GeopmInit ==
    /\ mainpc = "loop"
    /\ event = 1
    /\ domain = 1
    /\ holder = Nobody
    /\ actpc = "poll"
    /\ command \in Powers
    /\ package = 1
    /\ control = [p \in 1..Packages |-> command]
    /\ failed = FALSE
    /\ tobroker = <<>>
    /\ tomain = <<>>
    /\ fromdaemon = <<>>
    /\ ticks = 0
    /\ commands = 0

(* The main thread. *)

actvars == <<actpc, command, package, control, failed>>

\* The reactor's timer: the first event of the vector comes next.
TimerFires ==
    /\ mainpc = "loop"
    /\ ticks < MaxTicks
    /\ ticks' = ticks + 1
    /\ event' = 1
    /\ mainpc' = "lock"
    /\ UNCHANGED <<domain, holder, actvars, tobroker, tomain, fromdaemon,
                   commands>>

TimerLocks ==
    /\ mainpc = "lock"
    /\ holder = Nobody
    /\ holder' = "main"
    /\ domain' = 1
    /\ mainpc' = "read"
    /\ UNCHANGED <<event, actvars, tobroker, tomain, fromdaemon, ticks,
                   commands>>

\* A timer callback that gives up on a domain without its unlock.
TimerReads_GivesUp ==
    /\ mainpc = "read"
    /\ domain <= NumDomains
    /\ mainpc' = "loop"
    /\ UNCHANGED <<event, domain, holder, actvars, tobroker, tomain,
                   fromdaemon, ticks, commands>>

\* One domain: its signal is read and sent, whether or not GEOPM could read
\* it; the pipe takes any number of messages.
TimerReads ==
    /\ mainpc = "read"
    /\ domain <= NumDomains
    /\ tobroker' = Append(tobroker, "event")
    /\ domain' = domain + 1
    /\ UNCHANGED <<mainpc, event, holder, actvars, tomain, fromdaemon, ticks,
                   commands>>

TimerUnlocks ==
    /\ mainpc = "read"
    /\ domain > NumDomains
    /\ holder' = Nobody
    /\ event' = event + 1
    /\ mainpc' = IF event < NumEvents THEN "lock" ELSE "loop"
    /\ UNCHANGED <<domain, actvars, tobroker, tomain, fromdaemon, ticks,
                   commands>>

\* A signal ends the loop; the actuator is removed first, then each sensor.
LoopEnds ==
    /\ mainpc = "loop"
    /\ event' = 0
    /\ mainpc' = "remove"
    /\ UNCHANGED <<domain, holder, actvars, tobroker, tomain, fromdaemon,
                   ticks, commands>>

\* nrm_client_remove_actuator and nrm_client_remove_sensor: a request, and a
\* wait for its reply.
Remove ==
    /\ mainpc = "remove"
    /\ tobroker' = Append(tobroker, "request")
    /\ mainpc' = "reply"
    /\ UNCHANGED <<event, domain, holder, actvars, tomain, fromdaemon, ticks,
                   commands>>

Removed ==
    /\ mainpc = "reply"
    /\ tomain # <<>>
    /\ tomain' = Tail(tomain)
    /\ event' = event + 1
    /\ mainpc' = IF event < NumEvents THEN "remove" ELSE "destroy"
    /\ UNCHANGED <<domain, holder, actvars, tobroker, fromdaemon, ticks,
                   commands>>

\* nrm_client_destroy ends the broker and waits for it; the lock goes last.
DestroyClient ==
    /\ mainpc = "destroy"
    /\ tobroker' = Append(tobroker, "$TERM")
    /\ mainpc' = "join"
    /\ UNCHANGED <<event, domain, holder, actvars, tomain, fromdaemon, ticks,
                   commands>>

DestroyLock ==
    /\ mainpc = "join"
    /\ actpc = "ended"
    /\ mainpc' = "exited"
    /\ UNCHANGED <<event, domain, holder, actvars, tobroker, tomain,
                   fromdaemon, ticks, commands>>

(* The broker thread. *)

mainvars == <<mainpc, event, domain, ticks>>

\* The pipe handler: an event or a request goes to the daemon, which answers
\* the request; $TERM ends the thread.
BrokerPipe ==
    /\ actpc = "poll"
    /\ tobroker # <<>>
    /\ tobroker' = Tail(tobroker)
    /\ actpc' = IF Head(tobroker) = "$TERM" THEN "ended" ELSE "poll"
    /\ fromdaemon' = IF Head(tobroker) = "request"
                       THEN Append(fromdaemon, [type |-> "ack"])
                       ELSE fromdaemon
    /\ UNCHANGED <<mainvars, holder, command, package, control, failed,
                   tomain, commands>>

\* The DEALER handler: a command goes to the callback, anything else to the
\* thread that waits.
BrokerRpc ==
    /\ actpc = "poll"
    /\ fromdaemon # <<>>
    /\ fromdaemon' = Tail(fromdaemon)
    /\ IF Head(fromdaemon).type = "actuate"
         THEN /\ actpc' = "act"
              /\ command' = Head(fromdaemon).value
              /\ UNCHANGED tomain
         ELSE /\ tomain' = Append(tomain, "reply")
              /\ UNCHANGED <<actpc, command>>
    /\ UNCHANGED <<mainvars, holder, package, control, failed, tobroker,
                   commands>>

\* nrm_geopm_cpu_act_callback.
ActLocks ==
    /\ actpc = "act"
    /\ holder = Nobody
    /\ holder' = "broker"
    /\ package' = 1
    /\ actpc' = "write"
    /\ UNCHANGED <<mainvars, command, control, failed, tobroker, tomain,
                   fromdaemon, commands>>

\* One package is written, or refused and the rest is left as it was.
ActWrites ==
    /\ actpc = "write"
    /\ package <= Packages
    /\ \/ /\ control' = [control EXCEPT ![package] = command]
          /\ package' = package + 1
          /\ UNCHANGED failed
       \/ /\ package' = Packages + 1
          /\ failed' = TRUE
          /\ UNCHANGED control
    /\ UNCHANGED <<mainvars, holder, actpc, command, tobroker, tomain,
                   fromdaemon, commands>>

ActUnlocks ==
    /\ actpc = "write"
    /\ package > Packages
    /\ holder' = Nobody
    /\ actpc' = "poll"
    /\ UNCHANGED <<mainvars, command, package, control, failed, tobroker,
                   tomain, fromdaemon, commands>>

\* The daemon's control loop commands a value.
DaemonActuates ==
    /\ commands < MaxCommands
    /\ commands' = commands + 1
    /\ \E v \in Powers :
           fromdaemon' = Append(fromdaemon, [type |-> "actuate", value |-> v])
    /\ UNCHANGED <<mainvars, holder, actvars, tobroker, tomain>>

GeopmMain ==
    \/ TimerLocks
    \/ TimerReads
    \/ TimerUnlocks
    \/ Remove
    \/ Removed
    \/ DestroyClient
    \/ DestroyLock

GeopmBroker ==
    \/ BrokerPipe
    \/ BrokerRpc
    \/ ActLocks
    \/ ActWrites
    \/ ActUnlocks

GeopmNext ==
    \/ TimerFires
    \/ LoopEnds
    \/ GeopmMain
    \/ GeopmBroker
    \/ DaemonActuates

(* Properties. *)

\* A command the broker has taken reaches every package, unless GEOPM refuses
\* one, while the timer keeps taking the same lock around its sends; and once
\* the loop has ended the requests of the cleanup are answered and the
\* program exits, although its broker may be in the callback: neither thread
\* ever waits for the other for good.
CommandsReachControl ==
    /\ \A v \in Powers :
           (actpc = "act" /\ command = v)
               ~> (failed \/ \A p \in 1..Packages : control[p] = v)
    /\ (mainpc = "remove") ~> (mainpc = "exited")
=============================================================================
