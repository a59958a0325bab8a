----------------------------- MODULE NrmServer -----------------------------
(***************************************************************************)
(* The daemon nrmd: the loop of its main thread (src/server.c with the     *)
(* callbacks of src/binaries/nrmd.c), the registry it keeps (src/state.c,  *)
(* src/utils/hashes.c) and the broker thread of its controller role        *)
(* (src/roles/controller.c) that owns the ROUTER and PUB sockets.          *)
(***************************************************************************)
EXTENDS NrmNet

CONSTANTS
  HwlocScopes,   \* scopes registered when the daemon starts
  Outputs,       \* actuators the control loop drives; <<>>: no control loop
  ControlValues, \* values the control law may compute
  MaxTimer,      \* bound: expirations of the daemon's timer
  Signals        \* whether SIGINT or SIGTERM may arrive

\* What the registry keeps of an actuator, and where nrmd_control_tick is.
Registered == [obj : Actuator, owner : Clients, value : Int]

ControlLoop == [k : DOMAIN Outputs, from : Clients \cup {NULL}]

ASSUME ServerAssumption ==
  /\ HwlocScopes \subseteq Uuids
  /\ Outputs \in Seq(Uuids)
  /\ \A i, j \in DOMAIN Outputs : Outputs[i] = Outputs[j] => i = j
  /\ ControlValues \subseteq Int
  /\ MaxTimer \in Nat
  /\ Signals \in BOOLEAN
  /\ NULL \notin Registered \cup ControlLoop

VARIABLES
  daemon,      \* life of the daemon process
  objects,     \* objects[target]: uuids of the slices, sensors and scopes
  actuators,   \* actuators[u]: the registered actuator, its owner and value
  loop,        \* where nrmd_control_tick is, NULL when it is not running
  ctlRecv,     \* the pipe from the controller broker to the server
  ctlSend,     \* the pipe from the server to the controller broker
  events,      \* the events pushed in the eventbase, in order
  timer        \* expirations of the timer, bounded by MaxTimer

stateVars == <<objects, actuators>>
serverVars == <<daemon, objects, actuators, loop, ctlRecv, ctlSend, events, timer>>

ServerTypeOK ==
  /\ daemon \in {"running", "exiting", "closing", "stopped", "crashed"}
  /\ objects \in [PlainTargets -> SUBSET Uuids]
  /\ actuators \in [Uuids -> Registered \cup {NULL}]
  /\ loop \in ControlLoop \cup {NULL}
  /\ ctlRecv \in Seq(FromControllerBroker)
  /\ ctlSend \in Seq(ToControllerBroker)
  /\ events \in Seq(Event)
  /\ timer \in 0..MaxTimer

\* nrm_state_create is an empty registry, nrm_scope_hwloc_scopes fills it.
ServerInit ==
  /\ daemon = "running"
  /\ objects = [target \in PlainTargets |->
                  IF target = "SCOPE" THEN HwlocScopes ELSE {}]
  /\ actuators = [u \in Uuids |-> NULL]
  /\ loop = NULL
  /\ ctlRecv = <<>>
  /\ ctlSend = <<>>
  /\ events = <<>>
  /\ timer = 0

-----------------------------------------------------------------------------
(* The registry.  nrm_hash_add refuses a uuid that is already there and    *)
(* nrm_state_add_* ignore that, so the first object stays.                 *)

\* A plausible slip: the last object added stays.
nrm_state_add_actuator_Replace(u, x) == actuators' = [actuators EXCEPT ![u] = x]

nrm_state_add_actuator(u, x) ==
  actuators' = IF actuators[u] # NULL THEN actuators ELSE [actuators EXCEPT ![u] = x]

nrm_state_add(target, u) ==
  objects' = [objects EXCEPT ![target] = @ \cup {u}]

\* A plausible slip: the iteration stops before the last element.
nrm_state_list_Short(target) ==
  LET all == IF target = "ACTUATOR" THEN {u \in Uuids : actuators[u] # NULL}
                                    ELSE objects[target] IN
  IF all = {} THEN {} ELSE all \ {CHOOSE u \in all : TRUE}

nrm_state_list(target) ==
  IF target = "ACTUATOR" THEN {u \in Uuids : actuators[u] # NULL} ELSE objects[target]

\* nrm_hash_remove hands HASH_FIND the address of its local pointer and not
\* the key: the bytes of a pointer end in two NULs and never equal a uuid of
\* seven characters or more, so nothing is found and nothing is removed.
\* The callers ignore the result; nrm_state_remove_scope then destroys the
\* NULL it got, which dereferences it.
nrm_hash_remove_found(target, u) == FALSE

nrm_state_remove_crashes(target, u) ==
  target = "SCOPE" /\ ~nrm_hash_remove_found(target, u)

-----------------------------------------------------------------------------
(* Handlers of the server's loop.  Each runs to completion; a message it   *)
(* sends is pushed on the unbounded pipe to the broker.                    *)

Send(to, m) == [ctrl |-> "SEND", to |-> to, msg |-> m]
Pub(topic, m) == [ctrl |-> "PUB", to |-> topic, msg |-> m]
Term == [ctrl |-> "TERM", to |-> NULL, msg |-> NULL]

nrm_server_role_callback(type) ==
  /\ daemon = "running" /\ loop = NULL
  /\ ctlRecv # <<>> /\ Head(ctlRecv).msg.type = type
  /\ ctlRecv' = Tail(ctlRecv)

From == Head(ctlRecv).from
Received == Head(ctlRecv).msg

\* The common part of actuate_callback and nrm_server_actuate: the value is
\* corrected and stored, and the client that registered the actuator is
\* commanded to apply it.
SetValue(u, v) ==
  actuators' = [actuators EXCEPT ![u].value =
                  nrm_actuator_corrected_value(actuators[u].obj, v)]

\* Plausible slips: the command carries the value before correction, or is
\* filled with the type of the answer.
Command_Uncorrected(u, v) == Send(actuators[u].owner, nrm_msg_set_actuate(u, v))
Command_AsAck(u, v) == Send(actuators[u].owner, Ack)

Command(u, v) ==
  Send(actuators[u].owner,
       nrm_msg_set_actuate(u, nrm_actuator_corrected_value(actuators[u].obj, v)))

\* nrmd_actuate_callback allows every action.  The requester gets its ACK
\* whether or not the actuator exists.
nrm_server_actuate_callback ==
  LET u == Received.arg[1]
      v == Received.arg[2] IN
  /\ nrm_server_role_callback("ACTUATE")
  /\ \/ /\ actuators[u] # NULL
        /\ SetValue(u, v)
        /\ ctlSend' = Append(Append(ctlSend, Command(u, v)), Send(From, Ack))
     \/ /\ actuators[u] = NULL
        /\ ctlSend' = Append(ctlSend, Send(From, Ack))
        /\ UNCHANGED actuators
  /\ UNCHANGED <<daemon, objects, loop, events, timer, netVars>>

\* A client's message carries one event.  nrmd_event_callback stores it and
\* publishes it; there is no answer.
nrm_server_events_callback ==
  /\ nrm_server_role_callback("EVENTS")
  /\ events' = Append(events, Received.arg)
  /\ ctlSend' = Append(ctlSend, Pub("daemon.events.raw", Received))
  /\ UNCHANGED <<daemon, stateVars, loop, timer, netVars>>

\* The answer repeats the object of the request, registered or refused.
nrm_server_add_callback ==
  /\ nrm_server_role_callback("ADD")
  /\ \/ /\ Received.target = "ACTUATOR"
        /\ nrm_state_add_actuator(Received.arg.uuid,
             [obj |-> Received.arg, owner |-> From, value |-> Received.arg.value])
        /\ UNCHANGED objects
     \/ /\ Received.target # "ACTUATOR"
        /\ nrm_state_add(Received.target, Received.arg)
        /\ UNCHANGED actuators
  /\ ctlSend' = Append(ctlSend, Send(From, Received))
  /\ UNCHANGED <<daemon, loop, events, timer, netVars>>

nrm_server_list_callback ==
  /\ nrm_server_role_callback("LIST")
  /\ ctlSend' = Append(ctlSend, Send(From,
       nrm_msg_set_list(Received.target, nrm_state_list(Received.target))))
  /\ UNCHANGED <<daemon, stateVars, loop, events, timer, netVars>>

Crash ==
  /\ daemon' = "crashed"
  /\ ctlSend' = <<>>
  /\ CloseServerSockets

\* Nothing is found to remove: the request is acknowledged, or the daemon
\* crashes.
nrm_server_remove_callback ==
  /\ nrm_server_role_callback("REMOVE")
  /\ \/ /\ nrm_state_remove_crashes(Received.target, Received.arg)
        /\ Crash
     \/ /\ ~nrm_state_remove_crashes(Received.target, Received.arg)
        /\ ctlSend' = Append(ctlSend, Send(From, Ack))
        /\ UNCHANGED <<daemon, netVars>>
  /\ UNCHANGED <<stateVars, loop, events, timer>>

\* A plausible slip: the handler returns 0.
nrm_server_exit_callback_Stays ==
  /\ nrm_server_role_callback("EXIT")
  /\ ctlSend' = Append(ctlSend, Send(From, Ack))
  /\ UNCHANGED <<daemon, stateVars, loop, events, timer, netVars>>

nrm_server_exit_callback ==
  /\ nrm_server_role_callback("EXIT")
  /\ ctlSend' = Append(ctlSend, Send(From, Ack))
  /\ daemon' = "exiting"
  /\ UNCHANGED <<stateVars, loop, events, timer, netVars>>

\* Entering nrmd_control_tick on behalf of a client, or of the timer (NULL).
StartControl(from) == loop' = [k |-> 1, from |-> from]

\* A plausible slip: no ACK without a control loop.
nrm_server_tick_callback_Silent ==
  /\ nrm_server_role_callback("TICK")
  /\ IF Outputs # <<>> THEN StartControl(From) ELSE UNCHANGED loop
  /\ UNCHANGED <<daemon, stateVars, ctlSend, events, timer, netVars>>

\* The ACK follows the tick; without a control loop the tick does nothing.
nrm_server_tick_callback ==
  /\ nrm_server_role_callback("TICK")
  /\ \/ /\ Outputs # <<>>
        /\ StartControl(From)
        /\ UNCHANGED ctlSend
     \/ /\ Outputs = <<>>
        /\ ctlSend' = Append(ctlSend, Send(From, Ack))
        /\ UNCHANGED loop
  /\ UNCHANGED <<daemon, stateVars, events, timer, netVars>>

nrm_server_timer_callback ==
  /\ daemon = "running" /\ loop = NULL
  /\ timer < MaxTimer
  /\ timer' = timer + 1
  /\ ctlSend' = Append(ctlSend,
       Pub("daemon", nrm_msg_set_events([from |-> NULL, n |-> timer + 1])))
  /\ IF Outputs # <<>> THEN StartControl(NULL) ELSE UNCHANGED loop
  /\ UNCHANGED <<daemon, stateVars, ctlRecv, events, netVars>>

\* One iteration of the loop that updates the actuators.  The control law
\* changes the value of the first output only, or of none when it returns
\* early; the others are sent their own value again.  An output that is not
\* registered is skipped.
NewValues(k) ==
  (IF k = 1 THEN ControlValues ELSE {}) \cup {actuators[Outputs[k]].value}

\* A plausible slip: the iteration goes one past the end.
LastOutput_Late == loop.k > Len(Outputs)

LastOutput == loop.k = Len(Outputs)

AckTick(pipe) ==
  IF LastOutput /\ loop.from # NULL THEN Append(pipe, Send(loop.from, Ack)) ELSE pipe

nrm_server_actuate ==
  LET u == Outputs[loop.k] IN
  /\ daemon = "running" /\ loop # NULL
  /\ \/ /\ actuators[u] # NULL
        /\ \E v \in NewValues(loop.k) :
             /\ SetValue(u, v)
             /\ ctlSend' = AckTick(Append(ctlSend, Command(u, v)))
     \/ /\ actuators[u] = NULL
        /\ ctlSend' = AckTick(ctlSend)
        /\ UNCHANGED actuators
  /\ loop' = IF LastOutput THEN NULL ELSE [loop EXCEPT !.k = @ + 1]
  /\ UNCHANGED <<daemon, objects, ctlRecv, events, timer, netVars>>

\* nrmd sets no signal callback: the default is to leave the loop.
nrm_server_signal_callback ==
  /\ Signals
  /\ daemon = "running" /\ loop = NULL
  /\ daemon' = "exiting"
  /\ UNCHANGED <<stateVars, loop, ctlRecv, ctlSend, events, timer, netVars>>

\* A plausible slip: the broker is not told.
nrm_server_destroy_NoTerm ==
  /\ daemon = "exiting"
  /\ daemon' = "closing"
  /\ objects' = [target \in PlainTargets |-> {}]
  /\ actuators' = [u \in Uuids |-> NULL]
  /\ events' = <<>>
  /\ UNCHANGED <<loop, ctlRecv, ctlSend, timer, netVars>>

\* The end of main: eventbase and registry are destroyed, then the role,
\* which sends TERM to the broker behind everything already queued.
nrm_server_destroy ==
  /\ daemon = "exiting"
  /\ daemon' = "closing"
  /\ objects' = [target \in PlainTargets |-> {}]
  /\ actuators' = [u \in Uuids |-> NULL]
  /\ events' = <<>>
  /\ ctlSend' = Append(ctlSend, Term)
  /\ UNCHANGED <<loop, ctlRecv, timer, netVars>>

-----------------------------------------------------------------------------
(* Handlers of the controller broker's loop *)

ControllerRuns == daemon \in {"running", "exiting", "closing"}

nrm_controller_broker_rpc_handler(c) ==
  /\ ControllerRuns /\ up[c] # <<>>
  /\ up' = [up EXCEPT ![c] = Tail(@)]
  /\ ctlRecv' = Append(ctlRecv, [from |-> c, msg |-> Head(up[c])])
  /\ UNCHANGED <<daemon, stateVars, loop, ctlSend, events, timer,
                 down, pubs, wanted, topics, connected, serving>>

nrm_controller_broker_pipe_handler ==
  LET h == Head(ctlSend) IN
  /\ ControllerRuns /\ ctlSend # <<>>
  /\ ctlSend' = Tail(ctlSend)
  /\ \/ /\ h.ctrl = "SEND"
        /\ nrm_msg_sendto(h.to, h.msg)
        /\ UNCHANGED <<daemon, up, pubs, wanted, topics, connected, serving>>
     \/ /\ h.ctrl = "PUB"
        /\ nrm_msg_pub(h.to, h.msg)
        /\ UNCHANGED <<daemon, up, down, wanted, topics, connected, serving>>
     \/ /\ h.ctrl = "TERM"
        /\ daemon' = "stopped"
        /\ CloseServerSockets
  /\ UNCHANGED <<stateVars, loop, ctlRecv, events, timer>>

Handler ==
  \/ nrm_server_actuate_callback
  \/ nrm_server_events_callback
  \/ nrm_server_add_callback
  \/ nrm_server_list_callback
  \/ nrm_server_remove_callback
  \/ nrm_server_exit_callback
  \/ nrm_server_tick_callback
  \/ nrm_server_actuate
  \/ nrm_server_destroy

ServerNext ==
  \/ Handler
  \/ nrm_server_timer_callback
  \/ nrm_server_signal_callback
  \/ \E c \in Clients : nrm_controller_broker_rpc_handler(c)
  \/ nrm_controller_broker_pipe_handler
=============================================================================
