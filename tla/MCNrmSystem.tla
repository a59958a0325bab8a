---------------------------- MODULE MCNrmSystem ----------------------------
(***************************************************************************)
(* Small instances of NrmSystem for TLC.                                   *)
(***************************************************************************)
EXTENDS NrmSystem, TLC

CONSTANTS c1, c2, t1, t2, knob, dial

\* One thread per client, or two threads on one client.
OneThreadEach == (t1 :> c1) @@ (t2 :> c2)
TwoOnOne == (t1 :> c1) @@ (t2 :> c1)

\* A discrete and a continuous actuator.
Knob == [uuid |-> knob, type |-> "DISCRETE", choices |-> {1, 4}, value |-> 0]
Dial == [uuid |-> dial, type |-> "CONTINUOUS", min |-> 1, max |-> 2, value |-> 1]

\* The same uuid as described by another client.
Other == [uuid |-> knob, type |-> "CONTINUOUS", min |-> 0, max |-> 9, value |-> 3]

TwoKnobs == {Knob, Other}
KnobAndDial == {Knob, Dial}
NoOutput == <<>>
BothOutputs == <<knob, dial>>

\* A client that owns an actuator, and one that requests values.
ApiCommands ==
  (t1 :> {"add_actuator", "listen_commands"}) @@ (t2 :> {"add_actuator", "actuate"})

\* A sender and a listener of events; the sender also asks for ticks.
ApiEvents ==
  (t1 :> {"event", "tick"}) @@ (t2 :> {"event", "listen_events"})

\* Both clients manage objects.
ApiRegistry ==
  (t1 :> {"add", "list", "remove"}) @@ (t2 :> {"add", "find", "add_actuator"})

\* A client that drives the control loop, and the owner of its output.
ApiControl ==
  (t1 :> {"add_actuator", "listen_commands", "event"}) @@ (t2 :> {"tick", "add_actuator"})

\* Calls around the end of the daemon and of the clients.
ApiShutdown ==
  (t1 :> {"list", "exit"}) @@ (t2 :> {"tick", "destroy"})

ApiShared == (t1 :> {"list"}) @@ (t2 :> {"tick"})
ApiExit == (t1 :> {"exit", "list"}) @@ (t2 :> {})
ApiRemove == (t1 :> {"add", "remove"}) @@ (t2 :> {})
=============================================================================
