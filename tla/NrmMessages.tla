---------------------------- MODULE NrmMessages ----------------------------
(***************************************************************************)
(* The messages of src/messages.c.  A message is its type, the target type *)
(* of an ADD, LIST or REMOVE, and one argument.  Packing and unpacking a   *)
(* message (protobuf) keeps exactly these, so a message on the network is  *)
(* the same record.                                                        *)
(***************************************************************************)
EXTENDS Sequences, NrmActuator

CONSTANTS
  Clients,     \* nrm_client_t objects, one broker thread and one identity each
  NULL         \* no thread, no object, no argument

\* Objects other than actuators are known by their uuid only.
PlainTargets == {"SLICE", "SENSOR", "SCOPE"}

Targets == PlainTargets \cup {"ACTUATOR"}

\* An event is the n-th one its client sent; the ticks of the daemon's timer
\* come from NULL.
Event == [from : Clients \cup {NULL}, n : Nat]

Message ==
  [type : {"ACK", "EXIT", "TICK"}, target : {NULL}, arg : {NULL}] \cup
  [type : {"ADD"}, target : PlainTargets, arg : Uuids] \cup
  [type : {"ADD"}, target : {"ACTUATOR"}, arg : Actuator] \cup
  [type : {"LIST"}, target : Targets, arg : {NULL} \cup SUBSET Uuids] \cup
  [type : {"REMOVE"}, target : Targets, arg : Uuids] \cup
  [type : {"ACTUATE"}, target : {NULL}, arg : Uuids \X Int] \cup
  [type : {"EVENTS"}, target : {NULL}, arg : Event]

\* What the daemon sends to one client, and what it publishes.
ToClient == {m \in Message : m.type \in {"ACK", "ADD", "LIST", "ACTUATE"}}
ToListeners == {m \in Message : m.type = "EVENTS"}

nrm_msg_fill(type) == [type |-> type, target |-> NULL, arg |-> NULL]

nrm_msg_set_add(target, object) ==
  [type |-> "ADD", target |-> target, arg |-> object]

nrm_msg_set_list(target, uuids) ==
  [type |-> "LIST", target |-> target, arg |-> uuids]

nrm_msg_set_remove(target, uuid) ==
  [type |-> "REMOVE", target |-> target, arg |-> uuid]

nrm_msg_set_actuate(uuid, value) ==
  [type |-> "ACTUATE", target |-> NULL, arg |-> <<uuid, value>>]

nrm_msg_set_events(event) ==
  [type |-> "EVENTS", target |-> NULL, arg |-> event]

Ack == nrm_msg_fill("ACK")

\* A plausible slip: commands of the daemon pass for replies.
is_reply_NoActuate(m) == m.type # "TICK"

\* What separates, on the client's one connection, the replies to its
\* requests from the commands of the daemon.
nrm_msg_is_reply(m) == m.type \notin {"ACTUATE", "TICK"}

\* The topics nrmd publishes on; ZeroMQ delivers a message to the
\* subscriptions that are a prefix of its topic.
Topics == {"daemon", "daemon.events.raw"}

TopicMatches(subscription, topic) ==
  subscription = topic \/ subscription = "daemon"

\* Control messages on the pipe between a role and its broker thread.
ToClientBroker ==
  [ctrl : {"SEND"}, arg : Message] \cup
  [ctrl : {"SUB"}, arg : Topics] \cup
  [ctrl : {"TERM"}, arg : {NULL}]

FromControllerBroker == [from : Clients, msg : Message]

ToControllerBroker ==
  [ctrl : {"SEND"}, to : Clients, msg : ToClient] \cup
  [ctrl : {"PUB"}, to : Topics, msg : ToListeners] \cup
  [ctrl : {"TERM"}, to : {NULL}, msg : {NULL}]
=============================================================================
