----------------------------- MODULE NrmClient -----------------------------
(***************************************************************************)
(* Clients: the application threads that call the API of src/client.c on a *)
(* shared nrm_client_t, and the broker thread of each client               *)
(* (src/roles/client.c) that owns its sockets.  A thread and the broker    *)
(* exchange messages on the two directions of a pipe.                      *)
(*                                                                         *)
(* A call that sends locks the client, pushes one message on the unbounded *)
(* pipe and unlocks: one step.  A call that expects an answer then takes   *)
(* the lock AGAIN and holds it while it waits for a message on the pipe:   *)
(* taking the lock and receiving are two steps.                            *)
(***************************************************************************)
EXTENDS NrmNet

CONSTANTS
  Threads,        \* application threads
  ClientOf,       \* the client each thread uses
  Api,            \* Api[t]: the calls thread t makes
  Objects,        \* the actuators clients may describe in an ADD
  RequestValues,  \* the values the applications ask for
  RequestTargets, \* the kinds of objects they add, list and remove
  MaxCalls        \* bound: calls a thread makes

Calls == {"actuate", "add_actuator", "add", "find", "list", "remove", "event",
          "exit", "tick", "listen_commands", "listen_events", "destroy"}

ASSUME ClientAssumption ==
  /\ ClientOf \in [Threads -> Clients]
  /\ Api \in [Threads -> SUBSET Calls]
  /\ Objects \subseteq Actuator
  /\ RequestValues \subseteq Int
  /\ RequestTargets \subseteq Targets
  /\ MaxCalls \in Nat
  /\ NULL \notin Clients \cup Threads \cup Int \cup Message \cup Targets

VARIABLES
  status,      \* status[c]: life of the client and its process
  lock,        \* lock[c]: the thread that holds client->lock
  pc,          \* pc[t]: where thread t is in an API call
  req,         \* req[t]: the request thread t waits an answer for
  toBroker,    \* toBroker[c]: the pipe, from the threads to the broker
  fromBroker,  \* fromBroker[c]: the pipe, from the broker to the threads
  cmdcb,       \* cmdcb[c]: cmd_cb, unset, with fn only, or with fn and arg
  subcb,       \* subcb[c]: sub_cb, likewise
  calls,       \* calls[t]: calls made, bounded by MaxCalls
  added,       \* added[c]: <<target, uuid>> whose ADD returned 0
  sent,        \* sent[c]: number of events sent
  exitSent,    \* exitSent[c]: nrm_client_send_exit was called
  applied,     \* applied[c][u]: last value the actuate listener was given
  missed,      \* missed[c]: actuators whose last command found no listener
  heard        \* heard[c]: events the event listener was given

threadVars == <<lock, pc, req, calls, added, sent, exitSent>>
brokerVars == <<applied, missed, heard>>
clientVars == <<status, lock, pc, req, toBroker, fromBroker, cmdcb, subcb,
                calls, added, sent, exitSent, applied, missed, heard>>

ClientTypeOK ==
  /\ status \in [Clients -> {"open", "closing", "closed", "aborted", "segv"}]
  /\ lock \in [Clients -> Threads \cup {NULL}]
  /\ pc \in [Threads -> {"idle", "sent", "recv", "cmd_arg", "sub_arg"}]
  /\ req \in [Threads -> Message \cup {NULL}]
  /\ toBroker \in [Clients -> Seq(ToClientBroker)]
  /\ fromBroker \in [Clients -> Seq(ToClient)]
  /\ cmdcb \in [Clients -> {"unset", "fn", "set"}]
  /\ subcb \in [Clients -> {"unset", "fn", "set"}]
  /\ calls \in [Threads -> 0..MaxCalls]
  /\ added \in [Clients -> SUBSET (Targets \X Uuids)]
  /\ sent \in [Clients -> Nat]
  /\ exitSent \in [Clients -> BOOLEAN]
  /\ applied \in [Clients -> [Uuids -> Int \cup {NULL}]]
  /\ missed \in [Clients -> SUBSET Uuids]
  /\ heard \in [Clients -> Seq(Event)]

ClientInit ==
  /\ status = [c \in Clients |-> "open"]
  /\ lock = [c \in Clients |-> NULL]
  /\ pc = [t \in Threads |-> "idle"]
  /\ req = [t \in Threads |-> NULL]
  /\ toBroker = [c \in Clients |-> <<>>]
  /\ fromBroker = [c \in Clients |-> <<>>]
  /\ cmdcb = [c \in Clients |-> "unset"]
  /\ subcb = [c \in Clients |-> "unset"]
  /\ calls = [t \in Threads |-> 0]
  /\ added = [c \in Clients |-> {}]
  /\ sent = [c \in Clients |-> 0]
  /\ exitSent = [c \in Clients |-> FALSE]
  /\ applied = [c \in Clients |-> [u \in Uuids |-> NULL]]
  /\ missed = [c \in Clients |-> {}]
  /\ heard = [c \in Clients |-> <<>>]

-----------------------------------------------------------------------------
(* Calls of the application threads *)

CanCall(t, call) ==
  /\ pc[t] = "idle" /\ status[ClientOf[t]] = "open"
  /\ call \in Api[t] /\ calls[t] < MaxCalls
  /\ calls' = [calls EXCEPT ![t] = @ + 1]

\* A plausible slip: what needs no answer waits behind what does.
nrm_ctrlmsg_send_Urgent(c, ctrl, arg) ==
  toBroker' = [toBroker EXCEPT ![c] =
    IF ctrl = "SEND" /\ arg.type # "EVENTS"
    THEN <<[ctrl |-> ctrl, arg |-> arg]>> \o @
    ELSE Append(@, [ctrl |-> ctrl, arg |-> arg])]

nrm_ctrlmsg_send(c, ctrl, arg) ==
  toBroker' = [toBroker EXCEPT ![c] = Append(@, [ctrl |-> ctrl, arg |-> arg])]

\* Lock, send, unlock.  The thread of a call with an answer goes on to wait.
nrm_role_client_send(t, m) ==
  /\ lock[ClientOf[t]] = NULL
  /\ nrm_ctrlmsg_send(ClientOf[t], "SEND", m)
  /\ UNCHANGED <<status, lock, fromBroker, cmdcb, subcb, added, brokerVars, netVars>>

Request(t, call, m) ==
  /\ CanCall(t, call)
  /\ nrm_role_client_send(t, m)
  /\ pc' = [pc EXCEPT ![t] = "sent"]
  /\ req' = [req EXCEPT ![t] = m]
  /\ UNCHANGED <<sent, exitSent>>

\* A value the caller's own actuator object refuses is not sent.
nrm_client_actuate(t, a, v) ==
  /\ nrm_actuator_validate_value(a, v)
  /\ Request(t, "actuate", nrm_msg_set_actuate(a.uuid, v))

nrm_client_add_actuator(t, a) ==
  Request(t, "add_actuator", nrm_msg_set_add("ACTUATOR", a))

nrm_client_add(t, target, u) ==
  Request(t, "add", nrm_msg_set_add(target, u))

nrm_client_list(t, target) == Request(t, "list", nrm_msg_set_list(target, NULL))

\* It asks for the whole list and picks from the answer.
nrm_client_find(t, target) == Request(t, "find", nrm_msg_set_list(target, NULL))

nrm_client_remove(t, target, u) ==
  Request(t, "remove", nrm_msg_set_remove(target, u))

nrm_client_send_tick(t) == Request(t, "tick", nrm_msg_fill("TICK"))

\* No answer is expected, and none is sent.
nrm_client_send_event(t) ==
  LET c == ClientOf[t] IN
  /\ CanCall(t, "event")
  /\ nrm_role_client_send(t, nrm_msg_set_events([from |-> c, n |-> sent[c] + 1]))
  /\ sent' = [sent EXCEPT ![c] = @ + 1]
  /\ UNCHANGED <<pc, req, exitSent>>

\* No answer is expected, though the daemon sends one.
nrm_client_send_exit(t) ==
  /\ CanCall(t, "exit")
  /\ nrm_role_client_send(t, nrm_msg_fill("EXIT"))
  /\ exitSent' = [exitSent EXCEPT ![ClientOf[t]] = TRUE]
  /\ UNCHANGED <<pc, req, sent>>

\* The second critical section of a call: lock, then wait in zsock_recv.
LockForReply(t) ==
  LET c == ClientOf[t] IN
  /\ pc[t] = "sent" /\ status[c] = "open" /\ lock[c] = NULL
  /\ lock' = [lock EXCEPT ![c] = t]
  /\ pc' = [pc EXCEPT ![t] = "recv"]
  /\ UNCHANGED <<status, req, toBroker, fromBroker, cmdcb, subcb, calls, added,
                 sent, exitSent, brokerVars, netVars>>

\* The assertions of the API functions on the message they receive.
ReplyAccepted(request, m) ==
  IF request.type \in {"ADD", "LIST"}
  THEN m.type = request.type /\ m.target = request.target
  ELSE m.type = "ACK"

UuidOf(m) == IF m.target = "ACTUATOR" THEN m.arg.uuid ELSE m.arg

\* A message arrives on the pipe; an assertion that fails aborts the process.
nrm_role_client_recv(t) ==
  LET c == ClientOf[t]
      m == Head(fromBroker[c]) IN
  /\ pc[t] = "recv" /\ status[c] = "open" /\ fromBroker[c] # <<>>
  /\ fromBroker' = [fromBroker EXCEPT ![c] = Tail(@)]
  /\ lock' = [lock EXCEPT ![c] = NULL]
  /\ pc' = [pc EXCEPT ![t] = "idle"]
  /\ req' = [req EXCEPT ![t] = NULL]
  /\ IF ReplyAccepted(req[t], m)
     THEN /\ added' = IF m.type = "ADD"
                      THEN [added EXCEPT ![c] = @ \cup {<<m.target, UuidOf(m)>>}]
                      ELSE added
          /\ UNCHANGED <<status, netVars>>
     ELSE /\ status' = [status EXCEPT ![c] = "aborted"]
          /\ CloseClientSockets(c)
          /\ UNCHANGED added
  /\ UNCHANGED <<toBroker, cmdcb, subcb, calls, sent, exitSent, brokerVars>>

\* set_ and start_actuate_listener: cmd_cb.fn is stored, then cmd_cb.arg,
\* while the broker may read both.
nrm_role_client_register_cmd_cb(t) ==
  LET c == ClientOf[t] IN
  /\ CanCall(t, "listen_commands")
  /\ cmdcb[c] = "unset"
  /\ cmdcb' = [cmdcb EXCEPT ![c] = "fn"]
  /\ pc' = [pc EXCEPT ![t] = "cmd_arg"]
  /\ UNCHANGED <<status, lock, req, toBroker, fromBroker, subcb, added, sent,
                 exitSent, brokerVars, netVars>>

register_cmd_cb_arg(t) ==
  LET c == ClientOf[t] IN
  /\ pc[t] = "cmd_arg" /\ status[c] = "open"
  /\ cmdcb' = [cmdcb EXCEPT ![c] = "set"]
  /\ pc' = [pc EXCEPT ![t] = "idle"]
  /\ UNCHANGED <<status, lock, req, toBroker, fromBroker, subcb, calls, added,
                 sent, exitSent, brokerVars, netVars>>

\* A plausible slip: the topic goes to the broker before sub_cb.arg is stored.
register_sub_cb_TopicFirst(t) ==
  LET c == ClientOf[t] IN
  /\ CanCall(t, "listen_events")
  /\ subcb' = [subcb EXCEPT ![c] = IF @ = "set" THEN "set" ELSE "fn"]
  /\ pc' = [pc EXCEPT ![t] = "sub_arg"]
  /\ nrm_ctrlmsg_send(c, "SUB", "daemon")
  /\ UNCHANGED <<status, lock, req, fromBroker, cmdcb, added, sent,
                 exitSent, brokerVars, netVars>>

\* set_ and start_event_listener: sub_cb.fn, sub_cb.arg, then the topic goes
\* to the broker, without taking the lock.
nrm_role_client_register_sub_cb(t) ==
  LET c == ClientOf[t] IN
  /\ CanCall(t, "listen_events")
  /\ subcb' = [subcb EXCEPT ![c] = IF @ = "set" THEN "set" ELSE "fn"]
  /\ pc' = [pc EXCEPT ![t] = "sub_arg"]
  /\ UNCHANGED <<status, lock, req, toBroker, fromBroker, cmdcb, added, sent,
                 exitSent, brokerVars, netVars>>

nrm_role_client_sub(t, topic) ==
  LET c == ClientOf[t] IN
  /\ pc[t] = "sub_arg" /\ status[c] = "open"
  /\ subcb' = [subcb EXCEPT ![c] = "set"]
  /\ nrm_ctrlmsg_send(c, "SUB", topic)
  /\ pc' = [pc EXCEPT ![t] = "idle"]
  /\ UNCHANGED <<status, lock, req, fromBroker, cmdcb, calls, added, sent, exitSent,
                 brokerVars, netVars>>

\* Called once no thread uses the client any more.
nrm_client_destroy(t) ==
  LET c == ClientOf[t] IN
  /\ CanCall(t, "destroy")
  /\ \A s \in Threads : ClientOf[s] = c => pc[s] = "idle"
  /\ status' = [status EXCEPT ![c] = "closing"]
  /\ nrm_ctrlmsg_send(c, "TERM", NULL)
  /\ UNCHANGED <<lock, pc, req, fromBroker, cmdcb, subcb, added, sent, exitSent,
                 brokerVars, netVars>>

-----------------------------------------------------------------------------
(* Handlers of the broker thread's loop *)

BrokerRuns(c) == status[c] \in {"open", "closing"}

nrm_client_broker_pipe_handler(c) ==
  LET h == Head(toBroker[c]) IN
  /\ BrokerRuns(c) /\ toBroker[c] # <<>>
  /\ toBroker' = [toBroker EXCEPT ![c] = Tail(@)]
  /\ \/ /\ h.ctrl = "SEND"
        /\ nrm_msg_send(c, h.arg)
        /\ UNCHANGED <<status, down, pubs, wanted, topics, connected, serving>>
     \/ /\ h.ctrl = "SUB"
        /\ nrm_net_sub_set_topic(c, h.arg)
        /\ UNCHANGED <<status, up, down, pubs, topics, connected, serving>>
     \/ /\ h.ctrl = "TERM"
        /\ status' = [status EXCEPT ![c] = "closed"]
        /\ CloseClientSockets(c)
  /\ UNCHANGED <<threadVars, fromBroker, cmdcb, subcb, brokerVars>>

\* A command meets no callback, a callback whose argument is not there yet
\* (it dereferences NULL), or the application's listener.
CommandCallback(c, u, v) ==
  \/ /\ cmdcb[c] = "unset"
     /\ missed' = [missed EXCEPT ![c] = @ \cup {u}]
     /\ down' = [down EXCEPT ![c] = Tail(@)]
     /\ UNCHANGED <<status, applied, up, pubs, wanted, topics, connected, serving>>
  \/ /\ cmdcb[c] = "fn"
     /\ status' = [status EXCEPT ![c] = "segv"]
     /\ CloseClientSockets(c)
     /\ UNCHANGED <<missed, applied>>
  \/ /\ cmdcb[c] = "set"
     /\ applied' = [applied EXCEPT ![c][u] = v]
     /\ missed' = [missed EXCEPT ![c] = @ \ {u}]
     /\ down' = [down EXCEPT ![c] = Tail(@)]
     /\ UNCHANGED <<status, up, pubs, wanted, topics, connected, serving>>

nrm_client_broker_rpc_handler(c) ==
  LET m == Head(down[c]) IN
  /\ BrokerRuns(c) /\ down[c] # <<>>
  /\ IF nrm_msg_is_reply(m)
     THEN /\ down' = [down EXCEPT ![c] = Tail(@)]
          /\ fromBroker' = [fromBroker EXCEPT ![c] = Append(@, m)]
          /\ UNCHANGED <<status, applied, missed, up, pubs, wanted, topics,
                         connected, serving>>
     ELSE /\ CommandCallback(c, m.arg[1], m.arg[2])
          /\ UNCHANGED fromBroker
  /\ UNCHANGED <<threadVars, toBroker, cmdcb, subcb, heard>>

\* As for commands; without a callback the message is dropped.
nrm_client_broker_sub_handler(c) ==
  LET m == Head(pubs[c]) IN
  /\ BrokerRuns(c) /\ pubs[c] # <<>>
  /\ IF subcb[c] = "fn"
     THEN /\ status' = [status EXCEPT ![c] = "segv"]
          /\ CloseClientSockets(c)
          /\ UNCHANGED heard
     ELSE /\ heard' = IF subcb[c] = "set"
                      THEN [heard EXCEPT ![c] = Append(@, m.arg)] ELSE heard
          /\ pubs' = [pubs EXCEPT ![c] = Tail(@)]
          /\ UNCHANGED <<status, up, down, wanted, topics, connected, serving>>
  /\ UNCHANGED <<threadVars, toBroker, fromBroker, cmdcb, subcb, applied, missed>>

ThreadNext(t) ==
  \/ \E a \in Objects, v \in RequestValues : nrm_client_actuate(t, a, v)
  \/ \E a \in Objects : nrm_client_add_actuator(t, a)
  \/ \E target \in RequestTargets \cap PlainTargets, u \in Uuids : nrm_client_add(t, target, u)
  \/ \E target \in RequestTargets : nrm_client_list(t, target)
  \/ \E target \in RequestTargets : nrm_client_find(t, target)
  \/ \E target \in RequestTargets, u \in Uuids : nrm_client_remove(t, target, u)
  \/ nrm_client_send_tick(t)
  \/ nrm_client_send_event(t)
  \/ nrm_client_send_exit(t)
  \/ LockForReply(t)
  \/ nrm_role_client_recv(t)
  \/ nrm_role_client_register_cmd_cb(t)
  \/ register_cmd_cb_arg(t)
  \/ nrm_role_client_register_sub_cb(t)
  \/ \E topic \in Topics : nrm_role_client_sub(t, topic)
  \/ nrm_client_destroy(t)

BrokerNext(c) ==
  \/ nrm_client_broker_pipe_handler(c)
  \/ nrm_client_broker_rpc_handler(c)
  \/ nrm_client_broker_sub_handler(c)

ClientNext ==
  \/ \E t \in Threads : ThreadNext(t)
  \/ \E c \in Clients : BrokerNext(c)
=============================================================================
