----------------------------- MODULE NrmSystem -----------------------------
(***************************************************************************)
(* The clients, the network and the daemon together.                       *)
(***************************************************************************)
EXTENDS NrmClient, NrmServer

vars == <<clientVars, serverVars, netVars>>

Init == ClientInit /\ ServerInit /\ NetInit

Next ==
  \/ ClientNext /\ UNCHANGED serverVars
  \/ ServerNext /\ UNCHANGED clientVars
  \/ \E c \in Clients : SubscriptionArrives(c) /\ UNCHANGED <<clientVars, serverVars>>

Spec == Init /\ [][Next]_vars

\* Every loop (zloop polls all its sockets) and every thread inside a call
\* keeps running; nobody is obliged to start a call, to signal or to fire the
\* timer.
Fairness ==
  /\ \A c \in Clients :
       /\ WF_vars(nrm_client_broker_pipe_handler(c) /\ UNCHANGED serverVars)
       /\ WF_vars(nrm_client_broker_rpc_handler(c) /\ UNCHANGED serverVars)
       /\ WF_vars(nrm_controller_broker_rpc_handler(c) /\ UNCHANGED clientVars)
  /\ \A t \in Threads :
       /\ WF_vars(LockForReply(t) /\ UNCHANGED serverVars)
       /\ WF_vars(nrm_role_client_recv(t) /\ UNCHANGED serverVars)
  /\ WF_vars(Handler /\ UNCHANGED clientVars)
  /\ WF_vars(nrm_controller_broker_pipe_handler /\ UNCHANGED clientVars)

FairSpec == Spec /\ Fairness

\* Type invariant of the whole system: the pipes and connections carry
\* messages of the types src/messages.c builds, the registry and the threads'
\* program counters stay in range.
TypeOK == ClientTypeOK /\ ServerTypeOK /\ NetTypeOK

-----------------------------------------------------------------------------
(* Requests and replies *)

\* Client c is used by one thread only.
Unshared(c) == \A s, t \in Threads : ClientOf[s] = c /\ ClientOf[t] = c => s = t

\* The assertions of src/client.c on the reply of every call (lines 84, 113,
\* 144, 175, 206, 262, 421, 584, 746 and their like) hold, as long as one
\* thread uses the client and it has not asked the daemon to exit: a reply
\* overtakes nothing, and nothing but the reply comes up the pipe.
AssertsHoldUnshared ==
  \A c \in Clients : Unshared(c) /\ ~exitSent[c] => status[c] # "aborted"

\* The requests the daemon answers, and what a client takes for an answer.
Asking == {m \in Message : m.type # "EVENTS"}
Replies == {m \in Message : nrm_msg_is_reply(m)}
RepliesFor(r) == {m \in Replies : ReplyAccepted(r, m)}

AskingOnPipe == {h \in ToClientBroker : h.ctrl = "SEND" /\ h.arg \in Asking}
AskingFrom(c) == {h \in FromControllerBroker : h.from = c /\ h.msg \in Asking}
AnswersTo(c, M) == {h \in ToControllerBroker : h.ctrl = "SEND" /\ h.to = c /\ h.msg \in M}

\* Request r as it is on the pipes of its client and of the daemon.
Sent(r) == {[ctrl |-> "SEND", arg |-> r]}
Got(c, r) == {[from |-> c, msg |-> r]}

Stages == {"nowhere", "toBroker", "up", "ctlRecv", "loop", "ctlSend", "down", "fromBroker"}

Holds(here, q, S, M) == IF here THEN OneIn(q, S, M) ELSE NoneIn(q, S)

\* The control loop runs on behalf of client c.
Ticking(c) == loop # NULL /\ loop.from = c

\* Request r of client c, or its answer, is at stage s of the way to the
\* daemon and back, and no other request of c or answer to c is anywhere.
At(c, r, s) ==
  /\ Holds(s = "toBroker", toBroker[c], AskingOnPipe, Sent(r))
  /\ Holds(s = "up", up[c], Asking, {r})
  /\ Holds(s = "ctlRecv", ctlRecv, AskingFrom(c), Got(c, r))
  /\ IF s = "loop" THEN Ticking(c) /\ r.type = "TICK" ELSE ~Ticking(c)
  /\ Holds(s = "ctlSend", ctlSend, AnswersTo(c, Replies), AnswersTo(c, RepliesFor(r)))
  /\ Holds(s = "down", down[c], Replies, RepliesFor(r))
  /\ Holds(s = "fromBroker", fromBroker[c], Message, RepliesFor(r))

Live(c) == Unshared(c) /\ ~exitSent[c] /\ status[c] = "open"

\* Thread t waits for the answer to its request, which is somewhere on the way,
\* or is idle and nothing is.
Outstanding(t) ==
  IF pc[t] \in {"sent", "recv"}
  THEN /\ req[t] \in Asking /\ req[t].type # "EXIT"
       /\ \E s \in Stages : At(ClientOf[t], req[t], s)
  ELSE At(ClientOf[t], NULL, "nowhere")

\* A client used by one thread has at most one request under way, the one its
\* thread waits for, and the only message that can come up the pipe is a reply
\* the thread accepts (inductive form of AssertsHoldUnshared).
OneOutstanding == \A t \in Threads : Live(ClientOf[t]) => Outstanding(t)

\* The same assertions for every use the API allows.
AssertsHold == \A c \in Clients : status[c] # "aborted"

\* A call that waits for an answer gets it, unless the daemon leaves or the
\* client's process dies: no thread waits on the pipe (src/client.c:79) for
\* ever while both are there.
Answered ==
  \A t \in Threads :
    pc[t] = "sent" ~> \/ pc[t] = "idle"
                      \/ daemon # "running"
                      \/ status[ClientOf[t]] # "open"

\* The messages on their way to client c that it will take for replies.
RepliesTo(c) ==
  {ctlSend[i].msg : i \in {j \in DOMAIN ctlSend : /\ ctlSend[j].ctrl = "SEND" /\ ctlSend[j].to = c
                                                  /\ nrm_msg_is_reply(ctlSend[j].msg)}}
    \cup {down[c][i] : i \in {j \in DOMAIN down[c] : nrm_msg_is_reply(down[c][j])}}
    \cup {fromBroker[c][i] : i \in DOMAIN fromBroker[c]}

\* The numbers of the events from d among the first i of queue q.
NumbersOf(q, d, i) == {q[j].n : j \in {k \in 1 .. i : q[k].from = d}}

\* A LIST answers with everything the same client has added: its ADD was
\* handled before and the registry forgets nothing (src/server.c:165).
ListSeesAdds ==
  \A c \in Clients : Unshared(c) =>
    \A m \in RepliesTo(c) : m.type = "LIST" =>
      {a[2] : a \in {b \in added[c] : b[1] = m.target}} \subseteq m.arg

\* A reply to client c, a TICK's included, was sent after the daemon recorded
\* every event c sent before the request (src/client.c:676 needs no answer).
ReplyAfterEvents ==
  \A c \in Clients :
    /\ Unshared(c) /\ ~exitSent[c] /\ daemon \in {"running", "exiting"}
    /\ RepliesTo(c) # {}
    => NumbersOf(events, c, Len(events)) = 1 .. sent[c]

-----------------------------------------------------------------------------
(* Commands *)

\* The commands for actuator u on the daemon's pipe, and on the connection of
\* client c.
OnPipe(u) ==
  {i \in DOMAIN ctlSend : /\ ctlSend[i].ctrl = "SEND"
                          /\ ctlSend[i].msg.type = "ACTUATE"
                          /\ ctlSend[i].msg.arg[1] = u}

OnWire(c, u) ==
  {i \in DOMAIN down[c] : down[c][i].type = "ACTUATE" /\ down[c][i].arg[1] = u}

\* The value the daemon holds for an actuator is the one in the newest command
\* to the client that registered it; when none is on its way, it is the one
\* that client's listener was last given, or would have been if it had started
\* its listener, or the one the actuator was added with (src/server.c:46-54).
\* A daemon that crashed holds no value.
AgreeOnValue ==
  \A u \in Uuids : actuators[u] # NULL /\ daemon # "crashed" =>
    LET a == actuators[u]
        c == a.owner IN
    status[c] = "open" =>
      IF OnPipe(u) # {} THEN
        \E i \in OnPipe(u) : /\ \A j \in OnPipe(u) : j <= i
                             /\ ctlSend[i].to = c /\ ctlSend[i].msg.arg[2] = a.value
      ELSE IF OnWire(c, u) # {} THEN
        \E i \in OnWire(c, u) : /\ \A j \in OnWire(c, u) : j <= i
                                /\ down[c][i].arg[2] = a.value
      ELSE \/ u \in missed[c]
           \/ applied[c][u] = a.value
           \/ applied[c][u] = NULL /\ a.value = a.obj.value

\* An actuator's owner is never given a value its own object would refuse:
\* the daemon corrects what other clients and the control loop ask for, with
\* the object the owner registered (src/server.c:46, src/server.c:422).  It
\* cannot correct to limits out of order, or to no choice at all.
CommandsValid ==
  \A c \in Clients, u \in Uuids :
    /\ actuators[u] # NULL /\ actuators[u].owner = c /\ applied[c][u] # NULL
    /\ Correctable(actuators[u].obj)
    => nrm_actuator_validate_value(actuators[u].obj, applied[c][u])

\* When nrm_client_actuate returns, the owner's listener has already run.
AckMeansApplied ==
  [][\A t \in Threads :
       pc[t] = "recv" /\ pc'[t] = "idle" /\ req[t].type = "ACTUATE" =>
         LET u == req[t].arg[1] IN
         /\ actuators[u] # NULL
         /\ status[actuators[u].owner] = "open" /\ cmdcb[actuators[u].owner] = "set"
         => OnPipe(u) = {} /\ OnWire(actuators[u].owner, u) = {}]_vars

-----------------------------------------------------------------------------
(* Events *)

\* The eventbase gets the events of each client in the order they were sent,
\* none lost and none twice, whatever the other clients do: before the n-th
\* event of a client come the events 1 to n - 1 of that client.
EventsInOrder ==
  \A i \in DOMAIN events :
    NumbersOf(events, events[i].from, i - 1) = 1 .. events[i].n - 1

\* From the first one it hears, a listener hears the events of each client, and
\* the daemon's ticks, in order and without a gap (PUB to SUB, server.c:456):
\* before the n-th it has heard those from some m on, up to n - 1.
HeardContiguous ==
  \A c \in Clients : \A i \in DOMAIN heard[c] :
    LET e == heard[c][i] IN
    \E m \in 1 .. e.n : NumbersOf(heard[c], e.from, i - 1) = m .. e.n - 1

\* sub_cb.fn and sub_cb.arg are stored without a lock (roles/client.c:319), but
\* no published message can reach a broker before both are.
SubCallbackReady ==
  \A c \in Clients : status[c] = "open" /\ pubs[c] # <<>> => subcb[c] = "set"

-----------------------------------------------------------------------------
(* The end of the daemon *)

\* nrm_client_send_exit stops the daemon, unless the client goes away first.
ExitHonoured ==
  \A c \in Clients : exitSent[c] ~> daemon # "running" \/ status[c] # "open"

\* A daemon that leaves its loop terminates: its broker gets TERM behind the
\* messages still queued, and the main thread's wait ends.
ShutdownCompletes == daemon = "exiting" ~> daemon = "stopped"

\* A request to remove an object removes it.
RemoveRemoves ==
  [][\A t \in Threads :
       pc[t] = "recv" /\ pc'[t] = "idle" /\ req[t].type = "REMOVE" =>
         req[t].arg \notin nrm_state_list(req[t].target)]_vars
=============================================================================
