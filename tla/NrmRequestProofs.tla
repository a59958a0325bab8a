-------------------------- MODULE NrmRequestProofs --------------------------
(***************************************************************************)
(* Requests and replies: what the threads and the brokers of the clients,  *)
(* and the broker and the handlers of the daemon do with them; the replies *)
(* on their way to a client, the exit it asks for, and what it is told of  *)
(* the registry.                                                           *)
(***************************************************************************)
EXTENDS NrmSystemProofs

\* Time for the provers in a large context.
USE ZenonT(8), SMTT(60)

-----------------------------------------------------------------------------
(* The steps of the client's broker *)

\* The broker takes the next control message of its pipe: a request goes on to
\* the connection, or is lost when the daemon is gone.
LEMMA ClientPipeMoves ==
  ASSUME TypeOK, NEW c \in Clients, NEW r \in Asking, NEW s \in Stages, At(c, r, s),
         NEW d \in Clients, nrm_client_broker_pipe_handler(d), UNCHANGED serverVars,
         status'[c] = "open"
  PROVE  Moves(c, r, s)
<1> DEFINE h == Head(toBroker[d])
<1>0. ClientTypeOK /\ NetTypeOK
  BY DEF TypeOK
<1>1. /\ toBroker[d] # <<>> /\ toBroker' = [toBroker EXCEPT ![d] = Tail(@)]
      /\ fromBroker' = fromBroker /\ ctlRecv' = ctlRecv /\ ctlSend' = ctlSend /\ loop' = loop
  BY DEF nrm_client_broker_pipe_handler, serverVars
<1>2. CASE d # c
  <2>1. toBroker'[c] = toBroker[c] /\ up'[c] = up[c] /\ down'[c] = down[c]
    BY <1>0, <1>2 DEF nrm_client_broker_pipe_handler, ClientTypeOK, NetTypeOK, nrm_msg_send,
       CloseClientSockets
  <2> QED  BY <1>1, <2>1, AtFrame DEF Moves
<1>3. CASE d = c
  <2>1. toBroker[c] \in Seq(ToClientBroker) /\ up[c] \in Seq(Message) /\ h \in ToClientBroker
    BY <1>0, <1>1, <1>3, QueueTypes DEF ClientTypeOK, NetTypeOK
  <2>2. toBroker[c] # <<>> /\ toBroker'[c] = Tail(toBroker[c]) /\ h = Head(toBroker[c])
    BY <1>0, <1>1, <1>3 DEF ClientTypeOK
  <2>3. h.ctrl # "TERM"
    BY <1>0, <1>3 DEF nrm_client_broker_pipe_handler, ClientTypeOK
  <2>4. /\ down' = down
        /\ h.ctrl = "SEND" => up'[c] = up[c] \/ up'[c] = Append(up[c], h.arg)
        /\ h.ctrl # "SEND" => up'[c] = up[c]
    BY <1>0, <1>3, <2>3 DEF nrm_client_broker_pipe_handler, NetTypeOK, nrm_msg_send
  <2>k. Sent(r) \in SUBSET AskingOnPipe
    BY Kinds
  <2> HIDE DEF h
  <2>5. CASE h \notin AskingOnPipe
    <3>1. /\ NoneIn(toBroker[c], AskingOnPipe) => NoneIn(toBroker'[c], AskingOnPipe)
          /\ OneIn(toBroker[c], AskingOnPipe, Sent(r)) => OneIn(toBroker'[c], AskingOnPipe, Sent(r))
      BY <2>1, <2>2, <2>5, <2>k, QueueTail
    <3>2. h.ctrl = "SEND" => h.arg \in Message /\ h.arg \notin Asking
      BY <2>1, <2>5, Control DEF AskingOnPipe
    <3>3. /\ NoneIn(up[c], Asking) => NoneIn(up'[c], Asking)
          /\ OneIn(up[c], Asking, {r}) => OneIn(up'[c], Asking, {r})
      BY <2>1, <2>4, <3>2, QueueAppend
    <3>4. At(c, r, s)'
      BY <1>1, <2>4, <3>1, <3>3 DEF At, Ticking, Holds
    <3> QED  BY <3>4 DEF Moves
  <2>6. CASE h \in AskingOnPipe
    <3>1. /\ ~NoneIn(toBroker[c], AskingOnPipe)
          /\ OneIn(toBroker[c], AskingOnPipe, Sent(r)) =>
               Head(toBroker[c]) \in Sent(r) /\ NoneIn(Tail(toBroker[c]), AskingOnPipe)
      <4>1. Head(toBroker[c]) \in AskingOnPipe
        BY <2>2, <2>6
      <4> QED  BY <2>1, <2>2, <2>k, <4>1, QueueTake
    <3>2. s = "toBroker" /\ h \in Sent(r) /\ NoneIn(toBroker'[c], AskingOnPipe)
      BY <2>2, <3>1 DEF At, Holds
    <3>3. h.ctrl = "SEND" /\ h.arg = r /\ r \in Message
      BY <3>2 DEF Asking, Sent
    <3>4. NoneIn(up[c], Asking)
      BY <3>2 DEF At, Holds
    <3>5. CASE up'[c] = up[c]
      <4>1. At(c, r, "nowhere")'
        BY <1>1, <2>4, <3>2, <3>4, <3>5 DEF At, Holds, Ticking
      <4> QED  BY <4>1 DEF Moves, Stages
    <3>6. CASE up'[c] = Append(up[c], h.arg)
      <4>1. OneIn(up'[c], Asking, {r})
        BY <2>1, <3>3, <3>4, <3>6, QueueNew
      <4>2. At(c, r, "up")'
        BY <1>1, <2>4, <3>2, <4>1 DEF At, Holds, Ticking
      <4> QED  BY <3>2, <4>2 DEF Moves, Stages
    <3> QED  BY <2>4, <3>3, <3>5, <3>6
  <2> QED  BY <2>5, <2>6
<1> QED  BY <1>2, <1>3

\* The broker takes a message of the daemon: a reply goes up the pipe to the
\* thread, a command does not.
LEMMA ClientRpcMoves ==
  ASSUME TypeOK, NEW c \in Clients, NEW r \in Asking, NEW s \in Stages, At(c, r, s),
         NEW d \in Clients, nrm_client_broker_rpc_handler(d), UNCHANGED serverVars,
         status'[c] = "open"
  PROVE  Moves(c, r, s)
<1> DEFINE m == Head(down[d])
<1>0. ClientTypeOK /\ NetTypeOK
  BY DEF TypeOK
<1>1. /\ down[d] # <<>> /\ toBroker' = toBroker
      /\ ctlRecv' = ctlRecv /\ ctlSend' = ctlSend /\ loop' = loop
  BY DEF nrm_client_broker_rpc_handler, serverVars
<1>2. CASE d # c
  <2>1. CASE nrm_msg_is_reply(m)
    <3>1. /\ up' = up /\ down' = [down EXCEPT ![d] = Tail(@)]
          /\ fromBroker' = [fromBroker EXCEPT ![d] = Append(@, m)]
      BY <2>1 DEF nrm_client_broker_rpc_handler
    <3>2. up'[c] = up[c] /\ down'[c] = down[c] /\ fromBroker'[c] = fromBroker[c]
      BY <1>0, <1>2, <3>1 DEF ClientTypeOK, NetTypeOK
    <3> QED  BY <1>1, <3>2, AtFrame DEF Moves
  <2>2. CASE ~nrm_msg_is_reply(m)
    <3>1. CommandCallback(d, m.arg[1], m.arg[2]) /\ fromBroker' = fromBroker
      BY <2>2 DEF nrm_client_broker_rpc_handler
    <3> HIDE DEF m
    <3>2. up'[c] = up[c] /\ down'[c] = down[c]
      BY <1>0, <1>2, <3>1 DEF CommandCallback, ClientTypeOK, NetTypeOK, CloseClientSockets
    <3> QED  BY <1>1, <3>1, <3>2, AtFrame DEF Moves
  <2> QED  BY <2>1, <2>2
<1>3. CASE d = c
  <2>1. down[c] \in Seq(ToClient) /\ fromBroker[c] \in Seq(ToClient) /\ down[c] # <<>>
    BY <1>0, <1>1, <1>3 DEF ClientTypeOK, NetTypeOK
  <2>2. m = Head(down[c]) /\ m \in ToClient /\ m \in Message
    BY <1>3, <2>1, QueueTypes DEF ToClient
  <2>3. /\ down'[c] = Tail(down[c]) /\ up' = up
        /\ nrm_msg_is_reply(m) => fromBroker'[c] = Append(fromBroker[c], m)
        /\ ~nrm_msg_is_reply(m) => fromBroker' = fromBroker
    BY <1>0, <1>3 DEF nrm_client_broker_rpc_handler, CommandCallback, ClientTypeOK, NetTypeOK
  <2>k. RepliesFor(r) \in SUBSET Replies
    BY Kinds
  <2> HIDE DEF m
  <2>4. CASE ~nrm_msg_is_reply(m)
    <3>1. Head(down[c]) \notin Replies
      BY <2>2, <2>4 DEF Replies
    <3>2. /\ NoneIn(down[c], Replies) => NoneIn(Tail(down[c]), Replies)
          /\ OneIn(down[c], Replies, RepliesFor(r)) => OneIn(Tail(down[c]), Replies, RepliesFor(r))
      BY <2>1, <2>k, <3>1, QueueTail
    <3>3. At(c, r, s)'
      BY <1>1, <2>3, <2>4, <3>2 DEF At, Holds, Ticking
    <3> QED  BY <3>3 DEF Moves
  <2>5. CASE nrm_msg_is_reply(m)
    <3>1. Head(down[c]) \in Replies
      BY <2>2, <2>5 DEF Replies
    <3>2. /\ ~NoneIn(down[c], Replies)
          /\ OneIn(down[c], Replies, RepliesFor(r)) =>
               Head(down[c]) \in RepliesFor(r) /\ NoneIn(Tail(down[c]), Replies)
      BY <2>1, <2>k, <3>1, QueueTake
    <3>3. s = "down" /\ m \in RepliesFor(r) /\ NoneIn(down'[c], Replies)
      BY <2>2, <2>3, <3>2 DEF At, Holds
    <3>4. NoneIn(fromBroker[c], Message)
      BY <3>3 DEF At, Holds
    <3>5. OneIn(Append(fromBroker[c], m), Message, RepliesFor(r))
      BY <2>1, <2>2, <3>3, <3>4, QueueNew
    <3>6. At(c, r, "fromBroker")'
      BY <1>1, <2>3, <2>5, <3>3, <3>5 DEF At, Holds, Ticking
    <3> QED  BY <3>3, <3>6 DEF Moves, Stages
  <2> QED  BY <2>4, <2>5
<1> QED  BY <1>2, <1>3

\* Published messages are no part of requests and replies.
LEMMA ClientSubMoves ==
  ASSUME TypeOK, NEW c \in Clients, NEW r \in Asking, NEW s \in Stages, At(c, r, s),
         NEW d \in Clients, nrm_client_broker_sub_handler(d), UNCHANGED serverVars,
         status'[c] = "open"
  PROVE  Moves(c, r, s)
<1>0. ClientTypeOK /\ NetTypeOK
  BY DEF TypeOK
<1>1. /\ toBroker' = toBroker /\ fromBroker' = fromBroker
      /\ ctlRecv' = ctlRecv /\ ctlSend' = ctlSend /\ loop' = loop
  BY DEF nrm_client_broker_sub_handler, serverVars
<1>2. up'[c] = up[c] /\ down'[c] = down[c]
  BY <1>0 DEF nrm_client_broker_sub_handler, ClientTypeOK, NetTypeOK, CloseClientSockets
<1> QED  BY <1>1, <1>2, AtFrame DEF Moves

-----------------------------------------------------------------------------
(* The steps of the threads *)

\* A step of anyone but thread t moves t's request along.
LEMMA MovesKeep ==
  ASSUME TypeOK, NEW t \in Threads, Outstanding(t), pc'[t] = pc[t], req'[t] = req[t],
         \A r \in Asking, s \in Stages : At(ClientOf[t], r, s) => Moves(ClientOf[t], r, s)
  PROVE  Outstanding(t)'
<1>1. CASE pc[t] \in {"sent", "recv"}
  <2>1. PICK r \in Asking : r = req[t]
    BY <1>1 DEF Outstanding
  <2>2. PICK s \in Stages : At(ClientOf[t], r, s)
    BY <1>1, <2>1 DEF Outstanding
  <2>3. PICK z \in Stages : At(ClientOf[t], r, z)'
    BY <2>2 DEF Moves
  <2>4. At(ClientOf[t], req[t], z)'
    BY <2>1, <2>3 DEF At, Ticking
  <2> QED  BY <1>1, <2>1, <2>4 DEF Outstanding
<1>2. CASE pc[t] \notin {"sent", "recv"}
  <2>1. At(ClientOf[t], Ack, "nowhere")
    BY <1>2, NowhereAny DEF Outstanding
  <2>2. Ack \in Asking
    BY Outgoing DEF Asking, ToClient, Ack, nrm_msg_fill
  <2>3. At(ClientOf[t], Ack, "nowhere")'
    BY <2>1, <2>2 DEF Moves, Stages
  <2>4. At(ClientOf[t], NULL, "nowhere")'
    BY <2>3 DEF At, Holds, Ticking
  <2> QED  BY <1>2, <2>4 DEF Outstanding
<1> QED  BY <1>1, <1>2

\* The threads of another client touch nothing of this one.
LEMMA OtherThread ==
  ASSUME TypeOK, NEW t \in Threads, NEW u \in Threads, ClientOf[u] # ClientOf[t],
         ThreadNext(u)
  PROVE  LET c == ClientOf[t] IN
         /\ toBroker'[c] = toBroker[c] /\ fromBroker'[c] = fromBroker[c]
         /\ up'[c] = up[c] /\ down'[c] = down[c]
         /\ pc'[t] = pc[t] /\ req'[t] = req[t]
<1>0. ClientTypeOK /\ NetTypeOK /\ ClientOf[t] \in Clients /\ ClientOf[u] \in Clients /\ u # t
  BY ClientAssumption DEF TypeOK
<1>1. CASE \E m \in Message, call \in Calls : Request(u, call, m)
  BY <1>0, <1>1 DEF Request, nrm_role_client_send, nrm_ctrlmsg_send, netVars, ClientTypeOK
<1>2. CASE nrm_client_send_event(u) \/ nrm_client_send_exit(u)
  BY <1>0, <1>2 DEF nrm_client_send_event, nrm_client_send_exit, nrm_role_client_send,
     nrm_ctrlmsg_send, netVars, ClientTypeOK
<1>3. CASE LockForReply(u)
  BY <1>0, <1>3 DEF LockForReply, netVars, ClientTypeOK
<1>4. CASE nrm_role_client_recv(u)
  <2>1. UNCHANGED netVars \/ CloseClientSockets(ClientOf[u])
    BY <1>4, Zenon DEF nrm_role_client_recv
  <2>2. up'[ClientOf[t]] = up[ClientOf[t]] /\ down'[ClientOf[t]] = down[ClientOf[t]]
    BY <1>0, <2>1 DEF CloseClientSockets, netVars, NetTypeOK
  <2>3. /\ fromBroker' = [fromBroker EXCEPT ![ClientOf[u]] = Tail(@)]
        /\ pc' = [pc EXCEPT ![u] = "idle"] /\ req' = [req EXCEPT ![u] = NULL]
        /\ toBroker' = toBroker
    BY <1>4 DEF nrm_role_client_recv
  <2> QED  BY <1>0, <2>2, <2>3 DEF ClientTypeOK
<1>5. CASE \/ nrm_role_client_register_cmd_cb(u) \/ register_cmd_cb_arg(u)
           \/ nrm_role_client_register_sub_cb(u)
  BY <1>0, <1>5 DEF nrm_role_client_register_cmd_cb, register_cmd_cb_arg,
     nrm_role_client_register_sub_cb, netVars, ClientTypeOK
<1>6. CASE nrm_client_destroy(u) \/ \E topic \in Topics : nrm_role_client_sub(u, topic)
  BY <1>0, <1>6 DEF nrm_client_destroy, nrm_role_client_sub, nrm_ctrlmsg_send, netVars, ClientTypeOK
<1> QED  BY <1>1, <1>2, <1>3, <1>4, <1>5, <1>6, AskTypes DEF ThreadNext

\* Thread t, idle, sends a request: it is on the pipe and nothing else is.
LEMMA RequestOut ==
  ASSUME TypeOK, NEW t \in Threads, Outstanding(t), UNCHANGED serverVars,
         NEW m \in Message, NEW call, m.type \notin {"EVENTS", "EXIT"}, Request(t, call, m)
  PROVE  Outstanding(t)'
<1> DEFINE c == ClientOf[t]
           h == [ctrl |-> "SEND", arg |-> m]
<1>0. ClientTypeOK /\ c \in Clients
  BY ClientAssumption DEF TypeOK
<1>1. /\ pc[t] = "idle" /\ pc'[t] = "sent" /\ req'[t] = m
      /\ toBroker' = [toBroker EXCEPT ![c] = Append(@, h)]
      /\ fromBroker' = fromBroker /\ up' = up /\ down' = down
      /\ ctlRecv' = ctlRecv /\ ctlSend' = ctlSend /\ loop' = loop
  BY <1>0 DEF Request, CanCall, nrm_role_client_send, nrm_ctrlmsg_send, netVars, serverVars,
     ClientTypeOK
<1>2. toBroker'[c] = Append(toBroker[c], h) /\ toBroker[c] \in Seq(ToClientBroker)
  BY <1>0, <1>1 DEF ClientTypeOK
<1>3. h \in ToClientBroker /\ h \in Sent(m)
  BY Control DEF Sent
<1> HIDE DEF h
<1>4. At(c, m, "nowhere")
  BY <1>1, NowhereAny DEF Outstanding
<1>5. NoneIn(toBroker[c], AskingOnPipe)
  BY <1>4 DEF At, Holds
<1>6. OneIn(toBroker'[c], AskingOnPipe, Sent(m))
  BY <1>2, <1>3, <1>5, QueueNew
<1>7. At(c, m, "toBroker")'
  BY <1>1, <1>4, <1>6 DEF At, Holds, Ticking
<1>8. At(c, req[t], "toBroker")'
  BY <1>1, <1>7 DEF At, Ticking
<1> QED  BY <1>1, <1>8 DEF Outstanding, Asking, Stages

\* Thread t, idle, sends what the daemon does not answer.
LEMMA NoRequestOut ==
  ASSUME TypeOK, NEW t \in Threads, Outstanding(t), UNCHANGED serverVars,
         nrm_client_send_event(t) \/ \E topic \in Topics : nrm_role_client_sub(t, topic)
  PROVE  Outstanding(t)'
<1> DEFINE c == ClientOf[t]
<1>0. ClientTypeOK /\ c \in Clients
  BY ClientAssumption DEF TypeOK
<1>1. /\ pc[t] \notin {"sent", "recv"} /\ pc'[t] \notin {"sent", "recv"}
      /\ fromBroker' = fromBroker /\ up' = up /\ down' = down
      /\ ctlRecv' = ctlRecv /\ ctlSend' = ctlSend /\ loop' = loop
  BY <1>0 DEF nrm_client_send_event, nrm_role_client_sub, CanCall, nrm_role_client_send,
     netVars, serverVars, ClientTypeOK
<1>2. PICK h \in ToClientBroker : /\ h \notin AskingOnPipe
                                  /\ toBroker' = [toBroker EXCEPT ![c] = Append(@, h)]
  <2>1. CASE nrm_client_send_event(t)
    <3> DEFINE m == nrm_msg_set_events([from |-> c, n |-> sent[c] + 1])
    <3>1. [from |-> c, n |-> sent[c] + 1] \in Event
      BY <1>0 DEF Event, ClientTypeOK
    <3>2. m \in Message /\ m.type = "EVENTS"
      BY <3>1, Builders DEF nrm_msg_set_events
    <3>3. toBroker' = [toBroker EXCEPT ![c] = Append(@, [ctrl |-> "SEND", arg |-> m])]
      BY <2>1 DEF nrm_client_send_event, nrm_role_client_send, nrm_ctrlmsg_send
    <3> HIDE DEF m
    <3>4. /\ [ctrl |-> "SEND", arg |-> m] \in ToClientBroker
          /\ [ctrl |-> "SEND", arg |-> m] \notin AskingOnPipe
      BY <3>2, Control DEF AskingOnPipe, Asking
    <3> QED  BY <3>3, <3>4
  <2>2. ASSUME NEW topic \in Topics, nrm_role_client_sub(t, topic)
        PROVE  /\ [ctrl |-> "SUB", arg |-> topic] \in ToClientBroker
               /\ [ctrl |-> "SUB", arg |-> topic] \notin AskingOnPipe
               /\ toBroker' = [toBroker EXCEPT ![c] = Append(@, [ctrl |-> "SUB", arg |-> topic])]
    BY <2>2, Control DEF nrm_role_client_sub, nrm_ctrlmsg_send, AskingOnPipe
  <2> QED  BY <2>1, <2>2
<1>3. toBroker'[c] = Append(toBroker[c], h) /\ toBroker[c] \in Seq(ToClientBroker)
  BY <1>0, <1>2 DEF ClientTypeOK
<1>4. At(c, NULL, "nowhere")
  BY <1>1 DEF Outstanding
<1>5. NoneIn(toBroker[c], AskingOnPipe)
  BY <1>4 DEF At, Holds
<1>6. NoneIn(toBroker'[c], AskingOnPipe)
  BY <1>2, <1>3, <1>5, QueueAppend
<1>7. At(c, NULL, "nowhere")'
  BY <1>1, <1>4, <1>6 DEF At, Holds, Ticking
<1> QED  BY <1>1, <1>7 DEF Outstanding

\* What thread t takes from the pipe is the answer to its request, and nothing
\* is behind it.
LEMMA RecvTakes ==
  ASSUME TypeOK, NEW t \in Threads, Outstanding(t), nrm_role_client_recv(t)
  PROVE  LET c == ClientOf[t] IN
         /\ ReplyAccepted(req[t], Head(fromBroker[c]))
         /\ NoneIn(fromBroker'[c], Message)
         /\ \E r \in Asking : At(c, r, "fromBroker")
<1> DEFINE c == ClientOf[t]
<1>0. ClientTypeOK /\ c \in Clients
  BY ClientAssumption DEF TypeOK
<1>1. /\ pc[t] = "recv" /\ fromBroker[c] # <<>>
      /\ fromBroker' = [fromBroker EXCEPT ![c] = Tail(@)]
  BY DEF nrm_role_client_recv
<1>2. PICK r \in Asking : r = req[t]
  BY <1>1 DEF Outstanding
<1>3. PICK s \in Stages : At(c, r, s)
  BY <1>1, <1>2 DEF Outstanding
<1>4. fromBroker[c] \in Seq(ToClient) /\ fromBroker[c] # <<>> /\ fromBroker'[c] = Tail(fromBroker[c])
  BY <1>0, <1>1 DEF ClientTypeOK
<1>5. Head(fromBroker[c]) \in Message
  BY <1>4, QueueTypes DEF ToClient
<1>6. RepliesFor(r) \in SUBSET Message
  BY <1>0, Kinds
<1>7. /\ ~NoneIn(fromBroker[c], Message)
      /\ OneIn(fromBroker[c], Message, RepliesFor(r)) =>
           /\ Head(fromBroker[c]) \in RepliesFor(r)
           /\ NoneIn(Tail(fromBroker[c]), Message)
  BY <1>4, <1>5, <1>6, QueueTake
<1>8. /\ s = "fromBroker" /\ Head(fromBroker[c]) \in RepliesFor(r)
      /\ NoneIn(fromBroker'[c], Message)
  BY <1>3, <1>4, <1>7 DEF At, Holds
<1>9. ReplyAccepted(req[t], Head(fromBroker[c]))
  BY <1>2, <1>8 DEF RepliesFor
<1> QED  BY <1>3, <1>8, <1>9

\* Then nothing is under way.
LEMMA RecvOut ==
  ASSUME TypeOK, NEW t \in Threads, Outstanding(t), nrm_role_client_recv(t),
         UNCHANGED serverVars
  PROVE  Outstanding(t)'
<1> DEFINE c == ClientOf[t]
<1>1. /\ ReplyAccepted(req[t], Head(fromBroker[c])) /\ NoneIn(fromBroker'[c], Message)
      /\ \E r \in Asking : At(c, r, "fromBroker")
  BY RecvTakes
<1>2. PICK r \in Asking : At(c, r, "fromBroker")
  BY <1>1
<1>3. up' = up /\ down' = down
  BY <1>1, Zenon DEF nrm_role_client_recv, netVars
<1>4. /\ pc'[t] = "idle" /\ toBroker' = toBroker
      /\ ctlRecv' = ctlRecv /\ ctlSend' = ctlSend /\ loop' = loop
  BY DEF nrm_role_client_recv, serverVars, TypeOK, ClientTypeOK
<1>5. At(c, NULL, "nowhere")'
  BY <1>1, <1>2, <1>3, <1>4 DEF At, Holds, Ticking
<1> QED  BY <1>4, <1>5 DEF Outstanding

\* Steps of thread t, the only one that uses its client.
LEMMA OwnThread ==
  ASSUME TypeOK, NEW t \in Threads, Outstanding(t), ThreadNext(t), UNCHANGED serverVars,
         Live(ClientOf[t])'
  PROVE  Outstanding(t)'
<1> DEFINE c == ClientOf[t]
<1>0. ClientTypeOK /\ c \in Clients
  BY ClientAssumption DEF TypeOK
<1>1. CASE \E m \in Message, call \in Calls : /\ m.type \notin {"EVENTS", "EXIT"}
                                             /\ Request(t, call, m)
  BY <1>1, RequestOut
<1>2. CASE nrm_client_send_event(t) \/ \E topic \in Topics : nrm_role_client_sub(t, topic)
  BY <1>2, NoRequestOut
<1>3. ~nrm_client_send_exit(t) /\ ~nrm_client_destroy(t)
  <2>1. /\ DOMAIN exitSent = Clients /\ DOMAIN status = Clients
        /\ ~exitSent'[c] /\ status'[c] = "open"
    BY <1>0 DEF Live, ClientTypeOK
  <2>2. ~nrm_client_send_exit(t)
    BY <1>0, <2>1 DEF nrm_client_send_exit
  <2>3. ~nrm_client_destroy(t)
    BY <1>0, <2>1 DEF nrm_client_destroy
  <2> QED  BY <2>2, <2>3
<1>4. CASE LockForReply(t)
  <2>1. /\ pc[t] = "sent" /\ pc'[t] = "recv" /\ req' = req /\ toBroker' = toBroker
        /\ fromBroker' = fromBroker /\ up' = up /\ down' = down
        /\ ctlRecv' = ctlRecv /\ ctlSend' = ctlSend /\ loop' = loop
    BY <1>0, <1>4 DEF LockForReply, netVars, serverVars, ClientTypeOK
  <2>2. PICK s \in Stages : At(c, req[t], s)
    BY <2>1 DEF Outstanding
  <2>3. At(c, req[t], s)'
    BY <2>1, <2>2 DEF At, Ticking
  <2> QED  BY <2>1, <2>3 DEF Outstanding
<1>5. CASE nrm_role_client_recv(t)
  BY <1>5, RecvOut
<1>6. CASE \/ nrm_role_client_register_cmd_cb(t) \/ register_cmd_cb_arg(t)
           \/ nrm_role_client_register_sub_cb(t)
  <2>1. /\ pc[t] \notin {"sent", "recv"} /\ pc'[t] \notin {"sent", "recv"}
        /\ toBroker' = toBroker /\ fromBroker' = fromBroker /\ up' = up /\ down' = down
        /\ ctlRecv' = ctlRecv /\ ctlSend' = ctlSend /\ loop' = loop
    BY <1>0, <1>6 DEF nrm_role_client_register_cmd_cb, register_cmd_cb_arg, CanCall,
       nrm_role_client_register_sub_cb, netVars, serverVars, ClientTypeOK
  <2>2. At(c, NULL, "nowhere")
    BY <2>1 DEF Outstanding
  <2>3. At(c, NULL, "nowhere")'
    BY <2>1, <2>2 DEF At, Ticking
  <2> QED  BY <2>1, <2>3 DEF Outstanding
<1> QED  BY <1>1, <1>2, <1>3, <1>4, <1>5, <1>6, AskTypes DEF ThreadNext

-----------------------------------------------------------------------------
(* The steps of the daemon's broker *)

\* The daemon's broker passes a request on to the server, with its sender.
LEMMA ControllerRpcMoves ==
  ASSUME TypeOK, NEW c \in Clients, NEW r \in Asking, NEW s \in Stages, At(c, r, s),
         NEW d \in Clients, nrm_controller_broker_rpc_handler(d), UNCHANGED clientVars
  PROVE  Moves(c, r, s)
<1> DEFINE m == Head(up[d])
           h == [from |-> d, msg |-> m]
<1>0. ServerTypeOK /\ NetTypeOK
  BY DEF TypeOK
<1>1. /\ up[d] # <<>> /\ up' = [up EXCEPT ![d] = Tail(@)]
      /\ ctlRecv' = Append(ctlRecv, h)
      /\ ctlSend' = ctlSend /\ loop' = loop /\ down' = down
      /\ toBroker' = toBroker /\ fromBroker' = fromBroker
  BY DEF nrm_controller_broker_rpc_handler, clientVars
<1>2. /\ ctlRecv \in Seq(FromControllerBroker) /\ up[d] \in Seq(Message)
      /\ m \in Message /\ h \in FromControllerBroker
  BY <1>0, <1>1, QueueTypes DEF ServerTypeOK, NetTypeOK, FromControllerBroker
<1>3. h \in AskingFrom(c) <=> d = c /\ m \in Asking
  BY <1>2 DEF AskingFrom
<1>4. h.from = d /\ h.msg = m
  OBVIOUS
<1> HIDE DEF h
<1>5. CASE ~(d = c /\ m \in Asking)
  <2>1. h \notin AskingFrom(c)
    BY <1>3, <1>5
  <2>2. /\ NoneIn(ctlRecv, AskingFrom(c)) => NoneIn(ctlRecv', AskingFrom(c))
        /\ OneIn(ctlRecv, AskingFrom(c), Got(c, r)) => OneIn(ctlRecv', AskingFrom(c), Got(c, r))
    BY <1>1, <1>2, <2>1, QueueAppend
  <2>3. /\ NoneIn(up[c], Asking) => NoneIn(up'[c], Asking)
        /\ OneIn(up[c], Asking, {r}) => OneIn(up'[c], Asking, {r})
    <3>1. CASE d # c
      <4>1. up'[c] = up[c]
        BY <1>0, <1>1, <3>1 DEF NetTypeOK
      <4> QED  BY <4>1
    <3>2. CASE d = c
      <4>1. up'[c] = Tail(up[c])
        BY <1>0, <1>1, <3>2 DEF NetTypeOK
      <4>2. Head(up[c]) \notin Asking /\ up[c] # <<>> /\ up[c] \in Seq(Message)
        BY <1>1, <1>2, <1>5, <3>2
      <4>3. {r} \in SUBSET Asking
        BY Kinds
      <4> QED  BY <4>1, <4>2, <4>3, QueueTail
    <3> QED  BY <3>1, <3>2
  <2>4. At(c, r, s)'
    BY <1>1, <2>2, <2>3 DEF At, Holds, Ticking
  <2> QED  BY <2>4 DEF Moves
<1>6. CASE d = c /\ m \in Asking
  <2>1. Head(up[c]) \in Asking /\ up[c] # <<>> /\ up[c] \in Seq(Message)
    BY <1>1, <1>2, <1>6
  <2>2. {r} \in SUBSET Asking
    BY Kinds
  <2>3. /\ ~NoneIn(up[c], Asking)
        /\ OneIn(up[c], Asking, {r}) => Head(up[c]) \in {r} /\ NoneIn(Tail(up[c]), Asking)
    BY <2>1, <2>2, QueueTake
  <2>4. up'[c] = Tail(up[c])
    BY <1>0, <1>1, <1>6 DEF NetTypeOK
  <2>5. s = "up" /\ m = r /\ NoneIn(up'[c], Asking)
    BY <1>6, <2>3, <2>4 DEF At, Holds
  <2>6. NoneIn(ctlRecv, AskingFrom(c)) /\ h \in Got(c, r)
    BY <1>6, <2>5 DEF At, Holds, Got, h
  <2>7. OneIn(ctlRecv', AskingFrom(c), Got(c, r))
    BY <1>1, <1>2, <2>6, QueueNew
  <2>8. At(c, r, "ctlRecv")'
    BY <1>1, <2>5, <2>7 DEF At, Holds, Ticking
  <2> QED  BY <2>5, <2>8 DEF Moves, Stages
<1> QED  BY <1>5, <1>6

\* The daemon's sockets close: what is under way stays or is lost.
LEMMA CloseMoves ==
  ASSUME TypeOK, NEW c \in Clients, NEW r \in Asking, NEW s \in Stages, At(c, r, s),
         CloseServerSockets, loop' = loop,
         toBroker'[c] = toBroker[c], fromBroker'[c] = fromBroker[c],
         NoneIn(ctlRecv, AskingFrom(c)) => NoneIn(ctlRecv', AskingFrom(c)),
         OneIn(ctlRecv, AskingFrom(c), Got(c, r)) =>
           NoneIn(ctlRecv', AskingFrom(c)) \/ OneIn(ctlRecv', AskingFrom(c), Got(c, r)),
         NoneIn(ctlSend, AnswersTo(c, Replies)) => NoneIn(ctlSend', AnswersTo(c, Replies)),
         OneIn(ctlSend, AnswersTo(c, Replies), AnswersTo(c, RepliesFor(r))) =>
           \/ NoneIn(ctlSend', AnswersTo(c, Replies))
           \/ OneIn(ctlSend', AnswersTo(c, Replies), AnswersTo(c, RepliesFor(r)))
  PROVE  Moves(c, r, s)
<1>1. NoneIn(up'[c], Asking)
  BY QueueEmpty DEF CloseServerSockets
<1>2. down'[c] \in Prefix(down[c]) /\ down[c] \in Seq(ToClient)
  BY DEF CloseServerSockets, LeftOf, TypeOK, NetTypeOK
<1>3. /\ NoneIn(down[c], Replies) => NoneIn(down'[c], Replies)
      /\ OneIn(down[c], Replies, RepliesFor(r)) =>
           NoneIn(down'[c], Replies) \/ OneIn(down'[c], Replies, RepliesFor(r))
  BY <1>2, QueueCut
<1>4. Ticking(c)' <=> Ticking(c)
  BY DEF Ticking
<1>5. At(c, r, s)' \/ At(c, r, "nowhere")'
  <2>1. CASE s \in {"nowhere", "toBroker", "loop", "fromBroker"}
    BY <1>1, <1>3, <1>4, <2>1 DEF At, Holds
  <2>2. CASE s = "up"
    BY <1>1, <1>3, <1>4, <2>2 DEF At, Holds
  <2>3. CASE s = "ctlRecv"
    BY <1>1, <1>3, <1>4, <2>3 DEF At, Holds
  <2>4. CASE s = "ctlSend"
    BY <1>1, <1>3, <1>4, <2>4 DEF At, Holds
  <2>5. CASE s = "down"
    BY <1>1, <1>3, <1>4, <2>5 DEF At, Holds
  <2> QED  BY <2>1, <2>2, <2>3, <2>4, <2>5 DEF Stages
<1> QED  BY <1>5 DEF Moves, Stages

\* The daemon's broker sends what the server queued: an answer goes on to the
\* client it is for, or is lost when that client has disconnected.
LEMMA ControllerPipeMoves ==
  ASSUME TypeOK, NEW c \in Clients, NEW r \in Asking, NEW s \in Stages, At(c, r, s),
         nrm_controller_broker_pipe_handler, UNCHANGED clientVars
  PROVE  Moves(c, r, s)
<1> DEFINE h == Head(ctlSend)
<1>0. ServerTypeOK /\ NetTypeOK
  BY DEF TypeOK
<1>1. /\ ctlSend # <<>> /\ ctlSend' = Tail(ctlSend) /\ loop' = loop /\ ctlRecv' = ctlRecv
      /\ toBroker' = toBroker /\ fromBroker' = fromBroker
      /\ \/ /\ h.ctrl = "SEND" /\ nrm_msg_sendto(h.to, h.msg) /\ up' = up
         \/ h.ctrl = "PUB" /\ up' = up /\ down' = down
         \/ h.ctrl = "TERM" /\ CloseServerSockets
  BY DEF nrm_controller_broker_pipe_handler, clientVars
<1>2. ctlSend \in Seq(ToControllerBroker) /\ h \in ToControllerBroker
  BY <1>0, <1>1, QueueTypes DEF ServerTypeOK
<1>3. AnswersTo(c, RepliesFor(r)) \in SUBSET AnswersTo(c, Replies)
  BY Kinds
<1>4. h = Head(ctlSend)
  OBVIOUS
<1> HIDE DEF h
<1>5. CASE h \notin AnswersTo(c, Replies)
  <2>1. /\ NoneIn(ctlSend, AnswersTo(c, Replies)) => NoneIn(ctlSend', AnswersTo(c, Replies))
        /\ OneIn(ctlSend, AnswersTo(c, Replies), AnswersTo(c, RepliesFor(r))) =>
             OneIn(ctlSend', AnswersTo(c, Replies), AnswersTo(c, RepliesFor(r)))
    BY <1>1, <1>2, <1>3, <1>4, <1>5, QueueTail
  <2>2. CASE CloseServerSockets
    BY <1>1, <2>1, <2>2, CloseMoves
  <2>3. CASE up' = up /\ down'[c] = down[c]
    <3>1. At(c, r, s)'
      BY <1>1, <2>1, <2>3 DEF At, Holds, Ticking
    <3> QED  BY <3>1 DEF Moves
  <2>4. CASE /\ h.ctrl = "SEND" /\ nrm_msg_sendto(h.to, h.msg) /\ up' = up /\ h.to = c
    <3>1. h.msg \in ToClient /\ h.msg \notin Replies
      BY <1>2, <1>5, <2>4, Control DEF AnswersTo
    <3>2. down[c] \in Seq(ToClient) /\ (down'[c] = down[c] \/ down'[c] = Append(down[c], h.msg))
      BY <1>0, <2>4 DEF nrm_msg_sendto, NetTypeOK
    <3>3. /\ NoneIn(down[c], Replies) => NoneIn(down'[c], Replies)
          /\ OneIn(down[c], Replies, RepliesFor(r)) => OneIn(down'[c], Replies, RepliesFor(r))
      BY <3>1, <3>2, QueueAppend
    <3>4. At(c, r, s)'
      BY <1>1, <2>1, <2>4, <3>3 DEF At, Holds, Ticking
    <3> QED  BY <3>4 DEF Moves
  <2>5. nrm_msg_sendto(h.to, h.msg) /\ h.to # c => down'[c] = down[c]
    BY <1>0 DEF nrm_msg_sendto, NetTypeOK
  <2> QED  BY <1>1, <2>2, <2>3, <2>4, <2>5
<1>6. CASE h \in AnswersTo(c, Replies)
  <2>1. /\ ~NoneIn(ctlSend, AnswersTo(c, Replies))
        /\ OneIn(ctlSend, AnswersTo(c, Replies), AnswersTo(c, RepliesFor(r))) =>
             /\ Head(ctlSend) \in AnswersTo(c, RepliesFor(r))
             /\ NoneIn(Tail(ctlSend), AnswersTo(c, Replies))
    <3>1. Head(ctlSend) \in AnswersTo(c, Replies)
      BY <1>4, <1>6
    <3> QED  BY <1>1, <1>2, <1>3, <3>1, QueueTake
  <2>2. s = "ctlSend" /\ h \in AnswersTo(c, RepliesFor(r))
    BY <1>4, <2>1 DEF At, Holds
  <2>3. NoneIn(ctlSend', AnswersTo(c, Replies)) /\ NoneIn(down[c], Replies)
    BY <1>1, <2>1, <2>2 DEF At, Holds
  <2>4. h.ctrl = "SEND" /\ h.to = c /\ h.msg \in RepliesFor(r) /\ h.msg \in ToClient
    BY <1>2, <2>2, Control DEF AnswersTo
  <2>5. up' = up /\ (down'[c] = down[c] \/ down'[c] = Append(down[c], h.msg))
    BY <1>0, <1>1, <2>4 DEF nrm_msg_sendto, NetTypeOK
  <2>6. CASE down'[c] = down[c]
    <3>1. At(c, r, "nowhere")'
      BY <1>1, <2>2, <2>3, <2>5, <2>6 DEF At, Holds, Ticking
    <3> QED  BY <2>2, <3>1 DEF Moves, Stages
  <2>7. CASE down'[c] = Append(down[c], h.msg)
    <3>1. down[c] \in Seq(ToClient)
      BY <1>0 DEF NetTypeOK
    <3>2. OneIn(down'[c], Replies, RepliesFor(r))
      BY <2>3, <2>4, <2>7, <3>1, QueueNew
    <3>3. At(c, r, "down")'
      BY <1>1, <2>2, <2>3, <2>5, <3>2 DEF At, Holds, Ticking
    <3> QED  BY <2>2, <3>3 DEF Moves, Stages
  <2> QED  BY <2>5, <2>6, <2>7
<1> QED  BY <1>5, <1>6

-----------------------------------------------------------------------------
(* The handlers of the daemon's loop *)

\* What the daemon puts on its pipe beside answers: commands, and what it
\* publishes.
LEMMA NotAnswers ==
  ASSUME ServerTypeOK, NEW c \in Clients
  PROVE  /\ \A u \in Uuids, v \in Int : Command(u, v) \notin AnswersTo(c, Replies)
         /\ \A topic, m : Pub(topic, m) \notin AnswersTo(c, Replies)
         /\ Term \notin AnswersTo(c, Replies)
         /\ \A d, m : d # c => Send(d, m) \notin AnswersTo(c, Replies)
  BY DEF Command, Send, Pub, Term, AnswersTo, Replies, nrm_msg_set_actuate, nrm_msg_is_reply

\* A handler takes a request and, behind whatever else it sends, answers it.
LEMMA AnswerMoves ==
  ASSUME TypeOK, NEW c \in Clients, NEW r \in Asking, NEW s \in Stages, At(c, r, s),
         NEW type, nrm_server_role_callback(type), type # "EVENTS",
         NEW m \in ToClient, nrm_msg_is_reply(m), ReplyAccepted(Received, m),
         NEW q \in Seq(ToControllerBroker),
         NoneIn(ctlSend, AnswersTo(c, Replies)) => NoneIn(q, AnswersTo(c, Replies)),
         OneIn(ctlSend, AnswersTo(c, Replies), AnswersTo(c, RepliesFor(r))) =>
           OneIn(q, AnswersTo(c, Replies), AnswersTo(c, RepliesFor(r))),
         ctlSend' = Append(q, Send(From, m)), loop' = loop,
         UNCHANGED clientVars, UNCHANGED netVars
  PROVE  Moves(c, r, s)
<1>0. ServerTypeOK /\ ctlRecv \in Seq(FromControllerBroker)
  BY DEF TypeOK, ServerTypeOK
<1>1. /\ From \in Clients /\ Received \in Message /\ Received.type = type
      /\ From = Head(ctlRecv).from /\ Received = Head(ctlRecv).msg
      /\ ctlRecv # <<>> /\ ctlRecv' = Tail(ctlRecv)
  BY <1>0, ReceivedTypes DEF nrm_server_role_callback, From, Received
<1>2. /\ toBroker' = toBroker /\ fromBroker' = fromBroker /\ up' = up /\ down' = down
  BY DEF clientVars, netVars
<1>3. Send(From, m) \in ToControllerBroker
  BY <1>1, Control
<1>4. Head(ctlRecv) \in FromControllerBroker
  BY <1>0, <1>1, QueueTypes
<1>5. Received \in Asking
  BY <1>1 DEF Asking
<1>6. Got(c, r) \in SUBSET AskingFrom(c)
  BY Kinds
<1>7. CASE From # c
  <2>1. Head(ctlRecv) \notin AskingFrom(c)
    BY <1>1, <1>7 DEF AskingFrom
  <2>2. /\ NoneIn(ctlRecv, AskingFrom(c)) => NoneIn(ctlRecv', AskingFrom(c))
        /\ OneIn(ctlRecv, AskingFrom(c), Got(c, r)) => OneIn(ctlRecv', AskingFrom(c), Got(c, r))
    BY <1>0, <1>1, <1>6, <2>1, QueueTail
  <2>3. Send(From, m) \notin AnswersTo(c, Replies)
    BY <1>0, <1>7, NotAnswers
  <2>4. /\ NoneIn(q, AnswersTo(c, Replies)) => NoneIn(ctlSend', AnswersTo(c, Replies))
        /\ OneIn(q, AnswersTo(c, Replies), AnswersTo(c, RepliesFor(r))) =>
             OneIn(ctlSend', AnswersTo(c, Replies), AnswersTo(c, RepliesFor(r)))
    BY <1>3, <2>3, QueueAppend
  <2>5. At(c, r, s)'
    BY <1>2, <2>2, <2>4 DEF At, Holds, Ticking
  <2> QED  BY <2>5 DEF Moves
<1>8. CASE From = c
  <2>1. Head(ctlRecv) \in AskingFrom(c)
    BY <1>1, <1>4, <1>5, <1>8 DEF AskingFrom
  <2>2. /\ ~NoneIn(ctlRecv, AskingFrom(c))
        /\ OneIn(ctlRecv, AskingFrom(c), Got(c, r)) =>
             Head(ctlRecv) \in Got(c, r) /\ NoneIn(Tail(ctlRecv), AskingFrom(c))
    BY <1>0, <1>1, <1>6, <2>1, QueueTake
  <2>3. s = "ctlRecv" /\ Head(ctlRecv) \in Got(c, r) /\ NoneIn(ctlRecv', AskingFrom(c))
    BY <1>1, <2>2 DEF At, Holds
  <2>g. Head(ctlRecv) = [from |-> c, msg |-> r]
    BY <2>3 DEF Got
  <2>4. Received = r
    BY <1>1, <2>g
  <2>5. m \in RepliesFor(r)
    BY <2>4 DEF RepliesFor, Replies, ToClient
  <2>6. Send(From, m) \in AnswersTo(c, RepliesFor(r))
    BY <1>3, <1>8, <2>5 DEF AnswersTo, Send
  <2>7. NoneIn(q, AnswersTo(c, Replies))
    BY <2>3 DEF At, Holds
  <2>8. OneIn(ctlSend', AnswersTo(c, Replies), AnswersTo(c, RepliesFor(r)))
    BY <1>3, <2>6, <2>7, QueueNew
  <2>9. At(c, r, "ctlSend")'
    BY <1>2, <2>3, <2>8 DEF At, Holds, Ticking
  <2> QED  BY <2>3, <2>9 DEF Moves, Stages
<1> QED  BY <1>7, <1>8

\* A command is no answer.
LEMMA CommandKeeps ==
  ASSUME ServerTypeOK, NEW c \in Clients, NEW M, NEW u \in Uuids, NEW v \in Int,
         actuators[u] # NULL, SetValue(u, v)
  PROVE  /\ Append(ctlSend, Command(u, v)) \in Seq(ToControllerBroker)
         /\ NoneIn(ctlSend, AnswersTo(c, Replies)) =>
              NoneIn(Append(ctlSend, Command(u, v)), AnswersTo(c, Replies))
         /\ OneIn(ctlSend, AnswersTo(c, Replies), M) =>
              OneIn(Append(ctlSend, Command(u, v)), AnswersTo(c, Replies), M)
<1>1. Command(u, v) \in ToControllerBroker /\ ctlSend \in Seq(ToControllerBroker)
  BY SetValueTypes DEF ServerTypeOK
<1>2. Command(u, v) \notin AnswersTo(c, Replies)
  BY NotAnswers
<1> QED  BY <1>1, <1>2, QueueAppend, QueueTypes

\* An ACTUATE sends the owner a command before it is acknowledged.
LEMMA ActuateCallbackMoves ==
  ASSUME TypeOK, NEW c \in Clients, NEW r \in Asking, NEW s \in Stages, At(c, r, s),
         nrm_server_actuate_callback, UNCHANGED clientVars
  PROVE  Moves(c, r, s)
<1> DEFINE u == Received.arg[1]
           v == Received.arg[2]
           q == Append(ctlSend, Command(u, v))
<1>0. ServerTypeOK /\ ctlSend \in Seq(ToControllerBroker)
  BY DEF TypeOK, ServerTypeOK
<1>1. nrm_server_role_callback("ACTUATE") /\ loop' = loop /\ UNCHANGED netVars
  BY DEF nrm_server_actuate_callback
<1>2. Received \in Message /\ Received.type = "ACTUATE"
  BY <1>0, <1>1, ReceivedTypes
<1>3. u \in Uuids /\ v \in Int
  BY <1>2, Arguments
<1>4. Ack \in ToClient /\ nrm_msg_is_reply(Ack) /\ ReplyAccepted(Received, Ack)
  BY <1>2, Outgoing DEF ReplyAccepted, Ack, nrm_msg_fill, nrm_msg_is_reply
<1>5. CASE actuators[u] # NULL /\ SetValue(u, v) /\ ctlSend' = Append(q, Send(From, Ack))
  <2>1. /\ q \in Seq(ToControllerBroker)
        /\ NoneIn(ctlSend, AnswersTo(c, Replies)) => NoneIn(q, AnswersTo(c, Replies))
        /\ OneIn(ctlSend, AnswersTo(c, Replies), AnswersTo(c, RepliesFor(r))) =>
             OneIn(q, AnswersTo(c, Replies), AnswersTo(c, RepliesFor(r)))
    BY <1>0, <1>3, <1>5, CommandKeeps
  <2> HIDE DEF q
  <2> QED  BY <1>1, <1>4, <1>5, <2>1, AnswerMoves
<1>6. CASE ctlSend' = Append(ctlSend, Send(From, Ack))
  BY <1>0, <1>1, <1>4, <1>6, AnswerMoves
<1> QED  BY <1>5, <1>6 DEF nrm_server_actuate_callback

\* The handlers that answer and send nothing else.
LEMMA PlainAnswerMoves ==
  ASSUME TypeOK, NEW c \in Clients, NEW r \in Asking, NEW s \in Stages, At(c, r, s),
         \/ nrm_server_add_callback
         \/ nrm_server_list_callback
         \/ nrm_server_exit_callback
         \/ nrm_server_remove_callback /\ ~Crash
         \/ nrm_server_tick_callback /\ Outputs = <<>>,
         UNCHANGED clientVars
  PROVE  Moves(c, r, s)
<1>0. ServerTypeOK /\ ctlSend \in Seq(ToControllerBroker)
  BY DEF TypeOK, ServerTypeOK
<1>1. Ack \in ToClient /\ nrm_msg_is_reply(Ack)
  BY Outgoing DEF Ack, nrm_msg_fill, nrm_msg_is_reply
<1>2. ASSUME NEW type \in {"EXIT", "REMOVE", "TICK"}, nrm_server_role_callback(type),
             ctlSend' = Append(ctlSend, Send(From, Ack)), loop' = loop, UNCHANGED netVars
      PROVE  Moves(c, r, s)
  <2>1. ReplyAccepted(Received, Ack)
    BY <1>0, <1>2, ReceivedTypes DEF ReplyAccepted, Ack, nrm_msg_fill
  <2> QED  BY <1>0, <1>1, <1>2, <2>1, AnswerMoves
<1>3. CASE nrm_server_add_callback
  <2>1. /\ nrm_server_role_callback("ADD") /\ loop' = loop /\ UNCHANGED netVars
        /\ ctlSend' = Append(ctlSend, Send(From, Received))
    BY <1>3 DEF nrm_server_add_callback
  <2>2. Received \in Message /\ Received.type = "ADD"
    BY <1>0, <2>1, ReceivedTypes
  <2>3. /\ Received \in ToClient /\ nrm_msg_is_reply(Received)
        /\ ReplyAccepted(Received, Received)
    BY <2>2 DEF ToClient, nrm_msg_is_reply, ReplyAccepted
  <2> QED  BY <1>0, <2>1, <2>3, AnswerMoves
<1>4. CASE nrm_server_list_callback
  <2> DEFINE m == nrm_msg_set_list(Received.target, nrm_state_list(Received.target))
  <2>1. /\ nrm_server_role_callback("LIST") /\ loop' = loop /\ UNCHANGED netVars
        /\ ctlSend' = Append(ctlSend, Send(From, m))
    BY <1>4 DEF nrm_server_list_callback
  <2>2. Received \in Message /\ Received.type = "LIST"
    BY <1>0, <2>1, ReceivedTypes
  <2>3. m \in ToClient
    BY <1>0, <2>2, Arguments, ListTypes, Outgoing
  <2>4. nrm_msg_is_reply(m) /\ ReplyAccepted(Received, m)
    BY <2>2 DEF nrm_msg_set_list, nrm_msg_is_reply, ReplyAccepted
  <2> HIDE DEF m
  <2> QED  BY <1>0, <2>1, <2>3, <2>4, AnswerMoves
<1>5. CASE nrm_server_exit_callback
  BY <1>2, <1>5 DEF nrm_server_exit_callback
<1>6. CASE nrm_server_remove_callback /\ ~Crash
  BY <1>2, <1>6 DEF nrm_server_remove_callback
<1>7. CASE nrm_server_tick_callback /\ Outputs = <<>>
  BY <1>2, <1>7 DEF nrm_server_tick_callback
<1> QED  BY <1>3, <1>4, <1>5, <1>6, <1>7

\* A request leaves the pipe and is not answered: the daemon crashes on it.
LEMMA CrashMoves ==
  ASSUME TypeOK, NEW c \in Clients, NEW r \in Asking, NEW s \in Stages, At(c, r, s),
         nrm_server_remove_callback, Crash, UNCHANGED clientVars
  PROVE  Moves(c, r, s)
<1>0. ctlRecv \in Seq(FromControllerBroker)
  BY DEF TypeOK, ServerTypeOK
<1>1. ctlRecv # <<>> /\ ctlRecv' = Tail(ctlRecv) /\ loop' = loop
  BY DEF nrm_server_remove_callback, nrm_server_role_callback
<1>2. toBroker' = toBroker /\ fromBroker' = fromBroker
  BY DEF clientVars
<1>3. Got(c, r) \in SUBSET AskingFrom(c)
  BY Kinds
<1>4. /\ NoneIn(ctlRecv, AskingFrom(c)) => NoneIn(ctlRecv', AskingFrom(c))
      /\ OneIn(ctlRecv, AskingFrom(c), Got(c, r)) =>
           NoneIn(ctlRecv', AskingFrom(c)) \/ OneIn(ctlRecv', AskingFrom(c), Got(c, r))
  <2>1. CASE Head(ctlRecv) \in AskingFrom(c)
    BY <1>0, <1>1, <1>3, <2>1, QueueTake
  <2>2. CASE Head(ctlRecv) \notin AskingFrom(c)
    BY <1>0, <1>1, <1>3, <2>2, QueueTail
  <2> QED  BY <2>1, <2>2
<1>5. NoneIn(ctlSend', AnswersTo(c, Replies)) /\ CloseServerSockets
  BY QueueEmpty DEF Crash
<1> QED  BY <1>1, <1>2, <1>4, <1>5, CloseMoves

\* A TICK starts the control loop on behalf of its client.
LEMMA TickMoves ==
  ASSUME TypeOK, NEW c \in Clients, NEW r \in Asking, NEW s \in Stages, At(c, r, s),
         nrm_server_tick_callback, Outputs # <<>>, UNCHANGED clientVars
  PROVE  Moves(c, r, s)
<1>0. ServerTypeOK /\ ctlRecv \in Seq(FromControllerBroker)
  BY DEF TypeOK, ServerTypeOK
<1>1. /\ nrm_server_role_callback("TICK") /\ ctlSend' = ctlSend /\ StartControl(From)
      /\ toBroker' = toBroker /\ fromBroker' = fromBroker /\ up' = up /\ down' = down
  BY DEF nrm_server_tick_callback, clientVars, netVars
<1>2. /\ From \in Clients /\ Received \in Message /\ Received.type = "TICK" /\ loop = NULL
      /\ From = Head(ctlRecv).from /\ Received = Head(ctlRecv).msg
      /\ ctlRecv # <<>> /\ ctlRecv' = Tail(ctlRecv)
  BY <1>0, <1>1, ReceivedTypes DEF nrm_server_role_callback, From, Received
<1>3. Head(ctlRecv) \in FromControllerBroker /\ Received \in Asking
  BY <1>0, <1>2, QueueTypes DEF Asking
<1>4. Got(c, r) \in SUBSET AskingFrom(c)
  BY Kinds
<1>5. s # "loop" /\ loop'.from = From
  BY <1>1, <1>2 DEF At, Ticking, StartControl
<1>6. CASE From # c
  <2>1. Head(ctlRecv) \notin AskingFrom(c)
    BY <1>2, <1>6 DEF AskingFrom
  <2>2. /\ NoneIn(ctlRecv, AskingFrom(c)) => NoneIn(ctlRecv', AskingFrom(c))
        /\ OneIn(ctlRecv, AskingFrom(c), Got(c, r)) => OneIn(ctlRecv', AskingFrom(c), Got(c, r))
    BY <1>0, <1>2, <1>4, <2>1, QueueTail
  <2>3. ~Ticking(c)'
    BY <1>5, <1>6 DEF Ticking
  <2>4. At(c, r, s)'
    BY <1>1, <1>5, <2>2, <2>3 DEF At, Holds
  <2> QED  BY <2>4 DEF Moves
<1>7. CASE From = c
  <2>1. Head(ctlRecv) \in AskingFrom(c)
    BY <1>2, <1>3, <1>7 DEF AskingFrom
  <2>2. /\ ~NoneIn(ctlRecv, AskingFrom(c))
        /\ OneIn(ctlRecv, AskingFrom(c), Got(c, r)) =>
             Head(ctlRecv) \in Got(c, r) /\ NoneIn(Tail(ctlRecv), AskingFrom(c))
    BY <1>0, <1>2, <1>4, <2>1, QueueTake
  <2>3. s = "ctlRecv" /\ Head(ctlRecv) \in Got(c, r) /\ NoneIn(ctlRecv', AskingFrom(c))
    BY <1>2, <2>2 DEF At, Holds
  <2>4. r.type = "TICK"
    BY <1>2, <2>3 DEF Got
  <2>5. loop' # NULL
    BY <1>1, <1>2, ServerAssumption, StartTypes
  <2>6. Ticking(c)'
    BY <1>5, <1>7, <2>5 DEF Ticking
  <2>7. At(c, r, "loop")'
    BY <1>1, <2>3, <2>4, <2>6 DEF At, Holds
  <2> QED  BY <2>3, <2>7 DEF Moves, Stages
<1> QED  BY <1>6, <1>7

\* Between two outputs the control loop runs.
LEMMA LoopGoesOn ==
  ASSUME ServerTypeOK, loop # NULL, ~LastOutput
  PROVE  [loop EXCEPT !.k = @ + 1] \in ControlLoop
<1>1. loop \in ControlLoop
  BY DEF ServerTypeOK
<1>2. loop.k \in 1 .. Len(Outputs) /\ Len(Outputs) \in Nat
  BY <1>1, ServerAssumption DEF ControlLoop
<1>3. loop.k + 1 \in DOMAIN Outputs
  BY <1>2, ServerAssumption DEF LastOutput
<1> QED  BY <1>1, <1>3 DEF ControlLoop

\* One step of the control loop; the last one answers the TICK.
LEMMA ControlMoves ==
  ASSUME TypeOK, NEW c \in Clients, NEW r \in Asking, NEW s \in Stages, At(c, r, s),
         nrm_server_actuate, UNCHANGED clientVars
  PROVE  Moves(c, r, s)
<1> DEFINE u == Outputs[loop.k]
<1>0. ServerTypeOK /\ ctlSend \in Seq(ToControllerBroker)
  BY DEF TypeOK, ServerTypeOK
<1>1. /\ loop # NULL /\ loop' = IF LastOutput THEN NULL ELSE [loop EXCEPT !.k = @ + 1]
      /\ toBroker' = toBroker /\ fromBroker' = fromBroker /\ up' = up /\ down' = down
      /\ ctlRecv' = ctlRecv
  BY DEF nrm_server_actuate, clientVars, netVars
<1>2. loop \in ControlLoop /\ u \in Uuids
  BY <1>0, <1>1, ServerAssumption DEF ServerTypeOK, ControlLoop
<1>3. PICK q \in Seq(ToControllerBroker) :
        /\ ctlSend' = AckTick(q)
        /\ NoneIn(ctlSend, AnswersTo(c, Replies)) => NoneIn(q, AnswersTo(c, Replies))
        /\ OneIn(ctlSend, AnswersTo(c, Replies), AnswersTo(c, RepliesFor(r))) =>
             OneIn(q, AnswersTo(c, Replies), AnswersTo(c, RepliesFor(r)))
  <2>1. CASE actuators[u] # NULL
    <3>1. PICK v \in NewValues(loop.k) :
            SetValue(u, v) /\ ctlSend' = AckTick(Append(ctlSend, Command(u, v)))
      BY <2>1 DEF nrm_server_actuate
    <3>2. actuators[u] \in Registered
      BY <1>0, <1>2, <2>1 DEF ServerTypeOK
    <3>3. v \in Int
      BY <3>2, ServerAssumption DEF NewValues, Registered
    <3> HIDE DEF u
    <3>4. /\ Append(ctlSend, Command(u, v)) \in Seq(ToControllerBroker)
          /\ NoneIn(ctlSend, AnswersTo(c, Replies)) =>
               NoneIn(Append(ctlSend, Command(u, v)), AnswersTo(c, Replies))
          /\ OneIn(ctlSend, AnswersTo(c, Replies), AnswersTo(c, RepliesFor(r))) =>
               OneIn(Append(ctlSend, Command(u, v)), AnswersTo(c, Replies),
                     AnswersTo(c, RepliesFor(r)))
      BY <1>0, <1>2, <2>1, <3>1, <3>3, CommandKeeps
    <3> QED  BY <3>1, <3>4
  <2>2. CASE ctlSend' = AckTick(ctlSend)
    BY <1>0, <2>2
  <2> QED  BY <2>1, <2>2 DEF nrm_server_actuate
<1>4. CASE ~LastOutput
  <2>1. ctlSend' = q
    BY <1>3, <1>4 DEF AckTick
  <2>2. loop' = [loop EXCEPT !.k = @ + 1] /\ loop'.from = loop.from
    BY <1>1, <1>2, <1>4 DEF ControlLoop
  <2>3. loop' # NULL
    BY <1>0, <1>1, <1>4, <2>2, ServerAssumption, LoopGoesOn
  <2>4. Ticking(c)' <=> Ticking(c)
    BY <1>1, <2>2, <2>3 DEF Ticking
  <2>5. At(c, r, s)'
    BY <1>1, <1>3, <2>1, <2>4 DEF At, Holds
  <2> QED  BY <2>5 DEF Moves
<1>5. CASE LastOutput /\ loop.from # c
  <2>1. ~Ticking(c) /\ ~Ticking(c)'
    BY <1>1, <1>5 DEF Ticking
  <2>2. /\ NoneIn(q, AnswersTo(c, Replies)) => NoneIn(ctlSend', AnswersTo(c, Replies))
        /\ OneIn(q, AnswersTo(c, Replies), AnswersTo(c, RepliesFor(r))) =>
             OneIn(ctlSend', AnswersTo(c, Replies), AnswersTo(c, RepliesFor(r)))
    <3>1. CASE loop.from = NULL
      BY <1>3, <3>1 DEF AckTick
    <3>2. CASE loop.from # NULL
      <4>1. ctlSend' = Append(q, Send(loop.from, Ack))
        BY <1>3, <1>5, <3>2 DEF AckTick
      <4>2. Send(loop.from, Ack) \in ToControllerBroker
        BY <1>2, <3>2, Control, Outgoing DEF ControlLoop
      <4>3. Send(loop.from, Ack) \notin AnswersTo(c, Replies)
        BY <1>0, <1>5, NotAnswers
      <4> QED  BY <1>3, <4>1, <4>2, <4>3, QueueAppend
    <3> QED  BY <3>1, <3>2
  <2>3. s # "loop"
    BY <2>1 DEF At
  <2>4. At(c, r, s)'
    BY <1>1, <1>3, <2>1, <2>2, <2>3 DEF At, Holds
  <2> QED  BY <2>4 DEF Moves
<1>6. CASE LastOutput /\ loop.from = c
  <2>1. Ticking(c) /\ ~Ticking(c)'
    BY <1>1, <1>6 DEF Ticking
  <2>2. s = "loop" /\ r.type = "TICK"
    BY <2>1 DEF At
  <2>3. c # NULL
    BY ClientAssumption
  <2>4. ctlSend' = Append(q, Send(c, Ack))
    BY <1>3, <1>6, <2>3 DEF AckTick
  <2>5. Ack \in RepliesFor(r) /\ Send(c, Ack) \in ToControllerBroker
    <3>1. Ack \in ToClient /\ Ack \in Message
      BY Outgoing DEF ToClient
    <3>2. nrm_msg_is_reply(Ack) /\ ReplyAccepted(r, Ack)
      BY <2>2 DEF Ack, nrm_msg_fill, nrm_msg_is_reply, ReplyAccepted
    <3> QED  BY <3>1, <3>2, Control DEF RepliesFor, Replies
  <2>6. Send(c, Ack) \in AnswersTo(c, RepliesFor(r))
    BY <2>5 DEF AnswersTo, Send
  <2>7. NoneIn(q, AnswersTo(c, Replies))
    BY <1>3, <2>2 DEF At, Holds
  <2>8. OneIn(ctlSend', AnswersTo(c, Replies), AnswersTo(c, RepliesFor(r)))
    BY <1>3, <2>4, <2>5, <2>6, <2>7, QueueNew
  <2>9. At(c, r, "ctlSend")'
    BY <1>1, <2>1, <2>2, <2>8 DEF At, Holds
  <2> QED  BY <2>2, <2>9 DEF Moves, Stages
<1> QED  BY <1>4, <1>5, <1>6

\* The handlers that answer nobody: what they publish is no answer, and the
\* timer runs the control loop on behalf of no client.
LEMMA SilentMoves ==
  ASSUME TypeOK, NEW c \in Clients, NEW r \in Asking, NEW s \in Stages, At(c, r, s),
         \/ nrm_server_events_callback
         \/ nrm_server_timer_callback
         \/ nrm_server_signal_callback
         \/ nrm_server_destroy,
         UNCHANGED clientVars
  PROVE  Moves(c, r, s)
<1>0. /\ ServerTypeOK /\ ctlSend \in Seq(ToControllerBroker)
      /\ ctlRecv \in Seq(FromControllerBroker)
  BY DEF TypeOK, ServerTypeOK
<1>1. toBroker' = toBroker /\ fromBroker' = fromBroker /\ up' = up /\ down' = down
  BY DEF nrm_server_events_callback, nrm_server_timer_callback, nrm_server_signal_callback,
         nrm_server_destroy, clientVars, netVars
<1>2. /\ NoneIn(ctlSend, AnswersTo(c, Replies)) => NoneIn(ctlSend', AnswersTo(c, Replies))
      /\ OneIn(ctlSend, AnswersTo(c, Replies), AnswersTo(c, RepliesFor(r))) =>
           OneIn(ctlSend', AnswersTo(c, Replies), AnswersTo(c, RepliesFor(r)))
  <2>1. ASSUME NEW h, ctlSend' = Append(ctlSend, h),
               h \in ToControllerBroker, h \notin AnswersTo(c, Replies)
        PROVE  <1>2
    BY <1>0, <2>1, QueueAppend
  <2>2. CASE nrm_server_events_callback
    <3>1. Received \in ToListeners
      BY <1>0, <2>2, ReceivedTypes DEF nrm_server_events_callback, ToListeners
    <3>2. Pub("daemon.events.raw", Received) \in ToControllerBroker
      BY <3>1, Control DEF Topics
    <3>3. ctlSend' = Append(ctlSend, Pub("daemon.events.raw", Received))
      BY <2>2 DEF nrm_server_events_callback
    <3> QED  BY <1>0, <2>1, <3>2, <3>3, NotAnswers
  <2>3. CASE nrm_server_timer_callback
    <3> DEFINE e == [from |-> NULL, n |-> timer + 1]
    <3>1. e \in Event
      BY <1>0, ServerAssumption DEF Event, ServerTypeOK
    <3>2. ctlSend' = Append(ctlSend, Pub("daemon", nrm_msg_set_events(e)))
      BY <2>3 DEF nrm_server_timer_callback
    <3> HIDE DEF e
    <3>3. Pub("daemon", nrm_msg_set_events(e)) \in ToControllerBroker
      BY <3>1, Control, Outgoing DEF Topics
    <3> QED  BY <1>0, <2>1, <3>2, <3>3, NotAnswers
  <2>4. CASE nrm_server_signal_callback
    BY <2>4 DEF nrm_server_signal_callback
  <2>5. CASE nrm_server_destroy
    BY <1>0, <2>1, <2>5, Control, NotAnswers DEF nrm_server_destroy
  <2> QED  BY <2>2, <2>3, <2>4, <2>5
<1>3. /\ NoneIn(ctlRecv, AskingFrom(c)) => NoneIn(ctlRecv', AskingFrom(c))
      /\ OneIn(ctlRecv, AskingFrom(c), Got(c, r)) => OneIn(ctlRecv', AskingFrom(c), Got(c, r))
  <2>1. CASE nrm_server_events_callback
    <3>1. ctlRecv # <<>> /\ ctlRecv' = Tail(ctlRecv) /\ Head(ctlRecv).msg.type = "EVENTS"
      BY <2>1 DEF nrm_server_events_callback, nrm_server_role_callback
    <3>2. Head(ctlRecv) \notin AskingFrom(c)
      BY <3>1 DEF AskingFrom, Asking
    <3> QED  BY <1>0, <3>1, <3>2, Kinds, QueueTail
  <2>2. CASE ~nrm_server_events_callback
    BY <2>2 DEF nrm_server_timer_callback, nrm_server_signal_callback, nrm_server_destroy
  <2> QED  BY <2>1, <2>2
<1>4. Ticking(c)' <=> Ticking(c)
  <2>1. c # NULL
    BY ClientAssumption
  <2> QED  BY <2>1 DEF nrm_server_events_callback, nrm_server_timer_callback, StartControl,
            nrm_server_signal_callback, nrm_server_destroy, Ticking
<1>5. At(c, r, s)'
  BY <1>1, <1>2, <1>3, <1>4 DEF At, Holds
<1> QED  BY <1>5 DEF Moves

\* Every step of the daemon moves a client's request along its way.
LEMMA ServerMoves ==
  ASSUME TypeOK, NEW c \in Clients, NEW r \in Asking, NEW s \in Stages, At(c, r, s),
         ServerNext, UNCHANGED clientVars
  PROVE  Moves(c, r, s)
<1>1. CASE nrm_server_actuate_callback
  BY <1>1, ActuateCallbackMoves
<1>2. CASE \/ nrm_server_add_callback \/ nrm_server_list_callback
           \/ nrm_server_exit_callback
  BY <1>2, PlainAnswerMoves
<1>3. CASE nrm_server_remove_callback
  BY <1>3, PlainAnswerMoves, CrashMoves
<1>4. CASE nrm_server_tick_callback
  BY <1>4, PlainAnswerMoves, TickMoves
<1>5. CASE nrm_server_actuate
  BY <1>5, ControlMoves
<1>6. CASE \/ nrm_server_events_callback \/ nrm_server_timer_callback
           \/ nrm_server_signal_callback \/ nrm_server_destroy
  BY <1>6, SilentMoves
<1>7. CASE \E d \in Clients : nrm_controller_broker_rpc_handler(d)
  BY <1>7, ControllerRpcMoves
<1>8. CASE nrm_controller_broker_pipe_handler
  BY <1>8, ControllerPipeMoves
<1> QED  BY <1>1, <1>2, <1>3, <1>4, <1>5, <1>6, <1>7, <1>8 DEF ServerNext, Handler

-----------------------------------------------------------------------------
(* One step of the system *)

\* A thread of client c takes a reply that fails its assertions.
Rejects(c) ==
  \E t \in Threads : /\ ClientOf[t] = c /\ nrm_role_client_recv(t)
                     /\ ~ReplyAccepted(req[t], Head(fromBroker[c]))

\* Asking for the exit is never undone, a client that is not open never opens
\* again, and only a reply that its thread does not accept makes it abort.
OneWay(c) ==
  /\ exitSent[c] => exitSent'[c]
  /\ status'[c] = "open" => status[c] = "open"
  /\ status'[c] = "aborted" => status[c] = "aborted" \/ Rejects(c)

\* No call of a thread undoes these.
LEMMA ThreadOneWay ==
  ASSUME TypeOK, NEW t \in Threads, ThreadNext(t), NEW c \in Clients
  PROVE  OneWay(c)
<1>0. ClientTypeOK /\ ClientOf[t] \in Clients
  BY ClientAssumption DEF TypeOK
<1>1. CASE \E m \in Message, call \in Calls : Request(t, call, m)
  BY <1>1 DEF Request, nrm_role_client_send, OneWay
<1>2. CASE nrm_client_send_event(t) \/ LockForReply(t)
  BY <1>2 DEF nrm_client_send_event, nrm_role_client_send, LockForReply, OneWay
<1>3. CASE nrm_client_send_exit(t)
  BY <1>0, <1>3 DEF nrm_client_send_exit, nrm_role_client_send, ClientTypeOK, OneWay
<1>4. CASE nrm_client_destroy(t)
  BY <1>0, <1>4 DEF nrm_client_destroy, ClientTypeOK, OneWay
<1>5. CASE nrm_role_client_recv(t)
  <2>1. CASE ReplyAccepted(req[t], Head(fromBroker[ClientOf[t]]))
    <3>1. exitSent' = exitSent /\ status' = status
      BY <1>5, <2>1, Zenon DEF nrm_role_client_recv
    <3> QED  BY <3>1 DEF OneWay
  <2>2. CASE ~ReplyAccepted(req[t], Head(fromBroker[ClientOf[t]]))
    <3>1. exitSent' = exitSent /\ status' = [status EXCEPT ![ClientOf[t]] = "aborted"]
      BY <1>5, <2>2, Zenon DEF nrm_role_client_recv
    <3>2. CASE c = ClientOf[t]
      <4>1. Rejects(c)
        BY <1>5, <2>2, <3>2 DEF Rejects
      <4> QED  BY <1>0, <3>1, <3>2, <4>1 DEF OneWay, ClientTypeOK
    <3>3. CASE c # ClientOf[t]
      BY <1>0, <3>1, <3>3 DEF OneWay, ClientTypeOK
    <3> QED  BY <3>2, <3>3
  <2> QED  BY <2>1, <2>2
<1>6. CASE \/ nrm_role_client_register_cmd_cb(t) \/ register_cmd_cb_arg(t)
           \/ nrm_role_client_register_sub_cb(t)
           \/ \E topic \in Topics : nrm_role_client_sub(t, topic)
  BY <1>6 DEF nrm_role_client_register_cmd_cb, register_cmd_cb_arg,
     nrm_role_client_register_sub_cb, nrm_role_client_sub, OneWay
<1> QED  BY <1>1, <1>2, <1>3, <1>4, <1>5, <1>6, AskTypes DEF ThreadNext

\* The same for every step.
LEMMA NextOneWay ==
  ASSUME TypeOK, [Next]_vars, NEW c \in Clients
  PROVE  OneWay(c)
<1>0. ClientTypeOK
  BY DEF TypeOK
<1>1. CASE UNCHANGED clientVars
  BY <1>1 DEF clientVars, OneWay
<1>2. CASE \E t \in Threads : ThreadNext(t)
  BY <1>2, ThreadOneWay
<1>3. ASSUME NEW d \in Clients, BrokerNext(d) PROVE OneWay(c)
  <2>1. /\ exitSent' = exitSent
        /\ \/ status' = status
           \/ status' = [status EXCEPT ![d] = "closed"]
           \/ status' = [status EXCEPT ![d] = "segv"]
    <3>1. CASE nrm_client_broker_pipe_handler(d)
      BY <3>1 DEF nrm_client_broker_pipe_handler, threadVars
    <3>2. CASE nrm_client_broker_rpc_handler(d)
      BY <3>2, Zenon DEF nrm_client_broker_rpc_handler, CommandCallback, threadVars
    <3>3. CASE nrm_client_broker_sub_handler(d)
      BY <3>3, Zenon DEF nrm_client_broker_sub_handler, threadVars
    <3> QED  BY <1>3, <3>1, <3>2, <3>3 DEF BrokerNext
  <2> QED  BY <1>0, <2>1 DEF ClientTypeOK, OneWay
<1> QED  BY <1>1, <1>2, <1>3 DEF Next, ClientNext, vars

\* Every step keeps track of the one request of an unshared client.
LEMMA NextOut ==
  ASSUME TypeOK, OneOutstanding, [Next]_vars
  PROVE  OneOutstanding'
<1> SUFFICES ASSUME NEW t \in Threads, Live(ClientOf[t])' PROVE Outstanding(t)'
  BY DEF OneOutstanding
<1> DEFINE c == ClientOf[t]
<1>0. c \in Clients
  BY ClientAssumption
<1>1. Live(c)
  BY <1>0, NextOneWay DEF OneWay, Live, Unshared
<1>2. Outstanding(t)
  BY <1>1 DEF OneOutstanding
<1>3. status'[c] = "open"
  BY DEF Live
<1>4. ASSUME NEW u \in Threads, ThreadNext(u), UNCHANGED serverVars PROVE Outstanding(t)'
  <2>1. CASE u = t
    BY <1>2, <1>4, <2>1, OwnThread
  <2>2. CASE u # t
    <3>1. ClientOf[u] # c
      BY <1>1, <2>2 DEF Live, Unshared
    <3>2. /\ toBroker'[c] = toBroker[c] /\ fromBroker'[c] = fromBroker[c]
          /\ up'[c] = up[c] /\ down'[c] = down[c]
          /\ pc'[t] = pc[t] /\ req'[t] = req[t]
      BY <1>4, <3>1, OtherThread
    <3>3. ctlRecv' = ctlRecv /\ ctlSend' = ctlSend /\ loop' = loop
      BY <1>4 DEF serverVars
    <3>4. \A r \in Asking, s \in Stages : At(c, r, s) => Moves(c, r, s)
      BY <3>2, <3>3, AtFrame DEF Moves
    <3> QED  BY <1>2, <3>2, <3>4, MovesKeep
  <2> QED  BY <2>1, <2>2
<1>5. ASSUME NEW d \in Clients, BrokerNext(d), UNCHANGED serverVars PROVE Outstanding(t)'
  <2>1. pc' = pc /\ req' = req
    BY <1>5 DEF BrokerNext, nrm_client_broker_pipe_handler, nrm_client_broker_rpc_handler,
       nrm_client_broker_sub_handler, threadVars
  <2>2. \A r \in Asking, s \in Stages : At(c, r, s) => Moves(c, r, s)
    BY <1>0, <1>3, <1>5, ClientPipeMoves, ClientRpcMoves, ClientSubMoves DEF BrokerNext
  <2> QED  BY <1>2, <2>1, <2>2, MovesKeep
<1>6. CASE ServerNext /\ UNCHANGED clientVars
  <2>1. pc' = pc /\ req' = req
    BY <1>6 DEF clientVars
  <2>2. \A r \in Asking, s \in Stages : At(c, r, s) => Moves(c, r, s)
    BY <1>0, <1>6, ServerMoves
  <2> QED  BY <1>2, <2>1, <2>2, MovesKeep
<1>7. CASE UNCHANGED <<clientVars, serverVars, up, down>>
  <2>1. /\ toBroker' = toBroker /\ fromBroker' = fromBroker /\ up' = up /\ down' = down
        /\ ctlRecv' = ctlRecv /\ ctlSend' = ctlSend /\ loop' = loop
        /\ pc' = pc /\ req' = req
    BY <1>7 DEF clientVars, serverVars
  <2>2. \A r \in Asking, s \in Stages : At(c, r, s) => Moves(c, r, s)
    BY <2>1, AtFrame DEF Moves
  <2> QED  BY <1>2, <2>1, <2>2, MovesKeep
<1> QED
  BY <1>4, <1>5, <1>6, <1>7 DEF Next, ClientNext, SubscriptionArrives, vars, netVars

\* At the start nothing is under way.
LEMMA InitOut == Init => OneOutstanding /\ AssertsHoldUnshared
<1> SUFFICES ASSUME Init PROVE OneOutstanding /\ AssertsHoldUnshared
  OBVIOUS
<1>1. AssertsHoldUnshared
  BY DEF Init, ClientInit, AssertsHoldUnshared
<1>2. ASSUME NEW t \in Threads PROVE Outstanding(t)
  <2>1. ClientOf[t] \in Clients /\ pc[t] = "idle"
    BY ClientAssumption DEF Init, ClientInit
  <2>2. /\ toBroker[ClientOf[t]] = <<>> /\ fromBroker[ClientOf[t]] = <<>>
        /\ up[ClientOf[t]] = <<>> /\ down[ClientOf[t]] = <<>>
        /\ ctlRecv = <<>> /\ ctlSend = <<>> /\ loop = NULL
    BY <2>1 DEF Init, ClientInit, ServerInit, NetInit
  <2>3. At(ClientOf[t], NULL, "nowhere")
    BY <2>2, QueueEmpty DEF At, Holds, Ticking
  <2> QED  BY <2>1, <2>3 DEF Outstanding
<1> QED  BY <1>1, <1>2 DEF OneOutstanding

\* No step of an unshared client fails an assertion.
LEMMA NextAsserts ==
  ASSUME TypeOK, OneOutstanding, AssertsHoldUnshared, [Next]_vars
  PROVE  AssertsHoldUnshared'
<1> SUFFICES ASSUME NEW c \in Clients, Unshared(c), ~exitSent'[c], status'[c] = "aborted"
             PROVE  FALSE
  BY DEF AssertsHoldUnshared, Unshared
<1>1. ~exitSent[c] /\ (status[c] = "aborted" \/ Rejects(c))
  BY NextOneWay DEF OneWay
<1>2. Rejects(c)
  BY <1>1 DEF AssertsHoldUnshared
<1>3. PICK t \in Threads : /\ ClientOf[t] = c /\ nrm_role_client_recv(t)
                           /\ ~ReplyAccepted(req[t], Head(fromBroker[c]))
  BY <1>2 DEF Rejects
<1>4. Live(ClientOf[t])
  BY <1>1, <1>3 DEF Live, nrm_role_client_recv
<1>5. Outstanding(t)
  BY <1>4 DEF OneOutstanding
<1> QED  BY <1>3, <1>5, RecvTakes

-----------------------------------------------------------------------------
(* The replies on their way to a client *)

\* No reply in M is on its way to client c.
NoReply(c, M) ==
  /\ NoneIn(ctlSend, AnswersTo(c, M \cap Replies))
  /\ NoneIn(down[c], M \cap Replies)
  /\ NoneIn(fromBroker[c], M)

\* That is, RepliesTo(c) and M have nothing in common.
LEMMA NoReplies ==
  ASSUME TypeOK, NEW c \in Clients, NEW M \in SUBSET Message
  PROVE  NoReply(c, M) <=> \A m \in RepliesTo(c) : m \notin M
<1>0. /\ ctlSend \in Seq(ToControllerBroker) /\ down[c] \in Seq(ToClient) /\ fromBroker[c] \in Seq(ToClient)
  BY DEF TypeOK, ClientTypeOK, NetTypeOK, ServerTypeOK
<1>1. NoneIn(ctlSend, AnswersTo(c, M \cap Replies)) <=>
        \A i \in DOMAIN ctlSend : ctlSend[i].ctrl = "SEND" /\ ctlSend[i].to = c
                                  /\ nrm_msg_is_reply(ctlSend[i].msg) => ctlSend[i].msg \notin M
  <2>1. \A i \in DOMAIN ctlSend : ctlSend[i] \in AnswersTo(c, M \cap Replies) <=>
          /\ ctlSend[i].ctrl = "SEND" /\ ctlSend[i].to = c
          /\ nrm_msg_is_reply(ctlSend[i].msg) /\ ctlSend[i].msg \in M
    BY <1>0, SMTT(60) DEF AnswersTo, Replies
  <2>2. NoneIn(ctlSend, AnswersTo(c, M \cap Replies)) <=>
          \A i \in DOMAIN ctlSend : ctlSend[i] \notin AnswersTo(c, M \cap Replies)
    <3>1. DOMAIN ctlSend = 1 .. Len(ctlSend)
      BY <1>0, SMTT(60)
    <3> QED  BY <3>1, Zenon DEF NoneIn
  <2> QED  BY <2>1, <2>2, Zenon
<1>2. NoneIn(down[c], M \cap Replies) <=>
        \A i \in DOMAIN down[c] : nrm_msg_is_reply(down[c][i]) => down[c][i] \notin M
  BY <1>0 DEF NoneIn, Replies
<1>3. NoneIn(fromBroker[c], M) <=> \A i \in DOMAIN fromBroker[c] : fromBroker[c][i] \notin M
  BY <1>0, SMTT(60) DEF NoneIn
<1> QED  BY <1>1, <1>2, <1>3, Zenon DEF NoReply, RepliesTo

\* They are messages.
LEMMA ReplyTypes ==
  ASSUME TypeOK, NEW c \in Clients, NEW m \in RepliesTo(c)
  PROVE  m \in Message
<1>0. /\ ctlSend \in Seq(ToControllerBroker) /\ down[c] \in Seq(ToClient) /\ fromBroker[c] \in Seq(ToClient)
  BY DEF TypeOK, ClientTypeOK, NetTypeOK, ServerTypeOK
<1>1. ASSUME NEW i \in DOMAIN ctlSend, ctlSend[i].ctrl = "SEND" PROVE ctlSend[i].msg \in Message
  <2>1. ctlSend[i] \in ToControllerBroker
    BY <1>0, SMTT(60)
  <2> QED  BY <1>1, <2>1, Control DEF ToClient
<1>2. ASSUME NEW i \in DOMAIN down[c] PROVE down[c][i] \in Message
  BY <1>0 DEF ToClient
<1>3. ASSUME NEW i \in DOMAIN fromBroker[c] PROVE fromBroker[c][i] \in Message
  BY <1>0, SMTT(60) DEF ToClient
<1> QED  BY <1>1, <1>2, <1>3, Zenon DEF RepliesTo

\* Fewer replies are looked for.
LEMMA NoReplyLess ==
  ASSUME NEW c, NEW M, NEW L \in SUBSET M, NoReply(c, M)
  PROVE  NoReply(c, L)
  BY DEF NoReply, NoneIn, AnswersTo

\* The steps of the clients bring client c no new reply.
LEMMA ReplyClient ==
  ASSUME TypeOK, NEW c \in Clients, NEW M, NoReply(c, M), ClientNext, UNCHANGED serverVars
  PROVE  NoReply(c, M)'
<1>0. down[c] \in Seq(ToClient) /\ fromBroker[c] \in Seq(ToClient)
  BY DEF TypeOK, ClientTypeOK, NetTypeOK
<1>1. /\ NoneIn(ctlSend', AnswersTo(c, M \cap Replies))
      /\ NoneIn(down[c], M \cap Replies) /\ NoneIn(fromBroker[c], M)
  BY DEF NoReply, serverVars
<1>2. CASE UNCHANGED <<down[c], fromBroker[c]>>
  BY <1>1, <1>2 DEF NoReply
<1>3. ASSUME down'[c] = down[c] \/ down'[c] = <<>>,
             fromBroker'[c] = fromBroker[c] \/ (fromBroker[c] # <<>> /\ fromBroker'[c] = Tail(fromBroker[c]))
      PROVE  NoReply(c, M)'
  <2>1. NoneIn(fromBroker'[c], M)
    BY <1>0, <1>1, <1>3, QueueNone, SMTT(60)
  <2>2. NoneIn(down'[c], M \cap Replies)
    BY <1>1, <1>3, QueueEmpty
  <2> QED  BY <1>1, <2>1, <2>2 DEF NoReply
<1>4. ASSUME NEW m \in ToClient, Receives(c, m)
      PROVE  NoReply(c, M)'
  <2>1. /\ down[c] # <<>> /\ m = Head(down[c]) /\ down'[c] = Tail(down[c])
        /\ \/ nrm_msg_is_reply(m) /\ fromBroker'[c] = Append(fromBroker[c], m)
           \/ fromBroker'[c] = fromBroker[c]
    BY <1>4, Zenon DEF Receives
  <2>2. m \notin M \cap Replies /\ NoneIn(down'[c], M \cap Replies)
    BY <1>0, <1>1, <2>1, QueueNone
  <2>3. nrm_msg_is_reply(m) => m \notin M
    BY <2>2 DEF Replies, ToClient
  <2>4. m \notin M => NoneIn(Append(fromBroker[c], m), M)
    BY <1>0, <1>1, QueueAppend, ZenonT(30)
  <2> QED  BY <1>1, <2>1, <2>2, <2>3, <2>4, Zenon DEF NoReply
<1>5. CASE Idle(c) \/ Waits(c) \/ \E m \in ToListeners : Hears(c, m)
  BY <1>2, <1>5, Zenon DEF Idle, Waits, Hears, NetIdle, PipesIdle
<1>6. CASE \/ \E t \in Threads, h \in ToClientBroker : Pushes(t, c, h)
           \/ \E h \in ToClientBroker : Transmits(c, h)
  BY <1>2, <1>6, Zenon DEF Pushes, Transmits, NetIdle
<1>7. CASE Gone(c) \/ \E t \in Threads, m \in ToClient : Takes(t, c, m)
  BY <1>3, <1>7, Zenon DEF Gone, Takes, NetIdle
<1> QED  BY <1>4, <1>5, <1>6, <1>7, ClientViews, Zenon DEF ClientStep

\* Those of the daemon bring it the answers to its requests, and the ACK of a
\* TICK.
LEMMA ReplyServer ==
  ASSUME TypeOK, NEW c \in Clients, NEW M, NoReply(c, M), ServerNext, UNCHANGED clientVars,
         \A h \in AskingFrom(c), m \in Replies : Answers(h) /\ Truthful(m, h.msg) => m \notin M,
         Ticking(c) => Ack \notin M
  PROVE  NoReply(c, M)'
<1> DEFINE S == AnswersTo(c, M \cap Replies)
<1>0. /\ ctlSend \in Seq(ToControllerBroker) /\ down[c] \in Seq(ToClient) /\ down \in [Clients -> Seq(ToClient)]
      /\ loop \in ControlLoop \cup {NULL} /\ timer \in Nat
  BY ServerAssumption, SMTT(60) DEF TypeOK, NetTypeOK, ServerTypeOK
<1>1. NoneIn(ctlSend, S) /\ NoneIn(down[c], M \cap Replies) /\ NoneIn(fromBroker'[c], M)
  BY DEF NoReply, clientVars
<1> HIDE DEF S
<1>2. ASSUME NoneIn(ctlSend', S), down'[c] = down[c] \/ down'[c] \in Prefix(down[c])
      PROVE  NoReply(c, M)'
  <2>1. NoneIn(down'[c], M \cap Replies)
    BY <1>0, <1>1, <1>2, QueueCut, Zenon
  <2> QED  BY <1>1, <1>2, <2>1 DEF NoReply, S
<1>3. ASSUME NEW p \in Seq(ToControllerBroker), Ordered(p) PROVE NoneIn(p, S)
  <2>1. \A o \in Orders : o \in ToControllerBroker /\ o \notin S
    BY DEF Orders, AnswersTo, Replies, nrm_msg_is_reply, S
  <2>2. \A o \in Orders : NoneIn(Append(ctlSend, o), S)
    BY <1>0, <1>1, <2>1, QueueAppend, Zenon
  <2> QED  BY <1>1, <1>3, <2>2, Zenon DEF Ordered
<1>4. ASSUME NEW p \in Seq(ToControllerBroker), Ordered(p), NEW d \in Clients, NEW m \in ToClient,
             d # c \/ m \notin M
      PROVE  NoneIn(Append(p, Send(d, m)), S)
  <2>1. Send(d, m) \in ToControllerBroker /\ Send(d, m) \notin S
    BY <1>4, Control DEF Send, AnswersTo, S
  <2>2. NoneIn(p, S)
    BY <1>3, <1>4
  <2> QED  BY <2>1, <2>2, QueueAppend
<1>5. ASSUME NEW e \in ToControllerBroker, e.ctrl # "SEND", ctlSend' = Append(ctlSend, e)
      PROVE  NoneIn(ctlSend', S)
  <2>1. e \notin S
    BY <1>5 DEF AnswersTo, S
  <2> QED  BY <1>0, <1>1, <1>5, <2>1, QueueAppend, Zenon
<1>6. ASSUME NEW h \in FromControllerBroker, Answers(h) PROVE NoReply(c, M)'
  <2>1. down' = down /\ h.from \in Clients /\ h.msg \in Asking
    BY <1>6 DEF Answers, netVars, FromControllerBroker
  <2>2. h.from = c => h \in AskingFrom(c)
    BY <2>1 DEF AskingFrom
  <2>3. ASSUME NEW p \in Seq(ToControllerBroker), NEW m \in Replies, Ordered(p),
               ctlSend' = Append(p, Send(h.from, m)), Truthful(m, h.msg)
        PROVE  NoneIn(ctlSend', S)
    <3>1. m \in ToClient /\ (h.from # c \/ m \notin M)
      BY <1>6, <2>2, <2>3 DEF Truthful
    <3> QED  BY <1>4, <2>1, <2>3, <3>1, ZenonT(30)
  <2>4. NoneIn(ctlSend', S)
    BY <1>1, <1>6, <2>3 DEF Answers
  <2> QED  BY <1>2, <2>1, <2>4
<1>7. CASE Controls
  <2>1. down' = down
    BY <1>7 DEF Controls, netVars
  <2>2. PICK p \in Seq(ToControllerBroker) : /\ Ordered(p)
                                            /\ \/ ctlSend' = p
                                               \/ /\ loop # NULL /\ loop.from # NULL
                                                  /\ ctlSend' = Append(p, Send(loop.from, Ack))
    BY <1>7 DEF Controls
  <2>3. CASE ctlSend' = p
    BY <1>2, <1>3, <2>1, <2>2, <2>3, ZenonT(30)
  <2>4. CASE loop # NULL /\ loop.from # NULL /\ ctlSend' = Append(p, Send(loop.from, Ack))
    <3>1. loop.from \in Clients /\ (loop.from # c \/ Ack \notin M)
      BY <1>0, <2>4 DEF ControlLoop, Ticking
    <3>2. NoneIn(ctlSend', S)
      BY <1>4, <2>2, <2>4, <3>1, Outgoing, ZenonT(30)
    <3> QED  BY <1>2, <2>1, <3>2
  <2> QED  BY <2>2, <2>3, <2>4
<1>8. CASE nrm_server_events_callback
  <2>1. down' = down /\ ctlSend' = Append(ctlSend, Pub("daemon.events.raw", Received)) /\ Received \in ToListeners
    BY <1>8, EventReceived, ZenonT(30) DEF netVars
  <2>2. /\ Pub("daemon.events.raw", Received) \in ToControllerBroker
        /\ Pub("daemon.events.raw", Received).ctrl # "SEND"
    BY <2>1, Control DEF Pub, Topics
  <2> QED  BY <1>2, <1>5, <2>1, <2>2
<1>9. CASE nrm_server_timer_callback
  <2> DEFINE e == [from |-> NULL, n |-> timer + 1]
             m == nrm_msg_set_events(e)
  <2>1. down' = down /\ ctlSend' = Append(ctlSend, Pub("daemon", m))
    BY <1>9, Zenon DEF nrm_server_timer_callback, netVars
  <2>2. e \in Event
    BY <1>0, SMTT(60) DEF Event
  <2>3. m \in ToListeners
    BY <2>2, Outgoing
  <2> HIDE DEF m
  <2>4. Pub("daemon", m) \in ToControllerBroker /\ Pub("daemon", m).ctrl # "SEND"
    BY <2>3, Control DEF Pub, Topics
  <2> QED  BY <1>2, <1>5, <2>1, <2>4
<1>10. CASE nrm_server_destroy
  <2>1. down' = down /\ ctlSend' = Append(ctlSend, Term) /\ Term \in ToControllerBroker /\ Term.ctrl # "SEND"
    BY <1>10, Control DEF nrm_server_destroy, netVars, Term
  <2> QED  BY <1>2, <1>5, <2>1
<1>11. CASE nrm_server_signal_callback \/ \E d \in Clients : nrm_controller_broker_rpc_handler(d)
  BY <1>1, <1>2, <1>11, ZenonT(30) DEF nrm_server_signal_callback, nrm_controller_broker_rpc_handler, netVars
<1>12. CASE Crashes
  <2>1. ctlSend' = <<>> /\ down'[c] \in Prefix(down[c])
    BY <1>12 DEF Crashes, Crash, CloseServerSockets, LeftOf
  <2> QED  BY <1>2, <2>1, QueueEmpty
<1>13. CASE nrm_controller_broker_pipe_handler
  <2> DEFINE h == Head(ctlSend)
  <2>1. ctlSend # <<>> /\ ctlSend' = Tail(ctlSend) /\ h = Head(ctlSend)
    BY <1>13 DEF nrm_controller_broker_pipe_handler
  <2>2. h \in ToControllerBroker /\ h \notin S /\ NoneIn(ctlSend', S)
    BY <1>0, <1>1, <2>1, QueueNone, QueueTypes, ZenonT(30)
  <2> HIDE DEF h
  <2>3. CASE h.ctrl = "SEND" /\ nrm_msg_sendto(h.to, h.msg)
    <3>1. /\ h.to \in Clients /\ h.msg \in ToClient
          /\ down'[c] = down[c] \/ (h.to = c /\ down'[c] = Append(down[c], h.msg))
      BY <1>0, <2>2, <2>3, Control, ZenonT(30) DEF nrm_msg_sendto
    <3>2. h.to = c => h.msg \notin M \cap Replies
      BY <2>2, <2>3 DEF AnswersTo, S
    <3>3. h.to = c => NoneIn(Append(down[c], h.msg), M \cap Replies)
      BY <1>0, <1>1, <3>1, <3>2, QueueAppend, Zenon
    <3> QED  BY <1>1, <2>2, <3>1, <3>3, Zenon DEF NoReply, S
  <2>4. CASE down' = down \/ down' \in LeftOf(down)
    BY <1>2, <2>2, <2>4 DEF LeftOf
  <2> QED  BY <1>13, <2>3, <2>4, ZenonT(30) DEF nrm_controller_broker_pipe_handler, CloseServerSockets, h
<1> QED
  BY <1>6, <1>7, <1>8, <1>9, <1>10, <1>11, <1>12, <1>13, ServerViews, Zenon DEF ServerStep

\* What a step of the daemon does to the messages of client c: the daemon ends,
\* takes something else, answers a request of c, or gets a message of c or of
\* another client.
AskStep(c) ==
  \/ UNCHANGED <<ctlRecv, up[c]>>
  \/ /\ ~Serves' /\ (up'[c] = up[c] \/ up'[c] = <<>>)
     /\ ctlRecv' = ctlRecv \/ (ctlRecv # <<>> /\ ctlRecv' = Tail(ctlRecv))
  \/ /\ ctlRecv # <<>> /\ Head(ctlRecv) \notin AskingFrom(c)
     /\ ctlRecv' = Tail(ctlRecv) /\ up'[c] = up[c]
  \/ \E h \in AskingFrom(c) : Answers(h)
  \/ \E e \in FromControllerBroker : /\ e \notin AskingFrom(c) /\ e.from # c
                                     /\ ctlRecv' = Append(ctlRecv, e) /\ up'[c] = up[c]
  \/ nrm_controller_broker_rpc_handler(c)

\* Every step of the daemon is one of these.
LEMMA AskViews ==
  ASSUME TypeOK, NEW c \in Clients, ServerNext
  PROVE  AskStep(c)
<1>0. up \in [Clients -> Seq(Message)] /\ ctlRecv \in Seq(FromControllerBroker)
  BY DEF TypeOK, NetTypeOK, ServerTypeOK
<1>1. CASE /\ ~Serves' /\ UNCHANGED ctlRecv
           /\ (up' = up \/ up' = [d \in Clients |-> <<>>])
  BY <1>1 DEF AskStep
<1>2. CASE Crashes
  BY <1>2, Zenon DEF Crashes, Crash, CloseServerSockets, nrm_server_role_callback, Serves, AskStep
<1>3. CASE UNCHANGED <<events, ctlRecv, up>>
  BY <1>3 DEF AskStep
<1>4. ASSUME NEW h \in FromControllerBroker, Answers(h) PROVE AskStep(c)
  <2>1. /\ ctlRecv # <<>> /\ h = Head(ctlRecv) /\ ctlRecv' = Tail(ctlRecv) /\ up' = up
    BY <1>4 DEF Answers, netVars
  <2> QED  BY <1>4, <2>1 DEF AskStep
<1>5. CASE nrm_server_events_callback
  <2>1. /\ ctlRecv # <<>> /\ ctlRecv' = Tail(ctlRecv) /\ up' = up
        /\ Head(ctlRecv).msg.type = "EVENTS"
    BY <1>5, EventReceived DEF netVars
  <2>2. Head(ctlRecv) \notin AskingFrom(c)
    BY <2>1 DEF AskingFrom, Asking
  <2> QED  BY <2>1, <2>2 DEF AskStep
<1>6. ASSUME NEW d \in Clients, nrm_controller_broker_rpc_handler(d) PROVE AskStep(c)
  <2> DEFINE e == [from |-> d, msg |-> Head(up[d])]
  <2>1. CASE d = c
    BY <1>6, <2>1, ZenonT(30) DEF AskStep
  <2>2. CASE d # c
    <3>1. e \in FromControllerBroker /\ ctlRecv' = Append(ctlRecv, e) /\ up'[c] = up[c]
      BY <1>6, <2>2, Passed
    <3>2. e.from # c /\ e \notin AskingFrom(c)
      BY <2>2 DEF AskingFrom
    <3> HIDE DEF e
    <3> QED  BY <3>1, <3>2 DEF AskStep
  <2> QED  BY <2>1, <2>2
<1> QED  BY <1>1, <1>2, <1>3, <1>4, <1>5, <1>6, RecordViews, Zenon

\* A daemon without its eventbase never gets it back.
LEMMA ServesBefore ==
  ASSUME TypeOK, ServerNext, Serves'
  PROVE  Serves
<1>1. CASE \E h \in FromControllerBroker : Answers(h)
  BY <1>1, Zenon DEF Answers, Serves
<1>2. CASE nrm_server_events_callback \/ \E c \in Clients : nrm_controller_broker_rpc_handler(c)
  BY <1>2, Zenon DEF nrm_server_events_callback, nrm_controller_broker_rpc_handler, Serves
<1>3. ~Crashes
  BY Zenon DEF Crashes, Crash, Serves
<1> QED  BY <1>1, <1>2, <1>3, RecordViews, Zenon

\* The control loop starts to run for client c only when its TICK is taken.
LEMMA TickViews ==
  ASSUME TypeOK, NEW c \in Clients, ServerNext, ~Ticking(c), Ticking(c)'
  PROVE  \E h \in AskingFrom(c) : Answers(h) /\ h.msg.type = "TICK"
<1>1. loop' # NULL /\ loop'.from = c /\ loop' # loop
  BY DEF Ticking
<1>2. ASSUME NEW h \in FromControllerBroker, Answers(h)
      PROVE  h \in AskingFrom(c) /\ h.msg.type = "TICK"
  <2>1. h.msg \in Asking /\ h.msg.type = "TICK" /\ loop' = [k |-> 1, from |-> h.from]
    BY <1>1, <1>2, Zenon DEF Answers
  <2> QED  BY <1>1, <2>1 DEF AskingFrom
<1>3. CASE Controls
  <2>1. loop # NULL /\ loop'.from = loop.from
    BY <1>1, <1>3 DEF Controls
  <2> QED  BY <1>1, <2>1 DEF Ticking
<1>4. CASE nrm_server_timer_callback
  <2>1. loop' = [k |-> 1, from |-> NULL]
    BY <1>1, <1>4, Zenon DEF nrm_server_timer_callback, StartControl
  <2>2. NULL \notin Clients
    BY ClientAssumption
  <2> QED  BY <1>1, <2>1, <2>2
<1>5. CASE \/ Crashes \/ nrm_server_events_callback \/ nrm_server_destroy \/ nrm_server_signal_callback
           \/ (\E d \in Clients : nrm_controller_broker_rpc_handler(d))
           \/ nrm_controller_broker_pipe_handler
  BY <1>1, <1>5, Zenon DEF Crashes, nrm_server_events_callback, nrm_server_destroy,
    nrm_server_signal_callback, nrm_controller_broker_rpc_handler, nrm_controller_broker_pipe_handler
<1> QED  BY <1>2, <1>3, <1>4, <1>5, ServerViews, ZenonT(30) DEF ServerStep

\* A daemon that keeps running forgets nothing it registered.
LEMMA Stays ==
  ASSUME TypeOK, ServerNext, daemon' = "running"
  PROVE  /\ daemon = "running" /\ connected' = connected
         /\ \A target \in Targets : nrm_state_list(target) \subseteq nrm_state_list(target)'
<1>1. CASE \E h \in FromControllerBroker : Answers(h)
  BY <1>1, Zenon DEF Answers, netVars
<1>2. CASE Controls
  BY <1>2, Zenon DEF Controls, netVars
<1>3. ASSUME UNCHANGED <<daemon, stateVars, connected>>
      PROVE  /\ daemon = "running" /\ connected' = connected
             /\ \A target \in Targets : nrm_state_list(target) \subseteq nrm_state_list(target)'
  <2>1. objects' = objects /\ actuators' = actuators
    BY <1>3 DEF stateVars
  <2> QED  BY <1>3, <2>1 DEF nrm_state_list
<1>4. CASE nrm_server_events_callback \/ nrm_server_timer_callback
  BY <1>3, <1>4, Zenon DEF nrm_server_events_callback, nrm_server_timer_callback, netVars
<1>5. CASE \E c \in Clients : nrm_controller_broker_rpc_handler(c)
  BY <1>3, <1>5, Zenon DEF nrm_controller_broker_rpc_handler
<1>6. CASE nrm_controller_broker_pipe_handler
  BY <1>3, <1>6, Zenon DEF nrm_controller_broker_pipe_handler
<1>7. ~Crashes /\ ~nrm_server_destroy /\ ~nrm_server_signal_callback
  BY ZenonT(30) DEF Crashes, Crash, nrm_server_destroy, nrm_server_signal_callback
<1> QED  BY <1>1, <1>2, <1>4, <1>5, <1>6, <1>7, ServerViews, ZenonT(30) DEF ServerStep

-----------------------------------------------------------------------------
(* A client that has asked the daemon to exit *)

Exits == {m \in Message : m.type = "EXIT"}
ExitsOnPipe == {h \in ToClientBroker : h.ctrl = "SEND" /\ h.arg \in Exits}
ExitsFrom(c) == {h \in FromControllerBroker : h.from = c /\ h.msg \in Exits}

\* The replies that tell about the registry.
Told == {m \in Message : m.type \in {"ADD", "LIST"}}

\* The exit is the first request of client c the daemon will take.
ExitAhead(c) ==
  \/ FirstIn(ctlRecv, AskingFrom(c), ExitsFrom(c))
  \/ /\ NoneIn(ctlRecv, AskingFrom(c))
     /\ \/ FirstIn(up[c], Asking, Exits)
        \/ /\ NoneIn(up[c], Asking)
           /\ connected[c] => FirstIn(toBroker[c], AskingOnPipe, ExitsOnPipe)

ExitFirst(c) ==
  /\ NoReply(c, Told) /\ ~Ticking(c)
  /\ daemon = "running" => ExitAhead(c)

\* Used by one thread, a client that has asked the daemon to exit is told
\* nothing more about the registry.
ExitInv == \A c \in Clients : Unshared(c) /\ exitSent[c] => ExitFirst(c)

\* Nothing of a client whose thread is between two calls is under way.
LEMMA NothingAsked ==
  ASSUME TypeOK, NEW t \in Threads, NEW c \in Clients, ClientOf[t] = c,
         Live(c), OneOutstanding, pc[t] \in {"idle", "sub_arg"}
  PROVE  /\ NoneIn(toBroker[c], AskingOnPipe) /\ NoneIn(up[c], Asking)
         /\ NoneIn(ctlRecv, AskingFrom(c)) /\ ~Ticking(c) /\ NoReply(c, Message)
<1>1. At(c, NULL, "nowhere")
  BY Zenon DEF OneOutstanding, Outstanding
<1>2. Message \cap Replies = Replies
  BY DEF Replies
<1> QED  BY <1>1, <1>2, Zenon DEF At, Holds, NoReply

\* The clients' steps keep the exit ahead, and put it there.
LEMMA ExitClient ==
  ASSUME TypeOK, Lives, OneOutstanding, ClientNext, UNCHANGED serverVars,
         NEW c \in Clients, Unshared(c), exitSent'[c], exitSent[c] => ExitFirst(c)
  PROVE  ExitFirst(c)'
<1>0. /\ toBroker[c] \in Seq(ToClientBroker) /\ up[c] \in Seq(Message) /\ ctlRecv \in Seq(FromControllerBroker)
      /\ Exits \subseteq Asking /\ Told \subseteq Message
  BY Zenon DEF TypeOK, ClientTypeOK, NetTypeOK, ServerTypeOK, Exits, Asking, Told
<1>1. daemon' = daemon /\ ctlRecv' = ctlRecv /\ (Ticking(c)' <=> Ticking(c))
  BY DEF serverVars, Ticking
<1>2. ASSUME exitSent[c], daemon = "running" => ExitAhead(c)' PROVE ExitFirst(c)'
  <2>1. NoReply(c, Told) /\ ~Ticking(c)
    BY <1>2 DEF ExitFirst
  <2>2. NoReply(c, Told)'
    BY <2>1, ReplyClient
  <2> QED  BY <1>1, <1>2, <2>1, <2>2 DEF ExitFirst
<1>3. ASSUME exitSent[c], daemon = "running",
             ~FirstIn(ctlRecv, AskingFrom(c), ExitsFrom(c))
      PROVE  /\ NoneIn(ctlRecv', AskingFrom(c))
             /\ \/ FirstIn(up[c], Asking, Exits)
                \/ /\ NoneIn(up[c], Asking)
                   /\ connected[c] => FirstIn(toBroker[c], AskingOnPipe, ExitsOnPipe)
  BY <1>1, <1>3, ZenonT(30) DEF ExitFirst, ExitAhead
<1>4. FirstIn(ctlRecv, AskingFrom(c), ExitsFrom(c)) => ExitAhead(c)'
  BY <1>1 DEF ExitAhead
<1>5. CASE UNCHANGED <<toBroker[c], up[c], sent[c], connected[c], exitSent[c]>>
  <2>1. exitSent[c]
    BY <1>5
  <2>2. daemon = "running" => ExitAhead(c)'
    BY <1>3, <1>4, <1>5, <2>1 DEF ExitAhead
  <2> QED  BY <1>2, <2>1, <2>2
<1>6. ASSUME NEW t \in Threads, NEW h \in ToClientBroker, ClientOf[t] = c, Pushes(t, c, h)
      PROVE  ExitFirst(c)'
  <2>0. /\ toBroker'[c] = Append(toBroker[c], h) /\ up'[c] = up[c] /\ connected'[c] = connected[c]
        /\ status[c] = "open" /\ pc[t] \in {"idle", "sub_arg"}
        /\ exitSent[c] \/ IsSend(h, "EXIT")
    BY <1>6, Zenon DEF Pushes, NetIdle
  <2>1. CASE exitSent[c]
    <3>1. FirstIn(toBroker[c], AskingOnPipe, ExitsOnPipe) => FirstIn(toBroker'[c], AskingOnPipe, ExitsOnPipe)
      BY <1>0, <2>0, FirstAppend
    <3>2. daemon = "running" => ExitAhead(c)'
      BY <1>3, <1>4, <2>0, <2>1, <3>1, ZenonT(30) DEF ExitAhead
    <3> QED  BY <1>2, <2>1, <3>2
  <2>2. CASE ~exitSent[c]
    <3>1. Live(c)
      BY <2>0, <2>2, ZenonT(30) DEF Live
    <3>2. /\ NoneIn(toBroker[c], AskingOnPipe) /\ NoneIn(up[c], Asking)
          /\ NoneIn(ctlRecv, AskingFrom(c)) /\ ~Ticking(c) /\ NoReply(c, Message)
      BY <1>6, <2>0, <3>1, NothingAsked, ZenonT(30)
    <3>3. NoReply(c, Told)'
      BY <1>0, <3>2, NoReplyLess, ReplyClient, ZenonT(30)
    <3>4. h \in ExitsOnPipe
      BY <2>0, <2>2, Control DEF IsSend, ExitsOnPipe, Exits
    <3>5. FirstIn(toBroker'[c], AskingOnPipe, ExitsOnPipe)
      BY <1>0, <2>0, <3>2, <3>4, FirstAppend, ZenonT(30)
    <3> QED  BY <1>1, <2>0, <3>2, <3>3, <3>5, ZenonT(30) DEF ExitFirst, ExitAhead
  <2> QED  BY <2>1, <2>2
<1>7. CASE Gone(c)
  <2>0. up'[c] \in Prefix(up[c]) /\ connected'[c] = FALSE /\ exitSent[c]
    BY <1>7, ZenonT(30) DEF Gone, CallsIdle
  <2>1. FirstIn(up[c], Asking, Exits) => FirstIn(up'[c], Asking, Exits) \/ NoneIn(up'[c], Asking)
    BY <1>0, <2>0, FirstCut, ZenonT(30)
  <2>2. NoneIn(up[c], Asking) => NoneIn(up'[c], Asking)
    BY <1>0, <2>0, QueueCut, ZenonT(30)
  <2>3. daemon = "running" => ExitAhead(c)'
    BY <1>3, <1>4, <2>0, <2>1, <2>2, Zenon DEF ExitAhead
  <2> QED  BY <1>2, <2>0, <2>3
<1>8. ASSUME NEW h \in ToClientBroker, Transmits(c, h) PROVE ExitFirst(c)'
  <2>0. /\ toBroker[c] # <<>> /\ h = Head(toBroker[c]) /\ toBroker'[c] = Tail(toBroker[c])
        /\ up'[c] = IF h.ctrl = "SEND" /\ serving THEN Append(up[c], h.arg) ELSE up[c]
        /\ BrokerRuns(c) /\ exitSent[c] /\ connected'[c] = connected[c]
    BY <1>8, Zenon DEF Transmits, CallsIdle
  <2>1. connected[c] /\ (daemon = "running" => serving)
    BY <2>0 DEF Lives, ControllerRuns
  <2>2. h.ctrl = "SEND" => h.arg \in Message
    BY Control
  <2>3. FirstIn(up[c], Asking, Exits) => FirstIn(up'[c], Asking, Exits)
    BY <1>0, <2>0, <2>2, FirstAppend, ZenonT(30)
  <2>4. ASSUME daemon = "running", NoneIn(up[c], Asking), FirstIn(toBroker[c], AskingOnPipe, ExitsOnPipe)
        PROVE  \/ FirstIn(up'[c], Asking, Exits)
               \/ NoneIn(up'[c], Asking) /\ FirstIn(toBroker'[c], AskingOnPipe, ExitsOnPipe)
    <3>1. CASE h \in ExitsOnPipe
      <4>1. up'[c] = Append(up[c], h.arg) /\ h.arg \in Exits /\ h.arg \in Message
        BY <2>0, <2>1, <2>2, <2>4, <3>1, ZenonT(30) DEF ExitsOnPipe
      <4>2. FirstIn(up'[c], Asking, Exits)
        BY <1>0, <2>4, <4>1, FirstAppend
      <4> QED  BY <4>2
    <3>2. CASE h \notin AskingOnPipe /\ FirstIn(Tail(toBroker[c]), AskingOnPipe, ExitsOnPipe)
      <4>1. h.ctrl = "SEND" => h.arg \notin Asking
        BY <3>2 DEF AskingOnPipe
      <4>2. h.ctrl = "SEND" => NoneIn(Append(up[c], h.arg), Asking)
        BY <1>0, <2>2, <2>4, <4>1, QueueAppend, ZenonT(30)
      <4> QED  BY <2>0, <2>4, <3>2, <4>2
    <3> QED  BY <1>0, <2>0, <2>4, <3>1, <3>2, FirstTail, ZenonT(30)
  <2>5. daemon = "running" => ExitAhead(c)'
    BY <1>3, <1>4, <2>0, <2>1, <2>3, <2>4, Zenon DEF ExitAhead
  <2> QED  BY <1>2, <2>0, <2>5
<1> QED  BY <1>5, <1>6, <1>7, <1>8, SendViews, ZenonT(30)

\* So do those of the daemon: what it takes from client c is the exit.
LEMMA ExitServer ==
  ASSUME TypeOK, ServerNext, UNCHANGED clientVars, NEW c \in Clients, ExitFirst(c)
  PROVE  ExitFirst(c)'
<1>0. /\ up[c] \in Seq(Message) /\ ctlRecv \in Seq(FromControllerBroker)
      /\ toBroker'[c] = toBroker[c]
  BY DEF TypeOK, NetTypeOK, ServerTypeOK, clientVars
<1>1. ASSUME NEW h \in AskingFrom(c), Answers(h)
      PROVE  h.msg.type = "EXIT" /\ daemon' = "exiting"
  <2>1. daemon = "running" /\ ctlRecv # <<>> /\ h = Head(ctlRecv)
    BY <1>1, Zenon DEF Answers
  <2>2. ~NoneIn(ctlRecv, AskingFrom(c))
    BY <1>0, <1>1, <2>1, QueueNone, ZenonT(30)
  <2>3. FirstIn(ctlRecv, AskingFrom(c), ExitsFrom(c))
    BY <2>1, <2>2 DEF ExitFirst, ExitAhead
  <2>4. h \in ExitsFrom(c)
    BY <1>0, <1>1, <2>1, <2>3, FirstTail
  <2> QED  BY <1>1, <2>4 DEF ExitsFrom, Exits, Answers
<1>2. NoReply(c, Told)'
  <2>1. NoReply(c, Told) /\ ~Ticking(c)
    BY DEF ExitFirst
  <2>2. \A h \in AskingFrom(c), m \in Replies : Answers(h) /\ Truthful(m, h.msg) => m \notin Told
    BY <1>1 DEF Truthful, Told
  <2> QED  BY <2>1, <2>2, ReplyServer
<1>3. ~Ticking(c)'
  BY <1>1, TickViews DEF ExitFirst
<1>4. ASSUME daemon' = "running" PROVE ExitAhead(c)'
  <2>0. ExitAhead(c) /\ connected' = connected
    BY <1>4, Stays DEF ExitFirst
  <2>1. CASE UNCHANGED <<ctlRecv, up[c]>>
    BY <1>0, <2>0, <2>1 DEF ExitAhead
  <2>2. CASE /\ ctlRecv # <<>> /\ Head(ctlRecv) \notin AskingFrom(c)
             /\ ctlRecv' = Tail(ctlRecv) /\ up'[c] = up[c]
    <3>1. NoneIn(ctlRecv, AskingFrom(c)) => NoneIn(ctlRecv', AskingFrom(c))
      BY <1>0, <2>2, QueueNone
    <3>2. Head(ctlRecv) \notin ExitsFrom(c)
      BY <2>2 DEF ExitsFrom, AskingFrom, Exits, Asking
    <3>3. FirstIn(ctlRecv, AskingFrom(c), ExitsFrom(c)) => FirstIn(ctlRecv', AskingFrom(c), ExitsFrom(c))
      BY <1>0, <2>2, <3>2, FirstTail
    <3> QED  BY <1>0, <2>0, <2>2, <3>1, <3>3, ZenonT(30) DEF ExitAhead
  <2>3. ASSUME NEW e \in FromControllerBroker, e \notin AskingFrom(c),
               ctlRecv' = Append(ctlRecv, e), up'[c] = up[c]
        PROVE  ExitAhead(c)'
    <3>1. NoneIn(ctlRecv, AskingFrom(c)) => NoneIn(ctlRecv', AskingFrom(c))
      BY <1>0, <2>3, QueueAppend
    <3>2. FirstIn(ctlRecv, AskingFrom(c), ExitsFrom(c)) => FirstIn(ctlRecv', AskingFrom(c), ExitsFrom(c))
      BY <1>0, <2>3, FirstAppend
    <3> QED  BY <1>0, <2>0, <2>3, <3>1, <3>2, ZenonT(30) DEF ExitAhead
  <2>4. CASE nrm_controller_broker_rpc_handler(c)
    <3> DEFINE m == Head(up[c])
               e == [from |-> c, msg |-> m]
    <3>0. /\ up[c] # <<>> /\ up'[c] = Tail(up[c]) /\ ctlRecv' = Append(ctlRecv, e)
          /\ m \in Message /\ e \in FromControllerBroker
      BY <2>4, Passed, ZenonT(30)
    <3>1. /\ m \in Exits => e \in ExitsFrom(c)
          /\ m \notin Asking => e \notin AskingFrom(c)
      BY <3>0 DEF ExitsFrom, AskingFrom
    <3> HIDE DEF e
    <3>2. FirstIn(ctlRecv, AskingFrom(c), ExitsFrom(c)) => FirstIn(ctlRecv', AskingFrom(c), ExitsFrom(c))
      BY <1>0, <3>0, FirstAppend
    <3>3. NoneIn(ctlRecv, AskingFrom(c)) /\ m \in Exits => FirstIn(ctlRecv', AskingFrom(c), ExitsFrom(c))
      BY <1>0, <3>0, <3>1, FirstAppend, ZenonT(30)
    <3>4. NoneIn(ctlRecv, AskingFrom(c)) /\ m \notin Asking => NoneIn(ctlRecv', AskingFrom(c))
      BY <1>0, <3>0, <3>1, QueueAppend
    <3>5. FirstIn(up[c], Asking, Exits) => m \in Exits \/ (m \notin Asking /\ FirstIn(up'[c], Asking, Exits))
      BY <1>0, <3>0, FirstTail, SMTT(60)
    <3>6. NoneIn(up[c], Asking) => m \notin Asking /\ NoneIn(up'[c], Asking)
      BY <1>0, <3>0, QueueNone
    <3> QED  BY <1>0, <2>0, <3>2, <3>3, <3>4, <3>5, <3>6, ZenonT(30) DEF ExitAhead
  <2>5. daemon' # "exiting" /\ Serves'
    BY <1>4 DEF Serves
  <2> QED  BY <1>1, <2>1, <2>2, <2>3, <2>4, <2>5, AskViews, ZenonT(30) DEF AskStep
<1> QED  BY <1>2, <1>3, <1>4 DEF ExitFirst

\* One step of the system.
LEMMA ExitStep ==
  ASSUME TypeOK, Lives, OneOutstanding, ExitInv, [Next]_vars
  PROVE  ExitInv'
<1> SUFFICES ASSUME NEW c \in Clients, Unshared(c), exitSent'[c]
             PROVE  ExitFirst(c)'
  BY DEF ExitInv, Unshared
<1>1. exitSent[c] => ExitFirst(c)
  BY DEF ExitInv
<1>2. CASE ClientNext /\ UNCHANGED serverVars
  BY <1>1, <1>2, ExitClient
<1>3. CASE ServerNext /\ UNCHANGED clientVars
  BY <1>1, <1>3, ExitServer DEF clientVars
<1>4. CASE UNCHANGED <<clientVars, serverVars, up, down, connected>>
  <2>1. exitSent[c]
    BY <1>4 DEF clientVars
  <2> QED  BY <1>1, <1>4, <2>1, Zenon DEF ExitFirst, ExitAhead, NoReply, Ticking, clientVars, serverVars
<1> QED  BY <1>2, <1>3, <1>4, ZenonT(30) DEF Next, vars, SubscriptionArrives, netVars

-----------------------------------------------------------------------------
(* What a client has added, and what it is told *)

AddsOf(target, u) == {m \in Message : m.type = "ADD" /\ m.target = target /\ UuidOf(m) = u}
ListsWithout(target, u) == {m \in Message : m.type = "LIST" /\ m.target = target /\ u \notin m.arg}

\* An object the registry does not hold was not added by client c, as far as c
\* knows or will be told; no answer lacks an object c has added.
Listed(c, target, u) ==
  /\ daemon = "running" /\ u \notin nrm_state_list(target)
     => NoReply(c, AddsOf(target, u)) /\ <<target, u>> \notin added[c]
  /\ Unshared(c) /\ <<target, u>> \in added[c] => NoReply(c, ListsWithout(target, u))

ListInv == \A c \in Clients, target \in Targets, u \in Uuids : Listed(c, target, u)

\* A thread that takes a reply of a live client takes the only one.
LEMMA TakesOnly ==
  ASSUME TypeOK, NEW t \in Threads, NEW c \in Clients, ClientOf[t] = c, NEW m \in ToClient,
         Live(c), OneOutstanding, Takes(t, c, m), UNCHANGED serverVars
  PROVE  NoReply(c, Message)'
<1>0. /\ fromBroker[c] \in Seq(ToClient) /\ pc[t] = "recv" /\ down'[c] = down[c] /\ ctlSend' = ctlSend
      /\ fromBroker[c] # <<>> /\ m = Head(fromBroker[c]) /\ fromBroker'[c] = Tail(fromBroker[c])
  BY Zenon DEF TypeOK, ClientTypeOK, Takes, NetIdle, serverVars
<1>1. PICK s \in Stages : At(c, req[t], s)
  BY <1>0, ZenonT(30) DEF OneOutstanding, Outstanding
<1>2. m \in Message /\ RepliesFor(req[t]) \subseteq Message /\ Message \cap Replies = Replies
  BY DEF ToClient, RepliesFor, Replies
<1>3. ~NoneIn(fromBroker[c], Message)
  BY <1>0, <1>2, QueueNone
<1>4. s = "fromBroker" /\ OneIn(fromBroker[c], Message, RepliesFor(req[t]))
  BY <1>1, <1>3, ZenonT(30) DEF At, Holds
<1>5. NoneIn(fromBroker'[c], Message)
  BY <1>0, <1>2, <1>4, QueueTake, ZenonT(30)
<1>6. NoneIn(ctlSend, AnswersTo(c, Replies)) /\ NoneIn(down[c], Replies)
  BY <1>1, <1>4, Zenon DEF At, Holds
<1> QED  BY <1>0, <1>2, <1>5, <1>6, ZenonT(30) DEF NoReply

\* The steps of the clients.
LEMMA ListClient ==
  ASSUME TypeOK, OneOutstanding, ExitInv, ClientNext, UNCHANGED serverVars,
         NEW c \in Clients, NEW target \in Targets, NEW u \in Uuids, Listed(c, target, u)
  PROVE  Listed(c, target, u)'
<1>0. daemon' = daemon /\ nrm_state_list(target)' = nrm_state_list(target)
  BY Zenon DEF serverVars, nrm_state_list
<1>1. ASSUME NEW L, NoReply(c, L) PROVE NoReply(c, L)'
  BY <1>1, ReplyClient
<1>2. CASE added'[c] = added[c]
  BY <1>0, <1>1, <1>2 DEF Listed, Unshared
<1>3. ASSUME NEW t \in Threads, ClientOf[t] = c, NEW m \in ToClient, Takes(t, c, m), added'[c] # added[c]
      PROVE  Listed(c, target, u)'
  <2>0. /\ fromBroker[c] \in Seq(ToClient) /\ fromBroker[c] # <<>> /\ m = Head(fromBroker[c])
        /\ m.type = "ADD" /\ added'[c] = added[c] \cup {<<m.target, UuidOf(m)>>} /\ status[c] = "open"
    BY <1>3, ZenonT(30) DEF TypeOK, ClientTypeOK, Takes
  <2>1. ASSUME NEW L, m \in L PROVE ~NoReply(c, L)
    BY <2>0, <2>1, QueueNone, ZenonT(30) DEF NoReply
  <2>2. ASSUME daemon = "running", u \notin nrm_state_list(target)
        PROVE  NoReply(c, AddsOf(target, u))' /\ <<target, u>> \notin added'[c]
    <3>1. NoReply(c, AddsOf(target, u)) /\ <<target, u>> \notin added[c]
      BY <2>2 DEF Listed
    <3>2. m \notin AddsOf(target, u)
      BY <2>1, <3>1
    <3>3. <<target, u>> # <<m.target, UuidOf(m)>>
      BY <2>0, <3>2 DEF AddsOf, ToClient
    <3> QED  BY <1>1, <2>0, <3>1, <3>3, ZenonT(30)
  <2>3. ASSUME Unshared(c) PROVE NoReply(c, ListsWithout(target, u))'
    <3>1. m \in Told
      BY <2>0, Zenon DEF Told, ToClient
    <3>2. ~exitSent[c]
      BY <2>1, <2>3, <3>1 DEF ExitInv, ExitFirst
    <3>3. Live(c)
      BY <2>0, <2>3, <3>2 DEF Live
    <3>4. NoReply(c, Message)'
      BY <1>3, <3>3, TakesOnly
    <3>5. ListsWithout(target, u) \subseteq Message
      BY DEF ListsWithout
    <3> QED  BY <3>4, <3>5 DEF NoReply, NoneIn, AnswersTo
  <2> QED  BY <1>0, <2>2, <2>3 DEF Listed, Unshared
<1>4. CASE \/ Idle(c) \/ Waits(c) \/ Gone(c)
           \/ (\E h \in ToClientBroker : Transmits(c, h))
           \/ (\E m \in ToClient : Receives(c, m))
           \/ (\E m \in ToListeners : Hears(c, m))
  BY <1>2, <1>4, Zenon DEF Idle, Waits, Gone, Transmits, Receives, Hears, CallsIdle
<1>5. CASE \E t \in Threads, h \in ToClientBroker : Pushes(t, c, h)
  BY <1>2, <1>5, ZenonT(30) DEF Pushes
<1> QED  BY <1>2, <1>3, <1>4, <1>5, ClientViews, ZenonT(30) DEF ClientStep

\* The steps of the daemon: it tells what the registry holds.
LEMMA ListServer ==
  ASSUME TypeOK, ServerNext, UNCHANGED clientVars,
         NEW c \in Clients, NEW target \in Targets, NEW u \in Uuids, Listed(c, target, u)
  PROVE  Listed(c, target, u)'
<1>0. added' = added /\ Ack.type = "ACK"
  BY DEF clientVars, Ack, nrm_msg_fill
<1>1. ASSUME daemon' = "running", u \notin nrm_state_list(target)'
      PROVE  NoReply(c, AddsOf(target, u))' /\ <<target, u>> \notin added'[c]
  <2>1. daemon = "running" /\ u \notin nrm_state_list(target)
    BY <1>1, Stays
  <2>2. NoReply(c, AddsOf(target, u)) /\ <<target, u>> \notin added[c]
    BY <2>1 DEF Listed
  <2>3. \A h \in AskingFrom(c), m \in Replies : Answers(h) /\ Truthful(m, h.msg) => m \notin AddsOf(target, u)
    BY <1>1 DEF Truthful, AddsOf
  <2>4. Ack \notin AddsOf(target, u)
    BY <1>0 DEF AddsOf
  <2>5. NoReply(c, AddsOf(target, u))'
    BY <2>2, <2>3, <2>4, ReplyServer, ZenonT(30)
  <2> QED  BY <1>0, <2>2, <2>5, Zenon
<1>2. ASSUME Unshared(c), <<target, u>> \in added[c]
      PROVE  NoReply(c, ListsWithout(target, u))'
  <2>1. NoReply(c, ListsWithout(target, u))
    BY <1>2 DEF Listed
  <2>2. ASSUME NEW h \in AskingFrom(c), NEW m \in Replies, Answers(h), Truthful(m, h.msg)
        PROVE  m \notin ListsWithout(target, u)
    <3>1. daemon = "running"
      BY <2>2 DEF Answers
    <3>2. u \in nrm_state_list(target)
      BY <1>2, <3>1 DEF Listed
    <3> QED  BY <2>2, <3>2 DEF Truthful, ListsWithout
  <2>3. Ack \notin ListsWithout(target, u)
    BY <1>0 DEF ListsWithout
  <2> QED  BY <2>1, <2>2, <2>3, ReplyServer, ZenonT(30)
<1> QED  BY <1>0, <1>1, <1>2, Zenon DEF Listed, Unshared

\* One step of the system.
LEMMA ListStep ==
  ASSUME TypeOK, OneOutstanding, ExitInv, ListInv, [Next]_vars
  PROVE  ListInv'
<1> SUFFICES ASSUME NEW c \in Clients, NEW target \in Targets, NEW u \in Uuids
             PROVE  Listed(c, target, u)'
  BY DEF ListInv
<1>1. Listed(c, target, u)
  BY DEF ListInv
<1>2. CASE ClientNext /\ UNCHANGED serverVars
  BY <1>1, <1>2, ListClient
<1>3. CASE ServerNext /\ UNCHANGED clientVars
  BY <1>1, <1>3, ListServer
<1>4. CASE UNCHANGED <<clientVars, serverVars, down>>
  <2>1. UNCHANGED <<added, fromBroker, daemon, objects, actuators, ctlSend, down>>
    BY <1>4 DEF clientVars, serverVars
  <2> QED  BY <1>1, <2>1, Zenon DEF Listed, NoReply, Unshared, nrm_state_list
<1> QED  BY <1>2, <1>3, <1>4, ZenonT(30) DEF Next, vars, SubscriptionArrives, netVars

\* The property of NrmSystem.
LEMMA ListHold ==
  ASSUME TypeOK, ListInv
  PROVE  ListSeesAdds
<1> SUFFICES ASSUME NEW c \in Clients, Unshared(c), NEW m \in RepliesTo(c), m.type = "LIST",
                    NEW a \in added[c], a[1] = m.target
             PROVE  a[2] \in m.arg
  BY ZenonT(30) DEF ListSeesAdds
<1>1. a \in Targets \X Uuids
  BY DEF TypeOK, ClientTypeOK
<1>2. a = <<a[1], a[2]>> /\ a[1] \in Targets /\ a[2] \in Uuids
  BY <1>1, SMTT(60)
<1>3. NoReply(c, ListsWithout(a[1], a[2]))
  BY <1>2 DEF ListInv, Listed
<1>4. m \in Message
  BY ReplyTypes
<1>5. m \notin ListsWithout(a[1], a[2])
  <2>1. ListsWithout(a[1], a[2]) \in SUBSET Message
    BY DEF ListsWithout
  <2> QED  BY <1>3, <2>1, NoReplies
<1> QED  BY <1>4, <1>5 DEF ListsWithout

\* Before the first step nothing is added or answered.
LEMMA ToldInit ==
  ASSUME Init PROVE ExitInv /\ ListInv
<1>1. ASSUME NEW c \in Clients
      PROVE  /\ toBroker[c] = <<>> /\ fromBroker[c] = <<>> /\ up[c] = <<>> /\ down[c] = <<>>
             /\ ctlRecv = <<>> /\ ctlSend = <<>> /\ loop = NULL
             /\ added[c] = {} /\ exitSent[c] = FALSE
  BY DEF Init, ClientInit, ServerInit, NetInit
<1>2. \A c \in Clients : \A M : NoReply(c, M)
  BY <1>1, QueueEmpty, Zenon DEF NoReply
<1>3. ExitInv
  BY <1>1, Zenon DEF ExitInv
<1>4. ListInv
  BY <1>1, <1>2, Zenon DEF ListInv, Listed
<1> QED  BY <1>3, <1>4
=============================================================================
