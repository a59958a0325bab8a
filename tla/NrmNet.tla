------------------------------ MODULE NrmNet -------------------------------
(***************************************************************************)
(* The ZeroMQ sockets between the clients and the daemon, as src/net.c     *)
(* sets them up: one DEALER per client to the daemon's ROUTER, unbounded   *)
(* in both directions, and one SUB per client to the daemon's PUB.         *)
(*                                                                         *)
(* ZeroMQ itself is external.  What the code relies on: a connection is    *)
(* FIFO and does not duplicate; a ROUTER drops what it cannot route; a     *)
(* DEALER with ZMQ_IMMEDIATE and a send timeout gives up when the daemon   *)
(* is gone; a subscription takes effect when it reaches the publisher; and *)
(* a closed socket drops what it has not transmitted, because czmq's       *)
(* default linger is 0 and the code never sets another.                    *)
(***************************************************************************)
EXTENDS NrmMessages, NrmQueues

VARIABLES
  up,          \* up[c]: requests on their way from client c to the daemon
  down,        \* down[c]: replies and commands on their way to client c
  pubs,        \* pubs[c]: published messages on their way to client c
  wanted,      \* wanted[c]: topics set on c's SUB socket
  topics,      \* topics[c]: those of them the publisher knows of
  connected,   \* connected[c]: c's sockets are open
  serving      \* the daemon's sockets are open

netVars == <<up, down, pubs, wanted, topics, connected, serving>>

NetTypeOK ==
  /\ up \in [Clients -> Seq(Message)]
  /\ down \in [Clients -> Seq(ToClient)]
  /\ pubs \in [Clients -> Seq(ToListeners)]
  /\ wanted \in [Clients -> SUBSET Topics]
  /\ topics \in [Clients -> SUBSET Topics]
  /\ connected \in [Clients -> BOOLEAN]
  /\ serving \in BOOLEAN

\* nrm_net_connect_and_wait has returned: every client is connected.
NetInit ==
  /\ up = [c \in Clients |-> <<>>]
  /\ down = [c \in Clients |-> <<>>]
  /\ pubs = [c \in Clients |-> <<>>]
  /\ wanted = [c \in Clients |-> {}]
  /\ topics = [c \in Clients |-> {}]
  /\ connected = [c \in Clients |-> TRUE]
  /\ serving = TRUE

\* Plausible slips: the sockets keep their default high-water mark.
nrm_msg_send_Bounded(c, m) ==
  up' = IF serving /\ up[c] = <<>> THEN [up EXCEPT ![c] = Append(@, m)] ELSE up

nrm_msg_pub_Bounded(topic, m) ==
  pubs' = [c \in Clients |->
             IF /\ connected[c] /\ pubs[c] = <<>>
                /\ \E s \in topics[c] : TopicMatches(s, topic)
             THEN Append(pubs[c], m) ELSE pubs[c]]

nrm_msg_send(c, m) ==
  up' = IF serving THEN [up EXCEPT ![c] = Append(@, m)] ELSE up

nrm_msg_sendto(c, m) ==
  down' = IF connected[c] THEN [down EXCEPT ![c] = Append(@, m)] ELSE down

nrm_msg_pub(topic, m) ==
  pubs' = [c \in Clients |->
             IF connected[c] /\ \E s \in topics[c] : TopicMatches(s, topic)
             THEN Append(pubs[c], m) ELSE pubs[c]]

nrm_net_sub_set_topic(c, topic) ==
  wanted' = [wanted EXCEPT ![c] = @ \cup {topic}]

\* What may be left of the queues to all clients when the daemon closes its
\* socket.
LeftOf(q) ==
  {r \in [Clients -> UNION {Prefix(q[c]) : c \in Clients}] :
     \A c \in Clients : r[c] \in Prefix(q[c])}

CloseClientSockets(c) ==
  /\ connected' = [connected EXCEPT ![c] = FALSE]
  /\ \E left \in Prefix(up[c]) : up' = [up EXCEPT ![c] = left]
  /\ down' = [down EXCEPT ![c] = <<>>]
  /\ pubs' = [pubs EXCEPT ![c] = <<>>]
  /\ wanted' = [wanted EXCEPT ![c] = {}]
  /\ topics' = [topics EXCEPT ![c] = {}]
  /\ UNCHANGED serving

CloseServerSockets ==
  /\ serving' = FALSE
  /\ up' = [c \in Clients |-> <<>>]
  /\ down' \in LeftOf(down)
  /\ pubs' \in LeftOf(pubs)
  /\ UNCHANGED <<wanted, topics, connected>>

\* A subscription reaches the publisher.
SubscriptionArrives(c) ==
  /\ serving
  /\ topics[c] # wanted[c]
  /\ topics' = [topics EXCEPT ![c] = wanted[c]]
  /\ UNCHANGED <<up, down, pubs, wanted, connected, serving>>
=============================================================================
