--------------------------- MODULE NrmEventProofs ---------------------------
(***************************************************************************)
(* The events of each client on their way to the daemon's eventbase, and   *)
(* from there to the listeners: the inductive invariants, and that each    *)
(* step keeps them.                                                        *)
(***************************************************************************)
EXTENDS NrmSystemProofs

\* Time for the provers in a large context.
USE ZenonT(8), SMTT(60)

Sources == Clients \cup {NULL}

\* The k-th event of source d: as it is recorded, as a message, on the pipe of
\* its client, as the daemon gets it and as it is published.
EventFrom(d) == [k \in Nat |-> [from |-> d, n |-> k]]
MsgFrom(d) == [k \in Nat |-> nrm_msg_set_events([from |-> d, n |-> k])]
SentFrom(c) == [k \in Nat |-> [ctrl |-> "SEND", arg |-> MsgFrom(c)[k]]]
GotFrom(c) == [k \in Nat |-> [from |-> c, msg |-> MsgFrom(c)[k]]]
TopicOf(d) == IF d = NULL THEN "daemon" ELSE "daemon.events.raw"
PubFrom(d) == [k \in Nat |-> Pub(TopicOf(d), MsgFrom(d)[k])]

\* In each of these forms an event tells its number.
LEMMA EventCounts ==
  ASSUME NEW d \in Sources
  PROVE  /\ Counts(EventFrom(d), Event) /\ Counts(MsgFrom(d), ToListeners)
         /\ Counts(MsgFrom(d), Message) /\ Counts(PubFrom(d), ToControllerBroker)
         /\ d \in Clients => Counts(SentFrom(d), ToClientBroker) /\ Counts(GotFrom(d), FromControllerBroker)
<1>1. ASSUME NEW k \in Nat
      PROVE  /\ EventFrom(d)[k] = [from |-> d, n |-> k] /\ EventFrom(d)[k] \in Event
             /\ EventFrom(d)[k].n = k
  BY DEF EventFrom, Event, Sources
<1>2. ASSUME NEW k \in Nat
      PROVE  /\ MsgFrom(d)[k] \in ToListeners /\ MsgFrom(d)[k] \in Message /\ MsgFrom(d)[k].arg.n = k
  <2>1. MsgFrom(d)[k] = nrm_msg_set_events(EventFrom(d)[k])
    BY <1>1 DEF MsgFrom
  <2>2. MsgFrom(d)[k] \in ToListeners
    BY <1>1, <2>1, Outgoing, Zenon
  <2>3. MsgFrom(d)[k].arg = EventFrom(d)[k]
    BY <2>1, SMTT(60) DEF nrm_msg_set_events
  <2> QED  BY <1>1, <2>2, <2>3 DEF ToListeners
<1>3. ASSUME NEW k \in Nat
      PROVE  PubFrom(d)[k] \in ToControllerBroker /\ PubFrom(d)[k].msg = MsgFrom(d)[k]
  <2>1. PubFrom(d)[k] = Pub(TopicOf(d), MsgFrom(d)[k]) /\ TopicOf(d) \in Topics
    BY DEF PubFrom, TopicOf, Topics
  <2> QED  BY <1>2, <2>1, Control, SMTT(60) DEF Pub
<1>4. ASSUME NEW k \in Nat, d \in Clients
      PROVE  /\ SentFrom(d)[k] \in ToClientBroker /\ SentFrom(d)[k].arg = MsgFrom(d)[k]
             /\ GotFrom(d)[k] \in FromControllerBroker /\ GotFrom(d)[k].msg = MsgFrom(d)[k]
  <2>1. /\ SentFrom(d)[k] = [ctrl |-> "SEND", arg |-> MsgFrom(d)[k]]
        /\ GotFrom(d)[k] = [from |-> d, msg |-> MsgFrom(d)[k]]
    BY DEF SentFrom, GotFrom
  <2> QED  BY <1>2, <1>4, <2>1, Control, SMTT(60) DEF FromControllerBroker
<1>5. Counts(EventFrom(d), Event)
  <2>1. EventFrom(d) \in [Nat -> Event]
    BY <1>1 DEF EventFrom
  <2> QED  BY <1>1, <2>1 DEF Counts
<1>6. Counts(MsgFrom(d), ToListeners) /\ Counts(MsgFrom(d), Message)
  <2>1. MsgFrom(d) \in [Nat -> ToListeners] /\ MsgFrom(d) \in [Nat -> Message]
    BY <1>2 DEF MsgFrom
  <2> QED  BY <1>2, <2>1 DEF Counts
<1>7. Counts(PubFrom(d), ToControllerBroker)
  <2>1. PubFrom(d) \in [Nat -> ToControllerBroker]
    BY <1>3 DEF PubFrom
  <2> QED  BY <1>2, <1>3, <2>1, ZenonT(30) DEF Counts
<1>8. ASSUME d \in Clients
      PROVE  Counts(SentFrom(d), ToClientBroker) /\ Counts(GotFrom(d), FromControllerBroker)
  <2>1. SentFrom(d) \in [Nat -> ToClientBroker] /\ GotFrom(d) \in [Nat -> FromControllerBroker]
    BY <1>4, <1>8 DEF SentFrom, GotFrom
  <2> QED  BY <1>2, <1>4, <1>8, <2>1, SMTT(60) DEF Counts
<1> QED  BY <1>5, <1>6, <1>7, <1>8

\* Which record of the eventbase is the k-th event of a source.
LEMMA EventForm ==
  ASSUME NEW d, NEW k \in Nat, NEW e \in Event
  PROVE  e = EventFrom(d)[k] <=> e.from = d /\ e.n = k
  BY SMTT(60) DEF EventFrom, Event

\* What the message of nrm_client_send_event for it is made of.
LEMMA MsgMade ==
  ASSUME NEW d, NEW k \in Nat
  PROVE  /\ MsgFrom(d)[k] = nrm_msg_set_events([from |-> d, n |-> k])
         /\ MsgFrom(d)[k].type = "EVENTS" /\ MsgFrom(d)[k].arg = EventFrom(d)[k]
  BY DEF EventFrom, MsgFrom, nrm_msg_set_events

\* Which message is the k-th event of a source.
LEMMA MsgForm ==
  ASSUME NEW d, NEW k \in Nat, NEW m \in Message
  PROVE  m = MsgFrom(d)[k] <=> m.type = "EVENTS" /\ m.arg = EventFrom(d)[k]
<1>1. MsgFrom(d)[k] = [type |-> "EVENTS", target |-> NULL, arg |-> EventFrom(d)[k]]
  BY DEF EventFrom, MsgFrom, nrm_msg_set_events
<1>2. m.type = "EVENTS" => m = [type |-> "EVENTS", target |-> NULL, arg |-> m.arg]
  BY DEF Message
<1> QED  BY <1>1, <1>2

\* Which control message on its client's pipe carries it to the broker.
LEMMA SentForm ==
  ASSUME NEW c, NEW k \in Nat, NEW h \in ToClientBroker
  PROVE  h = SentFrom(c)[k] <=> h.ctrl = "SEND" /\ h.arg = MsgFrom(c)[k]
  BY SMTT(60) DEF SentFrom, ToClientBroker

\* Which control message of the daemon's pipe brings it.
LEMMA GotForm ==
  ASSUME NEW c, NEW k \in Nat, NEW h \in FromControllerBroker
  PROVE  h = GotFrom(c)[k] <=> h.from = c /\ h.msg = MsgFrom(c)[k]
  BY SMTT(60) DEF GotFrom, FromControllerBroker

\* Which control message of the daemon's pipe publishes it.
LEMMA PubForm ==
  ASSUME NEW d, NEW k \in Nat, NEW h \in ToControllerBroker
  PROVE  h = PubFrom(d)[k] <=> h.ctrl = "PUB" /\ h.to = TopicOf(d) /\ h.msg = MsgFrom(d)[k]
  BY SMTT(60) DEF PubFrom, Pub, ToControllerBroker

\* What a queue holds of the numbered elements determines the last number.
LEMMA NumberedOnce ==
  ASSUME NEW T, NEW q \in Seq(T), NEW F, NEW lo \in Nat, NEW x \in Nat, NEW y \in Nat,
         Numbered(q, F, lo, x), Numbered(q, F, lo, y)
  PROVE  x = y
<1>1. ASSUME NEW v \in Nat, NEW w \in Nat, Numbered(q, F, lo, v), Numbered(q, F, lo, w)
      PROVE  v <= w
  <2>1. CASE v = lo
    BY <1>1, <2>1 DEF Numbered
  <2>2. CASE v # lo
    <3>1. v \in lo + 1 .. v
      BY <1>1, <2>2, SMTT(60) DEF Numbered
    <3>2. PICK i \in 1 .. Len(q) : q[i] = F[v]
      BY <1>1, <3>1 DEF Numbered
    <3> QED  BY <1>1, <3>2 DEF Numbered
  <2> QED  BY <2>1, <2>2
<1> QED  BY <1>1

\* A queue without any holds those from one number to the same, whichever.
LEMMA NumberedEmpty ==
  ASSUME NEW T, NEW q \in Seq(T), NEW F, NEW lo \in Nat, NEW x \in Nat, Numbered(q, F, lo, lo)
  PROVE  Numbered(q, F, x, x)
<1>1. \A i \in 1 .. Len(q), k \in Nat : q[i] # F[k]
  BY SMTT(60) DEF Numbered
<1> QED  BY <1>1, NumberedNone

\* A queue that holds those from one number to another and none at all.
LEMMA NumberedGone ==
  ASSUME NEW T, NEW q \in Seq(T), NEW F, NEW lo \in Nat, NEW hi \in Nat, Numbered(q, F, lo, hi),
         \A i \in 1 .. Len(q), k \in Nat : q[i] # F[k]
  PROVE  lo = hi
  BY NumberedNone

-----------------------------------------------------------------------------
(* The events recorded *)

\* Events of another source on the way of client c.
Foreign(c) == {m \in ToListeners : m.arg.from # c}
ForeignOnPipe(c) == {h \in ToClientBroker : h.ctrl = "SEND" /\ h.arg \in Foreign(c)}
ForeignFrom(c) == {h \in FromControllerBroker : h.from = c /\ h.msg \in Foreign(c)}

\* Client c sends its own events only.
Own(c) ==
  /\ NoneIn(toBroker[c], ForeignOnPipe(c))
  /\ NoneIn(up[c], Foreign(c))
  /\ NoneIn(ctlRecv, ForeignFrom(c))

Recorded(c, x) == Numbered(events, EventFrom(c), 0, x)
Underway(c, x, y, z) == Numbered(ctlRecv, GotFrom(c), x, y) /\ Numbered(up[c], MsgFrom(c), y, z)
Unsent(c, z) == Numbered(toBroker[c], SentFrom(c), z, sent[c])

\* Of the events of client c that left its pipe, 1 to z, some are recorded, the
\* next ones wait in the daemon and the rest is on the connection.  Those from
\* z + 1 on are on the client's pipe, as long as it is connected.
Chain(c, z) == \E x, y \in Nat : Recorded(c, x) /\ (Serves => Underway(c, x, y, z))

EventsOf(c) == \E z \in Nat : Chain(c, z) /\ (Serves /\ connected[c] => Unsent(c, z))

\* No event of the timer is recorded.
Ticks == {e \in Event : e.from = NULL}

EventInv == NoneIn(events, Ticks) /\ \A c \in Clients : Own(c) /\ EventsOf(c)

\* No event is there before the first step.
LEMMA EventsInit ==
  ASSUME Init PROVE EventInv
<1>0. NoneIn(events, Ticks)
  BY QueueEmpty DEF Init, ServerInit
<1> SUFFICES ASSUME NEW c \in Clients PROVE Own(c) /\ EventsOf(c)
  BY <1>0 DEF EventInv
<1>1. /\ toBroker[c] = <<>> /\ up[c] = <<>> /\ ctlRecv = <<>> /\ events = <<>> /\ sent[c] = 0
  BY DEF Init, ClientInit, NetInit, ServerInit
<1>2. Own(c)
  BY <1>1, QueueEmpty DEF Own
<1>3. \A F : Numbered(<<>>, F, 0, 0)
  BY DEF Numbered
<1>4. Recorded(c, 0) /\ Underway(c, 0, 0, 0) /\ Unsent(c, 0)
  BY <1>1, <1>3 DEF Recorded, Underway, Unsent
<1> QED  BY <1>2, <1>4 DEF EventsOf, Chain

\* A client's event is its own.
LEMMA OwnClient ==
  ASSUME TypeOK, NEW c \in Clients, Own(c), ClientNext, ctlRecv' = ctlRecv
  PROVE  Own(c)'
<1>0. toBroker[c] \in Seq(ToClientBroker) /\ up[c] \in Seq(Message)
  BY DEF TypeOK, ClientTypeOK, NetTypeOK
<1>1. NoneIn(toBroker[c], ForeignOnPipe(c)) /\ NoneIn(up[c], Foreign(c)) /\ NoneIn(ctlRecv', ForeignFrom(c))
  BY DEF Own
<1>2. CASE UNCHANGED <<toBroker[c], up[c]>>
  BY <1>1, <1>2 DEF Own
<1>3. ASSUME NEW t \in Threads, NEW h \in ToClientBroker, Pushes(t, c, h)
      PROVE  Own(c)'
  <2>1. /\ toBroker'[c] = Append(toBroker[c], h) /\ up'[c] = up[c]
        /\ IsSend(h, "EVENTS") => h.arg = nrm_msg_set_events([from |-> c, n |-> sent[c] + 1])
    BY <1>3, Zenon DEF Pushes, NetIdle
  <2>2. h \notin ForeignOnPipe(c)
    BY <2>1, SMTT(60) DEF IsSend, ForeignOnPipe, Foreign, ToListeners, nrm_msg_set_events
  <2>3. NoneIn(toBroker'[c], ForeignOnPipe(c))
    BY <1>0, <1>1, <2>1, <2>2, QueueAppend
  <2> QED  BY <1>1, <2>1, <2>3, ZenonT(30) DEF Own
<1>4. CASE Gone(c)
  <2>1. /\ up'[c] \in Prefix(up[c])
        /\ toBroker'[c] = toBroker[c] \/ (toBroker[c] # <<>> /\ toBroker'[c] = Tail(toBroker[c]))
    BY <1>4, Zenon DEF Gone
  <2>2. NoneIn(toBroker'[c], ForeignOnPipe(c))
    BY <1>0, <1>1, <2>1, QueueNone, ZenonT(30)
  <2>3. NoneIn(up'[c], Foreign(c))
    BY <1>0, <1>1, <2>1, QueueCut, ZenonT(30)
  <2> QED  BY <1>1, <2>2, <2>3, ZenonT(30) DEF Own
<1>5. ASSUME NEW h \in ToClientBroker, Transmits(c, h)
      PROVE  Own(c)'
  <2>1. /\ toBroker[c] # <<>> /\ h = Head(toBroker[c]) /\ toBroker'[c] = Tail(toBroker[c])
        /\ up'[c] = up[c] \/ (h.ctrl = "SEND" /\ up'[c] = Append(up[c], h.arg))
    BY <1>5 DEF Transmits
  <2>2. h \notin ForeignOnPipe(c) /\ NoneIn(toBroker'[c], ForeignOnPipe(c))
    BY <1>0, <1>1, <2>1, QueueNone, ZenonT(30)
  <2>3. h.ctrl = "SEND" => h.arg \in Message /\ h.arg \notin Foreign(c)
    BY <2>2, Control DEF ForeignOnPipe
  <2>4. NoneIn(up'[c], Foreign(c))
    <3>1. h.ctrl = "SEND" => NoneIn(Append(up[c], h.arg), Foreign(c))
      BY <1>0, <1>1, <2>3, QueueAppend, ZenonT(30)
    <3> QED  BY <1>1, <2>1, <3>1
  <2> QED  BY <1>1, <2>2, <2>4 DEF Own
<1> QED  BY <1>2, <1>3, <1>4, <1>5, SendViews, ZenonT(30)

\* A step of client c moves its events on.
LEMMA EventsClient ==
  ASSUME TypeOK, Lives, NEW c \in Clients, EventsOf(c), ClientNext, UNCHANGED serverVars
  PROVE  EventsOf(c)'
<1>0. /\ toBroker[c] \in Seq(ToClientBroker) /\ up[c] \in Seq(Message) /\ sent[c] \in Nat
      /\ c \in Sources
  BY DEF TypeOK, ClientTypeOK, NetTypeOK, Sources
<1>1. UNCHANGED <<events, ctlRecv, daemon>>
  BY DEF serverVars
<1>2. PICK x \in Nat, y \in Nat, z \in Nat :
        Recorded(c, x) /\ (Serves => Underway(c, x, y, z) /\ (connected[c] => Unsent(c, z)))
  BY DEF EventsOf, Chain
<1>3. Recorded(c, x)' /\ (Serves' <=> Serves)
  BY <1>1, <1>2 DEF Recorded, Serves
<1>4. CASE ~Serves
  BY <1>3, <1>4 DEF EventsOf, Chain
<1>5. CASE Serves
  <2>1. Numbered(ctlRecv, GotFrom(c), x, y) /\ Numbered(up[c], MsgFrom(c), y, z)
    BY <1>2, <1>5 DEF Underway
  <2>2. ASSUME NEW w \in Nat, Numbered(up'[c], MsgFrom(c), y, w), connected'[c] => Unsent(c, w)'
        PROVE  EventsOf(c)'
    <3>1. Underway(c, x, y, w)'
      BY <1>1, <2>1, <2>2 DEF Underway
    <3> QED  BY <1>3, <2>2, <3>1 DEF EventsOf, Chain
  <2> DEFINE G == SentFrom(c)
             F == MsgFrom(c)
  <2>3. Counts(G, ToClientBroker) /\ Counts(F, Message)
    BY <1>0, EventCounts
  <2>4. /\ \A k \in Nat, h \in ToClientBroker : h = G[k] <=> h.ctrl = "SEND" /\ h.arg = F[k]
        /\ \A k \in Nat : F[k].type = "EVENTS"
        /\ \A k \in Nat : F[k] = nrm_msg_set_events([from |-> c, n |-> k])
    <3> SUFFICES ASSUME NEW k \in Nat
                 PROVE  /\ \A h \in ToClientBroker : h = G[k] <=> h.ctrl = "SEND" /\ h.arg = F[k]
                        /\ F[k].type = "EVENTS" /\ F[k] = nrm_msg_set_events([from |-> c, n |-> k])
      OBVIOUS
    <3> QED  BY SentForm, MsgMade
  <2>5. connected[c] => Numbered(toBroker[c], G, z, sent[c])
    BY <1>2, <1>5 DEF Unsent
  <2>6. \A w : Unsent(c, w)' <=> Numbered(toBroker'[c], G, w, sent'[c])
    BY DEF Unsent
  <2> HIDE DEF F, G
  <2>7. CASE UNCHANGED <<toBroker[c], up[c], sent[c], connected[c]>>
    BY <2>1, <2>2, <2>5, <2>6, <2>7, ZenonT(30) DEF F
  <2>8. ASSUME NEW t \in Threads, NEW h \in ToClientBroker, Pushes(t, c, h)
        PROVE  EventsOf(c)'
    <3>1. /\ toBroker'[c] = Append(toBroker[c], h) /\ up'[c] = up[c] /\ connected'[c] = connected[c]
          /\ IF IsSend(h, "EVENTS")
             THEN sent'[c] = sent[c] + 1 /\ h.arg = nrm_msg_set_events([from |-> c, n |-> sent[c] + 1])
             ELSE sent'[c] = sent[c]
      BY <2>8, Zenon DEF Pushes, NetIdle
    <3>2. IF IsSend(h, "EVENTS") THEN h = G[sent[c] + 1] ELSE \A k \in Nat : h # G[k]
      <4>1. CASE IsSend(h, "EVENTS")
        <5>1. h.ctrl = "SEND" /\ sent[c] + 1 \in Nat
          BY <1>0, <4>1, SMTT(60) DEF IsSend
        <5>2. h.arg = F[sent[c] + 1]
          BY <2>4, <3>1, <4>1, <5>1
        <5> QED  BY <2>4, <4>1, <5>1, <5>2
      <4>2. CASE ~IsSend(h, "EVENTS")
        <5>1. ASSUME NEW k \in Nat, h = G[k] PROVE FALSE
          <6>1. h.ctrl = "SEND" /\ h.arg.type = "EVENTS"
            BY <2>4, <5>1
          <6> QED  BY <4>2, <6>1 DEF IsSend
        <5> QED  BY <4>2, <5>1
      <4> QED  BY <4>1, <4>2
    <3>3. connected[c] => Numbered(toBroker'[c], G, z, sent'[c])
      BY <1>0, <2>3, <2>5, <3>1, <3>2, NumberedAppend, SMTT(60)
    <3> QED  BY <2>1, <2>2, <2>6, <3>1, <3>3, ZenonT(30) DEF F
  <2>9. CASE Gone(c)
    <3>1. up'[c] \in Prefix(up[c]) /\ connected'[c] = FALSE
      BY <2>9 DEF Gone
    <3>2. PICK w \in Nat : Numbered(up'[c], F, y, w)
      BY <1>0, <2>1, <2>3, <3>1, NumberedCut, SMTT(60) DEF F
    <3> QED  BY <2>2, <3>1, <3>2 DEF F
  <2>10. ASSUME NEW h \in ToClientBroker, Transmits(c, h)
         PROVE  EventsOf(c)'
    <3>1. connected[c] /\ serving
      BY <1>5, <2>10 DEF Transmits, Lives, Serves, ControllerRuns
    <3>2. /\ toBroker[c] # <<>> /\ h = Head(toBroker[c]) /\ toBroker'[c] = Tail(toBroker[c])
          /\ up'[c] = IF h.ctrl = "SEND" THEN Append(up[c], h.arg) ELSE up[c]
          /\ sent'[c] = sent[c]
      BY <2>10, <3>1 DEF Transmits, CallsIdle
    <3>t. /\ \A l \in Nat : h = G[l] => l = z + 1 /\ Numbered(toBroker'[c], G, z + 1, sent[c])
          /\ (\A l \in Nat : h # G[l]) => Numbered(toBroker'[c], G, z, sent[c])
      <4>1. /\ \A l \in Nat : Head(toBroker[c]) = G[l] => l = z + 1 /\ Numbered(Tail(toBroker[c]), G, z + 1, sent[c])
            /\ (\A l \in Nat : Head(toBroker[c]) # G[l]) => Numbered(Tail(toBroker[c]), G, z, sent[c])
        BY <1>0, <2>3, <2>5, <3>1, <3>2, NumberedTail, ZenonT(30)
      <4> QED  BY <3>2, <4>1, ZenonT(30)
    <3>3. ASSUME NEW k \in Nat, h = G[k]
          PROVE  EventsOf(c)'
      <4>1. k = z + 1 /\ Numbered(toBroker'[c], G, z + 1, sent[c])
        BY <3>3, <3>t
      <4>2. h.ctrl = "SEND" /\ h.arg = F[z + 1] /\ h.arg \in Message
        BY <2>4, <3>3, <4>1, Control
      <4>3. Numbered(up'[c], F, y, z + 1)
        BY <1>0, <2>1, <2>3, <3>2, <4>2, NumberedAppend, ZenonT(30) DEF F
      <4> QED  BY <2>2, <2>6, <3>2, <4>1, <4>3, ZenonT(30) DEF F
    <3>4. ASSUME \A k \in Nat : h # G[k]
          PROVE  EventsOf(c)'
      <4>1. Numbered(toBroker'[c], G, z, sent[c])
        BY <3>4, <3>t
      <4>2. h.ctrl = "SEND" => h.arg \in Message /\ \A k \in Nat : h.arg # F[k]
        BY <2>4, <3>4, Control
      <4>3. h.ctrl = "SEND" => Numbered(Append(up[c], h.arg), F, y, z)
        BY <1>0, <2>1, <2>3, <4>2, NumberedAppend DEF F
      <4> QED  BY <2>1, <2>2, <2>6, <3>2, <4>1, <4>3, ZenonT(30) DEF F
    <3> QED  BY <3>3, <3>4
  <2> QED  BY <2>7, <2>8, <2>9, <2>10, SendViews, ZenonT(30)
<1> QED  BY <1>4, <1>5, ZenonT(30)

\* The daemon keeps the clients' events apart.
LEMMA OwnServer ==
  ASSUME TypeOK, NEW c \in Clients, Own(c), ServerNext, UNCHANGED clientVars
  PROVE  Own(c)'
<1>0. ctlRecv \in Seq(FromControllerBroker) /\ toBroker' = toBroker
  BY DEF TypeOK, ServerTypeOK, clientVars
<1>1. NoneIn(toBroker'[c], ForeignOnPipe(c)) /\ NoneIn(up[c], Foreign(c)) /\ NoneIn(ctlRecv, ForeignFrom(c))
  BY <1>0 DEF Own
<1>2. CASE (UNCHANGED ctlRecv \/ (ctlRecv # <<>> /\ ctlRecv' = Tail(ctlRecv))) /\ (up'[c] = up[c] \/ up'[c] = <<>>)
  <2>1. ctlRecv # <<>> => NoneIn(Tail(ctlRecv), ForeignFrom(c))
    BY <1>0, <1>1, QueueNone
  <2>2. NoneIn(up'[c], Foreign(c)) /\ NoneIn(ctlRecv', ForeignFrom(c))
    BY <1>1, <1>2, <2>1, QueueEmpty
  <2> QED  BY <1>1, <2>2 DEF Own
<1>3. CASE Crashes \/ nrm_server_events_callback \/ \E h \in FromControllerBroker : Answers(h)
  BY <1>2, <1>3 DEF Crashes, Crash, CloseServerSockets, nrm_server_events_callback,
     nrm_server_role_callback, Answers, netVars
<1>4. ASSUME NEW d \in Clients, nrm_controller_broker_rpc_handler(d)
      PROVE  Own(c)'
  <2> DEFINE e == [from |-> d, msg |-> Head(up[d])]
  <2>1. /\ up[d] \in Seq(Message) /\ up[d] # <<>> /\ e \in FromControllerBroker
        /\ ctlRecv' = Append(ctlRecv, e)
        /\ up'[c] = IF c = d THEN Tail(up[c]) ELSE up[c]
    BY <1>4, Passed
  <2>2. CASE c = d
    <3>1. Head(up[c]) \notin Foreign(c) /\ NoneIn(up'[c], Foreign(c))
      BY <1>1, <2>1, <2>2, QueueNone
    <3>2. e \notin ForeignFrom(c)
      BY <2>2, <3>1 DEF ForeignFrom
    <3>3. NoneIn(ctlRecv', ForeignFrom(c))
      BY <1>0, <1>1, <2>1, <3>2, QueueAppend
    <3> QED  BY <1>1, <3>1, <3>3 DEF Own
  <2>3. CASE c # d
    <3>1. e \notin ForeignFrom(c)
      BY <2>3, ZenonT(30) DEF ForeignFrom
    <3>2. NoneIn(ctlRecv', ForeignFrom(c))
      BY <1>0, <1>1, <2>1, <3>1, QueueAppend
    <3> QED  BY <1>1, <2>1, <2>3, <3>2 DEF Own
  <2> QED  BY <2>2, <2>3
<1>5. CASE UNCHANGED ctlRecv /\ (up' = up \/ up' = [d \in Clients |-> <<>>])
  BY <1>2, <1>5
<1> QED  BY <1>3, <1>4, <1>5, RecordViews, ZenonT(30)

\* The event the daemon records is one of the client it comes from.
LEMMA OwnRecorded ==
  ASSUME TypeOK, \A d \in Clients : Own(d), nrm_server_events_callback
  PROVE  Received.arg.from = From
<1>1. /\ ctlRecv \in Seq(FromControllerBroker) /\ Head(ctlRecv) \in FromControllerBroker
      /\ From = Head(ctlRecv).from /\ Received = Head(ctlRecv).msg /\ From \in Clients
      /\ Received \in ToListeners /\ ctlRecv # <<>>
  BY EventReceived
<1>2. NoneIn(ctlRecv, ForeignFrom(From))
  BY <1>1 DEF Own
<1>3. Head(ctlRecv) \notin ForeignFrom(From)
  BY <1>1, <1>2, QueueNone
<1> QED  BY <1>1, <1>3 DEF ForeignFrom, Foreign

\* It is the next one of that client, and no event of another.
LEMMA NextRecorded ==
  ASSUME TypeOK, NEW c \in Clients, \A d \in Clients : Own(d), nrm_server_events_callback,
         NEW x \in Nat, NEW y \in Nat, Recorded(c, x), Numbered(ctlRecv, GotFrom(c), x, y)
  PROVE  IF From = c
         THEN /\ Received.arg = EventFrom(c)[x + 1] /\ Recorded(c, x + 1)'
              /\ Numbered(ctlRecv', GotFrom(c), x + 1, y)
         ELSE /\ Received.arg.from # c /\ Recorded(c, x)'
              /\ Numbered(ctlRecv', GotFrom(c), x, y)
<1> DEFINE e == Received.arg
           h == Head(ctlRecv)
           E == EventFrom(c)
           G == GotFrom(c)
<1>0. c \in Sources /\ Counts(E, Event) /\ Counts(G, FromControllerBroker)
  BY EventCounts DEF Sources
<1>1. /\ ctlRecv \in Seq(FromControllerBroker) /\ events \in Seq(Event)
      /\ h \in FromControllerBroker /\ e \in Event /\ Received.type = "EVENTS"
      /\ From = h.from /\ Received = h.msg /\ Received \in Message /\ Received \in ToListeners
      /\ ctlRecv # <<>> /\ ctlRecv' = Tail(ctlRecv) /\ events' = Append(events, e)
  BY EventReceived
<1>2. e.n \in Nat /\ From \in Clients
  BY <1>1 DEF Event, FromControllerBroker
<1>3. e.from = From
  BY OwnRecorded
<1>4. \A w : Recorded(c, w)' <=> Numbered(events', E, 0, w)
  BY DEF Recorded
<1>5. Numbered(events, E, 0, x)
  BY DEF Recorded
<1>6. ASSUME NEW k \in Nat
      PROVE  /\ e = E[k] <=> e.from = c /\ e.n = k
             /\ h = G[k] <=> From = c /\ e = E[k]
  <2>1. e = E[k] <=> e.from = c /\ e.n = k
    BY <1>1, EventForm, SMTT(60)
  <2>2. Received = MsgFrom(c)[k] <=> Received.type = "EVENTS" /\ Received.arg = E[k]
    BY <1>1, MsgForm
  <2>3. h = G[k] <=> h.from = c /\ h.msg = MsgFrom(c)[k]
    BY <1>1, GotForm, ZenonT(30)
  <2> QED  BY <1>1, <2>1, <2>2, <2>3
<1>g. h = Head(ctlRecv) /\ e = Received.arg
  OBVIOUS
<1> HIDE DEF e, h, E, G
<1>t. /\ \A l \in Nat : h = G[l] => l = x + 1 /\ Numbered(ctlRecv', G, x + 1, y)
      /\ (\A l \in Nat : h # G[l]) => Numbered(ctlRecv', G, x, y)
  <2>1. /\ \A l \in Nat : Head(ctlRecv) = G[l] => l = x + 1 /\ Numbered(Tail(ctlRecv), G, x + 1, y)
        /\ (\A l \in Nat : Head(ctlRecv) # G[l]) => Numbered(Tail(ctlRecv), G, x, y)
    BY <1>0, <1>1, NumberedTail, ZenonT(30) DEF G
  <2> QED  BY <1>1, <1>g, <2>1, ZenonT(30)
<1>7. CASE From = c
  <2>1. h = G[e.n] /\ e = E[e.n]
    BY <1>2, <1>3, <1>6, <1>7, SMTT(60)
  <2>2. e.n = x + 1 /\ Numbered(ctlRecv', G, x + 1, y)
    BY <1>2, <1>t, <2>1
  <2>3. Numbered(events', E, 0, x + 1)
    BY <1>0, <1>1, <1>5, <2>1, <2>2, NumberedAppend
  <2> QED  BY <1>4, <1>7, <1>g, <2>1, <2>2, <2>3, ZenonT(30) DEF E, G
<1>8. CASE From # c
  <2>1. \A k \in Nat : h # G[k] /\ e # E[k]
    BY <1>3, <1>6, <1>8
  <2>2. Numbered(ctlRecv', G, x, y)
    BY <1>t, <2>1
  <2>3. Numbered(events', E, 0, x)
    BY <1>0, <1>1, <1>5, <2>1, NumberedAppend, ZenonT(30)
  <2> QED  BY <1>3, <1>4, <1>8, <1>g, <2>2, <2>3 DEF G
<1> QED  BY <1>7, <1>8

\* A step of the daemon records the events of each client in order.
LEMMA ChainServer ==
  ASSUME TypeOK, NEW c \in Clients, \A d \in Clients : Own(d), NEW z \in Nat, Chain(c, z), ServerNext
  PROVE  Chain(c, z)' /\ (Serves' => Serves)
<1>0. /\ c \in Sources /\ ctlRecv \in Seq(FromControllerBroker) /\ up[c] \in Seq(Message)
      /\ Counts(MsgFrom(c), Message) /\ Counts(GotFrom(c), FromControllerBroker)
  BY EventCounts DEF Sources, TypeOK, ServerTypeOK, NetTypeOK
<1>2. PICK x \in Nat, y \in Nat : Recorded(c, x) /\ (Serves => Underway(c, x, y, z))
  BY DEF Chain
<1>3. CASE ~Serves' /\ (events' = events \/ events' = <<>>)
  <2>1. \A F : Numbered(<<>>, F, 0, 0)
    BY DEF Numbered
  <2>2. Recorded(c, x)' \/ Recorded(c, 0)'
    BY <1>2, <1>3, <2>1 DEF Recorded
  <2> QED  BY <1>3, <2>2 DEF Chain
<1>4. CASE UNCHANGED <<events, ctlRecv, up>> /\ (Serves' => Serves)
  <2>1. Recorded(c, x)' /\ (Underway(c, x, y, z) => Underway(c, x, y, z)')
    BY <1>2, <1>4 DEF Recorded, Underway
  <2> QED  BY <1>2, <1>4, <2>1 DEF Chain
<1>5. ASSUME Serves, NEW v \in Nat, NEW w \in Nat, Recorded(c, v)',
             Numbered(ctlRecv', GotFrom(c), v, w), Numbered(up'[c], MsgFrom(c), w, z)
      PROVE  Chain(c, z)' /\ (Serves' => Serves)
  <2>1. Underway(c, v, w, z)'
    BY <1>5 DEF Underway
  <2> QED  BY <1>5, <2>1 DEF Chain
<1>6. Serves => Numbered(ctlRecv, GotFrom(c), x, y) /\ Numbered(up[c], MsgFrom(c), y, z)
  BY <1>2 DEF Underway
<1>7. ASSUME NEW h \in FromControllerBroker, Answers(h)
      PROVE  Chain(c, z)' /\ (Serves' => Serves)
  <2>1. /\ ctlRecv # <<>> /\ h = Head(ctlRecv) /\ ctlRecv' = Tail(ctlRecv) /\ h.msg.type # "EVENTS"
        /\ UNCHANGED <<events, up>> /\ Serves
    BY <1>7 DEF Answers, Serves, Asking, netVars
  <2>2. ASSUME NEW k \in Nat PROVE h # GotFrom(c)[k]
    <3>1. h = GotFrom(c)[k] => h.msg = MsgFrom(c)[k]
      BY GotForm, ZenonT(30)
    <3>2. MsgFrom(c)[k].type = "EVENTS"
      BY MsgMade
    <3> QED  BY <2>1, <3>1, <3>2
  <2>3. Numbered(ctlRecv', GotFrom(c), x, y)
    BY <1>0, <1>6, <2>1, <2>2, NumberedTail
  <2>4. Recorded(c, x)'
    BY <1>2, <2>1 DEF Recorded
  <2> QED  BY <1>5, <1>6, <2>1, <2>3, <2>4, ZenonT(30)
<1>8. CASE nrm_server_events_callback
  <2>1. Serves /\ up' = up
    BY <1>8, EventReceived DEF Serves, netVars
  <2>2. CASE From = c
    BY <1>2, <1>5, <1>6, <1>8, <2>1, <2>2, NextRecorded, SMTT(60)
  <2>3. CASE From # c
    BY <1>2, <1>5, <1>6, <1>8, <2>1, <2>3, NextRecorded
  <2> QED  BY <2>2, <2>3
<1>9. ASSUME NEW d \in Clients, nrm_controller_broker_rpc_handler(d)
      PROVE  Chain(c, z)' /\ (Serves' => Serves)
  <2> DEFINE e == [from |-> d, msg |-> Head(up[d])]
             F == MsgFrom(c)
             G == GotFrom(c)
  <2>1. /\ up[d] \in Seq(Message) /\ up[d] # <<>> /\ Head(up[d]) \in Message
        /\ e \in FromControllerBroker /\ ctlRecv' = Append(ctlRecv, e)
        /\ up'[c] = IF c = d THEN Tail(up[c]) ELSE up[c]
        /\ UNCHANGED <<events, daemon>>
    BY <1>9, Passed
  <2>2. Recorded(c, x)' /\ (Serves' <=> Serves)
    BY <1>2, <2>1 DEF Recorded, Serves
  <2>3. ASSUME NEW k \in Nat PROVE e = G[k] <=> d = c /\ Head(up[d]) = F[k]
    <3>1. e.from = d /\ e.msg = Head(up[d])
      OBVIOUS
    <3>2. e = G[k] <=> e.from = c /\ e.msg = F[k]
      BY <2>1, GotForm, SMTT(60)
    <3> QED  BY <3>1, <3>2, Zenon
  <2> HIDE DEF e, F, G
  <2>4. CASE ~Serves
    BY <2>2, <2>4 DEF Chain
  <2>t. ASSUME Serves, c = d
        PROVE  /\ \A l \in Nat : Head(up[c]) = F[l] => l = y + 1 /\ Numbered(Tail(up[c]), F, y + 1, z)
               /\ (\A l \in Nat : Head(up[c]) # F[l]) => Numbered(Tail(up[c]), F, y, z)
    BY <1>0, <1>6, <2>1, <2>t, NumberedTail, ZenonT(30) DEF F
  <2>5. ASSUME Serves, c = d, NEW k \in Nat, Head(up[c]) = F[k]
        PROVE  Chain(c, z)' /\ (Serves' => Serves)
    <3>1. k = y + 1 /\ Numbered(up'[c], F, y + 1, z)
      BY <2>1, <2>5, <2>t
    <3>2. Numbered(ctlRecv', G, x, y + 1)
      BY <1>0, <1>6, <2>1, <2>3, <2>5, <3>1, NumberedAppend DEF G
    <3> QED  BY <1>5, <2>2, <2>5, <3>1, <3>2 DEF F, G
  <2>6. ASSUME Serves, c # d \/ \A k \in Nat : Head(up[c]) # F[k]
        PROVE  Chain(c, z)' /\ (Serves' => Serves)
    <3>1. Numbered(up'[c], F, y, z)
      BY <1>6, <2>1, <2>6, <2>t DEF F
    <3>2. \A k \in Nat : e # G[k]
      BY <2>3, <2>6
    <3>3. Numbered(ctlRecv', G, x, y)
      BY <1>0, <1>6, <2>1, <2>6, <3>2, NumberedAppend DEF G
    <3> QED  BY <1>5, <2>2, <2>6, <3>1, <3>3 DEF F, G
  <2> QED  BY <2>4, <2>5, <2>6
<1>10. CASE Crashes
  BY <1>3, <1>10 DEF Crashes, Crash, Serves
<1> QED  BY <1>3, <1>4, <1>7, <1>8, <1>9, <1>10, RecordViews, ZenonT(30)

\* It leaves those on the client's pipe alone.
LEMMA EventsServer ==
  ASSUME TypeOK, NEW c \in Clients, \A d \in Clients : Own(d), EventsOf(c), ServerNext,
         UNCHANGED clientVars
  PROVE  EventsOf(c)'
<1>1. connected' = connected /\ \A z : Unsent(c, z)' <=> Unsent(c, z)
  BY PublishViews DEF Unsent, clientVars
<1>2. PICK z \in Nat : Chain(c, z) /\ (Serves /\ connected[c] => Unsent(c, z))
  BY DEF EventsOf
<1>3. Chain(c, z)' /\ (Serves' => Serves)
  BY <1>2, ChainServer
<1> QED  BY <1>1, <1>2, <1>3 DEF EventsOf

\* The events stay in order, at every step.
LEMMA EventsStep ==
  ASSUME TypeOK, Lives, EventInv, [Next]_vars
  PROVE  EventInv'
<1>1. NoneIn(events', Ticks)
  <2>1. CASE UNCHANGED events
    BY <2>1 DEF EventInv
  <2>2. CASE events' = <<>>
    BY <2>2, QueueEmpty
  <2>3. CASE nrm_server_events_callback
    <3>1. /\ events \in Seq(Event) /\ Received.arg \in Event /\ events' = Append(events, Received.arg)
          /\ From \in Clients
      BY <2>3, EventReceived
    <3>2. Received.arg.from = From
      BY <2>3, OwnRecorded DEF EventInv
    <3>3. Received.arg \notin Ticks
      BY <3>1, <3>2, ClientAssumption DEF Ticks
    <3> QED  BY <3>1, <3>3, QueueAppend DEF EventInv
  <2>4. CASE ServerNext
    BY <2>1, <2>2, <2>3, <2>4, RecordViews, Zenon DEF Crashes, Answers, nrm_controller_broker_rpc_handler
  <2> QED  BY <2>1, <2>4 DEF Next, vars, serverVars
<1> SUFFICES ASSUME NEW c \in Clients PROVE Own(c)' /\ EventsOf(c)'
  BY <1>1 DEF EventInv
<1>2. Own(c) /\ EventsOf(c) /\ \A d \in Clients : Own(d)
  BY DEF EventInv
<1>3. CASE UNCHANGED <<clientVars, serverVars, up, connected>>
  BY <1>2, <1>3 DEF Own, EventsOf, Chain, Recorded, Underway, Unsent, Serves, clientVars, serverVars
<1>4. CASE ClientNext /\ UNCHANGED serverVars
  BY <1>2, <1>4, OwnClient, EventsClient, ZenonT(30) DEF serverVars
<1>5. CASE ServerNext /\ UNCHANGED clientVars
  BY <1>2, <1>5, OwnServer, EventsServer, ZenonT(30)
<1> QED
  BY <1>3, <1>4, <1>5 DEF Next, vars, SubscriptionArrives, netVars

\* The numbers before a numbered element of a queue of events.
LEMMA NumbersBefore ==
  ASSUME NEW q \in Seq(Event), NEW d \in Sources, NEW lo \in Nat, NEW hi \in Nat,
         Numbered(q, EventFrom(d), lo, hi), NEW i \in 1 .. Len(q), q[i].from = d
  PROVE  lo < q[i].n /\ NumbersOf(q, d, i - 1) = lo + 1 .. q[i].n - 1
<1> DEFINE E == EventFrom(d)
           n == q[i].n
<1>1. \A j \in 1 .. Len(q) : q[j] \in Event /\ q[j].n \in Nat
  <2>1. \A j \in 1 .. Len(q) : q[j] \in Event
    OBVIOUS
  <2> QED  BY <2>1 DEF Event
<1>2. ASSUME NEW j \in 1 .. Len(q), NEW k \in Nat
      PROVE  q[j] = E[k] <=> q[j].from = d /\ q[j].n = k
  BY <1>1, EventForm, SMTT(60)
<1>3. Counts(E, Event) /\ q[i] = E[n] /\ n \in Nat
  BY <1>1, <1>2, EventCounts
<1> HIDE DEF E, n
<1>4. lo < n /\ \A k \in Nat : (\E j \in 1 .. i - 1 : q[j] = E[k]) <=> k \in lo + 1 .. n - 1
  BY <1>3, NumberedBefore, SMTT(60) DEF E
<1>5. ASSUME NEW v
      PROVE  v \in NumbersOf(q, d, i - 1) <=> v \in lo + 1 .. n - 1
  <2>1. v \in NumbersOf(q, d, i - 1) <=> \E j \in 1 .. i - 1 : q[j].from = d /\ q[j].n = v
    BY DEF NumbersOf
  <2>2. ASSUME NEW j \in 1 .. i - 1
        PROVE  q[j].from = d /\ q[j].n = v <=> v \in Nat /\ q[j] = E[v]
    BY <1>1, <1>2, SMTT(60)
  <2>3. v \in NumbersOf(q, d, i - 1) <=> v \in Nat /\ \E j \in 1 .. i - 1 : q[j] = E[v]
    BY <2>1, <2>2
  <2> QED  BY <1>3, <1>4, <2>3, SMTT(60)
<1> QED  BY <1>4, <1>5 DEF n

\* The numbers in a queue that holds the first ones of a source.
LEMMA NumbersIn ==
  ASSUME NEW q \in Seq(Event), NEW d \in Sources, NEW hi \in Nat, Numbered(q, EventFrom(d), 0, hi)
  PROVE  NumbersOf(q, d, Len(q)) = 1 .. hi
<1>1. ASSUME NEW j \in 1 .. Len(q) PROVE q[j] \in Event /\ q[j].n \in Nat
  <2>1. q[j] \in Event
    BY SMTT(60)
  <2> QED  BY <2>1 DEF Event
<1>2. ASSUME NEW j \in 1 .. Len(q), q[j].from = d PROVE q[j].n \in 1 .. hi
  <2>1. q[j] = EventFrom(d)[q[j].n]
    BY <1>1, <1>2, EventForm, SMTT(60)
  <2> QED  BY <1>1, <2>1, SMTT(60) DEF Numbered
<1>3. ASSUME NEW k \in 1 .. hi PROVE \E j \in 1 .. Len(q) : q[j].from = d /\ q[j].n = k
  <2>1. PICK j \in 1 .. Len(q) : q[j] = EventFrom(d)[k]
    BY SMTT(60) DEF Numbered
  <2> QED  BY <1>1, <2>1, EventForm, SMTT(60)
<1> QED  BY <1>2, <1>3 DEF NumbersOf

\* The eventbase has the events of each client in order, from the invariant.
LEMMA EventsHold ==
  ASSUME TypeOK, EventInv
  PROVE  EventsInOrder
<1> SUFFICES ASSUME NEW i \in DOMAIN events
             PROVE  NumbersOf(events, events[i].from, i - 1) = 1 .. events[i].n - 1
  BY DEF EventsInOrder
<1>1. events \in Seq(Event) /\ i \in 1 .. Len(events)
  BY SMTT(60) DEF TypeOK, ServerTypeOK
<1>2. events[i] \in Event /\ events[i] \notin Ticks
  BY <1>1 DEF EventInv, NoneIn
<1> DEFINE c == events[i].from
<1>3. c \in Clients /\ c \in Sources
  BY <1>2 DEF Event, Ticks, Sources
<1>4. PICK x \in Nat : Numbered(events, EventFrom(c), 0, x)
  BY <1>3 DEF EventInv, EventsOf, Chain, Recorded
<1>5. NumbersOf(events, c, i - 1) = 0 + 1 .. events[i].n - 1
  BY <1>1, <1>3, <1>4, NumbersBefore, ZenonT(30)
<1> QED  BY <1>5

-----------------------------------------------------------------------------
(* The events heard *)

\* The publisher sends the events of source d to client c.
Subscribed(c, d) == \E s \in topics[c] : TopicMatches(s, TopicOf(d))

\* The events of source d up to the z-th are published: those the timer made, or
\* those recorded.
Published(d, z) == IF d = NULL THEN timer = z ELSE Recorded(d, z)

\* Client c has heard the events a + 1 to x of source d, those up to y are on
\* the connection and those up to z on the daemon's pipe.  A client that is not
\* subscribed has missed all those that went by, and none is on its connection.
HeardFrom(c, d, a, x, y, z) ==
  /\ Numbered(heard[c], EventFrom(d), a, x)
  /\ connected[c] => Numbered(pubs[c], MsgFrom(d), x, y)
  /\ ControllerRuns => /\ Numbered(ctlSend, PubFrom(d), y, z)
                       /\ connected[c] /\ ~Subscribed(c, d) => a = y
                       /\ daemon = "running" => Published(d, z)

HeardOf(c, d) == \E a, x, y, z \in Nat : HeardFrom(c, d, a, x, y, z)

\* Each event is published under the topic of its source.
Misfiled == {h \in ToControllerBroker : h.ctrl = "PUB" /\ h.to # TopicOf(h.msg.arg.from)}

HeardInv == NoneIn(ctlSend, Misfiled) /\ \A c \in Clients, d \in Sources : HeardOf(c, d)

\* Nothing is heard before the first step.
LEMMA HeardInit ==
  ASSUME Init PROVE HeardInv
<1>1. \A F : Numbered(<<>>, F, 0, 0)
  BY DEF Numbered
<1>2. ctlSend = <<>> /\ events = <<>> /\ timer = 0
  BY DEF Init, ServerInit
<1>3. ASSUME NEW c \in Clients, NEW d \in Sources PROVE HeardOf(c, d)
  <2>1. heard[c] = <<>> /\ pubs[c] = <<>>
    BY DEF Init, ClientInit, NetInit
  <2>2. Published(d, 0)
    BY <1>1, <1>2 DEF Published, Recorded
  <2>3. HeardFrom(c, d, 0, 0, 0, 0)
    BY <1>1, <1>2, <2>1, <2>2, ZenonT(30) DEF HeardFrom
  <2> QED  BY <2>3 DEF HeardOf
<1>4. NoneIn(ctlSend, Misfiled)
  BY <1>2, QueueEmpty, ZenonT(30)
<1> QED  BY <1>3, <1>4 DEF HeardInv

\* A step of a client, or a subscription that takes effect.
LEMMA HeardClient ==
  ASSUME TypeOK, Lives, NEW c \in Clients, NEW d \in Sources, SubsOf(c), HeardOf(c, d),
         UNCHANGED serverVars,
         \/ /\ heard'[c] = heard[c] /\ pubs'[c] = pubs[c] /\ connected'[c] = connected[c]
            /\ topics[c] \subseteq topics'[c]
         \/ heard'[c] = heard[c] /\ connected'[c] = FALSE
         \/ \E m \in ToListeners : Hears(c, m)
  PROVE  HeardOf(c, d)'
<1> DEFINE E == EventFrom(d)
           F == MsgFrom(d)
<1>0. heard[c] \in Seq(Event) /\ pubs[c] \in Seq(ToListeners) /\ Counts(E, Event) /\ Counts(F, ToListeners)
  BY EventCounts, ZenonT(30) DEF TypeOK, ClientTypeOK, NetTypeOK
<1>1. PICK a \in Nat, x \in Nat, y \in Nat, z \in Nat : HeardFrom(c, d, a, x, y, z)
  BY DEF HeardOf
<1>2. /\ UNCHANGED <<daemon, ctlSend>> /\ (ControllerRuns' <=> ControllerRuns)
      /\ \A w : Published(d, w)' <=> Published(d, w)
  BY DEF serverVars, ControllerRuns, Published, Recorded
<1>3. CASE /\ heard'[c] = heard[c] /\ pubs'[c] = pubs[c] /\ connected'[c] = connected[c]
           /\ topics[c] \subseteq topics'[c]
  <2>1. Subscribed(c, d) => Subscribed(c, d)'
    BY <1>3 DEF Subscribed
  <2>2. HeardFrom(c, d, a, x, y, z)'
    BY <1>1, <1>2, <1>3, <2>1, Zenon DEF HeardFrom
  <2> QED  BY <2>2 DEF HeardOf
<1>4. CASE heard'[c] = heard[c] /\ connected'[c] = FALSE
  <2>1. HeardFrom(c, d, a, x, y, z)'
    BY <1>1, <1>2, <1>4, Zenon DEF HeardFrom
  <2> QED  BY <2>1 DEF HeardOf
<1>5. ASSUME NEW m \in ToListeners, Hears(c, m)
      PROVE  HeardOf(c, d)'
  <2>1. /\ pubs[c] # <<>> /\ m = Head(pubs[c]) /\ pubs'[c] = Tail(pubs[c])
        /\ heard'[c] = IF subcb[c] = "set" THEN Append(heard[c], m.arg) ELSE heard[c]
        /\ topics'[c] = topics[c] /\ connected'[c] = connected[c] /\ BrokerRuns(c)
    BY <1>5, Zenon DEF Hears
  <2>2. /\ heard'[c] = Append(heard[c], m.arg) /\ (Subscribed(c, d)' <=> Subscribed(c, d))
        /\ connected[c]
    BY <2>1 DEF SubsOf, Subscribed, Lives
  <2>3. m \in Message /\ m.type = "EVENTS" /\ m.arg \in Event
    BY Arguments DEF ToListeners
  <2>4. ASSUME NEW k \in Nat PROVE m = F[k] <=> m.arg = E[k]
    BY <2>3, MsgForm
  <2>5. Numbered(heard[c], E, a, x) /\ Numbered(pubs[c], F, x, y)
    BY <1>1, <2>2 DEF HeardFrom
  <2>6. ASSUME NEW w \in Nat, Numbered(heard'[c], E, a, w), Numbered(pubs'[c], F, w, y)
        PROVE  HeardOf(c, d)'
    <3>1. HeardFrom(c, d, a, w, y, z)'
      BY <1>1, <1>2, <2>1, <2>2, <2>6, Zenon DEF HeardFrom
    <3> QED  BY <3>1 DEF HeardOf
  <2> HIDE DEF E, F
  <2>t. /\ \A l \in Nat : m = F[l] => l = x + 1 /\ Numbered(pubs'[c], F, x + 1, y)
        /\ (\A l \in Nat : m # F[l]) => Numbered(pubs'[c], F, x, y)
    <3>1. /\ \A l \in Nat : Head(pubs[c]) = F[l] => l = x + 1 /\ Numbered(Tail(pubs[c]), F, x + 1, y)
          /\ (\A l \in Nat : Head(pubs[c]) # F[l]) => Numbered(Tail(pubs[c]), F, x, y)
      BY <1>0, <2>1, <2>5, NumberedTail, ZenonT(30)
    <3> QED  BY <2>1, <3>1, ZenonT(30)
  <2>7. ASSUME NEW k \in Nat, m = F[k] PROVE HeardOf(c, d)'
    <3>2. k = x + 1 /\ Numbered(pubs'[c], F, x + 1, y)
      BY <2>7, <2>t
    <3>3. m.arg = E[x + 1]
      BY <2>4, <2>7, <3>2
    <3>4. Numbered(heard'[c], E, a, x + 1)
      BY <1>0, <2>2, <2>3, <2>5, <3>3, NumberedAppend, ZenonT(30)
    <3> QED  BY <2>6, <3>2, <3>4, ZenonT(30)
  <2>8. ASSUME \A k \in Nat : m # F[k] PROVE HeardOf(c, d)'
    <3>1. Numbered(pubs'[c], F, x, y)
      BY <2>8, <2>t
    <3>2. Numbered(heard'[c], E, a, x)
      BY <1>0, <2>2, <2>3, <2>4, <2>5, <2>8, NumberedAppend, ZenonT(30)
    <3> QED  BY <2>6, <3>1, <3>2, ZenonT(30)
  <2> QED  BY <2>7, <2>8, ZenonT(30)
<1> QED  BY <1>3, <1>4, <1>5, ZenonT(30)

\* What a step of client c does to what it hears.
LEMMA ListenViews ==
  ASSUME TypeOK, NEW c \in Clients, ClientNext
  PROVE  \/ /\ heard'[c] = heard[c] /\ pubs'[c] = pubs[c] /\ connected'[c] = connected[c]
            /\ topics'[c] = topics[c]
         \/ heard'[c] = heard[c] /\ connected'[c] = FALSE
         \/ \E m \in ToListeners : Hears(c, m)
<1>1. CASE Idle(c) \/ Waits(c) \/ Gone(c)
  BY <1>1, Zenon DEF Idle, Waits, Gone, NetIdle, KeptIdle
<1>2. CASE \E t \in Threads : \/ \E h \in ToClientBroker : Pushes(t, c, h)
                              \/ \E m \in ToClient : Takes(t, c, m)
  BY <1>2, Zenon DEF Pushes, Takes, NetIdle, KeptIdle
<1>3. CASE \/ \E h \in ToClientBroker : Transmits(c, h)
           \/ \E m \in ToClient : Receives(c, m)
  BY <1>3, Zenon DEF Transmits, Receives, KeptIdle
<1> QED  BY <1>1, <1>2, <1>3, ClientViews, Zenon DEF ClientStep

\* A step of the daemon that sends client c no published message, and leaves the
\* events of source d on its pipe, with maybe the next ones.
LEMMA HeardFrame ==
  ASSUME NEW c \in Clients, NEW d \in Sources, NEW a \in Nat, NEW x \in Nat, NEW y \in Nat, NEW z \in Nat,
         HeardFrom(c, d, a, x, y, z), NEW w \in Nat,
         heard'[c] = heard[c], pubs'[c] = pubs[c], connected'[c] = connected[c], topics'[c] = topics[c],
         ControllerRuns' => /\ ControllerRuns /\ Numbered(ctlSend', PubFrom(d), y, w)
                            /\ daemon' = "running" => Published(d, w)'
  PROVE  HeardOf(c, d)'
<1>1. Subscribed(c, d)' <=> Subscribed(c, d)
  BY DEF Subscribed
<1>2. HeardFrom(c, d, a, x, y, w)'
  BY <1>1, Zenon DEF HeardFrom
<1> QED  BY <1>2 DEF HeardOf

\* The daemon publishes the next event of the timer or of a client.
LEMMA HeardPublish ==
  ASSUME TypeOK, NEW c \in Clients, NEW d \in Sources, HeardOf(c, d), EventInv,
         nrm_server_timer_callback \/ nrm_server_events_callback, UNCHANGED clientVars
  PROVE  HeardOf(c, d)'
<1> DEFINE P == PubFrom(d)
<1>0. ctlSend \in Seq(ToControllerBroker) /\ Counts(P, ToControllerBroker) /\ timer \in Nat
  BY EventCounts, ServerAssumption, SMTT(60) DEF TypeOK, ServerTypeOK
<1>1. PICK a \in Nat, x \in Nat, y \in Nat, z \in Nat : HeardFrom(c, d, a, x, y, z)
  BY DEF HeardOf
<1>2. /\ daemon = "running" /\ daemon' = daemon /\ ControllerRuns /\ UNCHANGED <<netVars, heard>>
  BY Zenon DEF nrm_server_timer_callback, nrm_server_events_callback, nrm_server_role_callback,
     ControllerRuns, clientVars
<1>3. Numbered(ctlSend, P, y, z) /\ Published(d, z)
  BY <1>1, <1>2 DEF HeardFrom
<1>4. ASSUME NEW w \in Nat, Numbered(ctlSend', P, y, w), Published(d, w)' PROVE HeardOf(c, d)'
  BY <1>1, <1>2, <1>4, HeardFrame DEF netVars
<1>5. CASE nrm_server_timer_callback
  <2> DEFINE e == [from |-> NULL, n |-> timer + 1]
             m == nrm_msg_set_events(e)
             p == Pub("daemon", m)
  <2>1. ctlSend' = Append(ctlSend, p) /\ timer' = timer + 1 /\ events' = events
    BY <1>5, Zenon DEF nrm_server_timer_callback
  <2>2. e \in Event /\ timer + 1 \in Nat
    BY <1>0, SMTT(60) DEF Event
  <2>3. m \in ToListeners
    BY <2>2, Outgoing
  <2>4. p \in ToControllerBroker /\ p.msg.arg = e
    <3>1. m.arg = e
      BY DEF nrm_msg_set_events
    <3> HIDE DEF m
    <3> QED  BY <2>3, <3>1, Control, ZenonT(30) DEF Pub, Topics
  <2>5. ASSUME d = NULL PROVE p = P[timer + 1]
    BY <2>2, <2>5 DEF PubFrom, MsgFrom, TopicOf
  <2>6. ASSUME d # NULL, NEW k \in Nat PROVE p # P[k]
    <3>1. P[k].msg.arg = [from |-> d, n |-> k]
      BY DEF PubFrom, MsgFrom, Pub, nrm_msg_set_events
    <3> QED  BY <2>4, <2>6, <3>1, SMTT(60)
  <2> HIDE DEF p, P
  <2>7. CASE d = NULL
    <3>1. z = timer
      BY <1>3, <2>7 DEF Published
    <3>2. Numbered(ctlSend', P, y, z + 1)
      BY <1>0, <1>3, <2>1, <2>4, <2>5, <2>7, <3>1, NumberedAppend, ZenonT(30)
    <3>3. Published(d, z + 1)'
      BY <2>1, <2>7, <3>1, ZenonT(30) DEF Published
    <3> QED  BY <1>4, <3>2, <3>3, SMTT(60) DEF P
  <2>8. CASE d # NULL
    <3>1. Numbered(ctlSend', P, y, z)
      BY <1>0, <1>3, <2>1, <2>4, <2>6, <2>8, NumberedAppend, ZenonT(30)
    <3>2. Published(d, z)'
      BY <1>3, <2>1, <2>8, ZenonT(30) DEF Published, Recorded
    <3> QED  BY <1>4, <3>1, <3>2, ZenonT(30) DEF P
  <2> QED  BY <2>7, <2>8
<1>6. CASE nrm_server_events_callback
  <2> DEFINE p == Pub("daemon.events.raw", Received)
  <2>1. /\ ctlSend' = Append(ctlSend, p) /\ UNCHANGED timer /\ From \in Clients /\ Received \in Message
        /\ Received \in ToListeners /\ Received.type = "EVENTS" /\ Received.arg.from = From
    BY <1>6, EventReceived, OwnRecorded, ZenonT(30) DEF EventInv
  <2>2. /\ p \in ToControllerBroker /\ p.ctrl = "PUB" /\ p.to = "daemon.events.raw" /\ p.msg = Received
    BY <2>1, Control, ZenonT(30) DEF Pub, Topics
  <2>3. ASSUME NEW k \in Nat
        PROVE  p = P[k] <=> TopicOf(d) = "daemon.events.raw" /\ Received.arg = EventFrom(d)[k]
    <3>1. p = P[k] <=> p.ctrl = "PUB" /\ p.to = TopicOf(d) /\ p.msg = MsgFrom(d)[k]
      BY <2>2, PubForm, ZenonT(30)
    <3>2. Received = MsgFrom(d)[k] <=> Received.type = "EVENTS" /\ Received.arg = EventFrom(d)[k]
      BY <2>1, MsgForm, ZenonT(30)
    <3> QED  BY <2>1, <2>2, <3>1, <3>2, ZenonT(30)
  <2> HIDE DEF p, P
  <2>4. CASE d = NULL
    <3>1. \A k \in Nat : p # P[k]
      BY <2>3, <2>4, ZenonT(30) DEF TopicOf
    <3>2. Numbered(ctlSend', P, y, z)
      BY <1>0, <1>3, <2>1, <2>2, <3>1, NumberedAppend, ZenonT(30)
    <3>3. Published(d, z)'
      BY <1>3, <2>1, <2>4, ZenonT(30) DEF Published
    <3> QED  BY <1>4, <3>2, <3>3 DEF P
  <2>5. CASE d # NULL
    <3>1. d \in Clients /\ TopicOf(d) = "daemon.events.raw" /\ Recorded(d, z)
          /\ \A w : Published(d, w)' <=> Recorded(d, w)'
      BY <1>3, <2>5, ZenonT(30) DEF Sources, TopicOf, Published
    <3>2. EventsOf(d) /\ \A b \in Clients : Own(b)
      BY <3>1 DEF EventInv
    <3>3. PICK v \in Nat, w \in Nat : Recorded(d, v) /\ Numbered(ctlRecv, GotFrom(d), v, w)
      BY <1>2, <3>2, ZenonT(30) DEF EventsOf, Chain, Serves, Underway
    <3>4. v = z
      <4>1. events \in Seq(Event)
        BY DEF TypeOK, ServerTypeOK
      <4> QED  BY <3>1, <3>3, <4>1, NumberedOnce, ZenonT(30) DEF Recorded
    <3>5. CASE From = d
      <4>1. Received.arg = EventFrom(d)[z + 1] /\ Recorded(d, z + 1)'
        BY <1>6, <3>1, <3>2, <3>3, <3>4, <3>5, NextRecorded
      <4>2. p = P[z + 1]
        BY <2>3, <3>1, <4>1, SMTT(60)
      <4>3. Numbered(ctlSend', P, y, z + 1)
        BY <1>0, <1>3, <2>1, <2>2, <4>2, NumberedAppend
      <4> QED  BY <1>4, <3>1, <4>1, <4>3, SMTT(60) DEF P
    <3>6. CASE From # d
      <4>1. Received.arg.from # d /\ Recorded(d, z)'
        BY <1>6, <3>1, <3>2, <3>3, <3>4, <3>6, NextRecorded, ZenonT(30)
      <4>2. ASSUME NEW k \in Nat PROVE p # P[k]
        <5>1. EventFrom(d)[k].from = d
          BY DEF EventFrom
        <5> QED  BY <2>3, <4>1, <5>1, ZenonT(30)
      <4>3. Numbered(ctlSend', P, y, z)
        BY <1>0, <1>3, <2>1, <2>2, <4>2, NumberedAppend, ZenonT(30)
      <4> QED  BY <1>4, <3>1, <4>1, <4>3, ZenonT(30) DEF P
    <3> QED  BY <3>5, <3>6, ZenonT(30)
  <2> QED  BY <2>4, <2>5
<1> QED  BY <1>5, <1>6

\* The controller's broker publishes event h.
LEMMA HeardPub ==
  ASSUME TypeOK, NEW c \in Clients, NEW d \in Sources, HeardOf(c, d), NEW h \in ToControllerBroker,
         h \notin Misfiled, h.ctrl = "PUB", nrm_msg_pub(h.to, h.msg), ControllerRuns,
         ctlSend # <<>>, h = Head(ctlSend), ctlSend' = Tail(ctlSend),
         UNCHANGED <<daemon, events, timer, wanted, topics, connected, heard>>
  PROVE  HeardOf(c, d)'
<1> DEFINE E == EventFrom(d)
           F == MsgFrom(d)
           P == PubFrom(d)
<1>0. /\ heard[c] \in Seq(Event) /\ pubs[c] \in Seq(ToListeners) /\ ctlSend \in Seq(ToControllerBroker)
      /\ Counts(E, Event) /\ Counts(F, ToListeners) /\ Counts(P, ToControllerBroker)
  BY EventCounts DEF TypeOK, ClientTypeOK, NetTypeOK, ServerTypeOK
<1>1. PICK a \in Nat, x \in Nat, y \in Nat, z \in Nat : HeardFrom(c, d, a, x, y, z)
  BY DEF HeardOf
<1>2. /\ Numbered(heard[c], E, a, x) /\ Numbered(ctlSend, P, y, z)
      /\ connected[c] => Numbered(pubs[c], F, x, y)
      /\ connected[c] /\ ~Subscribed(c, d) => a = y
      /\ daemon = "running" => Published(d, z)
  BY <1>1 DEF HeardFrom
<1>3. /\ ControllerRuns' /\ (Subscribed(c, d)' <=> Subscribed(c, d))
      /\ Published(d, z)' <=> Published(d, z)
  BY DEF ControllerRuns, Subscribed, Published, Recorded
<1>4. ASSUME NEW v \in Nat, NEW u \in Nat, NEW w \in Nat,
             Numbered(heard[c], E, v, u), Numbered(ctlSend', P, w, z),
             connected[c] => Numbered(pubs'[c], F, u, w),
             connected[c] /\ ~Subscribed(c, d) => v = w
      PROVE  HeardOf(c, d)'
  <2>1. HeardFrom(c, d, v, u, w, z)'
    BY <1>2, <1>3, <1>4, Zenon DEF HeardFrom
  <2> QED  BY <2>1 DEF HeardOf
<1>5. h.msg \in ToListeners /\ h.msg \in Message /\ h.msg.type = "EVENTS" /\ h.msg.arg \in Event
  BY Control, Arguments DEF ToListeners
<1>6. pubs'[c] = IF connected[c] /\ \E s \in topics[c] : TopicMatches(s, h.to)
                 THEN Append(pubs[c], h.msg) ELSE pubs[c]
  BY DEF nrm_msg_pub
<1>7. h.to = TopicOf(h.msg.arg.from)
  BY DEF Misfiled
<1>8. ASSUME NEW k \in Nat PROVE h = P[k] <=> h.msg = F[k]
  <2>1. h = P[k] <=> h.to = TopicOf(d) /\ h.msg = F[k]
    BY PubForm
  <2>2. h.msg = F[k] => h.msg.arg.from = d
    <3>1. F[k].arg.from = d
      BY DEF MsgFrom, nrm_msg_set_events
    <3> QED  BY <3>1
  <2> QED  BY <1>7, <2>1, <2>2, ZenonT(30)
<1>9. ASSUME NEW k \in Nat, h = P[k]
      PROVE  h.to = TopicOf(d)
  BY <1>9, PubForm
<1> HIDE DEF E, F, P
<1>10. ASSUME NEW k \in Nat, h = P[k] PROVE HeardOf(c, d)'
  <2>0. Head(ctlSend) = P[k]
    BY <1>10
  <2>1. k = y + 1 /\ Numbered(ctlSend', P, y + 1, z)
    <3>1. \A l \in Nat : Head(ctlSend) = P[l] => l = y + 1 /\ Numbered(Tail(ctlSend), P, y + 1, z)
      BY <1>0, <1>2, NumberedTail, ZenonT(30)
    <3> QED  BY <2>0, <3>1
  <2>2. h.msg = F[y + 1] /\ h.to = TopicOf(d)
    BY <1>8, <1>9, <1>10, <2>1
  <2>3. CASE ~connected[c]
    BY <1>2, <1>4, <2>1, <2>3, ZenonT(30)
  <2>4. CASE connected[c] /\ Subscribed(c, d)
    <3>1. pubs'[c] = Append(pubs[c], h.msg)
      BY <1>6, <2>2, <2>4, ZenonT(30) DEF Subscribed
    <3>2. Numbered(pubs'[c], F, x, y + 1)
      BY <1>0, <1>2, <1>5, <2>2, <2>4, <3>1, NumberedAppend, ZenonT(30)
    <3> QED  BY <1>2, <1>4, <2>1, <2>4, <3>2, ZenonT(30)
  <2>5. CASE connected[c] /\ ~Subscribed(c, d)
    <3>1. pubs'[c] = pubs[c]
      BY <1>6, <2>2, <2>5, ZenonT(30) DEF Subscribed
    <3>2. a <= x /\ x <= y /\ a = y
      BY <1>2, <2>5, Zenon DEF Numbered
    <3>3. a = x /\ x = y /\ y + 1 \in Nat
      BY <3>2, SMTT(60)
    <3>4. Numbered(heard[c], E, a, a) /\ Numbered(pubs[c], F, a, a)
      BY <1>2, <2>5, <3>3
    <3>5. Numbered(heard[c], E, y + 1, y + 1)
      BY <1>0, <3>3, <3>4, NumberedEmpty, ZenonT(30)
    <3>6. Numbered(pubs[c], F, y + 1, y + 1)
      BY <1>0, <3>3, <3>4, NumberedEmpty, ZenonT(30)
    <3> QED  BY <1>4, <2>1, <3>1, <3>3, <3>5, <3>6, ZenonT(30)
  <2> QED  BY <2>3, <2>4, <2>5, ZenonT(30)
<1>11. ASSUME \A k \in Nat : h # P[k] PROVE HeardOf(c, d)'
  <2>1. Numbered(ctlSend', P, y, z)
    BY <1>0, <1>2, <1>11, NumberedTail, ZenonT(30)
  <2>2. connected[c] => Numbered(Append(pubs[c], h.msg), F, x, y)
    BY <1>0, <1>2, <1>5, <1>8, <1>11, NumberedAppend, ZenonT(30)
  <2>3. connected[c] => Numbered(pubs'[c], F, x, y)
    BY <1>2, <1>6, <2>2, ZenonT(30)
  <2> QED  BY <1>2, <1>4, <2>1, <2>3, ZenonT(30)
<1> QED  BY <1>10, <1>11, ZenonT(30)

\* Every other step of the daemon.
LEMMA HeardServer ==
  ASSUME TypeOK, NEW c \in Clients, NEW d \in Sources, HeardOf(c, d), EventInv,
         NoneIn(ctlSend, Misfiled), ServerNext, UNCHANGED clientVars
  PROVE  HeardOf(c, d)'
<1> DEFINE P == PubFrom(d)
<1>0. /\ ctlSend \in Seq(ToControllerBroker) /\ pubs[c] \in Seq(ToListeners) /\ heard' = heard
      /\ Counts(P, ToControllerBroker) /\ Counts(MsgFrom(d), ToListeners)
  BY EventCounts DEF TypeOK, NetTypeOK, ServerTypeOK, clientVars
<1>1. PICK a \in Nat, x \in Nat, y \in Nat, z \in Nat : HeardFrom(c, d, a, x, y, z)
  BY DEF HeardOf
<1>2. /\ ControllerRuns => Numbered(ctlSend, P, y, z) /\ (daemon = "running" => Published(d, z))
      /\ connected[c] => Numbered(pubs[c], MsgFrom(d), x, y)
  BY <1>1 DEF HeardFrom
<1>3. ASSUME UNCHANGED <<pubs, connected, topics, events, timer>>, ControllerRuns' => ControllerRuns,
             daemon' = "running" => daemon = "running",
             ControllerRuns => Numbered(ctlSend', P, y, z)
      PROVE  HeardOf(c, d)'
  <2>1. Published(d, z) => Published(d, z)'
    BY <1>3 DEF Published, Recorded
  <2>2. ControllerRuns' => /\ ControllerRuns /\ Numbered(ctlSend', P, y, z)
                           /\ daemon' = "running" => Published(d, z)'
    BY <1>2, <1>3, <2>1, ZenonT(30)
  <2> QED  BY <1>0, <1>1, <1>3, <2>2, HeardFrame, ZenonT(30)
<1>4. ASSUME NEW q \in Seq(ToControllerBroker), NEW e \in ToControllerBroker, e.ctrl # "PUB",
             Numbered(q, P, y, z)
      PROVE  Numbered(Append(q, e), P, y, z) /\ Append(q, e) \in Seq(ToControllerBroker)
  <2>1. \A k \in Nat : P[k].ctrl = "PUB"
    BY DEF PubFrom, Pub
  <2>2. \A k \in Nat : e # P[k]
    BY <1>4, <2>1, ZenonT(30)
  <2> HIDE DEF P
  <2> QED  BY <1>0, <1>4, <2>2, NumberedAppend, QueueTypes, ZenonT(30)
<1> HIDE DEF P
<1>5. CASE Controls \/ \E h \in FromControllerBroker : Answers(h)
  <2>1. /\ UNCHANGED <<pubs, connected, topics, events, timer>> /\ (daemon' = "running" => daemon = "running")
        /\ ControllerRuns
    BY <1>5, Zenon DEF Controls, Answers, ControllerRuns, netVars
  <2>2. Numbered(ctlSend', P, y, z)
    <3>1. \A s \in Sends : s \in ToControllerBroker /\ s.ctrl # "PUB"
      BY DEF Sends
    <3>2. \A s \in Sends : /\ Numbered(Append(ctlSend, s), P, y, z)
                           /\ Append(ctlSend, s) \in Seq(ToControllerBroker)
      BY <1>0, <1>2, <1>4, <2>1, <3>1, ZenonT(30)
    <3>3. \A r, s \in Sends : Numbered(Append(Append(ctlSend, r), s), P, y, z)
      BY <1>4, <3>1, <3>2, ZenonT(30)
    <3> QED  BY <1>2, <1>5, <2>1, <3>2, <3>3, Pushed, Zenon
  <2> QED  BY <1>3, <2>1, <2>2, ZenonT(30)
<1>6. CASE nrm_server_destroy
  <2>1. /\ UNCHANGED <<pubs, connected, topics, timer>> /\ daemon' = "closing" /\ ControllerRuns
        /\ ctlSend' = Append(ctlSend, Term)
    BY <1>6 DEF nrm_server_destroy, netVars, ControllerRuns
  <2>2. Term \in ToControllerBroker /\ Term.ctrl # "PUB"
    BY Control DEF Term
  <2>3. Numbered(ctlSend', P, y, z)
    BY <1>0, <1>2, <1>4, <2>1, <2>2, ZenonT(30)
  <2> QED  BY <1>0, <1>1, <2>1, <2>3, HeardFrame, ZenonT(30) DEF P
<1>7. CASE nrm_server_signal_callback \/ \E b \in Clients : nrm_controller_broker_rpc_handler(b)
  <2>1. /\ UNCHANGED <<pubs, connected, topics, events, timer, ctlSend>> /\ ControllerRuns
        /\ daemon' = "running" => daemon = "running"
    BY <1>7 DEF nrm_server_signal_callback, nrm_controller_broker_rpc_handler, netVars, ControllerRuns
  <2> QED  BY <1>2, <1>3, <2>1, ZenonT(30)
<1>8. CASE CloseServerSockets /\ daemon' \in {"stopped", "crashed"}
  <2>1. /\ pubs'[c] \in Prefix(pubs[c]) /\ UNCHANGED <<connected, topics>> /\ ~ControllerRuns'
        /\ daemon' # "running"
    BY <1>8 DEF CloseServerSockets, LeftOf, ControllerRuns
  <2>2. PICK w \in Nat : connected[c] => Numbered(pubs'[c], MsgFrom(d), x, w)
    BY <1>0, <1>2, <2>1, NumberedCut, SMTT(60)
  <2>3. HeardFrom(c, d, a, x, w, z)'
    BY <1>0, <1>1, <2>1, <2>2 DEF HeardFrom
  <2> QED  BY <2>3 DEF HeardOf
<1>9. CASE nrm_controller_broker_pipe_handler
  <2> DEFINE h == Head(ctlSend)
  <2>1. /\ ControllerRuns /\ ctlSend # <<>> /\ ctlSend' = Tail(ctlSend) /\ UNCHANGED <<events, timer>>
        /\ h = Head(ctlSend)
    BY <1>9 DEF nrm_controller_broker_pipe_handler
  <2>2. h \in ToControllerBroker /\ h \notin Misfiled
    BY <1>0, <2>1, QueueNone, QueueTypes, ZenonT(30)
  <2> HIDE DEF h
  <2>3. CASE h.ctrl = "SEND" /\ UNCHANGED <<daemon, pubs, topics, connected>>
    <3>1. \A k \in Nat : h # P[k]
      BY <2>3, SMTT(60) DEF P, PubFrom, Pub
    <3>2. Numbered(ctlSend', P, y, z)
      BY <1>0, <1>2, <2>1, <3>1, NumberedTail
    <3>3. ControllerRuns'
      BY <2>1, <2>3 DEF ControllerRuns
    <3> QED  BY <1>3, <2>1, <2>3, <3>2, <3>3, ZenonT(30)
  <2>4. CASE h.ctrl = "PUB" /\ nrm_msg_pub(h.to, h.msg) /\ UNCHANGED <<daemon, wanted, topics, connected>>
    BY <1>0, <2>1, <2>2, <2>4, HeardPub, ZenonT(30)
  <2> QED  BY <1>8, <1>9, <2>3, <2>4, Zenon DEF nrm_controller_broker_pipe_handler, h
<1>10. CASE Crashes
  BY <1>8, <1>10, Zenon DEF Crashes, Crash
<1> QED
  BY <1>5, <1>6, <1>7, <1>9, <1>10, HeardPublish, ServerViews, Zenon DEF ServerStep

\* The daemon files each event under the topic of its source.
LEMMA FiledServer ==
  ASSUME TypeOK, EventInv, NoneIn(ctlSend, Misfiled), ServerNext
  PROVE  NoneIn(ctlSend', Misfiled)
<1>0. ctlSend \in Seq(ToControllerBroker) /\ timer \in Nat
  BY ServerAssumption, SMTT(60) DEF TypeOK, ServerTypeOK
<1>1. CASE Controls \/ \E h \in FromControllerBroker : Answers(h)
  <2>1. \A s \in Sends : s \notin Misfiled
    BY DEF Sends, Misfiled
  <2> QED  BY <1>1, <2>1, PushedOther
<1>2. ASSUME NEW topic, NEW m \in ToListeners, ctlSend' = Append(ctlSend, Pub(topic, m)),
             Pub(topic, m) \in ToControllerBroker, topic = TopicOf(m.arg.from)
      PROVE  NoneIn(ctlSend', Misfiled)
  <2>1. Pub(topic, m) \notin Misfiled
    BY <1>2 DEF Pub, Misfiled
  <2> QED  BY <1>0, <1>2, <2>1, QueueAppend
<1>3. CASE nrm_server_timer_callback
  <2> DEFINE e == [from |-> NULL, n |-> timer + 1]
             m == nrm_msg_set_events(e)
  <2>1. ctlSend' = Append(ctlSend, Pub("daemon", m))
    BY <1>3, Zenon DEF nrm_server_timer_callback
  <2>2. e \in Event
    BY <1>0, SMTT(60) DEF Event
  <2>3. m \in ToListeners
    BY <2>2, Outgoing
  <2>4. m.arg.from = NULL
    BY DEF nrm_msg_set_events
  <2> HIDE DEF m
  <2>5. Pub("daemon", m) \in ToControllerBroker
    BY <2>3, Control DEF Topics
  <2> QED  BY <1>2, <2>1, <2>3, <2>4, <2>5, ZenonT(30) DEF TopicOf
<1>4. CASE nrm_server_events_callback
  <2>1. /\ ctlSend' = Append(ctlSend, Pub("daemon.events.raw", Received))
        /\ From \in Clients /\ Received \in ToListeners /\ Received.arg.from = From
    BY <1>4, EventReceived, OwnRecorded, ZenonT(30) DEF EventInv
  <2>2. Pub("daemon.events.raw", Received) \in ToControllerBroker
    BY <2>1, Control DEF Topics
  <2>3. From # NULL
    BY <2>1, ClientAssumption
  <2> QED  BY <1>2, <2>1, <2>2, <2>3, ZenonT(30) DEF TopicOf
<1>5. CASE nrm_server_destroy
  <2>1. ctlSend' = Append(ctlSend, Term) /\ Term \in ToControllerBroker /\ Term \notin Misfiled
    BY <1>5, Control, ZenonT(30) DEF nrm_server_destroy, Term, Misfiled
  <2> QED  BY <1>0, <2>1, QueueAppend, ZenonT(30)
<1>6. CASE nrm_controller_broker_pipe_handler
  <2>1. ctlSend # <<>> /\ ctlSend' = Tail(ctlSend)
    BY <1>6 DEF nrm_controller_broker_pipe_handler
  <2> QED  BY <1>0, <2>1, QueueNone, ZenonT(30)
<1>7. CASE ctlSend' = <<>> \/ UNCHANGED ctlSend
  BY <1>7, QueueEmpty, ZenonT(30)
<1>8. CASE Crashes \/ nrm_server_signal_callback \/ \E c \in Clients : nrm_controller_broker_rpc_handler(c)
  BY <1>7, <1>8, Zenon DEF Crashes, Crash, nrm_server_signal_callback, nrm_controller_broker_rpc_handler
<1> QED
  BY <1>1, <1>3, <1>4, <1>5, <1>6, <1>8, ServerViews, ZenonT(30) DEF ServerStep

\* What is heard stays in order, at every step.
LEMMA HeardStep ==
  ASSUME TypeOK, Lives, Subs, EventInv, HeardInv, [Next]_vars
  PROVE  HeardInv'
<1>1. NoneIn(ctlSend', Misfiled)
  <2>1. CASE UNCHANGED ctlSend
    BY <2>1 DEF HeardInv
  <2> QED  BY <2>1, FiledServer DEF Next, vars, serverVars, HeardInv
<1> SUFFICES ASSUME NEW c \in Clients, NEW d \in Sources PROVE HeardOf(c, d)'
  BY <1>1 DEF HeardInv
<1>2. SubsOf(c) /\ HeardOf(c, d) /\ NoneIn(ctlSend, Misfiled)
  BY DEF Subs, HeardInv
<1>3. CASE ClientNext /\ UNCHANGED serverVars
  <2>1. \/ /\ heard'[c] = heard[c] /\ pubs'[c] = pubs[c] /\ connected'[c] = connected[c]
           /\ topics[c] \subseteq topics'[c]
        \/ heard'[c] = heard[c] /\ connected'[c] = FALSE
        \/ \E m \in ToListeners : Hears(c, m)
    BY <1>3, ListenViews, Zenon
  <2> QED  BY <1>2, <1>3, <2>1, HeardClient, ZenonT(30)
<1>4. CASE ServerNext /\ UNCHANGED clientVars
  BY <1>2, <1>4, HeardServer, ZenonT(30)
<1>5. ASSUME NEW b \in Clients, SubscriptionArrives(b), UNCHANGED <<clientVars, serverVars>>
      PROVE  HeardOf(c, d)'
  <2>1. topics'[c] = topics[c] \/ topics'[c] = wanted[c]
    BY <1>5 DEF SubscriptionArrives, TypeOK, NetTypeOK
  <2>2. topics[c] \subseteq topics'[c]
    BY <1>2, <2>1, ZenonT(30) DEF SubsOf
  <2>3. heard' = heard /\ pubs' = pubs /\ connected' = connected
    BY <1>5 DEF SubscriptionArrives, clientVars
  <2> QED  BY <1>2, <1>5, <2>2, <2>3, HeardClient, Zenon
<1>6. CASE UNCHANGED vars
  <2>1. UNCHANGED serverVars /\ heard' = heard /\ pubs' = pubs /\ connected' = connected /\ topics' = topics
    BY <1>6 DEF vars, clientVars, netVars
  <2> QED  BY <1>2, <2>1, HeardClient, ZenonT(30)
<1> QED  BY <1>3, <1>4, <1>5, <1>6, ZenonT(30) DEF Next

\* Each listener hears the events of a source without a gap, from the invariant.
LEMMA HeardHold ==
  ASSUME TypeOK, HeardInv
  PROVE  HeardContiguous
<1> SUFFICES ASSUME NEW c \in Clients, NEW i \in DOMAIN heard[c]
             PROVE  \E m \in 1 .. heard[c][i].n :
                      NumbersOf(heard[c], heard[c][i].from, i - 1) = m .. heard[c][i].n - 1
  BY DEF HeardContiguous
<1> DEFINE e == heard[c][i]
<1>1. heard[c] \in Seq(Event) /\ i \in 1 .. Len(heard[c])
  BY SMTT(60) DEF TypeOK, ClientTypeOK
<1>2. e \in Event
  BY <1>1
<1>3. e.from \in Sources /\ e.n \in Nat
  BY <1>2 DEF Event, Sources
<1>4. PICK a \in Nat, x \in Nat : Numbered(heard[c], EventFrom(e.from), a, x)
  BY <1>3 DEF HeardInv, HeardOf, HeardFrom
<1>5. a < e.n /\ NumbersOf(heard[c], e.from, i - 1) = a + 1 .. e.n - 1
  BY <1>1, <1>3, <1>4, NumbersBefore, SMTT(60)
<1>6. a + 1 \in 1 .. e.n
  BY <1>3, <1>5, SMTT(60)
<1> QED  BY <1>5, <1>6

-----------------------------------------------------------------------------
(* Theorems *)

\* Of the events each client sends none is lost, doubled or overtaken on its way
\* to the eventbase while the client is connected.
THEOREM EventsOnTheirWay == Spec => []EventInv
<1>1. Init => EventInv
  BY EventsInit
<1>2. TypeOK /\ Lives /\ EventInv /\ [Next]_vars => EventInv'
  BY EventsStep
<1> QED  BY <1>1, <1>2, SocketsOpen, TypeCorrect, PTL DEF Spec

\* So nrm_server_events_callback pushes the events of each client in order.
THEOREM EventbaseInOrder == Spec => []EventsInOrder
<1>1. TypeOK /\ EventInv => EventsInOrder
  BY EventsHold
<1> QED  BY <1>1, EventsOnTheirWay, TypeCorrect, PTL

\* A listener hears the events of each client and the ticks of the daemon in
\* order and without a gap, from the first one it hears.
THEOREM ListenersMissNothing == Spec => []HeardContiguous
<1>1. Init => HeardInv
  BY HeardInit
<1>2. TypeOK /\ Lives /\ Subs /\ EventInv /\ HeardInv /\ [Next]_vars => HeardInv'
  BY HeardStep, ZenonT(30)
<1>3. TypeOK /\ HeardInv => HeardContiguous
  BY HeardHold
<1>4. Init => Subs
  BY SubsInit
<1>5. TypeOK /\ Subs /\ [Next]_vars => Subs'
  BY SubsStep
<1> QED
  BY <1>1, <1>2, <1>3, <1>4, <1>5, EventsOnTheirWay, SocketsOpen, TypeCorrect, PTL DEF Spec
=============================================================================
