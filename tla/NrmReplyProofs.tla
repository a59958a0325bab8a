--------------------------- MODULE NrmReplyProofs ---------------------------
(***************************************************************************)
(* What a reply tells a client of the events it sent before the request,   *)
(* and the theorems about requests and replies.                            *)
(***************************************************************************)
EXTENDS NrmRequestProofs, NrmEventProofs

\* Time for the provers in a large context.
USE ZenonT(8), SMTT(60)

EventsOnPipe == {h \in ToClientBroker : h.ctrl = "SEND" /\ h.arg \in ToListeners}
EventsFrom(c) == {h \in FromControllerBroker : h.from = c /\ h.msg \in ToListeners}

\* Where the requests of client c are, and where its events are not.
AskedUp(c) == ~NoneIn(up[c], Asking)
AskedDaemon(c) == ~NoneIn(ctlRecv, AskingFrom(c))
Due(c) == Ticking(c) \/ ~NoReply(c, Message)

LeftPipe(c) == NoneIn(toBroker[c], EventsOnPipe)
LeftUp(c) == NoneIn(up[c], ToListeners)
LeftDaemon(c) == NoneIn(ctlRecv, EventsFrom(c))

\* No event of client c is lost: those not recorded are all on their way.
Whole(c) == \E z \in Nat : Chain(c, z) /\ Unsent(c, z)

\* No event is behind a request: those sent before it are ahead.
Settled(c) ==
  /\ NoneBehind(toBroker[c], AskingOnPipe, EventsOnPipe)
  /\ NoneBehind(up[c], Asking, ToListeners)
  /\ NoneBehind(ctlRecv, AskingFrom(c), EventsFrom(c))
  /\ AskedUp(c) => LeftPipe(c)
  /\ AskedDaemon(c) => LeftPipe(c) /\ LeftUp(c)
  /\ Due(c) => LeftPipe(c) /\ LeftUp(c) /\ LeftDaemon(c)
  /\ (AskedUp(c) \/ AskedDaemon(c) \/ Due(c)) /\ Serves => Whole(c)

\* So it is for a client used by one thread, until it asks the daemon to exit.
SettledInv == \A c \in Clients : Unshared(c) /\ ~exitSent[c] => Settled(c)

\* Which messages are requests and which are events.
LEMMA AskOrEvent ==
  /\ \A m \in Message : m \in Asking <=> m \notin ToListeners
  /\ \A h \in ToClientBroker : /\ h \in AskingOnPipe <=> h.ctrl = "SEND" /\ h.arg \in Asking
                               /\ h \in EventsOnPipe <=> h.ctrl = "SEND" /\ h.arg \in ToListeners
  /\ \A c \in Clients, h \in FromControllerBroker : /\ h \in AskingFrom(c) <=> h.from = c /\ h.msg \in Asking
                                                    /\ h \in EventsFrom(c) <=> h.from = c /\ h.msg \in ToListeners
  BY DEF Asking, ToListeners, AskingOnPipe, EventsOnPipe, AskingFrom, EventsFrom

\* A reply falls due only when the daemon takes a request.
LEMMA DueServer ==
  ASSUME TypeOK, NEW c \in Clients, ServerNext, UNCHANGED clientVars, ~Due(c), Due(c)'
  PROVE  \E h \in AskingFrom(c) : Answers(h)
<1> SUFFICES ASSUME \A h \in AskingFrom(c) : ~Answers(h)
             PROVE  FALSE
  OBVIOUS
<1>1. ~Ticking(c) /\ NoReply(c, Message)
  BY DEF Due
<1>2. ~Ticking(c)'
  BY <1>1, TickViews, ZenonT(30)
<1>3. NoReply(c, Message)'
  BY <1>1, ReplyServer, ZenonT(30)
<1> QED  BY <1>2, <1>3, ZenonT(30) DEF Due

\* A client whose broker closes its sockets loses nothing that is ahead of a
\* request on the connection, and had no event left on its pipe.
LEMMA WholeGone ==
  ASSUME TypeOK, NEW c \in Clients, Gone(c), UNCHANGED serverVars, Whole(c), LeftPipe(c),
         NoneBehind(up[c], Asking, ToListeners), LeftUp(c) \/ AskedUp(c)'
  PROVE  Serves => Whole(c)'
<1> DEFINE F == MsgFrom(c)
           G == SentFrom(c)
<1>0. /\ toBroker[c] \in Seq(ToClientBroker) /\ up[c] \in Seq(Message) /\ sent[c] \in Nat
  BY DEF TypeOK, ClientTypeOK, NetTypeOK
<1>1. /\ up'[c] \in Prefix(up[c]) /\ sent'[c] = sent[c]
      /\ toBroker'[c] = toBroker[c] \/ (toBroker[c] # <<>> /\ toBroker'[c] = Tail(toBroker[c]))
      /\ UNCHANGED <<events, ctlRecv, daemon>>
  BY Zenon DEF Gone, CallsIdle, serverVars
<1>2. PICK z \in Nat : Chain(c, z) /\ Unsent(c, z)
  BY DEF Whole
<1>3. PICK x \in Nat, y \in Nat : Recorded(c, x) /\ (Serves => Underway(c, x, y, z))
  BY <1>2 DEF Chain
<1>4. ASSUME NEW q \in Seq(ToClientBroker), NoneIn(q, EventsOnPipe)
      PROVE  \A i \in 1 .. Len(q), k \in Nat : q[i] # G[k]
  <2>1. ASSUME NEW k \in Nat PROVE G[k] \in EventsOnPipe
    <3>1. c \in Sources
      BY DEF Sources
    <3>2. G[k] \in ToClientBroker /\ F[k] \in ToListeners
      BY <3>1, EventCounts, ZenonT(30) DEF Counts
    <3>3. G[k].ctrl = "SEND" /\ G[k].arg = F[k]
      BY DEF SentFrom
    <3> QED  BY <3>2, <3>3, ZenonT(30) DEF EventsOnPipe
  <2> QED  BY <1>4, <2>1, ZenonT(30) DEF NoneIn
<1>5. \A k \in Nat : F[k] \in ToListeners
  <2>1. c \in Sources
    BY DEF Sources
  <2> QED  BY <2>1, EventCounts, ZenonT(30) DEF Counts
<1>6. Numbered(toBroker[c], G, z, sent[c])
  BY <1>2 DEF Unsent
<1> HIDE DEF F, G
<1>7. z = sent[c]
  <2>1. \A i \in 1 .. Len(toBroker[c]), k \in Nat : toBroker[c][i] # G[k]
    BY <1>0, <1>4, ZenonT(30) DEF LeftPipe
  <2> QED  BY <1>0, <1>6, <2>1, NumberedGone, ZenonT(30)
<1>8. Numbered(toBroker'[c], G, z, sent[c])
  <2>0. NoneIn(toBroker[c], EventsOnPipe)
    BY DEF LeftPipe
  <2>1. toBroker'[c] \in Seq(ToClientBroker) /\ NoneIn(toBroker'[c], EventsOnPipe)
    <3>1. CASE toBroker'[c] = toBroker[c]
      BY <1>0, <2>0, <3>1, ZenonT(30)
    <3>2. CASE toBroker[c] # <<>> /\ toBroker'[c] = Tail(toBroker[c])
      BY <1>0, <2>0, <3>2, QueueTypes, QueueNone, SMTT(60)
    <3> QED  BY <1>1, <3>1, <3>2, ZenonT(30)
  <2>2. \A i \in 1 .. Len(toBroker'[c]), k \in Nat : toBroker'[c][i] # G[k]
    BY <1>4, <2>1
  <2> QED  BY <1>0, <1>7, <2>1, <2>2, NumberedNone, Zenon
<1>9. ASSUME Serves PROVE Numbered(up'[c], F, y, z)
  <2>1. Numbered(up[c], F, y, z)
    BY <1>3, <1>9, ZenonT(30) DEF Underway, F
  <2>2. \A j \in 1 .. Len(up[c]), k \in Nat : up[c][j] = F[k] => j \in 1 .. Len(up'[c])
    <3>1. CASE LeftUp(c)
      BY <1>5, <3>1, ZenonT(30) DEF LeftUp, NoneIn
    <3>2. CASE AskedUp(c)'
      <4>1. ~NoneIn(up'[c], Asking)
        BY <3>2 DEF AskedUp
      <4>2. \A j \in 1 .. Len(up[c]) : up[c][j] \in ToListeners => j \in 1 .. Len(up'[c])
        BY <1>0, <1>1, <4>1, BehindCut, ZenonT(30)
      <4> QED  BY <1>5, <4>2, ZenonT(30)
    <3> QED  BY <3>1, <3>2, ZenonT(30)
  <2> QED  BY <1>0, <1>1, <2>1, <2>2, NumberedKept, ZenonT(30)
<1>10. Serves => Underway(c, x, y, z)'
  BY <1>1, <1>3, <1>9, ZenonT(30) DEF Underway, F
<1>11. Recorded(c, x)' /\ (Serves' <=> Serves)
  BY <1>1, <1>3, ZenonT(30) DEF Recorded, Serves
<1>12. Unsent(c, z)'
  BY <1>1, <1>8, ZenonT(30) DEF Unsent, G
<1>13. Serves => Chain(c, z)'
  BY <1>10, <1>11, ZenonT(30) DEF Chain
<1> QED  BY <1>12, <1>13, ZenonT(30) DEF Whole

\* The clients' steps.
LEMMA SettledClient ==
  ASSUME TypeOK, Lives, OneOutstanding, ClientNext, UNCHANGED serverVars,
         NEW c \in Clients, Unshared(c), EventsOf(c)', ~exitSent'[c],
         exitSent[c] \/ Settled(c)
  PROVE  Settled(c)'
<1>0. /\ toBroker[c] \in Seq(ToClientBroker) /\ up[c] \in Seq(Message) /\ ctlRecv \in Seq(FromControllerBroker)
      /\ ctlRecv' = ctlRecv /\ (Serves' <=> Serves) /\ (Ticking(c)' <=> Ticking(c))
  BY DEF TypeOK, ClientTypeOK, NetTypeOK, ServerTypeOK, serverVars, Serves, Ticking
<1>1. Due(c)' => Due(c)
  BY <1>0, ReplyClient DEF Due
<1>2. (AskedDaemon(c)' <=> AskedDaemon(c)) /\ (LeftDaemon(c)' <=> LeftDaemon(c))
  BY <1>0 DEF AskedDaemon, LeftDaemon
<1>3. CASE UNCHANGED <<toBroker[c], up[c], sent[c], connected[c], exitSent[c]>>
  <2>1. Settled(c)
    BY <1>3
  <2>2. (AskedUp(c)' <=> AskedUp(c)) /\ (LeftPipe(c)' <=> LeftPipe(c)) /\ (LeftUp(c)' <=> LeftUp(c))
    BY <1>3 DEF AskedUp, LeftPipe, LeftUp
  <2>3. Whole(c)' <=> Whole(c)
    BY <1>3 DEF Whole, Chain, Recorded, Underway, Unsent, Serves, serverVars
  <2> QED  BY <1>0, <1>1, <1>2, <1>3, <2>1, <2>2, <2>3, ZenonT(30) DEF Settled
<1>4. ASSUME NEW t \in Threads, NEW h \in ToClientBroker, ClientOf[t] = c, Pushes(t, c, h)
      PROVE  Settled(c)'
  <2>0. /\ toBroker'[c] = Append(toBroker[c], h) /\ up'[c] = up[c] /\ ~exitSent[c]
        /\ status[c] = "open" /\ pc[t] \in {"idle", "sub_arg"}
    BY <1>4, ZenonT(30) DEF Pushes, NetIdle
  <2>1. Live(c) /\ Settled(c)
    BY <2>0 DEF Live
  <2>2. /\ NoneIn(toBroker[c], AskingOnPipe) /\ NoneIn(up[c], Asking)
        /\ NoneIn(ctlRecv, AskingFrom(c)) /\ ~Ticking(c) /\ NoReply(c, Message)
    BY <1>4, <2>0, <2>1, NothingAsked, ZenonT(30)
  <2>3. NoneBehind(toBroker'[c], AskingOnPipe, EventsOnPipe)
    BY <1>0, <2>0, <2>1, <2>2, BehindAppend, ZenonT(30) DEF Settled
  <2>4. ~AskedUp(c)' /\ ~AskedDaemon(c)' /\ ~Due(c)'
    BY <1>0, <1>1, <2>0, <2>2, ZenonT(30) DEF AskedUp, AskedDaemon, Due
  <2> QED  BY <1>0, <2>0, <2>1, <2>3, <2>4, ZenonT(30) DEF Settled
<1>5. CASE Gone(c)
  <2>0. /\ up'[c] \in Prefix(up[c]) /\ ~exitSent[c]
        /\ toBroker'[c] = toBroker[c] \/ (toBroker[c] # <<>> /\ toBroker'[c] = Tail(toBroker[c]))
    BY <1>5, ZenonT(30) DEF Gone, CallsIdle
  <2>1. Settled(c)
    BY <2>0
  <2>2. NoneBehind(toBroker'[c], AskingOnPipe, EventsOnPipe)
    BY <1>0, <2>0, <2>1, BehindTail, ZenonT(30) DEF Settled
  <2>3. NoneBehind(up'[c], Asking, ToListeners)
    BY <1>0, <2>0, <2>1, BehindCut, ZenonT(30) DEF Settled
  <2>4. LeftPipe(c) => LeftPipe(c)'
    BY <1>0, <2>0, QueueNone, ZenonT(30) DEF LeftPipe
  <2>5. LeftUp(c) => LeftUp(c)'
    BY <1>0, <2>0, QueueCut, Zenon DEF LeftUp
  <2>6. AskedUp(c)' => AskedUp(c)
    BY <1>0, <2>0, QueueCut, ZenonT(30) DEF AskedUp
  <2>7. ASSUME AskedUp(c)' \/ AskedDaemon(c)' \/ Due(c)', Serves PROVE Whole(c)'
    <3>1. Whole(c) /\ LeftPipe(c) /\ (LeftUp(c) \/ AskedUp(c)')
      BY <1>1, <1>2, <2>1, <2>6, <2>7, ZenonT(30) DEF Settled
    <3> QED  BY <1>5, <2>1, <2>7, <3>1, WholeGone, Zenon DEF Settled
  <2> QED  BY <1>0, <1>1, <1>2, <2>1, <2>2, <2>3, <2>4, <2>5, <2>6, <2>7, ZenonT(30) DEF Settled
<1>6. ASSUME NEW h \in ToClientBroker, Transmits(c, h) PROVE Settled(c)'
  <2>0. /\ toBroker[c] # <<>> /\ h = Head(toBroker[c]) /\ toBroker'[c] = Tail(toBroker[c])
        /\ up'[c] = up[c] \/ (h.ctrl = "SEND" /\ up'[c] = Append(up[c], h.arg))
        /\ BrokerRuns(c) /\ ~exitSent[c] /\ connected'[c] = connected[c]
    BY <1>6, ZenonT(30) DEF Transmits, CallsIdle
  <2>1. Settled(c) /\ connected'[c]
    BY <2>0 DEF Lives
  <2>2. h.ctrl = "SEND" => h.arg \in Message
    BY Control
  <2>3. /\ NoneBehind(toBroker'[c], AskingOnPipe, EventsOnPipe)
        /\ h \in AskingOnPipe => LeftPipe(c)'
    BY <1>0, <2>0, <2>1, BehindTail, ZenonT(30) DEF Settled, LeftPipe
  <2>4. LeftPipe(c) => h \notin EventsOnPipe /\ LeftPipe(c)'
    BY <1>0, <2>0, QueueNone, ZenonT(30) DEF LeftPipe
  <2>5. Serves => Whole(c)'
    BY <1>0, <2>1 DEF EventsOf, Whole
  <2>6. CASE up'[c] = up[c]
    <3>1. (AskedUp(c)' <=> AskedUp(c)) /\ (LeftUp(c)' <=> LeftUp(c))
      BY <2>6 DEF AskedUp, LeftUp
    <3> QED  BY <1>0, <1>1, <1>2, <2>1, <2>3, <2>4, <2>5, <2>6, <3>1, ZenonT(30) DEF Settled
  <2>7. CASE h \in AskingOnPipe /\ up'[c] = Append(up[c], h.arg)
    <3>1. h.arg \in Message /\ h.arg \notin ToListeners
      BY <2>2, <2>7, ZenonT(30) DEF AskingOnPipe, Asking, ToListeners
    <3>2. NoneBehind(up'[c], Asking, ToListeners)
      BY <1>0, <2>1, <2>7, <3>1, BehindAppend, ZenonT(30) DEF Settled
    <3>3. LeftUp(c) => LeftUp(c)'
      BY <1>0, <2>7, <3>1, QueueAppend, ZenonT(30) DEF LeftUp
    <3> QED  BY <1>0, <1>1, <1>2, <2>1, <2>3, <2>5, <2>7, <3>2, <3>3, ZenonT(30) DEF Settled
  <2>8. CASE h \in EventsOnPipe /\ up'[c] = Append(up[c], h.arg)
    <3>1. h.arg \in Message /\ h.arg \notin Asking
      BY <2>8 DEF EventsOnPipe, Asking, ToListeners
    <3>2. ~AskedUp(c) /\ ~AskedDaemon(c) /\ ~Due(c)
      BY <2>1, <2>4, <2>8, ZenonT(30) DEF Settled
    <3>3. NoneIn(up[c], Asking)
      BY <3>2 DEF AskedUp
    <3>4. NoneBehind(up'[c], Asking, ToListeners)
      BY <1>0, <2>1, <2>8, <3>1, <3>3, BehindAppend, ZenonT(30) DEF Settled
    <3>5. ~AskedUp(c)'
      BY <1>0, <2>8, <3>1, <3>3, QueueAppend, ZenonT(30) DEF AskedUp
    <3> QED  BY <1>0, <1>1, <1>2, <2>1, <2>3, <3>2, <3>4, <3>5, ZenonT(30) DEF Settled
  <2>9. h.ctrl = "SEND" => h \in AskingOnPipe \/ h \in EventsOnPipe
    BY <2>2, AskOrEvent, ZenonT(30)
  <2> QED  BY <2>0, <2>6, <2>7, <2>8, <2>9, ZenonT(30)
<1> QED  BY <1>3, <1>4, <1>5, <1>6, SendViews, ZenonT(30)

\* The steps of the daemon.
LEMMA SettledServer ==
  ASSUME TypeOK, \A d \in Clients : Own(d), ServerNext, UNCHANGED clientVars,
         NEW c \in Clients, Settled(c)
  PROVE  Settled(c)'
<1>0. /\ toBroker[c] \in Seq(ToClientBroker) /\ up[c] \in Seq(Message) /\ ctlRecv \in Seq(FromControllerBroker)
      /\ toBroker'[c] = toBroker[c] /\ sent'[c] = sent[c]
  BY DEF TypeOK, ClientTypeOK, NetTypeOK, ServerTypeOK, clientVars
<1>1. (LeftPipe(c)' <=> LeftPipe(c)) /\ NoneBehind(toBroker'[c], AskingOnPipe, EventsOnPipe)
  BY <1>0, Zenon DEF LeftPipe, Settled
<1>2. Due(c)' => Due(c) \/ \E h \in AskingFrom(c) : Answers(h)
  BY DueServer
<1>3. Serves' /\ Whole(c) => Serves /\ Whole(c)'
  <2> SUFFICES ASSUME Serves', NEW z \in Nat, Chain(c, z), Unsent(c, z)
               PROVE  Serves /\ Whole(c)'
    BY DEF Whole
  <2>1. Chain(c, z)' /\ Serves
    BY ChainServer, ServesBefore
  <2>2. Unsent(c, z)'
    BY <1>0 DEF Unsent
  <2> QED  BY <2>1, <2>2 DEF Whole
<1>4. Serves' => Serves
  BY ServesBefore
<1>5. ASSUME up'[c] = up[c] \/ up'[c] = <<>>,
             ctlRecv' = ctlRecv \/ (ctlRecv # <<>> /\ ctlRecv' = Tail(ctlRecv))
      PROVE  /\ AskedUp(c)' => AskedUp(c)
             /\ AskedDaemon(c)' => AskedDaemon(c)
             /\ LeftUp(c) => LeftUp(c)'
             /\ LeftDaemon(c) => LeftDaemon(c)'
             /\ NoneBehind(up'[c], Asking, ToListeners)
             /\ NoneBehind(ctlRecv', AskingFrom(c), EventsFrom(c))
  <2>1. AskedUp(c)' => AskedUp(c)
    BY <1>5, QueueEmpty DEF AskedUp
  <2>0. ASSUME NEW S, NoneIn(ctlRecv, S) PROVE NoneIn(ctlRecv', S)
    <3>1. CASE ctlRecv' = ctlRecv
      BY <2>0, <3>1
    <3>2. CASE ctlRecv # <<>> /\ ctlRecv' = Tail(ctlRecv)
      BY <1>0, <2>0, <3>2, QueueNone, ZenonT(30)
    <3> QED  BY <1>5, <3>1, <3>2, ZenonT(30)
  <2>2. AskedDaemon(c)' => AskedDaemon(c)
    BY <2>0 DEF AskedDaemon, AskingFrom
  <2>3. LeftUp(c) => LeftUp(c)'
    BY <1>5, QueueEmpty, ZenonT(30) DEF LeftUp
  <2>4. LeftDaemon(c) => LeftDaemon(c)'
    BY <2>0 DEF LeftDaemon, EventsFrom
  <2>5. NoneBehind(up'[c], Asking, ToListeners)
    BY <1>5, SMTT(60) DEF Settled, NoneBehind
  <2>6. NoneBehind(ctlRecv', AskingFrom(c), EventsFrom(c))
    BY <1>0, <1>5, BehindTail, ZenonT(30) DEF Settled
  <2> QED  BY <2>1, <2>2, <2>3, <2>4, <2>5, <2>6, ZenonT(30)
<1>6. ASSUME up'[c] = up[c] \/ up'[c] = <<>>,
             ctlRecv' = ctlRecv \/ (ctlRecv # <<>> /\ ctlRecv' = Tail(ctlRecv)),
             Due(c)' => Due(c)
      PROVE  Settled(c)'
  BY <1>1, <1>3, <1>4, <1>5, <1>6, ZenonT(30) DEF Settled
<1>7. ASSUME NEW h \in AskingFrom(c), Answers(h) PROVE Settled(c)'
  <2>0. /\ ctlRecv # <<>> /\ h = Head(ctlRecv) /\ ctlRecv' = Tail(ctlRecv) /\ up' = up
    BY <1>7 DEF Answers, netVars
  <2>1. AskedDaemon(c)
    BY <1>0, <1>7, <2>0, QueueNone, ZenonT(30) DEF AskedDaemon
  <2>2. LeftDaemon(c)'
    BY <1>0, <1>7, <2>0, BehindTail, ZenonT(30) DEF Settled, LeftDaemon
  <2> QED  BY <1>1, <1>3, <1>4, <1>5, <2>0, <2>1, <2>2, ZenonT(30) DEF Settled
<1>8. ASSUME NEW e \in FromControllerBroker, e \notin AskingFrom(c), e.from # c,
             ctlRecv' = Append(ctlRecv, e), up'[c] = up[c], Due(c)' => Due(c)
      PROVE  Settled(c)'
  <2>1. e \notin EventsFrom(c)
    BY <1>8 DEF EventsFrom
  <2>2. AskedDaemon(c)' => AskedDaemon(c)
    BY <1>0, <1>8, QueueAppend, Zenon DEF AskedDaemon
  <2>3. LeftDaemon(c) => LeftDaemon(c)'
    BY <1>0, <1>8, <2>1, QueueAppend, ZenonT(30) DEF LeftDaemon
  <2>4. NoneBehind(ctlRecv', AskingFrom(c), EventsFrom(c))
    BY <1>0, <1>8, <2>1, BehindAppend, ZenonT(30) DEF Settled
  <2>5. (AskedUp(c)' <=> AskedUp(c)) /\ (LeftUp(c)' <=> LeftUp(c))
    BY <1>8 DEF AskedUp, LeftUp
  <2>6. NoneBehind(up'[c], Asking, ToListeners)
    BY <1>8, Zenon DEF Settled
  <2> QED  BY <1>1, <1>3, <1>4, <1>8, <2>2, <2>3, <2>4, <2>5, <2>6, ZenonT(30) DEF Settled
<1>9. ASSUME nrm_controller_broker_rpc_handler(c), Due(c)' => Due(c) PROVE Settled(c)'
  <2> DEFINE m == Head(up[c])
             e == [from |-> c, msg |-> m]
  <2>0. /\ up[c] # <<>> /\ up'[c] = Tail(up[c]) /\ ctlRecv' = Append(ctlRecv, e)
        /\ m \in Message /\ e \in FromControllerBroker
    BY <1>9, Passed, ZenonT(30)
  <2>1. /\ e \in AskingFrom(c) <=> m \in Asking
        /\ e \in EventsFrom(c) <=> m \in ToListeners
        /\ m \in Asking <=> m \notin ToListeners
    BY <2>0, AskOrEvent, SMTT(60)
  <2> HIDE DEF e
  <2>2. NoneBehind(up'[c], Asking, ToListeners) /\ (m \in Asking => LeftUp(c)')
    BY <1>0, <2>0, BehindTail, ZenonT(30) DEF Settled, LeftUp
  <2>3. (AskedUp(c)' \/ m \in Asking => AskedUp(c)) /\ (LeftUp(c) => m \notin ToListeners /\ LeftUp(c)')
    BY <1>0, <2>0, QueueNone, ZenonT(30) DEF AskedUp, LeftUp
  <2>4. m \notin Asking => (AskedDaemon(c)' => AskedDaemon(c))
    BY <1>0, <2>0, <2>1, QueueAppend, Zenon DEF AskedDaemon
  <2>5. m \notin ToListeners => (LeftDaemon(c) => LeftDaemon(c)')
    BY <1>0, <2>0, <2>1, QueueAppend, ZenonT(30) DEF LeftDaemon
  <2>6. m \notin ToListeners \/ ~AskedDaemon(c) => NoneBehind(ctlRecv', AskingFrom(c), EventsFrom(c))
    BY <1>0, <2>0, <2>1, BehindAppend, Zenon DEF Settled, AskedDaemon
  <2> HIDE DEF m
  <2>7. CASE m \in Asking
    BY <1>1, <1>3, <1>4, <1>9, <2>1, <2>2, <2>3, <2>5, <2>6, <2>7, ZenonT(30) DEF Settled
  <2>8. CASE m \in ToListeners
    BY <1>1, <1>3, <1>4, <1>9, <2>1, <2>2, <2>3, <2>4, <2>6, <2>8, ZenonT(30) DEF Settled
  <2> QED  BY <2>1, <2>7, <2>8, ZenonT(30)
<1>10. CASE \E h \in AskingFrom(c) : Answers(h)
  BY <1>7, <1>10
<1>11. CASE Due(c)' => Due(c)
  BY <1>6, <1>7, <1>8, <1>9, <1>11, AskViews, ZenonT(30) DEF AskStep
<1> QED  BY <1>2, <1>10, <1>11, ZenonT(30)

\* One step of the system.
LEMMA SettledStep ==
  ASSUME TypeOK, Lives, OneOutstanding, EventInv, EventInv', SettledInv, [Next]_vars
  PROVE  SettledInv'
<1> SUFFICES ASSUME NEW c \in Clients, Unshared(c), ~exitSent'[c]
             PROVE  Settled(c)'
  BY DEF SettledInv, Unshared
<1>1. exitSent[c] \/ Settled(c)
  BY DEF SettledInv
<1>2. EventsOf(c)' /\ \A d \in Clients : Own(d)
  BY DEF EventInv
<1>3. CASE ClientNext /\ UNCHANGED serverVars
  BY <1>1, <1>2, <1>3, SettledClient, ZenonT(30)
<1>4. CASE ServerNext /\ UNCHANGED clientVars
  BY <1>1, <1>2, <1>4, SettledServer, ZenonT(30) DEF clientVars
<1>5. CASE UNCHANGED <<clientVars, serverVars, up, down, connected>>
  <2>1. /\ UNCHANGED <<toBroker, fromBroker, sent, exitSent, up, down>>
        /\ UNCHANGED <<daemon, loop, ctlRecv, ctlSend, events>>
    BY <1>5 DEF clientVars, serverVars
  <2>2. Settled(c)
    BY <1>1, <2>1, ZenonT(30)
  <2> QED  BY <2>1, <2>2, ZenonT(30) DEF Settled, AskedUp, AskedDaemon, Due, LeftPipe, LeftUp, LeftDaemon,
             Whole, Chain, Recorded, Underway, Unsent, Serves, NoReply, Ticking
<1> QED  BY <1>3, <1>4, <1>5, ZenonT(30) DEF Next, vars, SubscriptionArrives, netVars

\* The property of NrmSystem.
LEMMA SettledHold ==
  ASSUME TypeOK, SettledInv
  PROVE  ReplyAfterEvents
<1> SUFFICES ASSUME NEW c \in Clients, Unshared(c), ~exitSent[c], Serves, NEW m \in RepliesTo(c)
             PROVE  NumbersOf(events, c, Len(events)) = 1 .. sent[c]
  BY ZenonT(30) DEF ReplyAfterEvents, Serves
<1>0. /\ toBroker[c] \in Seq(ToClientBroker) /\ up[c] \in Seq(Message) /\ sent[c] \in Nat
      /\ ctlRecv \in Seq(FromControllerBroker) /\ events \in Seq(Event)
  BY DEF TypeOK, ClientTypeOK, NetTypeOK, ServerTypeOK
<1>1. m \in Message
  BY ReplyTypes
<1>2. Due(c)
  BY <1>1, NoReplies DEF Due
<1>3. LeftPipe(c) /\ LeftUp(c) /\ LeftDaemon(c) /\ Whole(c)
  BY <1>2, ZenonT(30) DEF SettledInv, Settled
<1>4. PICK x \in Nat, y \in Nat, z \in Nat :
        /\ Numbered(events, EventFrom(c), 0, x) /\ Numbered(ctlRecv, GotFrom(c), x, y)
        /\ Numbered(up[c], MsgFrom(c), y, z) /\ Numbered(toBroker[c], SentFrom(c), z, sent[c])
  BY <1>3 DEF Whole, Chain, Recorded, Underway, Unsent
<1>5. ASSUME NEW k \in Nat
      PROVE  /\ SentFrom(c)[k] \in EventsOnPipe /\ MsgFrom(c)[k] \in ToListeners
             /\ GotFrom(c)[k] \in EventsFrom(c)
  <2>1. c \in Sources
    BY DEF Sources
  <2>2. /\ SentFrom(c)[k] \in ToClientBroker /\ MsgFrom(c)[k] \in ToListeners
        /\ GotFrom(c)[k] \in FromControllerBroker
    BY <2>1, EventCounts, ZenonT(30) DEF Counts
  <2>3. /\ SentFrom(c)[k].ctrl = "SEND" /\ SentFrom(c)[k].arg = MsgFrom(c)[k]
        /\ GotFrom(c)[k].from = c /\ GotFrom(c)[k].msg = MsgFrom(c)[k]
    BY DEF SentFrom, GotFrom
  <2> QED  BY <2>2, <2>3, ZenonT(30) DEF EventsOnPipe, EventsFrom
<1>6. x = y
  <2>1. \A i \in 1 .. Len(ctlRecv), k \in Nat : ctlRecv[i] # GotFrom(c)[k]
    BY <1>3, <1>5, ZenonT(30) DEF LeftDaemon, NoneIn
  <2> QED  BY <1>0, <1>4, <2>1, NumberedGone, ZenonT(30)
<1>7. y = z
  <2>1. \A i \in 1 .. Len(up[c]), k \in Nat : up[c][i] # MsgFrom(c)[k]
    BY <1>3, <1>5, ZenonT(30) DEF LeftUp, NoneIn
  <2> QED  BY <1>0, <1>4, <2>1, NumberedGone, ZenonT(30)
<1>8. z = sent[c]
  <2>1. \A i \in 1 .. Len(toBroker[c]), k \in Nat : toBroker[c][i] # SentFrom(c)[k]
    BY <1>3, <1>5, ZenonT(30) DEF LeftPipe, NoneIn
  <2> QED  BY <1>0, <1>4, <2>1, NumberedGone, ZenonT(30)
<1>9. Numbered(events, EventFrom(c), 0, sent[c]) /\ c \in Sources
  BY <1>4, <1>6, <1>7, <1>8, ZenonT(30) DEF Sources
<1> QED  BY <1>0, <1>9, NumbersIn, ZenonT(30)

\* Before the first step nothing is asked or answered.
LEMMA SettledInit ==
  ASSUME Init PROVE SettledInv
<1> SUFFICES ASSUME NEW c \in Clients PROVE Settled(c)
  BY DEF SettledInv
<1>1. /\ toBroker[c] = <<>> /\ fromBroker[c] = <<>> /\ up[c] = <<>> /\ down[c] = <<>>
      /\ ctlRecv = <<>> /\ ctlSend = <<>> /\ loop = NULL
  BY DEF Init, ClientInit, ServerInit, NetInit
<1>2. ~AskedUp(c) /\ ~AskedDaemon(c) /\ ~Due(c)
  BY <1>1, QueueEmpty, ZenonT(30) DEF AskedUp, AskedDaemon, Due, Ticking, NoReply
<1>3. \A A, E : NoneBehind(<<>>, A, E)
  BY SMTT(60) DEF NoneBehind
<1> QED  BY <1>1, <1>2, <1>3, ZenonT(30) DEF Settled

-----------------------------------------------------------------------------
(* Theorems *)

\* A client used by one thread has at most one request under way until it asks
\* the daemon to exit, whatever the number of clients, threads, objects and
\* values, and whatever the other clients, the control loop and the timer do.
THEOREM AtMostOneRequest == Spec => []OneOutstanding
<1>1. TypeOK /\ OneOutstanding /\ [Next]_vars => OneOutstanding'
  BY NextOut
<1> QED  BY <1>1, InitOut, TypeCorrect, PTL DEF Spec

\* So the assertions of src/client.c on replies never fail for such a client:
\* commands of the daemon, answers to others and events cannot be mistaken for
\* the reply, and no reply is of another type or target than the request.
THEOREM NoAssertFails == Spec => []AssertsHoldUnshared
<1>1. TypeOK /\ OneOutstanding /\ AssertsHoldUnshared /\ [Next]_vars => AssertsHoldUnshared'
  BY NextAsserts
<1> QED  BY <1>1, AtMostOneRequest, InitOut, TypeCorrect, PTL DEF Spec

\* Used by one thread, a client that asked the daemon to exit gets no answer
\* about the registry any more: the exit is the first request the daemon takes.
THEOREM ExitTakenFirst == Spec => []ExitInv
<1>1. Init => ExitInv
  BY ToldInit
<1>2. TypeOK /\ Lives /\ OneOutstanding /\ ExitInv /\ [Next]_vars => ExitInv'
  BY ExitStep
<1> QED  BY <1>1, <1>2, AtMostOneRequest, SocketsOpen, TypeCorrect, PTL DEF Spec

\* nrm_server_list_callback answers with everything the client has added.
THEOREM ListsComplete == Spec => []ListSeesAdds
<1>1. Init => ListInv
  BY ToldInit, ZenonT(30)
<1>2. TypeOK /\ OneOutstanding /\ ExitInv /\ ListInv /\ [Next]_vars => ListInv'
  BY ListStep, ZenonT(30)
<1>3. TypeOK /\ ListInv => ListSeesAdds
  BY ListHold
<1> QED  BY <1>1, <1>2, <1>3, ExitTakenFirst, AtMostOneRequest, TypeCorrect, PTL DEF Spec

\* When a reply is on its way to a client, the events the client sent before the
\* request are all recorded, although nrm_client_send_event waits for nothing.
THEOREM RepliesFollowEvents == Spec => []ReplyAfterEvents
<1>1. Init => SettledInv
  BY SettledInit
<1>2. TypeOK /\ Lives /\ OneOutstanding /\ EventInv /\ EventInv' /\ SettledInv /\ [Next]_vars
      => SettledInv'
  BY SettledStep
<1>3. TypeOK /\ SettledInv => ReplyAfterEvents
  BY SettledHold
<1> QED
  BY <1>1, <1>2, <1>3, EventsOnTheirWay, AtMostOneRequest, SocketsOpen, TypeCorrect, PTL DEF Spec
=============================================================================
