-------------------------- MODULE NrmCommandProofs --------------------------
(***************************************************************************)
(* The daemon's commands carry values their owners take, the newest of     *)
(* which is the daemon's own: the steps of the inductive invariant.        *)
(***************************************************************************)
EXTENDS NrmSystemProofs

\* Time for the provers in a large context.
USE ZenonT(8), SMTT(60)

Commands(u) == {m \in Message : m.type = "ACTUATE" /\ m.arg[1] = u}

CommandsOnPipe(u) == {h \in ToControllerBroker : h.ctrl = "SEND" /\ h.msg \in Commands(u)}

\* An owner takes value v, if there is any it takes.
Takeable(a, v) == Correctable(a) => nrm_actuator_validate_value(a, v)

\* No client was ever commanded to set actuator u.
Unheard(u) ==
  /\ NoneIn(ctlSend, CommandsOnPipe(u))
  /\ \A c \in Clients : NoneIn(down[c], Commands(u)) /\ applied[c][u] = NULL

\* The commands that must not be there: to another client, or with a value the
\* owner's object refuses.
Wrong(u) == {m \in Commands(u) : ~Takeable(actuators[u].obj, m.arg[2])}

WrongOnPipe(u) ==
  {h \in CommandsOnPipe(u) : h.to # actuators[u].owner \/ h.msg \in Wrong(u)}

Proper(u, c) ==
  /\ actuators[u].obj.uuid = u
  /\ NoneIn(ctlSend, WrongOnPipe(u))
  /\ NoneIn(down[c], Wrong(u))
  /\ applied[c][u] # NULL => Takeable(actuators[u].obj, applied[c][u])

\* What client c made of the last command for u it was given.
Heeded(u, c) ==
  \/ u \in missed[c]
  \/ applied[c][u] = actuators[u].value
  \/ applied[c][u] = NULL /\ actuators[u].value = actuators[u].obj.value

\* The newest command for actuator u, wherever it is, carries its value.
Newest(u) == nrm_msg_set_actuate(u, actuators[u].value)

Reached(u, c) ==
  \/ LastIn(down[c], Commands(u), {Newest(u)})
  \/ NoneIn(down[c], Commands(u)) /\ Heeded(u, c)

Agrees(u, c) ==
  \/ LastIn(ctlSend, CommandsOnPipe(u), {Send(c, Newest(u))})
  \/ NoneIn(ctlSend, CommandsOnPipe(u)) /\ Reached(u, c)

\* The commands for actuator u: none before it is registered, and from then on
\* what its owner is told agrees with what the daemon holds.
CommandsOf(u) ==
  /\ actuators[u] = NULL /\ daemon = "running" => Unheard(u)
  /\ actuators[u] # NULL =>
       /\ Proper(u, actuators[u].owner)
       /\ daemon # "crashed" /\ status[actuators[u].owner] = "open" => Agrees(u, actuators[u].owner)
  /\ daemon \in {"closing", "stopped"} => actuators[u] = NULL

CommandInv == \A u \in Uuids : CommandsOf(u)

\* No command is there before the first step.
LEMMA CommandsInit ==
  ASSUME Init PROVE CommandInv
<1> SUFFICES ASSUME NEW u \in Uuids PROVE CommandsOf(u)
  BY DEF CommandInv
<1>1. NoneIn(<<>>, CommandsOnPipe(u)) /\ NoneIn(<<>>, Commands(u))
  BY QueueEmpty
<1>2. Unheard(u)
  BY <1>1 DEF Init, ClientInit, NetInit, ServerInit, Unheard
<1> QED  BY <1>2 DEF Init, ServerInit, CommandsOf

\* What a step of client c does to the commands it has been sent.
LEMMA CommandViews ==
  ASSUME TypeOK, NEW c \in Clients, ClientNext
  PROVE  \/ UNCHANGED <<down[c], applied[c], missed[c]>> /\ (status'[c] = "open" => status[c] = "open")
         \/ UNCHANGED applied[c] /\ down'[c] = <<>> /\ status'[c] # "open"
         \/ \E m \in ToClient : Receives(c, m)
<1>1. CASE Idle(c) \/ Waits(c) \/ Gone(c) \/ \E m \in ToListeners : Hears(c, m)
  BY <1>1, Zenon DEF Idle, Waits, Gone, Hears, NetIdle, KeptIdle
<1>2. CASE \E t \in Threads : (\E h \in ToClientBroker : Pushes(t, c, h)) \/ \E m \in ToClient : Takes(t, c, m)
  BY <1>2, Zenon DEF Pushes, Takes, NetIdle, KeptIdle
<1>3. CASE \E h \in ToClientBroker : Transmits(c, h)
  BY <1>3, Zenon DEF Transmits, KeptIdle
<1> QED  BY <1>1, <1>2, <1>3, ClientViews, Zenon DEF ClientStep

\* Client c takes message m off its connection.
LEMMA ReceiveViews ==
  ASSUME TypeOK, NEW c \in Clients, NEW m \in ToClient, Receives(c, m), NEW u \in Uuids
  PROVE  /\ down[c] \in Seq(ToClient) /\ down[c] # <<>> /\ m = Head(down[c])
         /\ down'[c] = Tail(down[c]) /\ status'[c] = status[c]
         /\ IF m \in Commands(u)
            THEN \/ u \in missed'[c] /\ applied'[c][u] = applied[c][u]
                 \/ applied'[c][u] = m.arg[2]
            ELSE applied'[c][u] = applied[c][u] /\ (u \in missed[c] => u \in missed'[c])
<1>1. /\ down[c] \in Seq(ToClient) /\ m \in Message
      /\ applied[c] \in [Uuids -> Int \cup {NULL}] /\ missed[c] \in SUBSET Uuids
  BY DEF TypeOK, NetTypeOK, ClientTypeOK, ToClient
<1>2. m.type = "ACTUATE" => m.arg[1] \in Uuids
  BY <1>1, Arguments
<1>3. nrm_msg_is_reply(m) => m \notin Commands(u)
  BY DEF nrm_msg_is_reply, Commands
<1>4. ~nrm_msg_is_reply(m) => m.type = "ACTUATE"
  BY DEF nrm_msg_is_reply, ToClient
<1>5. m.type = "ACTUATE" => (m \in Commands(u) <=> m.arg[1] = u)
  BY <1>1 DEF Commands
<1> QED  BY <1>1, <1>2, <1>3, <1>4, <1>5, ZenonT(30) DEF Receives

\* A step of a client, for an actuator that is not registered.
LEMMA UnheardClient ==
  ASSUME TypeOK, NEW u \in Uuids, Unheard(u), ClientNext, UNCHANGED serverVars
  PROVE  Unheard(u)'
<1> SUFFICES ASSUME NEW c \in Clients
             PROVE  NoneIn(down'[c], Commands(u)) /\ applied'[c][u] = NULL
  BY DEF Unheard, serverVars
<1>1. NoneIn(down[c], Commands(u)) /\ applied[c][u] = NULL
  BY DEF Unheard
<1>2. ASSUME NEW m \in ToClient, Receives(c, m)
      PROVE  NoneIn(down'[c], Commands(u)) /\ applied'[c][u] = NULL
  <2>1. /\ down[c] \in Seq(ToClient) /\ down[c] # <<>> /\ m = Head(down[c])
        /\ down'[c] = Tail(down[c])
        /\ m \notin Commands(u) => applied'[c][u] = applied[c][u]
    BY <1>2, ReceiveViews, ZenonT(30)
  <2>2. m \notin Commands(u) /\ NoneIn(down'[c], Commands(u))
    BY <1>1, <2>1, QueueNone
  <2> QED  BY <1>1, <2>1, <2>2
<1>3. NoneIn(<<>>, Commands(u))
  BY QueueEmpty
<1> QED  BY <1>1, <1>2, <1>3, CommandViews

\* A step of a client, for a registered actuator and its owner c.
LEMMA ProperClient ==
  ASSUME TypeOK, NEW u \in Uuids, NEW c \in Clients, Proper(u, c), ClientNext, UNCHANGED serverVars
  PROVE  Proper(u, c)'
<1>1. UNCHANGED <<actuators, ctlSend>> /\ Wrong(u)' = Wrong(u) /\ WrongOnPipe(u)' = WrongOnPipe(u)
  BY DEF serverVars, Wrong, WrongOnPipe
<1>2. NoneIn(down[c], Wrong(u)) /\ (applied[c][u] # NULL => Takeable(actuators[u].obj, applied[c][u]))
  BY DEF Proper
<1>3. ASSUME NEW m \in ToClient, Receives(c, m)
      PROVE  /\ NoneIn(down'[c], Wrong(u))
             /\ applied'[c][u] # NULL => Takeable(actuators[u].obj, applied'[c][u])
  <2>1. /\ down[c] \in Seq(ToClient) /\ down[c] # <<>> /\ m = Head(down[c])
        /\ down'[c] = Tail(down[c])
        /\ \/ applied'[c][u] = applied[c][u]
           \/ m \in Commands(u) /\ applied'[c][u] = m.arg[2]
    BY <1>3, ReceiveViews, ZenonT(30)
  <2>2. m \notin Wrong(u) /\ NoneIn(down'[c], Wrong(u))
    BY <1>2, <2>1, QueueNone
  <2>3. m \in Commands(u) => Takeable(actuators[u].obj, m.arg[2])
    BY <2>2 DEF Wrong
  <2> QED  BY <1>2, <2>1, <2>2, <2>3, ZenonT(30)
<1>4. NoneIn(<<>>, Wrong(u))
  BY QueueEmpty
<1>5. /\ NoneIn(down'[c], Wrong(u))
      /\ applied'[c][u] # NULL => Takeable(actuators[u].obj, applied'[c][u])
  BY <1>2, <1>3, <1>4, CommandViews
<1> QED  BY <1>1, <1>5 DEF Proper

\* The same, for what that client is told.
LEMMA AgreesClient ==
  ASSUME TypeOK, NEW u \in Uuids, NEW c \in Clients, Agrees(u, c), ClientNext, UNCHANGED serverVars,
         status'[c] = "open"
  PROVE  Agrees(u, c)'
<1> DEFINE n == Newest(u)
           C == Commands(u)
<1>1. UNCHANGED <<actuators, ctlSend>> /\ Newest(u)' = n
  BY DEF serverVars, Newest
<1>2. n.arg[2] = actuators[u].value
  BY DEF Newest, nrm_msg_set_actuate
<1> HIDE DEF n, C
<1>3. ASSUME Reached(u, c) PROVE Reached(u, c)'
  <2>1. ASSUME NEW m \in ToClient, Receives(c, m)
        PROVE  Reached(u, c)'
    <3>1. /\ down[c] \in Seq(ToClient) /\ down[c] # <<>> /\ m = Head(down[c])
          /\ down'[c] = Tail(down[c])
          /\ IF m \in C
             THEN u \in missed'[c] \/ applied'[c][u] = m.arg[2]
             ELSE applied'[c][u] = applied[c][u] /\ (u \in missed[c] => u \in missed'[c])
      BY <2>1, ReceiveViews DEF C
    <3>2. CASE LastIn(down[c], C, {n})
      <4>1. LastIn(down'[c], C, {n}) \/ (m = n /\ NoneIn(down'[c], C))
        BY <3>1, <3>2, LastTail
      <4>2. m = n => m \in C
        BY DEF n, C, Newest, Commands, nrm_msg_set_actuate, ToClient
      <4> QED  BY <1>1, <1>2, <3>1, <4>1, <4>2 DEF Reached, Heeded, C
    <3>3. CASE NoneIn(down[c], C) /\ Heeded(u, c)
      <4>1. m \notin C /\ NoneIn(down'[c], C)
        BY <3>1, <3>3, QueueNone
      <4> QED  BY <1>1, <3>1, <3>3, <4>1 DEF Reached, Heeded, C
    <3> QED  BY <1>3, <3>2, <3>3 DEF Reached, C, n
  <2>2. CASE UNCHANGED <<down[c], applied[c], missed[c]>>
    BY <1>1, <1>3, <2>2 DEF Reached, Heeded, n
  <2> QED  BY <2>1, <2>2, CommandViews
<1> QED  BY <1>1, <1>3 DEF Agrees, n

\* A step of a client keeps commands and values together.
LEMMA CommandsClient ==
  ASSUME TypeOK, NEW u \in Uuids, CommandsOf(u), ClientNext, UNCHANGED serverVars
  PROVE  CommandsOf(u)'
<1>1. UNCHANGED <<actuators, daemon>>
  BY DEF serverVars
<1>2. actuators[u] = NULL /\ daemon = "running" => Unheard(u)'
  BY UnheardClient DEF CommandsOf
<1>3. ASSUME NEW c \in Clients, actuators[u] # NULL, c = actuators[u].owner
      PROVE  /\ Proper(u, c)'
             /\ daemon # "crashed" /\ status'[c] = "open" => Agrees(u, c)'
  <2>1. Proper(u, c) /\ (daemon # "crashed" /\ status[c] = "open" => Agrees(u, c))
    BY <1>3 DEF CommandsOf
  <2>2. status'[c] = "open" => status[c] = "open"
    BY CommandViews, Zenon DEF Receives
  <2> QED  BY <2>1, <2>2, ProperClient, AgreesClient
<1>4. actuators[u] # NULL => actuators[u].owner \in Clients
  BY DEF TypeOK, ServerTypeOK, Registered
<1>5. CASE actuators[u] # NULL
  <2> DEFINE c == actuators[u].owner
  <2>1. c' = c /\ c \in Clients
    BY <1>1, <1>4, <1>5
  <2> QED  BY <1>1, <1>3, <1>5, <2>1, ZenonT(30) DEF CommandsOf
<1>6. CASE actuators[u] = NULL
  BY <1>1, <1>2, <1>6 DEF CommandsOf
<1> QED  BY <1>5, <1>6

\* Queue q becomes r without a change among the elements of K.
Spares(K, q, r) ==
  /\ \A S \in SUBSET K : NoneIn(q, S) => NoneIn(r, S)
  /\ \A M \in SUBSET K : LastIn(q, K, M) => LastIn(r, K, M)

\* An element of another kind joins or leaves.
LEMMA SparesRules ==
  ASSUME NEW T, NEW q \in Seq(T), NEW K
  PROVE  /\ Spares(K, q, q)
         /\ \A e \in T : e \notin K => Spares(K, q, Append(q, e))
         /\ q # <<>> /\ Head(q) \notin K => Spares(K, q, Tail(q))
<1>1. ASSUME NEW e \in T, e \notin K PROVE Spares(K, q, Append(q, e))
  <2>1. ASSUME NEW S \in SUBSET K, NoneIn(q, S) PROVE NoneIn(Append(q, e), S)
    BY <1>1, <2>1, QueueAppend
  <2>2. ASSUME NEW M \in SUBSET K, LastIn(q, K, M) PROVE LastIn(Append(q, e), K, M)
    BY <1>1, <2>2, LastAppend
  <2> QED  BY <2>1, <2>2 DEF Spares
<1>2. ASSUME q # <<>>, Head(q) \notin K PROVE Spares(K, q, Tail(q))
  <2>1. ASSUME NEW S \in SUBSET K, NoneIn(q, S) PROVE NoneIn(Tail(q), S)
    BY <1>2, <2>1, QueueNone
  <2>2. ASSUME NEW M \in SUBSET K, LastIn(q, K, M) PROVE LastIn(Tail(q), K, M)
    BY <1>2, <2>2, LastTail
  <2> QED  BY <2>1, <2>2 DEF Spares
<1> QED  BY <1>1, <1>2 DEF Spares

\* The newest command is a command.
LEMMA NewestTypes ==
  ASSUME TypeOK, NEW u \in Uuids, actuators[u] # NULL
  PROVE  /\ actuators[u] \in Registered /\ actuators[u].owner \in Clients
         /\ Newest(u) \in Commands(u) \cap ToClient
         /\ Send(actuators[u].owner, Newest(u)) \in CommandsOnPipe(u)
<1>1. /\ actuators[u] \in Registered /\ actuators[u].owner \in Clients
      /\ actuators[u].value \in Int
  BY DEF TypeOK, ServerTypeOK, Registered
<1>2. Newest(u) \in ToClient
  BY <1>1, Outgoing DEF Newest
<1>3. Newest(u) \in Commands(u)
  BY <1>2 DEF Newest, Commands, nrm_msg_set_actuate, ToClient
<1>4. Send(actuators[u].owner, Newest(u)) \in ToControllerBroker
  BY <1>1, <1>2, Control
<1> QED  BY <1>1, <1>2, <1>3, <1>4 DEF CommandsOnPipe, Send

\* A step of the daemon that touches neither actuator u nor a command for it.
LEMMA CommandsSpared ==
  ASSUME TypeOK, NEW u \in Uuids, CommandsOf(u), UNCHANGED clientVars,
         actuators'[u] = actuators[u],
         daemon' = daemon \/ (daemon = "running" /\ daemon' = "exiting"),
         Spares(CommandsOnPipe(u), ctlSend, ctlSend'),
         \A c \in Clients : Spares(Commands(u), down[c], down'[c])
  PROVE  CommandsOf(u)'
<1>1. UNCHANGED <<status, applied, missed>>
  BY DEF clientVars
<1>2. CASE actuators[u] = NULL
  <2>1. NoneIn(ctlSend, CommandsOnPipe(u)) => NoneIn(ctlSend', CommandsOnPipe(u))
    BY DEF Spares
  <2>2. \A c \in Clients : NoneIn(down[c], Commands(u)) => NoneIn(down'[c], Commands(u))
    BY DEF Spares
  <2> QED  BY <1>1, <1>2, <2>1, <2>2 DEF CommandsOf, Unheard
<1>3. CASE actuators[u] # NULL
  <2>0. /\ actuators[u].owner \in Clients /\ Newest(u) \in Commands(u)
        /\ Send(actuators[u].owner, Newest(u)) \in CommandsOnPipe(u)
    BY <1>3, NewestTypes
  <2>1. Wrong(u)' = Wrong(u) /\ WrongOnPipe(u)' = WrongOnPipe(u) /\ Newest(u)' = Newest(u)
    BY DEF Wrong, WrongOnPipe, Newest
  <2>2. Wrong(u) \in SUBSET Commands(u) /\ WrongOnPipe(u) \in SUBSET CommandsOnPipe(u)
    BY DEF Wrong, WrongOnPipe
  <2>3. ASSUME NEW c \in Clients, Proper(u, c)
        PROVE  Proper(u, c)'
    <3>1. NoneIn(ctlSend', WrongOnPipe(u)) /\ NoneIn(down'[c], Wrong(u))
      BY <2>2, <2>3 DEF Spares, Proper
    <3> QED  BY <1>1, <2>1, <2>3, <3>1 DEF Proper
  <2>4. ASSUME NEW c \in Clients, c = actuators[u].owner, Agrees(u, c)
        PROVE  Agrees(u, c)'
    <3>1. {Send(c, Newest(u))} \in SUBSET CommandsOnPipe(u) /\ {Newest(u)} \in SUBSET Commands(u)
      BY <2>0, <2>4
    <3>2. /\ LastIn(ctlSend, CommandsOnPipe(u), {Send(c, Newest(u))})
               => LastIn(ctlSend', CommandsOnPipe(u), {Send(c, Newest(u))})
          /\ NoneIn(ctlSend, CommandsOnPipe(u)) => NoneIn(ctlSend', CommandsOnPipe(u))
          /\ LastIn(down[c], Commands(u), {Newest(u)}) => LastIn(down'[c], Commands(u), {Newest(u)})
          /\ NoneIn(down[c], Commands(u)) => NoneIn(down'[c], Commands(u))
      BY <3>1 DEF Spares
    <3>3. Heeded(u, c) => Heeded(u, c)'
      BY <1>1 DEF Heeded
    <3> QED  BY <2>1, <2>4, <3>2, <3>3, Zenon DEF Agrees, Reached
  <2> DEFINE c == actuators[u].owner
  <2>5. c' = c
    OBVIOUS
  <2> QED  BY <1>1, <1>3, <2>0, <2>3, <2>4, <2>5, ZenonT(30) DEF CommandsOf
<1> QED  BY <1>2, <1>3

\* The daemon sets the value of actuator u and commands its owner.
LEMMA CommandsSet ==
  ASSUME TypeOK, NEW u \in Uuids, CommandsOf(u), UNCHANGED clientVars, daemon' = daemon,
         down' = down, actuators[u] # NULL, NEW v \in Int, SetValue(u, v),
         Spares(CommandsOnPipe(u), Append(ctlSend, Command(u, v)), ctlSend')
  PROVE  CommandsOf(u)'
<1> DEFINE w == nrm_actuator_corrected_value(actuators[u].obj, v)
           m == nrm_msg_set_actuate(u, w)
           K == CommandsOnPipe(u)
<1>0. ServerTypeOK /\ ctlSend \in Seq(ToControllerBroker)
  BY DEF TypeOK, ServerTypeOK
<1>1. actuators[u] \in Registered /\ actuators[u].owner \in Clients /\ actuators[u].obj \in Actuator
  BY <1>0 DEF ServerTypeOK, Registered
<1>2. w \in Int /\ Takeable(actuators[u].obj, w)
  BY <1>1, CorrectedType, CorrectedValid DEF Takeable
<1>3. actuators' = [actuators EXCEPT ![u].value = w]
  BY DEF SetValue
<1>4. Command(u, v) = Send(actuators[u].owner, m)
  BY DEF Command
<1>5. m \in ToClient
  BY <1>2, Outgoing
<1>6. m \in Commands(u) /\ m.arg[2] = w
  BY <1>5 DEF Commands, nrm_msg_set_actuate, ToClient
<1> HIDE DEF w, m, K
<1>7. /\ actuators'[u].obj = actuators[u].obj /\ actuators'[u].owner = actuators[u].owner
      /\ actuators'[u].value = w /\ actuators'[u] # NULL
  <2>1. actuators'[u] = [actuators[u] EXCEPT !.value = w]
    BY <1>0, <1>3 DEF ServerTypeOK
  <2>2. actuators'[u] \in Registered
    BY <1>1, <1>2, <2>1 DEF Registered
  <2> QED  BY <1>1, <2>1, <2>2, ServerAssumption DEF Registered
<1>8. /\ Wrong(u)' = Wrong(u) /\ WrongOnPipe(u)' = WrongOnPipe(u)
      /\ Newest(u)' = m
  BY <1>7 DEF Wrong, WrongOnPipe, Newest, m
<1>9. Command(u, v) \in ToControllerBroker /\ Command(u, v) \in K
  BY <1>1, <1>4, <1>5, <1>6, Control, SMTT(60) DEF K, CommandsOnPipe, Send
<1>10. Command(u, v) \notin WrongOnPipe(u)
  <2>1. m \notin Wrong(u)
    BY <1>2, <1>6 DEF Wrong
  <2> QED  BY <1>4, <2>1 DEF WrongOnPipe, Send
<1>11. NoneIn(ctlSend', WrongOnPipe(u))
  <2>1. NoneIn(ctlSend, WrongOnPipe(u))
    BY DEF CommandsOf, Proper
  <2>2. NoneIn(Append(ctlSend, Command(u, v)), WrongOnPipe(u))
    BY <1>0, <1>9, <1>10, <2>1, QueueAppend
  <2>3. WrongOnPipe(u) \in SUBSET K
    BY DEF WrongOnPipe, K
  <2> QED  BY <2>2, <2>3 DEF Spares, K
<1>12. LastIn(ctlSend', K, {Command(u, v)})
  <2>1. LastIn(Append(ctlSend, Command(u, v)), K, {Command(u, v)})
    BY <1>0, <1>9, LastAppend, ZenonT(30)
  <2>2. {Command(u, v)} \in SUBSET K
    BY <1>9
  <2> QED  BY <2>1, <2>2 DEF Spares, K
<1>13. UNCHANGED <<status, applied, missed>>
  BY DEF clientVars
<1>14. ASSUME NEW c \in Clients, c = actuators[u].owner
       PROVE  Proper(u, c)' /\ Agrees(u, c)'
  <2>1. Proper(u, c)
    BY <1>14 DEF CommandsOf
  <2>2. Proper(u, c)'
    BY <1>7, <1>8, <1>11, <1>13, <2>1, ZenonT(30) DEF Proper
  <2>3. Agrees(u, c)'
    BY <1>4, <1>8, <1>12, <1>14, ZenonT(30) DEF Agrees, K
  <2> QED  BY <2>2, <2>3
<1>15. daemon \notin {"closing", "stopped"}
  BY DEF CommandsOf
<1> DEFINE c == actuators[u].owner
<1>16. c' = c
  BY <1>7
<1> QED  BY <1>1, <1>7, <1>14, <1>15, <1>16, ZenonT(30) DEF CommandsOf

\* The daemon pushes at most something that is not a command for actuator u.
LEMMA CommandsPushed ==
  ASSUME TypeOK, NEW u \in Uuids, CommandsOf(u), UNCHANGED clientVars, down' = down,
         actuators'[u] = actuators[u],
         daemon' = daemon \/ (daemon = "running" /\ daemon' = "exiting"),
         \/ ctlSend' = ctlSend
         \/ \E e \in ToControllerBroker : e \notin CommandsOnPipe(u) /\ ctlSend' = Append(ctlSend, e)
  PROVE  CommandsOf(u)'
<1>1. ctlSend \in Seq(ToControllerBroker) /\ down \in [Clients -> Seq(ToClient)]
  BY DEF TypeOK, ServerTypeOK, NetTypeOK
<1>2. Spares(CommandsOnPipe(u), ctlSend, ctlSend')
  <2>1. Spares(CommandsOnPipe(u), ctlSend, ctlSend)
    BY <1>1, SparesRules
  <2>2. ASSUME NEW e \in ToControllerBroker, e \notin CommandsOnPipe(u)
        PROVE  Spares(CommandsOnPipe(u), ctlSend, Append(ctlSend, e))
    BY <1>1, <2>2, SparesRules, ZenonT(30)
  <2> QED  BY <2>1, <2>2
<1>3. ASSUME NEW c \in Clients PROVE Spares(Commands(u), down[c], down'[c])
  BY <1>1, SparesRules
<1> QED  BY <1>2, <1>3, CommandsSpared, ZenonT(30)

\* The daemon sets the value of an actuator, commands its owner, and may answer.
LEMMA CommandsOrdered ==
  ASSUME TypeOK, NEW u \in Uuids, CommandsOf(u), UNCHANGED clientVars, down' = down, daemon' = daemon,
         NEW a \in Uuids, NEW v \in Int, actuators[a] # NULL, SetValue(a, v),
         NEW p, p = Append(ctlSend, Command(a, v)),
         \/ ctlSend' = p
         \/ \E e \in ToControllerBroker : e \notin CommandsOnPipe(u) /\ ctlSend' = Append(p, e)
  PROVE  CommandsOf(u)'
<1>1. ServerTypeOK /\ ctlSend \in Seq(ToControllerBroker) /\ down \in [Clients -> Seq(ToClient)]
  BY DEF TypeOK, ServerTypeOK, NetTypeOK
<1>2. Command(a, v) \in ToControllerBroker
  BY <1>1, SetValueTypes
<1>3. p \in Seq(ToControllerBroker)
  BY <1>1, <1>2, QueueTypes
<1>4. Spares(CommandsOnPipe(u), p, ctlSend')
  BY <1>3, SparesRules
<1>5. CASE a = u
  BY <1>4, <1>5, CommandsSet
<1>6. CASE a # u
  <2>1. Command(a, v) \notin CommandsOnPipe(u)
    BY <1>6 DEF Command, Send, nrm_msg_set_actuate, CommandsOnPipe, Commands
  <2>2. Spares(CommandsOnPipe(u), ctlSend, p)
    BY <1>1, <1>2, <2>1, SparesRules, ZenonT(30)
  <2>3. Spares(CommandsOnPipe(u), ctlSend, ctlSend')
    BY <1>4, <2>2 DEF Spares
  <2>4. actuators'[u] = actuators[u]
    BY <1>1, <1>6, ZenonT(30) DEF SetValue, ServerTypeOK
  <2>5. ASSUME NEW c \in Clients PROVE Spares(Commands(u), down[c], down'[c])
    BY <1>1, SparesRules
  <2> QED  BY <2>3, <2>4, <2>5, CommandsSpared, ZenonT(30)
<1> QED  BY <1>5, <1>6, ZenonT(30)

\* The answers of the daemon are no commands.
LEMMA NoCommands ==
  ASSUME NEW u
  PROVE  /\ \A c, m : m.type # "ACTUATE" => Send(c, m) \notin CommandsOnPipe(u)
         /\ \A topic, m : Pub(topic, m) \notin CommandsOnPipe(u)
         /\ Ack.type # "ACTUATE"
  BY DEF CommandsOnPipe, Commands, Send, Pub, Ack, nrm_msg_fill

\* The daemon registers actuator u.
LEMMA CommandsAdd ==
  ASSUME TypeOK, NEW u \in Uuids, CommandsOf(u), UNCHANGED clientVars, nrm_server_add_callback
  PROVE  CommandsOf(u)'
<1> DEFINE x == [obj |-> Received.arg, owner |-> From, value |-> Received.arg.value]
           e == Send(From, Received)
<1>0. ServerTypeOK /\ ctlSend \in Seq(ToControllerBroker) /\ actuators \in [Uuids -> Registered \cup {NULL}]
  BY DEF TypeOK, ServerTypeOK
<1>1. /\ nrm_server_role_callback("ADD") /\ UNCHANGED <<daemon, down>>
      /\ ctlSend' = Append(ctlSend, e)
  BY Zenon DEF nrm_server_add_callback, netVars
<1>2. From \in Clients /\ Received \in Message /\ Received.type = "ADD" /\ daemon = "running"
  BY <1>0, <1>1, ReceivedTypes
<1>3. e \in ToControllerBroker /\ e \notin CommandsOnPipe(u)
  BY <1>2, Outgoing, Control, NoCommands, ZenonT(30)
<1> HIDE DEF e
<1>4. CASE actuators'[u] = actuators[u]
  BY <1>1, <1>3, <1>4, CommandsPushed, ZenonT(30)
<1>5. CASE /\ Received.target = "ACTUATOR" /\ u = Received.arg.uuid
           /\ actuators[u] = NULL /\ actuators' = [actuators EXCEPT ![u] = x]
  <2>1. Received.arg \in Actuator
    BY <1>2, <1>5, Arguments
  <2>2. Received.arg.value \in Int
    BY <2>1 DEF Actuator, ContinuousActuator, DiscreteActuator
  <2>3. x \in Registered
    BY <1>2, <2>1, <2>2 DEF Registered
  <2>4. /\ x # NULL /\ x.obj.uuid = u /\ x.owner = From /\ x.value = x.obj.value
    BY <1>5, <2>3, ServerAssumption
  <2> HIDE DEF x
  <2>5. actuators'[u] = x
    BY <1>0, <1>5
  <2>6. Unheard(u)
    BY <1>2, <1>5 DEF CommandsOf
  <2>7. UNCHANGED <<applied, missed, status>>
    BY DEF clientVars
  <2>8. NoneIn(ctlSend', CommandsOnPipe(u))
    BY <1>0, <1>1, <1>3, <2>6, QueueAppend, ZenonT(30) DEF Unheard
  <2>9. NoneIn(ctlSend', WrongOnPipe(u)')
    BY <2>8 DEF NoneIn, WrongOnPipe
  <2>10. ASSUME NEW c \in Clients, c = From
         PROVE  Proper(u, c)' /\ Agrees(u, c)'
    <3>1. NoneIn(down'[c], Commands(u)) /\ applied'[c][u] = NULL
      BY <1>1, <2>6, <2>7 DEF Unheard
    <3>2. NoneIn(down'[c], Wrong(u)')
      BY <3>1 DEF NoneIn, Wrong
    <3>3. Proper(u, c)'
      BY <2>4, <2>5, <2>9, <3>1, <3>2, ZenonT(30) DEF Proper
    <3>4. Heeded(u, c)'
      BY <2>4, <2>5, <3>1, ZenonT(30) DEF Heeded
    <3>5. Agrees(u, c)'
      BY <2>8, <3>1, <3>4 DEF Agrees, Reached
    <3> QED  BY <3>3, <3>5
  <2> DEFINE c == x.owner
  <2>11. actuators'[u].owner = c /\ c = From /\ c \in Clients
    BY <1>2, <2>4, <2>5
  <2>12. daemon' = "running" /\ actuators'[u] # NULL
    BY <1>1, <1>2, <2>4, <2>5, ZenonT(30)
  <2> QED  BY <2>10, <2>11, <2>12 DEF CommandsOf
<1>6. \/ actuators'[u] = actuators[u]
      \/ /\ Received.target = "ACTUATOR" /\ u = Received.arg.uuid
         /\ actuators[u] = NULL /\ actuators' = [actuators EXCEPT ![u] = x]
  <2>1. UNCHANGED actuators \/ (Received.target = "ACTUATOR" /\ nrm_state_add_actuator(Received.arg.uuid, x))
    BY Zenon DEF nrm_server_add_callback
  <2> DEFINE y == Received.arg.uuid
  <2> HIDE DEF x, y
  <2>2. CASE actuators' = IF actuators[y] # NULL THEN actuators ELSE [actuators EXCEPT ![y] = x]
    <3>1. actuators[y] # NULL \/ u # y => actuators'[u] = actuators[u]
      BY <1>0, <2>2
    <3> QED  BY <2>1, <2>2, <3>1 DEF y
  <2> QED  BY <2>1, <2>2 DEF nrm_state_add_actuator, y
<1> QED  BY <1>4, <1>5, <1>6, ZenonT(30)

\* The daemon crashes: what is left of the commands is as it was.
LEMMA CommandsCrash ==
  ASSUME TypeOK, NEW u \in Uuids, CommandsOf(u), UNCHANGED clientVars, Crashes
  PROVE  CommandsOf(u)'
<1>1. /\ daemon' = "crashed" /\ ctlSend' = <<>> /\ down' \in LeftOf(down)
      /\ actuators' = actuators /\ UNCHANGED applied
  BY DEF Crashes, Crash, CloseServerSockets, stateVars, clientVars
<1>2. ASSUME NEW c \in Clients, Proper(u, c)
      PROVE  Proper(u, c)'
  <2>1. Wrong(u)' = Wrong(u) /\ WrongOnPipe(u)' = WrongOnPipe(u)
    BY <1>1 DEF Wrong, WrongOnPipe
  <2>2. down[c] \in Seq(ToClient) /\ down'[c] \in Prefix(down[c])
    BY <1>1 DEF LeftOf, TypeOK, NetTypeOK
  <2>3. NoneIn(down'[c], Wrong(u))
    BY <1>2, <2>2, QueueCut, ZenonT(30) DEF Proper
  <2>4. NoneIn(ctlSend', WrongOnPipe(u))
    BY <1>1, QueueEmpty
  <2> QED  BY <1>1, <1>2, <2>1, <2>3, <2>4, ZenonT(30) DEF Proper
<1>3. actuators[u] # NULL => actuators[u].owner \in Clients
  BY NewestTypes
<1> DEFINE c == actuators[u].owner
<1>4. c' = c
  BY <1>1
<1> QED  BY <1>1, <1>2, <1>3, <1>4, ZenonT(30) DEF CommandsOf

\* The controller's broker sends a command for actuator u.
LEMMA CommandsSent ==
  ASSUME TypeOK, Lives, NEW u \in Uuids, CommandsOf(u), UNCHANGED clientVars,
         UNCHANGED <<daemon, actuators>>, ctlSend # <<>>, ctlSend' = Tail(ctlSend),
         NEW h, h = Head(ctlSend), h \in CommandsOnPipe(u), nrm_msg_sendto(h.to, h.msg)
  PROVE  CommandsOf(u)'
<1> DEFINE K == CommandsOnPipe(u)
<1>0. ctlSend \in Seq(ToControllerBroker) /\ down \in [Clients -> Seq(ToClient)]
  BY DEF TypeOK, ServerTypeOK, NetTypeOK
<1>1. h.ctrl = "SEND" /\ h.to \in Clients /\ h.msg \in ToClient /\ h.msg \in Commands(u)
  BY Control DEF CommandsOnPipe
<1>2. ~NoneIn(ctlSend, K)
  BY <1>0, QueueNone DEF K
<1> HIDE DEF K
<1>3. CASE actuators[u] = NULL
  BY <1>2, <1>3 DEF CommandsOf, Unheard, K
<1>4. CASE actuators[u] # NULL
  <2> DEFINE n == Newest(u)
  <2>1. UNCHANGED <<applied, missed, status>>
    BY DEF clientVars
  <2>2. Wrong(u)' = Wrong(u) /\ WrongOnPipe(u)' = WrongOnPipe(u) /\ Newest(u)' = n
    BY DEF Wrong, WrongOnPipe, Newest
  <2>3. n \in Commands(u) /\ n \in ToClient /\ actuators[u].owner \in Clients
    BY <1>4, NewestTypes
  <2> HIDE DEF n
  <2>4. ASSUME NEW c \in Clients, c = actuators[u].owner, Proper(u, c)
        PROVE  /\ h.to = c /\ Proper(u, c)'
    <3>1. NoneIn(ctlSend, WrongOnPipe(u)) /\ NoneIn(down[c], Wrong(u))
      BY <2>4 DEF Proper
    <3>2. h \notin WrongOnPipe(u) /\ NoneIn(ctlSend', WrongOnPipe(u))
      BY <1>0, <3>1, QueueNone
    <3>3. h.to = c /\ h.msg \notin Wrong(u)
      BY <2>4, <3>2 DEF WrongOnPipe
    <3>4. NoneIn(Append(down[c], h.msg), Wrong(u))
      BY <1>0, <1>1, <3>1, <3>3, QueueAppend, ZenonT(30)
    <3>5. NoneIn(down'[c], Wrong(u))
      BY <1>0, <3>1, <3>4, <3>3 DEF nrm_msg_sendto
    <3> QED  BY <2>1, <2>2, <2>4, <3>2, <3>3, <3>5, ZenonT(30) DEF Proper
  <2>5. ASSUME NEW c \in Clients, h.to = c, status[c] = "open", Agrees(u, c)
        PROVE  Agrees(u, c)'
    <3>1. connected[c]
      BY <2>5 DEF Lives, BrokerRuns
    <3>2. down'[c] = Append(down[c], h.msg)
      BY <1>0, <2>5, <3>1 DEF nrm_msg_sendto
    <3>3. LastIn(ctlSend, K, {Send(c, n)})
      BY <1>2, <2>5 DEF Agrees, K, n
    <3>4. LastIn(ctlSend', K, {Send(c, n)}) \/ (h = Send(c, n) /\ NoneIn(ctlSend', K))
      BY <1>0, <3>3, LastTail, SMTT(60)
    <3>5. h = Send(c, n) => LastIn(down'[c], Commands(u), {n})
      <4>1. h = Send(c, n) => h.msg = n
        BY DEF Send
      <4> QED  BY <1>0, <1>1, <3>2, <4>1, LastAppend, SMTT(60)
    <3> QED  BY <2>2, <3>4, <3>5 DEF Agrees, Reached, K
  <2> DEFINE c == actuators[u].owner
  <2>6. c' = c
    OBVIOUS
  <2> QED  BY <1>4, <2>1, <2>3, <2>4, <2>5, <2>6, ZenonT(30) DEF CommandsOf
<1> QED  BY <1>3, <1>4, ZenonT(30)

\* The controller's broker sends what the daemon pushed, or ends.
LEMMA CommandsPipe ==
  ASSUME TypeOK, Lives, NEW u \in Uuids, CommandsOf(u), UNCHANGED clientVars,
         nrm_controller_broker_pipe_handler
  PROVE  CommandsOf(u)'
<1> DEFINE h == Head(ctlSend)
<1>0. ctlSend \in Seq(ToControllerBroker) /\ down \in [Clients -> Seq(ToClient)]
  BY DEF TypeOK, ServerTypeOK, NetTypeOK
<1>1. /\ ControllerRuns /\ ctlSend # <<>> /\ ctlSend' = Tail(ctlSend) /\ UNCHANGED actuators
  BY Zenon DEF nrm_controller_broker_pipe_handler, stateVars
<1>2. h \in ToControllerBroker
  BY <1>0, <1>1, QueueTypes
<1>3. \/ h.ctrl = "SEND" /\ nrm_msg_sendto(h.to, h.msg) /\ UNCHANGED daemon
      \/ h.ctrl = "PUB" /\ UNCHANGED <<daemon, down>>
      \/ h.ctrl = "TERM" /\ daemon' = "stopped"
  BY Zenon DEF nrm_controller_broker_pipe_handler
<1>h. h = Head(ctlSend)
  OBVIOUS
<1> HIDE DEF h
<1>4. CASE h \in CommandsOnPipe(u)
  <2>1. h.ctrl = "SEND"
    BY <1>4 DEF CommandsOnPipe
  <2> QED  BY <1>1, <1>3, <1>4, <1>h, <2>1, CommandsSent, ZenonT(30)
<1>5. CASE h \notin CommandsOnPipe(u) /\ h.ctrl # "TERM"
  <2>1. Spares(CommandsOnPipe(u), ctlSend, ctlSend')
    BY <1>0, <1>1, <1>5, <1>h, SparesRules, ZenonT(30)
  <2>2. ASSUME NEW c \in Clients PROVE Spares(Commands(u), down[c], down'[c])
    <3>1. CASE down'[c] = down[c]
      BY <1>0, <3>1, SparesRules, ZenonT(30)
    <3>2. CASE h.ctrl = "SEND" /\ down'[c] = Append(down[c], h.msg)
      <4>1. h.msg \in ToClient /\ h.msg \notin Commands(u)
        BY <1>2, <1>5, <3>2, Control, ZenonT(30) DEF CommandsOnPipe
      <4>2. Spares(Commands(u), down[c], Append(down[c], h.msg))
        BY <1>0, <4>1, SparesRules
      <4> QED  BY <3>2, <4>2
    <3>3. down'[c] = down[c] \/ (h.ctrl = "SEND" /\ down'[c] = Append(down[c], h.msg))
      BY <1>0, <1>3, <1>5, ZenonT(30) DEF nrm_msg_sendto
    <3> QED  BY <3>1, <3>2, <3>3
  <2>3. UNCHANGED daemon
    BY <1>3, <1>5
  <2> QED  BY <1>1, <2>1, <2>2, <2>3, CommandsSpared, ZenonT(30)
<1>6. CASE h.ctrl = "TERM"
  <2>1. h = Term
    BY <1>2, <1>6 DEF ToControllerBroker, Term
  <2>2. ~NoneIn(ctlSend, {Term})
    BY <1>0, <1>1, <1>h, <2>1, QueueNone, ZenonT(30)
  <2>3. daemon = "closing"
    BY <1>1, <2>2 DEF Lives, ControllerRuns
  <2> QED  BY <1>1, <1>3, <1>6, <2>3, ZenonT(30) DEF CommandsOf
<1> QED  BY <1>4, <1>5, <1>6

\* A step of the daemon keeps commands and values together.
LEMMA CommandsServer ==
  ASSUME TypeOK, Lives, NEW u \in Uuids, CommandsOf(u), UNCHANGED clientVars, ServerNext
  PROVE  CommandsOf(u)'
<1>0. ServerTypeOK /\ ctlSend \in Seq(ToControllerBroker)
  BY DEF TypeOK, ServerTypeOK
<1>1. ASSUME NEW c \in Clients, NEW m \in ToClient, m.type # "ACTUATE",
             ctlSend' = Append(ctlSend, Send(c, m)), actuators' = actuators, down' = down,
             daemon' = daemon \/ (daemon = "running" /\ daemon' = "exiting")
      PROVE  CommandsOf(u)'
  <2>1. Send(c, m) \in ToControllerBroker /\ Send(c, m) \notin CommandsOnPipe(u)
    BY <1>1, Control, NoCommands
  <2> QED  BY <1>1, <2>1, CommandsPushed
<1>2. ASSUME NEW topic \in Topics, NEW m \in ToListeners,
             ctlSend' = Append(ctlSend, Pub(topic, m)), actuators' = actuators, down' = down,
             daemon' = daemon
      PROVE  CommandsOf(u)'
  <2>1. Pub(topic, m) \in ToControllerBroker /\ Pub(topic, m) \notin CommandsOnPipe(u)
    BY Control, NoCommands
  <2> QED  BY <1>2, <2>1, CommandsPushed, ZenonT(30)
<1>3. ASSUME NEW c \in Clients
      PROVE  Send(c, Ack) \in ToControllerBroker /\ Send(c, Ack) \notin CommandsOnPipe(u)
  BY Outgoing, Control, NoCommands, ZenonT(30)
<1>4. CASE nrm_server_actuate_callback
  <2> DEFINE a == Received.arg[1]
             v == Received.arg[2]
  <2>1. nrm_server_role_callback("ACTUATE") /\ UNCHANGED <<daemon, down>>
    BY <1>4, Zenon DEF nrm_server_actuate_callback, netVars
  <2>2. From \in Clients /\ Received \in Message /\ Received.type = "ACTUATE"
    BY <1>0, <2>1, ReceivedTypes, ZenonT(30)
  <2>3. a \in Uuids /\ v \in Int
    BY <2>2, Arguments
  <2>4. CASE /\ actuators[a] # NULL /\ SetValue(a, v)
             /\ ctlSend' = Append(Append(ctlSend, Command(a, v)), Send(From, Ack))
    BY <1>3, <2>1, <2>2, <2>3, <2>4, CommandsOrdered, ZenonT(30)
  <2>5. CASE ctlSend' = Append(ctlSend, Send(From, Ack)) /\ UNCHANGED actuators
    BY <1>1, <2>1, <2>2, <2>5, Outgoing, NoCommands, ZenonT(30)
  <2> QED  BY <1>4, <2>4, <2>5, Zenon DEF nrm_server_actuate_callback
<1>5. CASE nrm_server_actuate
  <2> DEFINE a == Outputs[loop.k]
  <2>1. daemon = "running" /\ loop # NULL /\ UNCHANGED <<daemon, down>>
    BY <1>5, Zenon DEF nrm_server_actuate, netVars
  <2>2. loop \in ControlLoop /\ a \in Uuids
    BY <1>0, <2>1, ServerAssumption, SMTT(60) DEF ServerTypeOK, ControlLoop
  <2>3. ASSUME NEW p
        PROVE  \/ AckTick(p) = p
               \/ \E e \in ToControllerBroker : e \notin CommandsOnPipe(u) /\ AckTick(p) = Append(p, e)
    BY <1>3, <2>2 DEF AckTick, ControlLoop
  <2>4. ASSUME actuators[a] # NULL, NEW v \in NewValues(loop.k), SetValue(a, v),
               ctlSend' = AckTick(Append(ctlSend, Command(a, v)))
        PROVE  CommandsOf(u)'
    <3>1. v \in Int
      BY <1>0, <2>2, <2>4, ServerAssumption, ZenonT(30) DEF NewValues, ServerTypeOK, Registered
    <3> DEFINE p == Append(ctlSend, Command(a, v))
    <3> HIDE DEF p
    <3>2. p = Append(ctlSend, Command(a, v)) /\ ctlSend' = AckTick(p)
      BY <2>4 DEF p
    <3>3. \/ ctlSend' = p
          \/ \E e \in ToControllerBroker : e \notin CommandsOnPipe(u) /\ ctlSend' = Append(p, e)
      BY <2>3, <3>2
    <3> HIDE DEF a
    <3> QED  BY <2>1, <2>2, <2>4, <3>1, <3>2, <3>3, CommandsOrdered
  <2>5. CASE ctlSend' = AckTick(ctlSend) /\ UNCHANGED actuators
    BY <2>1, <2>3, <2>5, CommandsPushed, ZenonT(30)
  <2> QED  BY <1>5, <2>4, <2>5, Zenon DEF nrm_server_actuate
<1>6. CASE nrm_server_list_callback
  <2> DEFINE m == nrm_msg_set_list(Received.target, nrm_state_list(Received.target))
  <2>1. /\ nrm_server_role_callback("LIST") /\ UNCHANGED <<daemon, actuators, down>>
        /\ ctlSend' = Append(ctlSend, Send(From, m))
    BY <1>6, Zenon DEF nrm_server_list_callback, stateVars, netVars
  <2>2. From \in Clients /\ Received \in Message /\ Received.type = "LIST"
    BY <1>0, <2>1, ReceivedTypes, ZenonT(30)
  <2>3. m \in ToClient
    BY <1>0, <2>2, Arguments, ListTypes, Outgoing, ZenonT(30)
  <2>4. m.type # "ACTUATE"
    BY DEF nrm_msg_set_list
  <2> HIDE DEF m
  <2> QED  BY <1>1, <2>1, <2>2, <2>3, <2>4, ZenonT(30)
<1>7. CASE nrm_server_exit_callback \/ nrm_server_remove_callback \/ nrm_server_tick_callback
  <2>1. CASE Crashes
    BY <2>1, CommandsCrash
  <2>2. ASSUME NEW type, nrm_server_role_callback(type),
               ctlSend' = Append(ctlSend, Send(From, Ack)) \/ ctlSend' = ctlSend,
               actuators' = actuators, down' = down,
               daemon' = daemon \/ (daemon = "running" /\ daemon' = "exiting")
        PROVE  CommandsOf(u)'
    <3>1. From \in Clients
      BY <1>0, <2>2, ReceivedTypes, ZenonT(30)
    <3> QED  BY <1>3, <2>2, <3>1, CommandsPushed, ZenonT(30)
  <2>3. CASE nrm_server_exit_callback
    BY <2>2, <2>3 DEF nrm_server_exit_callback, nrm_server_role_callback, stateVars, netVars
  <2>4. CASE nrm_server_remove_callback
    BY <2>1, <2>2, <2>4, Zenon DEF nrm_server_remove_callback, Crashes, stateVars, netVars
  <2>5. CASE nrm_server_tick_callback
    BY <2>2, <2>5, Zenon DEF nrm_server_tick_callback, stateVars, netVars
  <2> QED  BY <1>7, <2>3, <2>4, <2>5, ZenonT(30)
<1>8. CASE nrm_server_events_callback
  <2>1. Received \in ToListeners
    BY <1>0, <1>8, ReceivedTypes DEF nrm_server_events_callback, ToListeners
  <2> QED
    BY <1>2, <1>8, <2>1, Zenon DEF nrm_server_events_callback, Topics, stateVars, netVars
<1>9. CASE nrm_server_timer_callback
  <2> DEFINE m == nrm_msg_set_events([from |-> NULL, n |-> timer + 1])
  <2>1. m \in ToListeners
    <3>1. [from |-> NULL, n |-> timer + 1] \in Event
      BY <1>0, SMTT(60) DEF ServerTypeOK, Event
    <3> QED  BY <3>1, Outgoing
  <2>2. ctlSend' = Append(ctlSend, Pub("daemon", m)) /\ UNCHANGED <<actuators, down, daemon>>
    BY <1>9, Zenon DEF nrm_server_timer_callback, stateVars, netVars
  <2> HIDE DEF m
  <2> QED  BY <1>2, <2>1, <2>2, ZenonT(30) DEF Topics
<1>10. CASE nrm_server_signal_callback \/ \E c \in Clients : nrm_controller_broker_rpc_handler(c)
  <2>1. /\ UNCHANGED <<ctlSend, actuators, down>>
        /\ daemon' = daemon \/ (daemon = "running" /\ daemon' = "exiting")
    BY <1>10, Zenon DEF nrm_server_signal_callback, nrm_controller_broker_rpc_handler, stateVars, netVars
  <2> QED  BY <2>1, CommandsPushed
<1>11. CASE nrm_server_destroy
  BY <1>11 DEF nrm_server_destroy, CommandsOf
<1> QED
  BY <1>4, <1>5, <1>6, <1>7, <1>8, <1>9, <1>10, <1>11, CommandsAdd, CommandsPipe, Zenon
     DEF ServerNext, Handler

\* Commands and values stay together, at every step.
LEMMA CommandsStep ==
  ASSUME TypeOK, Lives, CommandInv, [Next]_vars
  PROVE  CommandInv'
<1> SUFFICES ASSUME NEW u \in Uuids PROVE CommandsOf(u)'
  BY DEF CommandInv
<1>0. CommandsOf(u)
  BY DEF CommandInv
<1>1. CASE UNCHANGED <<clientVars, serverVars>> /\ down' = down
  BY <1>0, <1>1, CommandsPushed, ZenonT(30) DEF serverVars, stateVars
<1> QED
  BY <1>0, <1>1, CommandsClient, CommandsServer, ZenonT(30) DEF Next, vars, SubscriptionArrives, netVars

\* The commands on the pipe and on a connection, as places.
LEMMA CommandPlaces ==
  ASSUME TypeOK, NEW u \in Uuids, NEW c \in Clients
  PROVE  /\ \A i : i \in OnPipe(u) <=> i \in 1 .. Len(ctlSend) /\ ctlSend[i] \in CommandsOnPipe(u)
         /\ \A i : i \in OnWire(c, u) <=> i \in 1 .. Len(down[c]) /\ down[c][i] \in Commands(u)
<1>1. ctlSend \in Seq(ToControllerBroker) /\ down[c] \in Seq(ToClient)
  BY DEF TypeOK, ServerTypeOK, NetTypeOK
<1>2. ASSUME NEW i \in 1 .. Len(ctlSend)
      PROVE  i \in OnPipe(u) <=> ctlSend[i] \in CommandsOnPipe(u)
  <2>1. ctlSend[i] \in ToControllerBroker /\ i \in DOMAIN ctlSend
    BY <1>1, SMTT(60)
  <2>2. ctlSend[i].ctrl = "SEND" => ctlSend[i].msg \in Message
    BY <2>1, Control DEF ToClient
  <2> QED  BY <2>1, <2>2 DEF OnPipe, CommandsOnPipe, Commands
<1>3. ASSUME NEW i \in 1 .. Len(down[c])
      PROVE  i \in OnWire(c, u) <=> down[c][i] \in Commands(u)
  <2>1. down[c][i] \in Message /\ i \in DOMAIN down[c]
    BY <1>1, SMTT(60) DEF ToClient
  <2> QED  BY <2>1 DEF OnWire, Commands
<1>4. \A i : (i \in OnPipe(u) => i \in 1 .. Len(ctlSend)) /\ (i \in OnWire(c, u) => i \in 1 .. Len(down[c]))
  BY <1>1 DEF OnPipe, OnWire
<1> QED  BY <1>2, <1>3, <1>4, ZenonT(30)

\* The two properties of commands, from the invariant.
LEMMA CommandsHold ==
  ASSUME TypeOK, CommandInv
  PROVE  CommandsValid /\ AgreeOnValue
<1>1. CommandsValid
  BY DEF CommandInv, CommandsOf, Proper, Takeable, CommandsValid
<1>2. ASSUME NEW u \in Uuids, actuators[u] # NULL, daemon # "crashed",
             NEW c \in Clients, c = actuators[u].owner, status[c] = "open"
      PROVE  IF OnPipe(u) # {} THEN
               \E i \in OnPipe(u) : /\ \A j \in OnPipe(u) : j <= i
                                    /\ ctlSend[i].to = c /\ ctlSend[i].msg.arg[2] = actuators[u].value
             ELSE IF OnWire(c, u) # {} THEN
               \E i \in OnWire(c, u) : /\ \A j \in OnWire(c, u) : j <= i
                                       /\ down[c][i].arg[2] = actuators[u].value
             ELSE Heeded(u, c)
  <2> DEFINE n == Newest(u)
  <2>1. Agrees(u, c)
    BY <1>2 DEF CommandInv, CommandsOf
  <2>2. /\ \A i : i \in OnPipe(u) <=> i \in 1 .. Len(ctlSend) /\ ctlSend[i] \in CommandsOnPipe(u)
        /\ \A i : i \in OnWire(c, u) <=> i \in 1 .. Len(down[c]) /\ down[c][i] \in Commands(u)
    BY CommandPlaces
  <2>3. /\ Len(ctlSend) \in Nat /\ Len(down[c]) \in Nat
        /\ n \in Commands(u) /\ Send(c, n) \in CommandsOnPipe(u)
    <3>1. ctlSend \in Seq(ToControllerBroker) /\ down[c] \in Seq(ToClient)
      BY <1>2 DEF TypeOK, ServerTypeOK, NetTypeOK
    <3>2. Len(ctlSend) \in Nat /\ Len(down[c]) \in Nat
      BY <3>1, SMTT(60)
    <3> QED  BY <1>2, <3>2, NewestTypes
  <2>4. Send(c, n).to = c /\ Send(c, n).msg = n /\ n.arg[2] = actuators[u].value
    BY DEF Send, Newest, nrm_msg_set_actuate
  <2> HIDE DEF n
  <2>5. CASE LastIn(ctlSend, CommandsOnPipe(u), {Send(c, n)})
    <3>1. PICK i \in 1 .. Len(ctlSend) :
            /\ ctlSend[i] = Send(c, n)
            /\ \A j \in i + 1 .. Len(ctlSend) : ctlSend[j] \notin CommandsOnPipe(u)
      BY <2>5 DEF LastIn
    <3>2. i \in OnPipe(u) /\ \A j \in OnPipe(u) : j <= i
      BY <2>2, <2>3, <3>1, SMTT(60)
    <3> QED  BY <2>4, <3>1, <3>2
  <2>6. CASE NoneIn(ctlSend, CommandsOnPipe(u)) /\ LastIn(down[c], Commands(u), {n})
    <3>1. PICK i \in 1 .. Len(down[c]) :
            /\ down[c][i] = n
            /\ \A j \in i + 1 .. Len(down[c]) : down[c][j] \notin Commands(u)
      BY <2>6 DEF LastIn
    <3>2. i \in OnWire(c, u) /\ \A j \in OnWire(c, u) : j <= i
      BY <2>2, <2>3, <3>1, SMTT(60)
    <3>3. OnPipe(u) = {}
      BY <2>2, <2>6 DEF NoneIn
    <3> QED  BY <2>4, <3>1, <3>2, <3>3
  <2>7. CASE /\ NoneIn(ctlSend, CommandsOnPipe(u)) /\ NoneIn(down[c], Commands(u))
             /\ Heeded(u, c)
    BY <2>2, <2>7 DEF NoneIn
  <2> QED  BY <2>1, <2>5, <2>6, <2>7, ZenonT(30) DEF Agrees, Reached, n
<1>3. \A u \in Uuids : actuators[u] # NULL => actuators[u].owner \in Clients
  BY NewestTypes
<1> QED  BY <1>1, <1>2, <1>3, Zenon DEF AgreeOnValue, Heeded

-----------------------------------------------------------------------------
(* Theorems *)

\* The commands on their way to each actuator's owner stay in line with the
\* value the daemon holds.
THEOREM CommandsInLine == Spec => []CommandInv
<1>1. Init => CommandInv
  BY CommandsInit
<1>2. TypeOK /\ Lives /\ CommandInv /\ [Next]_vars => CommandInv'
  BY CommandsStep
<1> QED  BY <1>1, <1>2, SocketsOpen, TypeCorrect, PTL DEF Spec

\* So an owner is never given a value its own object refuses, whoever asked for
\* it: nrm_server_actuate_callback and nrm_server_actuate correct every value.
THEOREM OwnersGetValidValues == Spec => []CommandsValid
<1>1. TypeOK /\ CommandInv => CommandsValid
  BY CommandsHold, ZenonT(30)
<1> QED  BY <1>1, CommandsInLine, TypeCorrect, PTL

\* And the daemon and the owner agree on the value, up to the commands still on
\* their way.
THEOREM ValuesAgree == Spec => []AgreeOnValue
<1>1. TypeOK /\ CommandInv => AgreeOnValue
  BY CommandsHold
<1> QED  BY <1>1, CommandsInLine, TypeCorrect, PTL
=============================================================================
