-------------------------- MODULE NrmHelperProofs ---------------------------
(* Proofs about the parts of the library and of the programs around it     *)
(* that stand on their own: the start-up of a client role, the progress    *)
(* counter of the OMPT tool, the topics shared with a broker thread, the   *)
(* scope shared by the threads of a parallel region, the objects that      *)
(* messages carry, and the search for the daemon's scope of a part of the  *)
(* machine.                                                                *)
EXTENDS NrmStartup, NrmOmpt, NrmTopics, NrmHwloc, NrmWire, Integers,
        Sequences, FiniteSets,
        FiniteSetTheorems, NaturalsInduction, WellFoundedInduction,
        SequenceTheorems, TLAPS

USE ZenonT(8), SMTT(60)

-----------------------------------------------------------------------------
\* A set of natural numbers has a least element.
LEMMA SmallestNat ==
  ASSUME NEW K \in SUBSET Nat, K # {}
  PROVE  \E m \in K : \A k \in K : m <= k
<1> DEFINE R == OpToRel(<, Nat)
<1>1. IsWellFoundedOn(R, Nat)
  BY NatLessThanWellFounded
<1>2. PICK m \in K : \A k \in K : ~(<<k, m>> \in R)
  <2> HIDE DEF R
  <2> QED  BY <1>1, WFMin, Zenon
<1>3. ASSUME NEW k \in K PROVE m <= k
  <2>1. k \in Nat /\ m \in Nat
    OBVIOUS
  <2>2. k < m => <<k, m>> \in R
    BY <2>1 DEF OpToRel
  <2> HIDE DEF R
  <2> QED  BY <1>2, <2>1, <2>2, SMTT(60)
<1> QED  BY <1>3

-----------------------------------------------------------------------------
(* The start-up and the end of a client role are safe whichever of their   *)
(* steps fail.  The argument follows the signals on the pipe: at each      *)
(* place of the creator and of the broker exactly one sequence of signals  *)
(* can be there, so the creator cannot take the signal of a thread that    *)
(* runs for that of a role that is ready, nor one of these for the last    *)
(* signal of a thread that has ended.                                      *)

SetUp == {"alloc", "rpc_init", "rpc_connect", "rpc_wait", "sub_init",
          "sub_connect", "sub_wait", "zloop_new"}
Unwinding == {"cleanup_sub", "cleanup_rpc", "cleanup", "exit"}
BrokerPlaces == {"none", "start", "loop", "ended"} \cup SetUp \cup Unwinding
CreatorPlaces == {"call", "zactor_new", "zsock_wait", "role", "err_actor",
                  "destroy", "NULL", "gone"}

\* The signals that can be on the pipe: of a broker that runs, is ready, has
\* failed, has ended.
One == <<OK>>
RunsReady == <<OK, OK>>
RunsFailed == <<OK, FAILURE>>
RunsFailedEnded == <<OK, FAILURE, OK>>
Failed == <<FAILURE>>
FailedEnded == <<FAILURE, OK>>

\* The sockets open at each place of the broker.
OpenAt ==
    IF brokerpc \in {"rpc_connect", "rpc_wait", "sub_init", "cleanup_rpc"}
      THEN {"rpc"}
    ELSE IF brokerpc \in {"sub_connect", "sub_wait", "zloop_new", "loop",
                          "cleanup_sub"}
      THEN {"rpc", "sub"}
    ELSE {}

\* The signals the creator has not taken yet, at each place of the creator.
InZactorNew ==
    /\ frame /\ roleheap /\ ~term
    /\ \/ brokerpc = "start" /\ tocreator = << >>
       \/ brokerpc \in SetUp /\ tocreator = One
       \/ brokerpc = "loop" /\ tocreator = RunsReady
       \/ brokerpc \in Unwinding /\ tocreator = RunsFailed
       \/ brokerpc = "ended" /\ tocreator = RunsFailedEnded

InZsockWait ==
    /\ frame /\ roleheap /\ ~term
    /\ \/ brokerpc \in SetUp /\ tocreator = << >>
       \/ brokerpc = "loop" /\ tocreator = One
       \/ brokerpc \in Unwinding /\ tocreator = Failed
       \/ brokerpc = "ended" /\ tocreator = FailedEnded

InRole == roleheap /\ ~term /\ brokerpc = "loop" /\ tocreator = << >>

InErrActor ==
    /\ frame /\ roleheap
    /\ \/ brokerpc \in Unwinding /\ tocreator = << >>
       \/ brokerpc = "ended" /\ tocreator = One

InDestroy ==
    /\ roleheap
    /\ \/ brokerpc \in Unwinding \cup {"loop"} /\ tocreator = << >>
       \/ brokerpc = "ended" /\ tocreator = One

StartupInv ==
    /\ creator \in CreatorPlaces
    /\ brokerpc \in BrokerPlaces
    /\ open = OpenAt
    /\ connected \subseteq {"rpc", "sub"}
    /\ brokerpc \in {"sub_init", "sub_connect", "sub_wait"} => "rpc" \in connected
    /\ brokerpc \in {"zloop_new", "loop"} => connected = {"rpc", "sub"}
    /\ creator = "call" => brokerpc = "none" /\ tocreator = << >> /\ ~term
    /\ creator = "zactor_new" => InZactorNew
    /\ creator = "zsock_wait" => InZsockWait
    /\ creator = "role" => InRole
    /\ creator = "err_actor" => InErrActor
    /\ creator = "destroy" => InDestroy
    /\ creator \in {"NULL", "gone"} => brokerpc \in {"none", "ended"}

-----------------------------------------------------------------------------

\* What a further zsock_signal of the broker makes of the signals on the pipe.
LEMMA Signalling ==
    /\ Append(<< >>, OK) = One
    /\ Append(<< >>, FAILURE) = Failed
    /\ Append(One, OK) = RunsReady
    /\ Append(One, FAILURE) = RunsFailed
    /\ Append(RunsFailed, OK) = RunsFailedEnded
    /\ Append(Failed, OK) = FailedEnded
<1>1. Append(<< >>, OK) = One /\ Append(<< >>, FAILURE) = Failed
  BY DEF One, Failed, OK, FAILURE
<1>2. Append(One, OK) = RunsReady
  <2>1. /\ Append(One, OK) \in Seq(Int) /\ Len(Append(One, OK)) = 2
        /\ \A i \in 1..2 : Append(One, OK)[i] = RunsReady[i]
    BY DEF One, RunsReady, OK, FAILURE
  <2>2. RunsReady \in Seq(Int) /\ Len(RunsReady) = 2
    BY DEF RunsReady, OK, FAILURE
  <2> QED
    BY <2>1, <2>2, SeqEqual
<1>3. Append(One, FAILURE) = RunsFailed
  <2>1. /\ Append(One, FAILURE) \in Seq(Int) /\ Len(Append(One, FAILURE)) = 2
        /\ \A i \in 1..2 : Append(One, FAILURE)[i] = RunsFailed[i]
    BY DEF One, RunsFailed, OK, FAILURE
  <2>2. RunsFailed \in Seq(Int) /\ Len(RunsFailed) = 2
    BY DEF RunsFailed, OK, FAILURE
  <2> QED
    BY <2>1, <2>2, SeqEqual
<1>4. Append(RunsFailed, OK) = RunsFailedEnded
  <2>1. /\ Append(RunsFailed, OK) \in Seq(Int) /\ Len(Append(RunsFailed, OK)) = 3
        /\ \A i \in 1..3 : Append(RunsFailed, OK)[i] = RunsFailedEnded[i]
    BY DEF RunsFailed, RunsFailedEnded, OK, FAILURE
  <2>2. RunsFailedEnded \in Seq(Int) /\ Len(RunsFailedEnded) = 3
    BY DEF RunsFailedEnded, OK, FAILURE
  <2> QED
    BY <2>1, <2>2, SeqEqual
<1>5. Append(Failed, OK) = FailedEnded
  <2>1. /\ Append(Failed, OK) \in Seq(Int) /\ Len(Append(Failed, OK)) = 2
        /\ \A i \in 1..2 : Append(Failed, OK)[i] = FailedEnded[i]
    BY DEF Failed, FailedEnded, OK, FAILURE
  <2>2. FailedEnded \in Seq(Int) /\ Len(FailedEnded) = 2
    BY DEF FailedEnded, OK, FAILURE
  <2> QED
    BY <2>1, <2>2, SeqEqual
<1> QED
  BY <1>1, <1>2, <1>3, <1>4, <1>5

\* What the creator's zsock_wait takes off the pipe and leaves there, and that
\* it waits only when no signal is there.
LEMMA Waiting ==
    /\ << >> \notin {One, RunsReady, RunsFailed, RunsFailedEnded, Failed,
                     FailedEnded}
    /\ Tail(One) = << >> /\ Tail(RunsReady) = One
    /\ Tail(RunsFailed) = Failed /\ Tail(RunsFailedEnded) = FailedEnded
    /\ Tail(Failed) = << >> /\ Tail(FailedEnded) = One
    /\ Head(One) = OK /\ Head(Failed) = FAILURE /\ Head(FailedEnded) = FAILURE
    /\ OK # FAILURE
  BY DEF One, RunsReady, RunsFailed, RunsFailedEnded, Failed, FailedEnded,
         OK, FAILURE

\* Which sequence of signals is on the pipe, which sockets are open and what
\* is allocated is fixed by where the creator and the broker are, in every
\* interleaving of the two and after every failure (nrm_client_broker_fn,
\* nrm_role_client_create_fromparams).
THEOREM SignalsMatch == StartupSpec => []StartupInv
<1>1. StartupInit => StartupInv
  BY DEF StartupInit, StartupInv, OpenAt, SetUp, Unwinding, BrokerPlaces, CreatorPlaces,
           InZactorNew, InZsockWait, InRole, InErrActor, InDestroy
<1>2. StartupInv /\ [StartupNext]_startupvars => StartupInv'
  <2> SUFFICES ASSUME StartupInv, [StartupNext]_startupvars PROVE StartupInv'
    OBVIOUS
  <2>1. CASE nrm_role_client_create_fromparams
    BY <2>1, Signalling, Waiting DEF StartupInv, OpenAt, SetUp, Unwinding, BrokerPlaces, CreatorPlaces,
           InZactorNew, InZsockWait, InRole, InErrActor, InDestroy, nrm_role_client_create_fromparams
  <2>2. CASE zactor_new
    BY <2>2, Signalling, Waiting DEF StartupInv, OpenAt, SetUp, Unwinding, BrokerPlaces, CreatorPlaces,
           InZactorNew, InZsockWait, InRole, InErrActor, InDestroy, zactor_new
  <2>3. CASE zsock_wait
    BY <2>3, Signalling, Waiting DEF StartupInv, OpenAt, SetUp, Unwinding, BrokerPlaces, CreatorPlaces,
           InZactorNew, InZsockWait, InRole, InErrActor, InDestroy, zsock_wait
  <2>4. CASE zactor_destroy
    BY <2>4, Signalling, Waiting, SMTT(60) DEF StartupInv, OpenAt, SetUp, Unwinding, BrokerPlaces, CreatorPlaces,
           InZactorNew, InZsockWait, InRole, InErrActor, InDestroy, zactor_destroy
  <2>5. CASE nrm_role_client_destroy
    BY <2>5, Signalling, Waiting DEF StartupInv, OpenAt, SetUp, Unwinding, BrokerPlaces, CreatorPlaces,
           InZactorNew, InZsockWait, InRole, InErrActor, InDestroy, nrm_role_client_destroy
  <2>6. CASE BrokerRuns
    BY <2>6, Signalling, Waiting DEF StartupInv, OpenAt, SetUp, Unwinding, BrokerPlaces, CreatorPlaces,
           InZactorNew, InZsockWait, InRole, InErrActor, InDestroy, BrokerRuns
  <2>7. CASE BrokerAlloc
    BY <2>7, Signalling, Waiting DEF StartupInv, OpenAt, SetUp, Unwinding, BrokerPlaces, CreatorPlaces,
           InZactorNew, InZsockWait, InRole, InErrActor, InDestroy, BrokerAlloc, Try
  <2>8. CASE rpc_client_init
    BY <2>8, Signalling, Waiting DEF StartupInv, OpenAt, SetUp, Unwinding, BrokerPlaces, CreatorPlaces,
           InZactorNew, InZsockWait, InRole, InErrActor, InDestroy, rpc_client_init, Try
  <2>9. CASE sub_init
    BY <2>9, Signalling, Waiting DEF StartupInv, OpenAt, SetUp, Unwinding, BrokerPlaces, CreatorPlaces,
           InZactorNew, InZsockWait, InRole, InErrActor, InDestroy, sub_init, Try
  <2>10. CASE \E s \in {"rpc", "sub"} : Connect(s)
    <3>1. CASE Connect("rpc")
      BY <3>1, Signalling, Waiting DEF StartupInv, OpenAt, SetUp, Unwinding, BrokerPlaces, CreatorPlaces,
           InZactorNew, InZsockWait, InRole, InErrActor, InDestroy, Connect, Try, ConnectAt, WaitAt, CleanupOf
    <3>2. CASE Connect("sub")
      BY <3>2, Signalling, Waiting DEF StartupInv, OpenAt, SetUp, Unwinding, BrokerPlaces, CreatorPlaces,
           InZactorNew, InZsockWait, InRole, InErrActor, InDestroy, Connect, Try, ConnectAt, WaitAt, CleanupOf
    <3> QED
      BY <2>10, <3>1, <3>2
  <2>11. CASE \E s \in {"rpc", "sub"} : Connected(s)
    <3>1. /\ tocreator' = tocreator /\ creator' = creator /\ open' = open
          /\ (frame' <=> frame) /\ (roleheap' <=> roleheap)
          /\ (term' <=> term)
          /\ \/ /\ brokerpc = "rpc_wait" /\ brokerpc' = "sub_init"
                /\ connected' = connected \cup {"rpc"}
             \/ /\ brokerpc = "sub_wait" /\ brokerpc' = "zloop_new"
                /\ connected' = connected \cup {"sub"}
      BY <2>11 DEF Connected, WaitAt, AfterConnect
    <3>2. connected' \subseteq {"rpc", "sub"} /\ "rpc" \in connected'
      BY <3>1 DEF StartupInv
    <3>3. brokerpc' = "zloop_new" => connected' = {"rpc", "sub"}
      BY <3>1, <3>2
    <3> QED
      BY <3>1, <3>2, <3>3, Waiting DEF StartupInv, OpenAt, SetUp, Unwinding, BrokerPlaces, CreatorPlaces,
           InZactorNew, InZsockWait, InRole, InErrActor, InDestroy
  <2>12. CASE \E s \in {"rpc", "sub"} : MonitorTimeout(s)
    <3>1. CASE MonitorTimeout("rpc")
      BY <3>1, Signalling, Waiting DEF StartupInv, OpenAt, SetUp, Unwinding, BrokerPlaces, CreatorPlaces,
           InZactorNew, InZsockWait, InRole, InErrActor, InDestroy, MonitorTimeout, WaitAt, CleanupOf
    <3>2. CASE MonitorTimeout("sub")
      BY <3>2, Signalling, Waiting DEF StartupInv, OpenAt, SetUp, Unwinding, BrokerPlaces, CreatorPlaces,
           InZactorNew, InZsockWait, InRole, InErrActor, InDestroy, MonitorTimeout, WaitAt, CleanupOf
    <3> QED
      BY <2>12, <3>1, <3>2
  <2>13. CASE BrokerReady
    BY <2>13, Signalling, Waiting DEF StartupInv, OpenAt, SetUp, Unwinding, BrokerPlaces, CreatorPlaces,
           InZactorNew, InZsockWait, InRole, InErrActor, InDestroy, BrokerReady
  <2>14. CASE BrokerLoopEnds
    BY <2>14, Signalling, Waiting DEF StartupInv, OpenAt, SetUp, Unwinding, BrokerPlaces, CreatorPlaces,
           InZactorNew, InZsockWait, InRole, InErrActor, InDestroy, BrokerLoopEnds
  <2>15. CASE BrokerUnwinds
    BY <2>15, Signalling, Waiting, ZenonT(30) DEF StartupInv, OpenAt, SetUp, Unwinding, BrokerPlaces, CreatorPlaces,
           InZactorNew, InZsockWait, InRole, InErrActor, InDestroy, BrokerUnwinds
  <2>16. CASE BrokerExits
    <3>1. /\ brokerpc = "exit" /\ brokerpc' = "ended"
          /\ tocreator' = Append(tocreator, OK)
          /\ creator' = creator /\ open' = open /\ connected' = connected
          /\ (frame' <=> frame) /\ (roleheap' <=> roleheap)
          /\ (term' <=> term)
      BY <2>16, Signalling, Waiting DEF BrokerExits
    <3>2. creator = "zactor_new" => InZactorNew'
      BY <3>1, Signalling DEF StartupInv, OpenAt, SetUp, Unwinding, BrokerPlaces, CreatorPlaces,
           InZactorNew, InZsockWait, InRole, InErrActor, InDestroy
    <3>3. creator = "zsock_wait" => InZsockWait'
      BY <3>1, Signalling DEF StartupInv, OpenAt, SetUp, Unwinding, BrokerPlaces, CreatorPlaces,
           InZactorNew, InZsockWait, InRole, InErrActor, InDestroy
    <3>4. creator = "err_actor" => InErrActor'
      BY <3>1, Signalling DEF StartupInv, OpenAt, SetUp, Unwinding, BrokerPlaces, CreatorPlaces,
           InZactorNew, InZsockWait, InRole, InErrActor, InDestroy
    <3>5. creator = "destroy" => InDestroy'
      BY <3>1, Signalling DEF StartupInv, OpenAt, SetUp, Unwinding, BrokerPlaces, CreatorPlaces,
           InZactorNew, InZsockWait, InRole, InErrActor, InDestroy
    <3>6. creator \notin {"call", "role", "NULL", "gone"}
      BY <3>1, Signalling DEF StartupInv, OpenAt, SetUp, Unwinding, BrokerPlaces, CreatorPlaces,
           InZactorNew, InZsockWait, InRole, InErrActor, InDestroy
    <3> QED
      BY <3>1, <3>2, <3>3, <3>4, <3>5, <3>6 DEF StartupInv, OpenAt, SetUp, Unwinding, BrokerPlaces, CreatorPlaces
  <2>17. CASE DaemonChanges
    BY <2>17, Signalling, Waiting, ZenonT(30) DEF StartupInv, OpenAt, SetUp, Unwinding, BrokerPlaces, CreatorPlaces,
           InZactorNew, InZsockWait, InRole, InErrActor, InDestroy, DaemonChanges
  <2>18. CASE UNCHANGED startupvars
    BY <2>18, Signalling, Waiting, ZenonT(30) DEF StartupInv, OpenAt, SetUp, Unwinding, BrokerPlaces, CreatorPlaces,
           InZactorNew, InZsockWait, InRole, InErrActor, InDestroy, startupvars
  <2> QED
    BY <2>1, <2>2, <2>3, <2>4, <2>5, <2>6, <2>7, <2>8, <2>9, <2>10, <2>11, <2>12, <2>13, <2>14, <2>15, <2>16, <2>17, <2>18, ZenonT(30) DEF StartupNext, CreatorStep, BrokerStep
<1> QED
  BY <1>1, <1>2, PTL DEF StartupSpec

\* The property the runs check, for every behaviour of the two threads: a
\* broker never outlives bargs or the role, a role that is returned is
\* connected and ready, and a failed or destroyed one leaves nothing behind.
THEOREM StartupIsSafe == StartupSpec => []StartupSafe
<1>1. StartupInv => StartupSafe
  BY DEF StartupSafe, NeedsParams, NeedsRole, StartupInv, OpenAt, SetUp, Unwinding, BrokerPlaces, CreatorPlaces,
           InZactorNew, InZsockWait, InRole, InErrActor, InDestroy
<1> QED
  BY <1>1, SignalsMatch, PTL

-----------------------------------------------------------------------------
(* The OMPT tool.  What a recursive function computes is established with  *)
(* the least number for which it would fail.                               *)

Report == [time : Nat, count : Nat]

\* f adds up the first n reports of q.
IsSum(f, q, n) == f = [i \in 0..n |-> IF i = 0 THEN 0 ELSE f[i - 1] + q[i].count]

\* There is a function that adds up the reports,
LEMMA SumExists ==
  ASSUME NEW q \in Seq(Report)
  PROVE  \E f : IsSum(f, q, Len(q))
<1> DEFINE K == {n \in 0..Len(q) : ~\E f : IsSum(f, q, n)}
<1> SUFFICES ASSUME Len(q) \in K PROVE FALSE
  OBVIOUS
<1>1. PICK m \in K : \A k \in K : m <= k
  <2>1. K \in SUBSET Nat /\ K # {}
    BY SMTT(60)
  <2> HIDE DEF K
  <2> QED  BY <2>1, SmallestNat
<1>2. m \in 0..Len(q) /\ Len(q) \in Nat /\ ~\E f : IsSum(f, q, m)
  OBVIOUS
<1>3. CASE m = 0
  <2>1. IsSum([i \in 0..0 |-> 0], q, 0)
    BY DEF IsSum
  <2> QED  BY <1>2, <1>3, <2>1
<1>4. CASE m > 0
  <2>1. m - 1 \in 0..Len(q) /\ m - 1 \notin K
    BY <1>1, <1>2, <1>4
  <2>2. PICK f : IsSum(f, q, m - 1)
    BY <2>1
  <2> DEFINE g == [i \in 0..m |-> IF i = m THEN f[m - 1] + q[m].count ELSE f[i]]
  <2>3. \A i \in 0..m - 1 : g[i] = f[i] /\ f[i] = IF i = 0 THEN 0 ELSE f[i - 1] + q[i].count
    BY <1>2, <1>4, <2>2, SMTT(60) DEF IsSum
  <2>4. ASSUME NEW i \in 0..m
        PROVE  g[i] = IF i = 0 THEN 0 ELSE g[i - 1] + q[i].count
    <3>1. CASE i = m
      <4>1. m - 1 \in 0..m - 1 /\ m # 0 /\ m \in 0..m
        BY <1>2, <1>4
      <4>2. g[m] = f[m - 1] + q[m].count
        BY <4>1
      <4>3. g[m - 1] = f[m - 1]
        BY <2>3, <4>1
      <4> QED  BY <3>1, <4>1, <4>2, <4>3, Zenon
    <3>2. CASE i # m /\ i = 0
      <4>1. 0 \in 0..m - 1
        BY <1>2, <1>4, SMTT(60)
      <4> QED  BY <2>3, <3>2, <4>1, Zenon
    <3>3. CASE i # m /\ i # 0
      <4>1. i \in 0..m - 1 /\ i - 1 \in 0..m - 1
        BY <1>2, <3>3, SMTT(60)
      <4> QED  BY <2>3, <3>3, <4>1
    <3> QED  BY <3>1, <3>2, <3>3, Zenon
  <2>5. g = [i \in 0..m |-> g[i]]
    BY Zenon
  <2> HIDE DEF g
  <2>6. IsSum(g, q, m)
    BY <2>4, <2>5, Zenon DEF IsSum
  <2> QED  BY <1>2, <2>6
<1> QED  BY <1>2, <1>3, <1>4, SMTT(60)

\* and what Total computes is its last value.
LEMMA TotalIsSum ==
  ASSUME NEW q \in Seq(Report)
  PROVE  \E f : IsSum(f, q, Len(q)) /\ Total(q) = f[Len(q)]
<1> DEFINE f == CHOOSE f : IsSum(f, q, Len(q))
<1>1. IsSum(f, q, Len(q))
  BY SumExists
<1>2. Total(q) = f[Len(q)]
  BY DEF Total, IsSum
<1> QED  BY <1>1, <1>2, Zenon

\* Its values are natural numbers, and a report more does not change them.
LEMMA SumValues ==
  ASSUME NEW q \in Seq(Report), NEW f, IsSum(f, q, Len(q))
  PROVE  \A n \in 0..Len(q) : f[n] \in Nat
<1> DEFINE K == {n \in 0..Len(q) : f[n] \notin Nat}
<1> SUFFICES ASSUME K # {} PROVE FALSE
  OBVIOUS
<1>1. PICK m \in K : \A k \in K : m <= k
  <2>1. K \in SUBSET Nat
    BY SMTT(60)
  <2> HIDE DEF K
  <2> QED  BY <2>1, SmallestNat
<1>2. m \in 0..Len(q) /\ Len(q) \in Nat /\ f[m] \notin Nat
  OBVIOUS
<1>3. f[m] = IF m = 0 THEN 0 ELSE f[m - 1] + q[m].count
  BY <1>2 DEF IsSum
<1>4. m # 0 => f[m - 1] \in Nat
  BY <1>1, <1>2
<1>5. m # 0 => q[m].count \in Nat
  <2>1. m # 0 => q[m] \in Report
    BY <1>2
  <2> QED  BY <2>1 DEF Report
<1> QED  BY <1>2, <1>3, <1>4, <1>5, SMTT(60)

\* A report more adds its count to the total.
LEMMA TotalAppend ==
  ASSUME NEW q \in Seq(Report), NEW r \in Report
  PROVE  Total(q) \in Nat /\ Total(Append(q, r)) = Total(q) + r.count
<1>1. PICK f : IsSum(f, q, Len(q)) /\ Total(q) = f[Len(q)]
  BY TotalIsSum
<1> DEFINE s == Append(q, r)
<1>2. /\ s \in Seq(Report) /\ Len(s) = Len(q) + 1 /\ s[Len(q) + 1] = r /\ Len(q) \in Nat
      /\ \A i \in 1..Len(q) : s[i] = q[i]
  OBVIOUS
<1> HIDE DEF s
<1>3. PICK g : IsSum(g, s, Len(s)) /\ Total(s) = g[Len(s)]
  BY <1>2, TotalIsSum
<1>4. \A n \in 0..Len(q) : g[n] = f[n]
  <2> DEFINE K == {n \in 0..Len(q) : g[n] # f[n]}
  <2> SUFFICES ASSUME K # {} PROVE FALSE
    OBVIOUS
  <2>1. PICK m \in K : \A k \in K : m <= k
    <3>1. K \in SUBSET Nat
      BY SMTT(60)
    <3> HIDE DEF K
    <3> QED  BY <3>1, SmallestNat
  <2>2. m \in 0..Len(q) /\ m \in 0..Len(s) /\ g[m] # f[m]
    BY <1>2
  <2>3. f[m] = IF m = 0 THEN 0 ELSE f[m - 1] + q[m].count
    BY <1>1, <2>2 DEF IsSum
  <2>4. g[m] = IF m = 0 THEN 0 ELSE g[m - 1] + s[m].count
    BY <1>3, <2>2, Zenon DEF IsSum
  <2>5. m # 0 => g[m - 1] = f[m - 1] /\ s[m] = q[m]
    BY <1>2, <2>1, <2>2, SMTT(60)
  <2> QED  BY <2>2, <2>3, <2>4, <2>5
<1>5. g[Len(q) + 1] = g[Len(q)] + r.count
  <2>1. Len(q) + 1 \in 0..Len(s) /\ Len(q) + 1 # 0 /\ (Len(q) + 1) - 1 = Len(q)
    BY <1>2
  <2> QED  BY <1>2, <1>3, <2>1 DEF IsSum
<1>6. Len(q) \in 0..Len(q) /\ f[Len(q)] \in Nat
  BY <1>1, <1>2, SumValues, SMTT(60)
<1> QED  BY <1>1, <1>2, <1>3, <1>4, <1>5, <1>6 DEF s

\* No reports add up to nothing.
LEMMA TotalNone ==
  Total(<< >>) = 0
<1>1. << >> \in Seq(Report) /\ Len(<< >>) = 0
  OBVIOUS
<1>2. PICK f : IsSum(f, << >>, 0) /\ Total(<< >>) = f[0]
  BY <1>1, TotalIsSum, Zenon
<1> QED  BY <1>2 DEF IsSum

Inside == {"count", "send", "unlock"}

\* The lock: who is between TakeLock and Unlock holds it, alone.
LockInv ==
    /\ omppc \in [OmpThreads -> {"outside", "lock"} \cup Inside]
    /\ \A t \in OmpThreads : omppc[t] \in Inside <=> t \in global_lock
    /\ \A t, u \in global_lock : t = u

\* The times: a thread about to report has read the clock after last_send and
\* more than nrm_ratelimit later, and last_send is the time of the last report
\* of a callback.
TimesInv ==
    /\ clock \in Nat /\ last_send \in Nat
    /\ now \in [OmpThreads -> Nat]
    /\ global_count \in Nat /\ seen \in [OmpThreads -> Nat]
    /\ reports \in Seq(Report)
    /\ finalized \in BOOLEAN
    /\ finalized => \A t \in OmpThreads : omppc[t] = "outside"
    /\ \A t \in OmpThreads : omppc[t] = "send" => now[t] > last_send + RateLimit
    /\ ~finalized /\ reports # << >> => reports[Len(reports)].time = last_send
    /\ RateLimited

\* A step of a thread that holds the lock leaves it the only one.
LEMMA LockStep ==
  ASSUME LockInv, [OmptNext]_omptvars
  PROVE  LockInv'
<1> USE DEF LockInv, Inside
<1>1. CASE ClockTicks
  BY <1>1 DEF ClockTicks
<1>2. ASSUME NEW t \in OmpThreads, nrm_ompt_callback_dispatch_cb(t)
      PROVE  LockInv'
  BY <1>2 DEF nrm_ompt_callback_dispatch_cb
<1>3. ASSUME NEW t \in OmpThreads, TakeLock(t)
      PROVE  LockInv'
  BY <1>3 DEF TakeLock, LockFree
<1>4. ASSUME NEW t \in OmpThreads, AddOne(t)
      PROVE  LockInv'
  BY <1>4 DEF AddOne
<1>5. ASSUME NEW t \in OmpThreads, SendCount(t)
      PROVE  LockInv'
  BY <1>5 DEF SendCount
<1>6. ASSUME NEW t \in OmpThreads, Unlock(t)
      PROVE  LockInv'
  BY <1>6 DEF Unlock
<1>7. CASE nrm_ompt_ratelimit_finalize
  BY <1>7 DEF nrm_ompt_ratelimit_finalize
<1>8. CASE UNCHANGED omptvars
  BY <1>8 DEF omptvars
<1> QED  BY <1>1, <1>2, <1>3, <1>4, <1>5, <1>6, <1>7, <1>8 DEF OmptNext

\* A report that comes after the others keeps them in order and apart.
LEMMA ReportAdded ==
  ASSUME NEW q \in Seq(Report), NEW r \in Report,
         \A i \in 2..Len(q) : q[i].time > q[i - 1].time + RateLimit
  PROVE  /\ \A i \in 2..Len(q) : Append(q, r)[i].time > Append(q, r)[i - 1].time + RateLimit
         /\ Len(q) + 1 \in 2..Len(Append(q, r)) /\ r.time > q[Len(q)].time + RateLimit =>
              \A i \in 2..Len(Append(q, r)) :
                Append(q, r)[i].time > Append(q, r)[i - 1].time + RateLimit
<1>1. /\ Len(Append(q, r)) = Len(q) + 1 /\ Append(q, r)[Len(q) + 1] = r
      /\ \A i \in 1..Len(q) : Append(q, r)[i] = q[i]
      /\ Len(q) \in Nat
  OBVIOUS
<1>2. ASSUME NEW i \in 2..Len(q)
      PROVE  Append(q, r)[i].time > Append(q, r)[i - 1].time + RateLimit
  <2>1. i \in 1..Len(q) /\ i - 1 \in 1..Len(q)
    BY <1>1, SMTT(60)
  <2> QED  BY <1>1, <2>1
<1>3. ASSUME r.time > q[Len(q)].time + RateLimit, NEW i \in 2..Len(q) + 1
      PROVE  Append(q, r)[i].time > Append(q, r)[i - 1].time + RateLimit
  <2>1. CASE i \in 2..Len(q)
    BY <1>2, <2>1
  <2>2. CASE i = Len(q) + 1
    BY <1>1, <1>3, <2>2
  <2> QED  BY <1>1, <2>1, <2>2
<1> QED  BY <1>1, <1>2, <1>3, Zenon

\* Every step of the threads of the OMPT tool keeps the times of its reports
\* apart.
LEMMA TimesStep ==
  ASSUME LockInv, TimesInv, [OmptNext]_omptvars
  PROVE  TimesInv'
<1> USE OmptAssumption
<1>1. CASE ClockTicks
  BY <1>1 DEF ClockTicks, TimesInv, RateLimited
<1>2. ASSUME NEW t \in OmpThreads, nrm_ompt_callback_dispatch_cb(t)
      PROVE  TimesInv'
  BY <1>2 DEF nrm_ompt_callback_dispatch_cb, TimesInv, RateLimited, LockInv
<1>3. ASSUME NEW t \in OmpThreads, TakeLock(t)
      PROVE  TimesInv'
  BY <1>3 DEF TakeLock, TimesInv, RateLimited, LockInv
<1>4. ASSUME NEW t \in OmpThreads, AddOne(t)
      PROVE  TimesInv'
  BY <1>4, SMTT(60) DEF AddOne, TimesInv, RateLimited, LockInv
<1>5. ASSUME NEW t \in OmpThreads, SendCount(t)
      PROVE  TimesInv'
  <2> DEFINE r == [time |-> now[t], count |-> global_count]
  <2>1. /\ ~finalized /\ ~finalized' /\ reports' = Append(reports, r) /\ last_send' = now[t]
        /\ omppc[t] = "send" /\ omppc' = [omppc EXCEPT ![t] = "unlock"]
        /\ global_count' = 0
        /\ UNCHANGED <<clock, seen, now>>
    BY <1>5 DEF SendCount, TimesInv
  <2>2. r \in Report
    BY DEF TimesInv, Report
  <2>3. /\ reports' \in Seq(Report) /\ reports'[Len(reports')] = r
        /\ Len(reports') = Len(reports) + 1 /\ Len(reports) \in Nat
    BY <2>1, <2>2 DEF TimesInv
  <2>4. \A u \in OmpThreads : omppc'[u] # "send"
    BY <2>1 DEF LockInv, Inside
  <2>5. \A i \in 2..Len(reports) : reports[i].time > reports[i - 1].time + RateLimit
    BY <2>1 DEF TimesInv, RateLimited
  <2>6. RateLimited'
    <3>1. CASE reports = << >>
      BY <2>3, <3>1, SMTT(60) DEF RateLimited
    <3>2. CASE reports # << >>
      <4>1. r.time > reports[Len(reports)].time + RateLimit
        BY <2>1, <3>2 DEF TimesInv
      <4>2. Len(reports) + 1 \in 2..Len(Append(reports, r))
        BY <2>1, <2>3, <3>2, SMTT(60) DEF TimesInv
      <4>3. \A i \in 2..Len(reports') : reports'[i].time > reports'[i - 1].time + RateLimit
        BY <2>1, <2>2, <2>5, <4>1, <4>2, ReportAdded, Zenon DEF TimesInv
      <4> QED  BY <4>3 DEF RateLimited
    <3> QED  BY <3>1, <3>2
  <2>7. reports'[Len(reports')].time = last_send'
    BY <2>1, <2>3, SMTT(60)
  <2>8. clock' \in Nat /\ last_send' \in Nat /\ now' \in [OmpThreads -> Nat]
        /\ global_count' \in Int /\ seen' \in [OmpThreads -> Nat] /\ finalized' = FALSE
    BY <1>5, <2>1, SMTT(60) DEF TimesInv, SendCount
  <2> QED  BY <2>1, <2>3, <2>4, <2>6, <2>7, <2>8, Zenon DEF TimesInv
<1>6. ASSUME NEW t \in OmpThreads, Unlock(t)
      PROVE  TimesInv'
  BY <1>6 DEF Unlock, TimesInv, RateLimited, LockInv
<1>7. CASE nrm_ompt_ratelimit_finalize
  <2> DEFINE r == [time |-> clock, count |-> global_count]
  <2>1. /\ ~finalized /\ finalized' /\ last_send' = clock
        /\ reports' = IF global_count > 0 THEN Append(reports, r) ELSE reports
        /\ \A t \in OmpThreads : omppc[t] = "outside"
        /\ UNCHANGED <<clock, omppc, seen, now, global_count>>
    BY <1>7 DEF nrm_ompt_ratelimit_finalize
  <2>2. r \in Report
    BY DEF TimesInv, Report
  <2>3. reports' \in Seq(Report)
    <3>1. reports \in Seq(Report)
      BY DEF TimesInv
    <3> HIDE DEF r
    <3>2. Append(reports, r) \in Seq(Report)
      BY <2>2, <3>1, SMTT(60)
    <3> QED  BY <2>1, <3>1, <3>2, Zenon
  <2>4. \A i \in 2..Len(reports) : reports[i].time > reports[i - 1].time + RateLimit
    BY <2>1 DEF TimesInv, RateLimited
  <2>5. RateLimited'
    <3>1. CASE reports' = reports
      BY <2>4, <3>1 DEF RateLimited
    <3>2. CASE reports' = Append(reports, r)
      <4>1. Len(reports') = Len(reports) + 1 /\ Len(reports) \in Nat
        BY <2>2, <3>2, SMTT(60) DEF TimesInv
      <4>2. \A i \in 2..Len(reports) : reports'[i].time > reports'[i - 1].time + RateLimit
        BY <2>2, <2>4, <3>2, ReportAdded DEF TimesInv
      <4>3. ASSUME NEW i \in 2..Len(reports'), i < Len(reports')
            PROVE  i \in 2..Len(reports)
        BY <4>1, <4>3, SMTT(60)
      <4> QED  BY <2>1, <4>2, <4>3 DEF RateLimited
    <3> QED  BY <2>1, <3>1, <3>2
  <2> QED  BY <1>7, <2>1, <2>3, <2>5 DEF TimesInv, nrm_ompt_ratelimit_finalize
<1>8. CASE UNCHANGED omptvars
  BY <1>8 DEF omptvars, TimesInv, RateLimited
<1> QED  BY <1>1, <1>2, <1>3, <1>4, <1>5, <1>6, <1>7, <1>8 DEF OmptNext

\* The dispatches a thread has entered the callback for and not counted yet.
Pending == {t \in OmpThreads : omppc[t] \in {"lock", "count"}}

\* The counts: a dispatch is waiting to be counted, in the counter or in a
\* report, and a thread about to count it knows the counter's value.
CountInv ==
    /\ dispatches \in Nat
    /\ IsFiniteSet(Pending)
    /\ \A t \in OmpThreads : omppc[t] = "count" => seen[t] = global_count
    /\ dispatches = Reported + Cardinality(Pending) + (IF finalized THEN 0 ELSE global_count)

\* Every step of the threads of the OMPT tool keeps the account of the
\* dispatches.
LEMMA CountStep ==
  ASSUME LockInv, TimesInv, CountInv, [OmptNext]_omptvars
  PROVE  CountInv'
<1>0. /\ global_count \in Nat /\ Reported \in Nat /\ Cardinality(Pending) \in Nat /\ IsFiniteSet(Pending)
      /\ reports \in Seq(Report)
  <2>1. global_count \in Nat /\ reports \in Seq(Report)
    BY DEF TimesInv
  <2>2. [time |-> 0, count |-> 0] \in Report
    BY DEF Report
  <2>3. Reported \in Nat
    BY <2>1, <2>2, TotalAppend DEF Reported
  <2> QED  BY <2>1, <2>3, FS_CardinalityType DEF CountInv
<1>1. CASE ClockTicks \/ nrm_ompt_ratelimit_finalize \/ UNCHANGED omptvars
  <2>1. CASE ClockTicks \/ UNCHANGED omptvars
    BY <2>1 DEF ClockTicks, omptvars, CountInv, Pending, Reported
  <2>2. CASE nrm_ompt_ratelimit_finalize
    <3> DEFINE r == [time |-> clock, count |-> global_count]
    <3>1. /\ ~finalized /\ finalized' = TRUE
          /\ reports' = IF global_count > 0 THEN Append(reports, r) ELSE reports
          /\ UNCHANGED <<omppc, seen, global_count, dispatches>>
      BY <2>2 DEF nrm_ompt_ratelimit_finalize
    <3>2. Reported' = Reported + global_count
      <4>1. r \in Report /\ r.count = global_count
        BY DEF TimesInv, Report
      <4> HIDE DEF r
      <4>2. CASE global_count > 0
        BY <1>0, <3>1, <4>1, <4>2, TotalAppend DEF Reported
      <4>3. CASE ~(global_count > 0)
        BY <1>0, <3>1, <4>3 DEF Reported
      <4> QED  BY <4>2, <4>3
    <3>3. Pending' = Pending
      BY <3>1 DEF Pending
    <3> QED  BY <1>0, <3>1, <3>2, <3>3 DEF CountInv
  <2> QED  BY <1>1, <2>1, <2>2
<1>2. ASSUME NEW t \in OmpThreads, nrm_ompt_callback_dispatch_cb(t)
      PROVE  CountInv'
  <2>1. /\ ~finalized /\ omppc[t] = "outside" /\ dispatches' = dispatches + 1
        /\ omppc' = [omppc EXCEPT ![t] = "lock"]
        /\ UNCHANGED <<seen, global_count, reports, finalized>>
    BY <1>2 DEF nrm_ompt_callback_dispatch_cb
  <2>2. Pending' = Pending \cup {t} /\ t \notin Pending
    BY <2>1 DEF Pending, LockInv
  <2>3. IsFiniteSet(Pending') /\ Cardinality(Pending') = Cardinality(Pending) + 1
    BY <1>0, <2>2, FS_AddElement, Zenon
  <2>4. Reported' = Reported
    BY <2>1 DEF Reported
  <2>5. \A u \in OmpThreads : omppc'[u] = "count" => seen'[u] = global_count'
    BY <2>1 DEF CountInv, LockInv
  <2> QED  BY <1>0, <2>1, <2>3, <2>4, <2>5 DEF CountInv
<1>3. ASSUME NEW t \in OmpThreads, TakeLock(t)
      PROVE  CountInv'
  <2>1. /\ omppc[t] = "lock" /\ omppc' = [omppc EXCEPT ![t] = "count"]
        /\ seen' = [seen EXCEPT ![t] = global_count]
        /\ UNCHANGED <<global_count, reports, finalized, dispatches>>
    BY <1>3 DEF TakeLock
  <2>2. Pending' = Pending /\ Reported' = Reported
    BY <2>1, SMTT(60) DEF Pending, LockInv, Reported
  <2>3. \A u \in OmpThreads : omppc'[u] = "count" => seen'[u] = global_count'
    BY <2>1 DEF CountInv, LockInv, TimesInv
  <2> QED  BY <1>0, <2>1, <2>2, <2>3 DEF CountInv
<1>4. ASSUME NEW t \in OmpThreads, AddOne(t)
      PROVE  CountInv'
  <2>1. /\ omppc[t] = "count" /\ global_count' = seen[t] + 1
        /\ \E p \in {"send", "unlock"} : omppc' = [omppc EXCEPT ![t] = p]
        /\ UNCHANGED <<seen, reports, finalized, dispatches>>
    BY <1>4, Zenon DEF AddOne
  <2>2. ~finalized /\ global_count' = global_count + 1
    BY <2>1 DEF TimesInv, CountInv
  <2>3. Pending' = Pending \ {t} /\ t \in Pending
    BY <2>1 DEF Pending, LockInv
  <2>4. IsFiniteSet(Pending') /\ Cardinality(Pending') = Cardinality(Pending) - 1
    BY <1>0, <2>3, FS_RemoveElement, Zenon
  <2>5. Reported' = Reported
    BY <2>1 DEF Reported
  <2>6. \A u \in OmpThreads : omppc'[u] # "count"
    BY <2>1 DEF LockInv, Inside
  <2> QED  BY <1>0, <2>1, <2>2, <2>4, <2>5, <2>6, SMTT(60) DEF CountInv
<1>5. ASSUME NEW t \in OmpThreads, SendCount(t)
      PROVE  CountInv'
  <2> DEFINE r == [time |-> now[t], count |-> global_count]
  <2>1. /\ omppc[t] = "send" /\ omppc' = [omppc EXCEPT ![t] = "unlock"]
        /\ reports' = Append(reports, r) /\ global_count' = 0
        /\ UNCHANGED <<seen, finalized, dispatches>>
    BY <1>5 DEF SendCount
  <2>2. r \in Report /\ r.count = global_count
    BY DEF TimesInv, Report
  <2>3. Reported' = Reported + global_count
    <3> HIDE DEF r
    <3> QED  BY <1>0, <2>1, <2>2, TotalAppend DEF Reported
  <2>4. Pending' = Pending /\ ~finalized
    BY <2>1 DEF Pending, LockInv, TimesInv
  <2>5. \A u \in OmpThreads : omppc'[u] # "count"
    BY <2>1 DEF LockInv, Inside
  <2> QED  BY <1>0, <2>1, <2>3, <2>4, <2>5 DEF CountInv
<1>6. ASSUME NEW t \in OmpThreads, Unlock(t)
      PROVE  CountInv'
  <2>1. /\ omppc[t] = "unlock" /\ omppc' = [omppc EXCEPT ![t] = "outside"]
        /\ UNCHANGED <<seen, global_count, reports, finalized, dispatches>>
    BY <1>6 DEF Unlock
  <2>2. Pending' = Pending /\ Reported' = Reported
    BY <2>1 DEF Pending, LockInv, Reported
  <2>3. \A u \in OmpThreads : omppc'[u] = "count" => seen'[u] = global_count'
    BY <2>1 DEF CountInv, LockInv
  <2> QED  BY <1>0, <2>1, <2>2, <2>3 DEF CountInv
<1> QED  BY <1>1, <1>2, <1>3, <1>4, <1>5, <1>6 DEF OmptNext

OmptInv == LockInv /\ TimesInv /\ CountInv

\* The lock, the times and the counts of the OMPT tool are always consistent,
\* for any number of threads.
THEOREM OmptConsistent == OmptInit /\ [][OmptNext]_omptvars => []OmptInv
<1>1. OmptInit => OmptInv
  <2> SUFFICES ASSUME OmptInit PROVE LockInv /\ TimesInv /\ CountInv
    BY DEF OmptInv
  <2>1. LockInv
    BY DEF OmptInit, LockInv, Inside
  <2>2. reports = << >> /\ reports \in Seq(Report) /\ RateLimited
    BY DEF OmptInit, RateLimited
  <2>3. /\ clock \in Nat /\ last_send \in Nat /\ global_count \in Nat /\ finalized = FALSE
        /\ now \in [OmpThreads -> Nat] /\ seen \in [OmpThreads -> Nat]
        /\ \A t \in OmpThreads : omppc[t] = "outside" /\ omppc[t] # "send"
    BY DEF OmptInit
  <2>4. TimesInv
    BY <2>2, <2>3, Zenon DEF TimesInv
  <2>5. Pending = {} /\ Reported = 0
    BY <2>2, <2>3, TotalNone DEF Pending, Reported
  <2>6. CountInv
    BY <2>3, <2>5, FS_EmptySet, SMTT(60) DEF CountInv, OmptInit
  <2> QED  BY <2>1, <2>4, <2>6
<1>2. OmptInv /\ [OmptNext]_omptvars => OmptInv'
  BY LockStep, TimesStep, CountStep DEF OmptInv
<1> QED  BY <1>1, <1>2, PTL

\* The reports of the callbacks are in the order of their times and more than
\* nrm_ratelimit apart (RateLimited).
THEOREM ReportsApart == OmptInit /\ [][OmptNext]_omptvars => []RateLimited
<1>1. OmptInv => RateLimited
  BY DEF OmptInv, TimesInv
<1> QED  BY <1>1, OmptConsistent, PTL

\* Every dispatch is counted once, in a report or in the counter
\* (DispatchesCounted).
THEOREM EachDispatchCounted == OmptInit /\ [][OmptNext]_omptvars => []DispatchesCounted
<1>1. OmptInv => DispatchesCounted
  <2> SUFFICES ASSUME OmptInv, \A t \in OmpThreads : omppc[t] = "outside"
               PROVE  dispatches = Reported + (IF finalized THEN 0 ELSE global_count)
    BY DEF DispatchesCounted
  <2>1. Pending = {}
    BY DEF Pending
  <2>2. Cardinality(Pending) = 0
    BY <2>1, FS_EmptySet
  <2>3. Reported \in Nat
    <3>1. [time |-> 0, count |-> 0] \in Report
      BY DEF Report
    <3> QED  BY <3>1, TotalAppend DEF OmptInv, TimesInv, Reported
  <2> QED  BY <2>2, <2>3 DEF OmptInv, CountInv, TimesInv
<1> QED  BY <1>1, OmptConsistent, PTL

-----------------------------------------------------------------------------
(* Topics: every place of a topic in the pipe holds a reference, and so    *)
(* does nrmd until it tears down.                                          *)

\* The places of a topic in the pipe, each of which holds a reference.
At(q, t) == {i \in DOMAIN q : q[i] = t}

TopicsInv ==
    /\ rc \in [Topics -> Nat] /\ held \in SUBSET Topics /\ broker \in BOOLEAN
    /\ pubpipe \in Seq(Topics \cup {"TERM"})
    /\ touched = {}
    /\ \A t \in Topics : rc[t] = Cardinality(At(pubpipe, t)) + (IF t \in held THEN 1 ELSE 0)
    /\ freed = {t \in Topics : rc[t] = 0}
    /\ \A i \in DOMAIN pubpipe : pubpipe[i] = "TERM" => i = Len(pubpipe) /\ held = {}
    /\ ~broker => pubpipe = << >> /\ held = {}

\* A pipe holds a topic finitely often,
LEMMA AtFinite ==
  ASSUME NEW S, NEW q \in Seq(S), NEW t
  PROVE  IsFiniteSet(At(q, t)) /\ Cardinality(At(q, t)) \in Nat
<1>1. IsFiniteSet(1..Len(q))
  BY FS_Interval, SMTT(60)
<1>2. At(q, t) \in SUBSET (1..Len(q))
  BY SMTT(60) DEF At
<1> QED  BY <1>1, <1>2, FS_Subset, FS_CardinalityType

\* and an empty pipe never.
LEMMA AtEmpty ==
  ASSUME NEW t
  PROVE  Cardinality(At(<< >>, t)) = 0
<1>1. << >> \in Seq({}) /\ DOMAIN << >> = 1..0
  OBVIOUS
<1>2. 1..0 = {}
  OBVIOUS
<1>3. At(<< >>, t) = {}
  BY <1>1, <1>2, Zenon DEF At
<1> QED  BY <1>3, FS_EmptySet

\* A topic that is published is on the pipe once more.
LEMMA AtAppend ==
  ASSUME NEW S, NEW q \in Seq(S), NEW x \in S, NEW t
  PROVE  Cardinality(At(Append(q, x), t)) = Cardinality(At(q, t)) + (IF x = t THEN 1 ELSE 0)
<1>1. At(Append(q, x), t) = IF x = t THEN At(q, t) \cup {Len(q) + 1} ELSE At(q, t)
  <2>1. DOMAIN Append(q, x) = 1..Len(q) + 1 /\ DOMAIN q = 1..Len(q) /\ Len(q) \in Nat
    OBVIOUS
  <2>2. Append(q, x)[Len(q) + 1] = x /\ \A i \in 1..Len(q) : Append(q, x)[i] = q[i]
    OBVIOUS
  <2>3. \A i : i \in 1..Len(q) + 1 <=> i \in 1..Len(q) \/ i = Len(q) + 1
    BY <2>1
  <2> QED  BY <2>1, <2>2, <2>3, Zenon DEF At
<1>2. Len(q) + 1 \notin At(q, t)
  BY DEF At
<1>3. IsFiniteSet(At(q, t)) /\ Cardinality(At(q, t)) \in Nat
  BY AtFinite
<1>4. CASE x = t
  <2>1. Cardinality(At(q, t) \cup {Len(q) + 1}) = Cardinality(At(q, t)) + 1
    BY <1>2, <1>3, FS_AddElement, Zenon
  <2> QED  BY <1>1, <1>4, <2>1
<1>5. CASE x # t
  BY <1>1, <1>3, <1>5, SMTT(60)
<1> QED  BY <1>4, <1>5

\* and one less after it was taken off the front.
LEMMA AtTail ==
  ASSUME NEW S, NEW q \in Seq(S), q # << >>, NEW t
  PROVE  Cardinality(At(Tail(q), t)) = Cardinality(At(q, t)) - (IF Head(q) = t THEN 1 ELSE 0)
<1>1. /\ DOMAIN q = 1..Len(q) /\ Len(q) \in Nat \ {0} /\ Head(q) = q[1]
      /\ DOMAIN Tail(q) = 1..Len(q) - 1 /\ \A i \in 1..Len(q) - 1 : Tail(q)[i] = q[i + 1]
      /\ Tail(q) \in Seq(S)
  BY HeadTailProperties, SMTT(60)
<1> DEFINE A == At(q, t) \ {1}
           B == At(Tail(q), t)
           f == [i \in B |-> i + 1]
<1>2. \A i \in B : i \in Nat /\ i + 1 \in A
  BY <1>1, SMTT(60) DEF At
<1>3. \A k \in A : k - 1 \in B /\ k = (k - 1) + 1
  BY <1>1, SMTT(60) DEF At
<1>4. f \in Bijection(B, A)
  <2> HIDE DEF A, B
  <2>1. f \in Injection(B, A)
    BY <1>2, SMTT(60) DEF Injection, IsInjective
  <2>2. f \in Surjection(B, A)
    BY <1>2, <1>3 DEF Surjection
  <2> QED  BY <2>1, <2>2 DEF Bijection
<1>5. IsFiniteSet(B) /\ IsFiniteSet(At(q, t)) /\ Cardinality(At(q, t)) \in Nat
  BY <1>1, AtFinite, Zenon
<1>6. Cardinality(B) = Cardinality(A)
  <2> HIDE DEF A, B, f
  <2> QED  BY <1>4, <1>5, FS_Bijection DEF ExistsBijection
<1>7. 1 \in At(q, t) <=> Head(q) = t
  BY <1>1, SMTT(60) DEF At
<1>8. Cardinality(A) = IF 1 \in At(q, t) THEN Cardinality(At(q, t)) - 1 ELSE Cardinality(At(q, t))
  BY <1>5, FS_RemoveElement, Zenon
<1> HIDE DEF A, B
<1> QED  BY <1>5, <1>6, <1>7, <1>8 DEF B

\* Every step of the publisher and of its broker keeps the account of the
\* topics.
LEMMA TopicsStep ==
  ASSUME TopicsInv, [TopicsNext]_topicvars
  PROVE  TopicsInv'
<1> DEFINE T == Topics \cup {"TERM"}
<1>0. /\ rc \in [Topics -> Nat] /\ held \in SUBSET Topics /\ broker \in BOOLEAN /\ pubpipe \in Seq(T)
      /\ touched = {} /\ freed = {t \in Topics : rc[t] = 0}
      /\ \A t \in Topics : rc[t] = Cardinality(At(pubpipe, t)) + (IF t \in held THEN 1 ELSE 0)
      /\ \A i \in DOMAIN pubpipe : pubpipe[i] = "TERM" => i = Len(pubpipe) /\ held = {}
      /\ ~broker => pubpipe = << >> /\ held = {}
      /\ \A t \in Topics : Cardinality(At(pubpipe, t)) \in Nat
  BY AtFinite DEF TopicsInv
<1> HIDE DEF T
<1>1. ASSUME NEW t \in Topics, nrm_role_controller_pub(t)
      PROVE  TopicsInv'
  <2>1. /\ held = Topics /\ rc' = [rc EXCEPT ![t] = @ + 1] /\ pubpipe' = Append(pubpipe, t)
        /\ UNCHANGED <<freed, held, broker, touched>>
    BY <1>1 DEF nrm_role_controller_pub, nrm_string_incref
  <2>2. t \in T /\ t # "TERM"
    BY TopicsAssumption DEF T
  <2>3. rc' \in [Topics -> Nat] /\ pubpipe' \in Seq(T)
    BY <1>0, <2>1, <2>2, SMTT(60)
  <2>4. ASSUME NEW u \in Topics
        PROVE  rc'[u] = Cardinality(At(pubpipe', u)) + (IF u \in held' THEN 1 ELSE 0)
    <3>1. Cardinality(At(pubpipe', u)) = Cardinality(At(pubpipe, u)) + (IF t = u THEN 1 ELSE 0)
      BY <1>0, <2>1, <2>2, AtAppend, SMTT(60)
    <3>2. rc'[u] = rc[u] + (IF t = u THEN 1 ELSE 0)
      BY <1>0, <2>1, SMTT(60)
    <3> QED  BY <1>0, <2>1, <3>1, <3>2, SMTT(60)
  <2>5. freed' = {u \in Topics : rc'[u] = 0}
    <3>1. \A u \in Topics : rc[u] # 0 /\ rc'[u] # 0
      BY <1>0, <2>1, SMTT(60)
    <3> QED  BY <1>0, <2>1, <3>1
  <2>6. \A i \in DOMAIN pubpipe' : pubpipe'[i] # "TERM"
    BY <1>0, <2>1, <2>2, SMTT(60)
  <2>7. broker
    BY <1>0, <2>1
  <2> QED  BY <1>0, <2>1, <2>3, <2>4, <2>5, <2>6, <2>7 DEF TopicsInv, T
<1>2. ASSUME NEW t \in Topics, DropTopic(t)
      PROVE  TopicsInv'
  <2>1. /\ t \in held /\ rc' = [rc EXCEPT ![t] = @ - 1] /\ held' = held \ {t}
        /\ freed' = IF rc[t] - 1 = 0 THEN freed \cup {t} ELSE freed
        /\ UNCHANGED <<pubpipe, broker, touched>>
    BY <1>2 DEF DropTopic, nrm_string_decref
  <2>2. ASSUME NEW u \in Topics
        PROVE  /\ rc'[u] = Cardinality(At(pubpipe, u)) + (IF u \in held' THEN 1 ELSE 0)
               /\ rc'[u] \in Nat
               /\ u \in freed' <=> rc'[u] = 0
    BY <1>0, <2>1, SMTT(60)
  <2>3. rc' \in [Topics -> Nat] /\ freed' = {u \in Topics : rc'[u] = 0}
    BY <1>0, <2>1, <2>2, Zenon
  <2> QED  BY <1>0, <2>1, <2>2, <2>3, Zenon DEF TopicsInv, T
<1>3. CASE nrm_role_controller_destroy
  <2>1. /\ held = {} /\ broker /\ \A i \in DOMAIN pubpipe : pubpipe[i] # "TERM"
        /\ pubpipe' = Append(pubpipe, "TERM") /\ UNCHANGED <<rc, freed, held, broker, touched>>
    BY <1>3 DEF nrm_role_controller_destroy
  <2>2. "TERM" \in T
    BY DEF T
  <2>3. pubpipe' \in Seq(T)
    BY <1>0, <2>1, <2>2, SMTT(60)
  <2>4. \A u \in Topics : Cardinality(At(pubpipe', u)) = Cardinality(At(pubpipe, u))
    <3> TAKE u \in Topics
    <3>1. u # "TERM"
      BY TopicsAssumption
    <3>2. Cardinality(At(pubpipe', u)) = Cardinality(At(pubpipe, u)) + (IF "TERM" = u THEN 1 ELSE 0)
      BY <1>0, <2>1, <2>2, AtAppend, SMTT(60)
    <3> QED  BY <1>0, <3>1, <3>2
  <2>5. \A i \in DOMAIN pubpipe' : pubpipe'[i] = "TERM" => i = Len(pubpipe')
    BY <1>0, <2>1, SMTT(60)
  <2> QED  BY <1>0, <2>1, <2>3, <2>4, <2>5 DEF TopicsInv, T
<1>4. CASE nrm_controller_broker_pipe_handler
  <2> DEFINE h == Head(pubpipe)
  <2>1. broker /\ pubpipe # << >> /\ pubpipe' = Tail(pubpipe) /\ held' = held
    BY <1>4 DEF nrm_controller_broker_pipe_handler
  <2>2. /\ pubpipe' \in Seq(T) /\ Len(pubpipe') = Len(pubpipe) - 1 /\ Len(pubpipe) \in Nat \ {0}
        /\ \A i \in 1..Len(pubpipe') : pubpipe'[i] = pubpipe[i + 1]
        /\ h \in T /\ h = pubpipe[1]
    BY <1>0, <2>1, HeadTailProperties, SMTT(60)
  <2>3. \A i \in DOMAIN pubpipe' : pubpipe'[i] = "TERM" => i = Len(pubpipe') /\ held' = {}
    BY <1>0, <2>1, <2>2, SMTT(60)
  <2>4. \A u : Cardinality(At(pubpipe', u)) = Cardinality(At(pubpipe, u)) - (IF h = u THEN 1 ELSE 0)
    BY <1>0, <2>1, AtTail
  <2>5. CASE h = "TERM"
    <3>1. broker' = FALSE /\ UNCHANGED <<rc, freed, touched>>
      BY <1>4, <2>5, Zenon DEF nrm_controller_broker_pipe_handler
    <3>2. held' = {} /\ Len(pubpipe') = 0
      BY <1>0, <2>1, <2>2, <2>5, SMTT(60)
    <3>3. \A u \in Topics : Cardinality(At(pubpipe', u)) = Cardinality(At(pubpipe, u))
      BY <1>0, <2>4, <2>5, TopicsAssumption, SMTT(60)
    <3>4. pubpipe' = << >>
      BY <2>2, <3>2, SMTT(60)
    <3> QED  BY <1>0, <2>1, <2>2, <2>3, <3>1, <3>2, <3>3, <3>4, Zenon DEF TopicsInv, T
  <2>6. CASE h # "TERM"
    <3>1. /\ touched' = touched \cup ({h} \cap freed)
          /\ rc' = [rc EXCEPT ![h] = @ - 1]
          /\ freed' = IF rc[h] - 1 = 0 THEN freed \cup {h} ELSE freed
          /\ broker' = broker
      BY <1>4, <2>6, Zenon DEF nrm_controller_broker_pipe_handler, nrm_string_decref
    <3>2. h \in Topics
      BY <2>2, <2>6 DEF T
    <3>3. Cardinality(At(pubpipe, h)) > 0
      <4>1. Cardinality(At(pubpipe', h)) \in Nat
        BY <2>2, AtFinite
      <4> QED  BY <1>0, <2>4, <3>2, <4>1, SMTT(60)
    <3>4. rc[h] > 0 /\ h \notin freed /\ touched' = {}
      BY <1>0, <3>1, <3>2, <3>3, SMTT(60)
    <3>5. ASSUME NEW u \in Topics
          PROVE  /\ rc'[u] = Cardinality(At(pubpipe', u)) + (IF u \in held' THEN 1 ELSE 0)
                 /\ rc'[u] \in Nat
                 /\ u \in freed' <=> rc'[u] = 0
      BY <1>0, <2>1, <2>4, <3>1, <3>2, <3>4, SMTT(60)
    <3>6. rc' \in [Topics -> Nat] /\ freed' = {u \in Topics : rc'[u] = 0}
      BY <1>0, <3>1, <3>2, <3>5
    <3> QED  BY <1>0, <2>1, <2>2, <2>3, <3>1, <3>4, <3>5, <3>6 DEF TopicsInv, T
  <2> QED  BY <2>5, <2>6
<1>5. CASE UNCHANGED topicvars
  BY <1>5 DEF topicvars, TopicsInv
<1> QED  BY <1>1, <1>2, <1>3, <1>4, <1>5 DEF TopicsNext

\* The broker never reads a topic whose memory is gone, and none is left when
\* it has ended (TopicsOutlivePipe), for any topics and any length of the pipe.
THEOREM TopicsSafe == TopicsInit /\ [][TopicsNext]_topicvars => []TopicsOutlivePipe
<1>1. TopicsInit => TopicsInv
  <2> SUFFICES ASSUME TopicsInit PROVE TopicsInv
    OBVIOUS
  <2>1. \A t \in Topics : Cardinality(At(pubpipe, t)) = 0
    BY AtEmpty DEF TopicsInit
  <2>2. pubpipe \in Seq(Topics \cup {"TERM"}) /\ DOMAIN pubpipe = {}
    BY DEF TopicsInit
  <2>3. rc \in [Topics -> Nat] /\ \A t \in Topics : rc[t] = 1
    BY DEF TopicsInit
  <2>4. freed = {t \in Topics : rc[t] = 0}
    BY <2>3 DEF TopicsInit
  <2> QED  BY <2>1, <2>2, <2>3, <2>4, SMTT(60) DEF TopicsInit, TopicsInv
<1>2. TopicsInv => TopicsOutlivePipe
  <2> SUFFICES ASSUME TopicsInv, ~broker PROVE freed = Topics
    BY DEF TopicsInv, TopicsOutlivePipe
  <2>1. \A t \in Topics : rc[t] = 0
    <3> TAKE t \in Topics
    <3>1. pubpipe = << >> /\ held = {}
      BY DEF TopicsInv
    <3>2. Cardinality(At(pubpipe, t)) = 0
      BY <3>1, AtEmpty, Zenon
    <3>3. rc[t] = Cardinality(At(pubpipe, t)) + (IF t \in held THEN 1 ELSE 0)
      BY DEF TopicsInv
    <3> QED  BY <3>1, <3>2, <3>3, SMTT(60)
  <2> QED  BY <2>1 DEF TopicsInv
<1> QED  BY <1>1, <1>2, TopicsStep, PTL

-----------------------------------------------------------------------------
(* The scope of a parallel region.                                         *)

\* A place in the array of words and one in the word make a place in the
\* bitmap.
LEMMA WordPlace ==
  ASSUME NEW W \in Nat \ {0}, NEW n \in Nat, NEW i \in Nat, i < n * W
  PROVE  /\ i \div W \in 0..n - 1 /\ i % W \in 0..W - 1
         /\ i = W * (i \div W) + (i % W)
<1>1. i \div W \in Int /\ i % W \in 0..W - 1 /\ i = W * (i \div W) + (i % W)
  OBVIOUS
<1>2. i \div W < n
  <2> SUFFICES ASSUME i \div W >= n PROVE FALSE
    BY <1>1
  <2>1. W * (i \div W) >= W * n
    BY <1>1
  <2> QED  BY <1>1, <2>1, SMTT(60)
<1>3. i \div W >= 0
  OBVIOUS
<1> QED  BY <1>1, <1>2, <1>3, SMTT(60)

\* Setting a bit sets that one and no other, and a bit past the end none
\* (nrm_bitmap_set).
LEMMA BitSet ==
  ASSUME NEW b \in Bitmap, NEW i \in Nat
  PROVE  /\ nrm_bitmap_set(b, i) \in Bitmap
         /\ \A j \in 0..BitmapMax - 1 :
              nrm_bitmap_isset(nrm_bitmap_set(b, i), j) <=> nrm_bitmap_isset(b, j) \/ j = i
<1>0. WordBits \in Nat \ {0} /\ Words \in Nat \ {0} /\ BitmapMax \in Nat
  BY ScopesAssumption, SMTT(60) DEF BitmapMax
<1>1. CASE i >= BitmapMax
  <2>1. nrm_bitmap_set(b, i) = b /\ \A j \in 0..BitmapMax - 1 : j # i
    BY <1>0, <1>1 DEF nrm_bitmap_set
  <2> QED  BY <2>1
<1>2. CASE i < BitmapMax
  <2> DEFINE w == i \div WordBits
             r == i % WordBits
             c == [b EXCEPT ![w] = b[w] \cup {r}]
  <2>1. w \in 0..Words - 1 /\ r \in 0..WordBits - 1 /\ i = WordBits * w + r
    BY <1>0, <1>2, WordPlace DEF BitmapMax
  <2>2. nrm_bitmap_set(b, i) = c
    BY <1>0, <1>2, SMTT(60) DEF nrm_bitmap_set
  <2> HIDE DEF w, r
  <2>3. c \in Bitmap
    BY <2>1 DEF Bitmap
  <2>4. ASSUME NEW j \in 0..BitmapMax - 1
        PROVE  nrm_bitmap_isset(c, j) <=> nrm_bitmap_isset(b, j) \/ j = i
    <3> DEFINE v == j \div WordBits
               s == j % WordBits
    <3>1. v \in 0..Words - 1 /\ s \in 0..WordBits - 1 /\ j = WordBits * v + s
      <4>1. j \in Nat /\ j < Words * WordBits
        BY <1>0, SMTT(60) DEF BitmapMax
      <4> QED  BY <1>0, <4>1, WordPlace, Zenon
    <3>2. j < BitmapMax
      BY <1>0
    <3>3. \A d : nrm_bitmap_isset(d, j) <=> s \in d[v]
      BY <3>2 DEF nrm_bitmap_isset
    <3> HIDE DEF v, s
    <3>4. c[v] = IF v = w THEN b[w] \cup {r} ELSE b[v]
      BY <2>1, <3>1 DEF Bitmap
    <3> HIDE DEF c
    <3>5. j = i <=> v = w /\ s = r
      <4>1. j = i => v = w /\ s = r
        BY DEF v, w, s, r
      <4>2. v = w /\ s = r => j = i
        BY <2>1, <3>1
      <4> QED  BY <4>1, <4>2
    <3>6. CASE v = w
      BY <3>3, <3>4, <3>5, <3>6, Zenon
    <3>7. CASE v # w
      BY <3>3, <3>4, <3>5, <3>7, Zenon
    <3> QED  BY <3>6, <3>7
  <2> QED  BY <2>2, <2>3, <2>4
<1> QED  BY <1>0, <1>1, <1>2, SMTT(60)

AfterCpu == {"numa", "done"}

\* The bits of the shared scope are those of the threads that have passed.
SharedInv ==
    /\ shared \in [Types -> Bitmap]
    /\ place \in [Threads -> Places]
    /\ step \in [Threads -> {"getcpu", "cpu"} \cup AfterCpu]
    /\ \A i \in 0..BitmapMax - 1 :
        /\ nrm_bitmap_isset(shared["cpu"], i)
               <=> \E t \in Threads : step[t] \in AfterCpu /\ place[t][1] = i
        /\ nrm_bitmap_isset(shared["numa"], i)
               <=> \E t \in Threads : step[t] = "done" /\ place[t][2] = i

\* Each thread adds its place and loses none of the others', in whatever order
\* their steps come (nrm_scope_threadshared).
LEMMA SharedStep ==
  ASSUME SharedInv, [ScopesNext]_scopevars
  PROVE  SharedInv'
<1>0. "cpu" \in Types /\ "numa" \in Types /\ \A t \in Threads : place[t][1] \in Nat /\ place[t][2] \in Nat
  BY ScopesAssumption, SMTT(60) DEF Types, SharedInv
<1>1. ASSUME NEW t \in Threads, Arrive(t)
      PROVE  SharedInv'
  BY <1>1, ZenonT(30) DEF Arrive, SharedInv, AfterCpu
<1>2. ASSUME NEW t \in Threads, AddCpu(t)
      PROVE  SharedInv'
  <2> DEFINE new == nrm_bitmap_set(shared["cpu"], place[t][1])
  <2>1. /\ step[t] = "cpu" /\ step' = [step EXCEPT ![t] = "numa"] /\ place' = place
        /\ shared' = [shared EXCEPT !["cpu"] = new]
    BY <1>2 DEF AddCpu, nrm_bitmap_set_atomic
  <2>2. shared["cpu"] \in Bitmap
    BY <1>0 DEF SharedInv
  <2>3. /\ new \in Bitmap
        /\ \A i \in 0..BitmapMax - 1 :
             nrm_bitmap_isset(new, i) <=> nrm_bitmap_isset(shared["cpu"], i) \/ i = place[t][1]
    BY <1>0, <2>2, BitSet, ZenonT(30)
  <2> HIDE DEF new
  <2>4. /\ shared' \in [Types -> Bitmap] /\ shared'["cpu"] = new /\ shared'["numa"] = shared["numa"]
    BY <1>0, <2>1, <2>3 DEF SharedInv
  <2>5. \A u \in Threads : /\ step'[u] \in AfterCpu <=> step[u] \in AfterCpu \/ u = t
                           /\ step'[u] = "done" <=> step[u] = "done"
    BY <2>1 DEF SharedInv, AfterCpu
  <2>6. ASSUME NEW i \in 0..BitmapMax - 1
        PROVE  nrm_bitmap_isset(new, i)
                 <=> \E u \in Threads : step'[u] \in AfterCpu /\ place'[u][1] = i
    <3>1. nrm_bitmap_isset(shared["cpu"], i)
            <=> \E u \in Threads : step[u] \in AfterCpu /\ place[u][1] = i
      BY DEF SharedInv
    <3> QED  BY <2>1, <2>3, <2>5, <3>1, Zenon
  <2>7. ASSUME NEW i \in 0..BitmapMax - 1
        PROVE  nrm_bitmap_isset(shared["numa"], i)
                 <=> \E u \in Threads : step'[u] = "done" /\ place'[u][2] = i
    BY <2>1, <2>5, Zenon DEF SharedInv
  <2>8. step' \in [Threads -> {"getcpu", "cpu"} \cup AfterCpu] /\ place' \in [Threads -> Places]
    BY <2>1 DEF SharedInv, AfterCpu
  <2> QED  BY <2>4, <2>6, <2>7, <2>8 DEF SharedInv
<1>3. ASSUME NEW t \in Threads, AddNode(t)
      PROVE  SharedInv'
  <2> DEFINE new == nrm_bitmap_set(shared["numa"], place[t][2])
  <2>1. /\ step[t] = "numa" /\ step' = [step EXCEPT ![t] = "done"] /\ place' = place
        /\ shared' = [shared EXCEPT !["numa"] = new]
    BY <1>3 DEF AddNode, nrm_bitmap_set_atomic
  <2>2. shared["numa"] \in Bitmap
    BY <1>0 DEF SharedInv
  <2>3. /\ new \in Bitmap
        /\ \A i \in 0..BitmapMax - 1 :
             nrm_bitmap_isset(new, i) <=> nrm_bitmap_isset(shared["numa"], i) \/ i = place[t][2]
    BY <1>0, <2>2, BitSet, ZenonT(30)
  <2> HIDE DEF new
  <2>4. /\ shared' \in [Types -> Bitmap] /\ shared'["numa"] = new /\ shared'["cpu"] = shared["cpu"]
    BY <1>0, <2>1, <2>3 DEF SharedInv
  <2>5. \A u \in Threads : /\ step'[u] \in AfterCpu <=> step[u] \in AfterCpu
                           /\ step'[u] = "done" <=> step[u] = "done" \/ u = t
    BY <2>1 DEF SharedInv, AfterCpu
  <2>6. ASSUME NEW i \in 0..BitmapMax - 1
        PROVE  nrm_bitmap_isset(new, i)
                 <=> \E u \in Threads : step'[u] = "done" /\ place'[u][2] = i
    <3>1. nrm_bitmap_isset(shared["numa"], i)
            <=> \E u \in Threads : step[u] = "done" /\ place[u][2] = i
      BY DEF SharedInv
    <3> QED  BY <2>1, <2>3, <2>5, <3>1, Zenon
  <2>7. ASSUME NEW i \in 0..BitmapMax - 1
        PROVE  nrm_bitmap_isset(shared["cpu"], i)
                 <=> \E u \in Threads : step'[u] \in AfterCpu /\ place'[u][1] = i
    BY <2>1, <2>5, Zenon DEF SharedInv
  <2>8. step' \in [Threads -> {"getcpu", "cpu"} \cup AfterCpu] /\ place' \in [Threads -> Places]
    BY <2>1 DEF SharedInv, AfterCpu
  <2> QED  BY <2>4, <2>6, <2>7, <2>8 DEF SharedInv
<1>4. CASE UNCHANGED scopevars
  BY <1>4 DEF scopevars, SharedInv
<1> QED  BY <1>1, <1>2, <1>3, <1>4 DEF ScopesNext

\* The scope of a parallel region is the union of its threads' places
\* (SharedIsUnion), for any number of threads and any size of the bitmaps.
THEOREM SharedScopeIsUnion == ScopesInit /\ [][ScopesNext]_scopevars => []SharedIsUnion
<1>1. ScopesInit => SharedInv
  <2> SUFFICES ASSUME ScopesInit PROVE SharedInv
    OBVIOUS
  <2>1. nrm_bitmap_reset \in Bitmap
    BY DEF nrm_bitmap_reset, Bitmap
  <2>2. \A i \in 0..BitmapMax - 1 : ~nrm_bitmap_isset(nrm_bitmap_reset, i)
    <3> TAKE i \in 0..BitmapMax - 1
    <3>1. i \in Nat /\ i < Words * WordBits /\ WordBits \in Nat \ {0} /\ Words \in Nat
      BY ScopesAssumption, SMTT(60) DEF BitmapMax
    <3>2. i \div WordBits \in 0..Words - 1
      BY <3>1, WordPlace, Zenon
    <3> QED  BY <3>2 DEF nrm_bitmap_isset, nrm_bitmap_reset
  <2>3. /\ shared \in [Types -> Bitmap]
        /\ shared["cpu"] = nrm_bitmap_reset /\ shared["numa"] = nrm_bitmap_reset
    BY <2>1 DEF ScopesInit, nrm_scope_create, Types
  <2>4. \A t \in Threads : step[t] = "getcpu" /\ step[t] \notin AfterCpu /\ step[t] # "done"
    BY DEF ScopesInit, AfterCpu
  <2>5. place \in [Threads -> Places] /\ step \in [Threads -> {"getcpu", "cpu"} \cup AfterCpu]
    BY DEF ScopesInit
  <2> QED  BY <2>2, <2>3, <2>4, <2>5, Zenon DEF SharedInv
<1>2. SharedInv => SharedIsUnion
  BY DEF SharedInv, SharedIsUnion, AfterCpu
<1> QED  BY <1>1, <1>2, SharedStep, PTL

-----------------------------------------------------------------------------
(* Counting, recursion and lists.  What a loop over the numbers up to n    *)
(* computes is established from one round to the next.                     *)

\* A set of rounds that holds the beginning, and each round after one it
\* holds, holds them all.
LEMMA CountUp ==
  ASSUME NEW n \in Nat, NEW G \in SUBSET (0..n), 0 \in G,
         \A i \in 1..n : i - 1 \in G => i \in G
  PROVE  G = 0..n
<1> DEFINE K == {i \in 0..n : i \notin G}
<1> SUFFICES ASSUME K # {} PROVE FALSE
  OBVIOUS
<1>1. K \in SUBSET Nat
  BY SMTT(60)
<1>2. PICK m \in K : \A k \in K : m <= k
  <2> HIDE DEF K
  <2> QED  BY <1>1, SmallestNat
<1>3. m \in 0..n /\ m \notin G /\ m # 0
  OBVIOUS
<1>4. m \in 1..n /\ m - 1 \in 0..n /\ ~(m <= m - 1)
  BY <1>3, SMTT(60)
<1>5. m - 1 \notin K
  BY <1>2, <1>4
<1> QED  BY <1>3, <1>4, <1>5

\* f starts from x and goes on as the rounds say.
Recursion(f, S, x, n, round) ==
  /\ f \in [0..n -> S]
  /\ f[0] = x
  /\ \A i \in 1..n : f[i] = round[i][f[i - 1]]

\* A recursive function over the numbers up to n exists.
LEMMA RecursionExists ==
  ASSUME NEW S, NEW x \in S, NEW n \in Nat, NEW round \in [1..n -> [S -> S]]
  PROVE  \E f : Recursion(f, S, x, n, round)
<1> DEFINE Rec(f, m) == f[0] = x /\ \A i \in 1..m : f[i] = round[i][f[i - 1]]
           G == {m \in 0..n : \E f \in [0..m -> S] : Rec(f, m)}
<1>1. 0 \in G
  <2> DEFINE f == [i \in 0..0 |-> x]
  <2>1. 0 \in 0..n /\ 0 \in 0..0 /\ 1..0 = {}
    BY SMTT(60)
  <2>2. f \in [0..0 -> S] /\ Rec(f, 0)
    BY <2>1
  <2> HIDE DEF f
  <2> QED  BY <2>1, <2>2
<1>2. ASSUME NEW m \in 1..n, m - 1 \in G PROVE m \in G
  <2>1. PICK f \in [0..m - 1 -> S] : Rec(f, m - 1)
    BY <1>2
  <2>2. /\ m \in 0..n /\ m \in 0..m /\ m - 1 \in 0..m - 1 /\ 0 \in 0..m - 1
        /\ \A i \in 0..m - 1 : i \in 0..m /\ i # m
        /\ \A i \in 0..m : i # m => i \in 0..m - 1
        /\ \A i \in 1..m : i - 1 \in 0..m - 1 /\ i \in 0..m /\ (i # m => i \in 1..m - 1)
    BY SMTT(60)
  <2> DEFINE y == round[m][f[m - 1]]
             g == [i \in 0..m |-> IF i = m THEN y ELSE f[i]]
  <2>3. y \in S
    BY <2>1, <2>2
  <2> HIDE DEF y
  <2>4. g \in [0..m -> S] /\ g[m] = y /\ \A i \in 0..m - 1 : g[i] = f[i]
    BY <2>2, <2>3
  <2> HIDE DEF g
  <2>5. g[0] = x
    BY <2>1, <2>2, <2>4
  <2>6. ASSUME NEW i \in 1..m PROVE g[i] = round[i][g[i - 1]]
    <3>1. CASE i = m
      BY <2>2, <2>4, <3>1 DEF y
    <3>2. CASE i # m
      BY <2>1, <2>2, <2>4, <3>2
    <3> QED  BY <3>1, <3>2
  <2> QED  BY <2>2, <2>4, <2>5, <2>6
<1>3. G = 0..n
  <2>1. G \in SUBSET (0..n)
    OBVIOUS
  <2> HIDE DEF G
  <2> QED  BY <1>1, <1>2, <2>1, CountUp
<1>4. n \in 0..n
  BY SMTT(60)
<1> QED  BY <1>3, <1>4 DEF Recursion

\* The elements on a list.
Links(q) == {q[i] : i \in DOMAIN q}

\* Elements of lists that are put together.
LEMMA ListsJoined ==
  ASSUME NEW S, NEW q \in Seq(S), NEW r \in Seq(S)
  PROVE  q \o r \in Seq(S) /\ Links(q \o r) = Links(q) \cup Links(r)
<1> DEFINE s == q \o r
<1>1. /\ s \in Seq(S) /\ Len(q) \in Nat /\ Len(r) \in Nat
      /\ DOMAIN q = 1..Len(q) /\ DOMAIN r = 1..Len(r) /\ DOMAIN s = 1..Len(q) + Len(r)
  BY SMTT(60)
<1>2. \A i \in 1..Len(q) : s[i] = q[i] /\ i \in 1..Len(q) + Len(r)
  BY SMTT(60)
<1>3. \A j \in 1..Len(r) : s[Len(q) + j] = r[j] /\ Len(q) + j \in 1..Len(q) + Len(r)
  BY SMTT(60)
<1> HIDE DEF s
<1>4. Links(s) \subseteq Links(q) \cup Links(r)
  <2> SUFFICES ASSUME NEW i \in 1..Len(q) + Len(r) PROVE s[i] \in Links(q) \cup Links(r)
    BY <1>1 DEF Links
  <2>1. CASE i \in 1..Len(q)
    BY <1>1, <1>2, <2>1 DEF Links
  <2>2. CASE i \notin 1..Len(q)
    <3>1. i - Len(q) \in 1..Len(r) /\ Len(q) + (i - Len(q)) = i
      BY <1>1, <2>2, SMTT(60)
    <3> QED  BY <1>1, <1>3, <3>1 DEF Links
  <2> QED  BY <2>1, <2>2
<1>5. Links(q) \cup Links(r) \subseteq Links(s)
  BY <1>1, <1>2, <1>3 DEF Links
<1> QED  BY <1>1, <1>4, <1>5 DEF s

\* A list of one element.
LEMMA ListOfOne ==
  ASSUME NEW S, NEW k \in S
  PROVE  <<k>> \in Seq(S) /\ Links(<<k>>) = {k}
<1>1. <<k>> \in Seq(S) /\ DOMAIN <<k>> = {1} /\ <<k>>[1] = k
  BY SMTT(60)
<1> QED  BY <1>1 DEF Links

\* f puts the first lists of c together, one more in every round.
Joins(f, c, n) == f = [b \in 0..n |-> IF b = 0 THEN << >> ELSE f[b - 1] \o c[b]]

\* Lists that are put together one after the other are one list with the
\* elements of all of them.
LEMMA JoinedAll ==
  ASSUME NEW S, NEW n \in Nat, NEW c \in [1..n -> Seq(S)]
  PROVE  /\ \E f : Joins(f, c, n)
         /\ \A f : Joins(f, c, n) => /\ f[n] \in Seq(S)
                                     /\ Links(f[n]) = UNION {Links(c[b]) : b \in 1..n}
<1>1. << >> \in Seq(S) /\ Links(<< >>) = {} /\ 0 \in 0..n /\ n \in 0..n /\ 1..0 = {}
  <2>1. << >> \in Seq(S) /\ DOMAIN << >> = {} /\ 0 \in 0..n /\ n \in 0..n /\ 1..0 = {}
    BY SMTT(60)
  <2> QED  BY <2>1 DEF Links
<1>2. \A i \in 1..n : i \in 0..n /\ i # 0 /\ i - 1 \in 0..n
  BY SMTT(60)
<1>3. \E f : Joins(f, c, n)
  <2> DEFINE round == [b \in 1..n |-> [q \in Seq(S) |-> q \o c[b]]]
  <2>1. round \in [1..n -> [Seq(S) -> Seq(S)]]
    <3>1. \A q, r \in Seq(S) : q \o r \in Seq(S)
      BY ListsJoined
    <3> QED  BY <3>1
  <2>2. \A b \in 1..n, q \in Seq(S) : round[b][q] = q \o c[b]
    OBVIOUS
  <2> HIDE DEF round
  <2>3. PICK f \in [0..n -> Seq(S)] :
           f[0] = << >> /\ \A b \in 1..n : f[b] = round[b][f[b - 1]]
    <3>1. \E f : Recursion(f, Seq(S), << >>, n, round)
      BY <1>1, <2>1, RecursionExists
    <3> QED  BY <3>1 DEF Recursion
  <2>4. ASSUME NEW b \in 0..n PROVE f[b] = IF b = 0 THEN << >> ELSE f[b - 1] \o c[b]
    <3>1. CASE b = 0
      BY <2>3, <3>1
    <3>2. CASE b # 0
      <4>1. b \in 1..n /\ b - 1 \in 0..n
        BY <3>2, SMTT(60)
      <4> QED  BY <2>2, <2>3, <3>2, <4>1
    <3> QED  BY <3>1, <3>2
  <2> QED  BY <2>3, <2>4 DEF Joins
<1>4. ASSUME NEW g, Joins(g, c, n)
      PROVE  g[n] \in Seq(S) /\ Links(g[n]) = UNION {Links(c[b]) : b \in 1..n}
  <2> DEFINE Good(b) == /\ g[b] \in Seq(S)
                        /\ Links(g[b]) = UNION {Links(c[i]) : i \in 1..b}
  <2>1. g[0] = << >> /\ \A b \in 1..n : g[b] = g[b - 1] \o c[b]
    BY <1>1, <1>2, <1>4 DEF Joins
  <2>2. Good(0)
    BY <1>1, <2>1
  <2>3. ASSUME NEW b \in 1..n, Good(b - 1) PROVE Good(b)
    <3>1. 1..b = (1..b - 1) \cup {b}
      BY SMTT(60)
    <3>2. g[b] \in Seq(S) /\ Links(g[b]) = Links(g[b - 1]) \cup Links(c[b])
      <4> DEFINE q == g[b - 1]
                 r == c[b]
      <4>1. q \in Seq(S) /\ r \in Seq(S) /\ g[b] = q \o r
        BY <2>1, <2>3
      <4> HIDE DEF q, r
      <4>2. q \o r \in Seq(S) /\ Links(q \o r) = Links(q) \cup Links(r)
        BY <4>1, ListsJoined
      <4> QED  BY <4>1, <4>2 DEF q, r
    <3>3. UNION {Links(c[i]) : i \in 1..b} = (UNION {Links(c[i]) : i \in 1..b - 1}) \cup Links(c[b])
      <4> DEFINE N == 1..b - 1
      <4> HIDE DEF N
      <4>1. UNION {Links(c[i]) : i \in N \cup {b}} = (UNION {Links(c[i]) : i \in N}) \cup Links(c[b])
        OBVIOUS
      <4> QED  BY <3>1, <4>1 DEF N
    <3> QED  BY <2>3, <3>2, <3>3
  <2>4. \A b \in 0..n : Good(b)
    <3> DEFINE G == {b \in 0..n : Good(b)}
    <3> HIDE DEF Good
    <3>1. G \in SUBSET (0..n) /\ 0 \in G
      BY <1>1, <2>2
    <3>2. \A b \in 1..n : b - 1 \in G => b \in G
      BY <1>2, <2>3
    <3>3. G = 0..n
      <4> HIDE DEF G
      <4> QED  BY <3>1, <3>2, CountUp
    <3> QED  BY <3>3
  <2> QED  BY <1>1, <2>4
<1> QED  BY <1>3, <1>4

\* Every element of N comes before or after every other.
Ordered(N, below) ==
  /\ below \in [N -> SUBSET N]
  /\ \A x \in N : x \notin below[x]
  /\ \A x, y \in N : x # y => x \in below[y] \/ y \in below[x]
  /\ \A x, y \in N : x \in below[y] => below[x] \subseteq below[y]

\* The elements of an ordered set are numbered by how many come before them.
LEMMA Ranks ==
  ASSUME NEW N, IsFiniteSet(N), NEW below, Ordered(N, below)
  PROVE  /\ \A x \in N : IsFiniteSet(below[x]) /\ Cardinality(below[x]) \in 0..Cardinality(N) - 1
         /\ \A x, y \in N : x \in below[y] => Cardinality(below[x]) < Cardinality(below[y])
         /\ \A x, y \in N : Cardinality(below[x]) = Cardinality(below[y]) => x = y
         /\ \A i \in 0..Cardinality(N) - 1 : \E x \in N : Cardinality(below[x]) = i
<1>0. Cardinality(N) \in Nat
  BY FS_CardinalityType
<1>1. ASSUME NEW x \in N
      PROVE  IsFiniteSet(below[x]) /\ Cardinality(below[x]) \in 0..Cardinality(N) - 1
  <2>1. below[x] \in SUBSET N /\ below[x] # N
    BY DEF Ordered
  <2>2. /\ IsFiniteSet(below[x]) /\ Cardinality(below[x]) <= Cardinality(N)
        /\ Cardinality(N) # Cardinality(below[x])
    BY <2>1, FS_Subset
  <2>3. Cardinality(below[x]) \in Nat
    BY <2>2, FS_CardinalityType
  <2>4. Cardinality(below[x]) \in 0..Cardinality(N) - 1
    BY <1>0, <2>2, <2>3, SMTT(60)
  <2> QED  BY <2>2, <2>4
<1>2. ASSUME NEW x \in N, NEW y \in N, x \in below[y]
      PROVE  Cardinality(below[x]) < Cardinality(below[y])
  <2>1. below[x] \in SUBSET below[y] /\ below[x] # below[y]
    BY <1>2 DEF Ordered
  <2>2. IsFiniteSet(below[y])
    BY <1>1
  <2>3. Cardinality(below[x]) <= Cardinality(below[y]) /\ Cardinality(below[y]) # Cardinality(below[x])
    BY <2>1, <2>2, FS_Subset
  <2>4. Cardinality(below[x]) \in 0..Cardinality(N) - 1 /\ Cardinality(below[y]) \in 0..Cardinality(N) - 1
    BY <1>1
  <2> QED  BY <1>0, <2>3, <2>4, SMTT(60)
<1>3. ASSUME NEW x \in N, NEW y \in N, Cardinality(below[x]) = Cardinality(below[y])
      PROVE  x = y
  <2>1. \A i \in 0..Cardinality(N) - 1 : ~(i < i)
    BY <1>0, SMTT(60)
  <2>2. ~(Cardinality(below[x]) < Cardinality(below[y]))
        /\ ~(Cardinality(below[y]) < Cardinality(below[x]))
    BY <1>1, <1>3, <2>1
  <2>3. x \notin below[y] /\ y \notin below[x]
    BY <1>2, <2>2
  <2> QED  BY <2>3 DEF Ordered
<1>4. \A i \in 0..Cardinality(N) - 1 : \E x \in N : Cardinality(below[x]) = i
  <2> DEFINE T == 0..Cardinality(N) - 1
             rank == [x \in N |-> Cardinality(below[x])]
  <2>1. IsFiniteSet(T) /\ Cardinality(T) = Cardinality(N)
    <3>1. 0 \in Int /\ Cardinality(N) - 1 \in Int
      BY <1>0, SMTT(60)
    <3>2. IsFiniteSet(T) /\ Cardinality(T) = IF 0 > Cardinality(N) - 1 THEN 0
                                             ELSE Cardinality(N) - 1 - 0 + 1
      BY <3>1, FS_Interval
    <3>3. (IF 0 > Cardinality(N) - 1 THEN 0 ELSE Cardinality(N) - 1 - 0 + 1) = Cardinality(N)
      BY <1>0, SMTT(60)
    <3> QED  BY <3>2, <3>3
  <2>2. rank \in [N -> T] /\ \A x \in N : rank[x] = Cardinality(below[x])
    BY <1>1
  <2> HIDE DEF T, rank
  <2>3. rank \in Injection(N, T)
    BY <1>3, <2>2 DEF Injection, IsInjective
  <2>4. rank \in Surjection(N, T)
    BY <2>1, <2>3, FS_Injection
  <2>5. \A i \in T : \E x \in N : rank[x] = i
    BY <2>4 DEF Surjection
  <2> QED  BY <2>2, <2>5 DEF T
<1> QED  BY <1>1, <1>2, <1>3, <1>4

-----------------------------------------------------------------------------
(* Objects on the wire.  A bitmap is the set of its bits, and so is the    *)
(* array made of it; an object is put together again from what its message *)
(* carries of it.                                                          *)

\* A place in the bitmap is made of a word and a place in it in one way.
LEMMA PlaceInWord ==
  ASSUME NEW W \in Nat \ {0}, NEW w \in Nat, NEW r \in 0..W - 1
  PROVE  (w * W + r) \div W = w /\ (w * W + r) % W = r
<1> DEFINE x == w * W + r
           d == x \div W
           m == x % W
<1>1. x \in Nat /\ d \in Int /\ m \in 0..W - 1 /\ x = W * d + m
  BY SMTT(60)
<1>2. x = W * w + r
  BY SMTT(60)
<1> HIDE DEF x, d, m
<1>3. ~(d < w)
  <2> SUFFICES ASSUME d < w PROVE FALSE
    OBVIOUS
  <2>1. W * (d + 1) <= W * w
    BY <1>1, SMTT(60)
  <2>2. W * (d + 1) = W * d + W
    BY <1>1, SMTT(60)
  <2> QED  BY <1>1, <1>2, <2>1, <2>2, SMTT(60)
<1>4. ~(d > w)
  <2> SUFFICES ASSUME d > w PROVE FALSE
    OBVIOUS
  <2>1. W * (w + 1) <= W * d
    BY <1>1, SMTT(60)
  <2>2. W * (w + 1) = W * w + W
    BY <1>1, SMTT(60)
  <2> QED  BY <1>1, <1>2, <2>1, <2>2, SMTT(60)
<1>5. d = w
  BY <1>1, <1>3, <1>4, SMTT(60)
<1>6. m = r
  BY <1>1, <1>2, <1>5, SMTT(60)
<1> QED  BY <1>5, <1>6 DEF x, d, m

\* The bits of a bitmap, and those in front of a place.
BitsBelow(b, n) == {i \in 0..n - 1 : nrm_bitmap_isset(b, i)}
Bits(b) == BitsBelow(b, BitmapMax)

\* Every word adds its bits.
LEMMA BitsOfWord ==
  ASSUME NEW b \in Bitmap, NEW w \in 1..Words
  PROVE  Cardinality(BitsBelow(b, w * WordBits)) =
           Cardinality(BitsBelow(b, (w - 1) * WordBits)) + Cardinality(b[w - 1])
<1> DEFINE lo == (w - 1) * WordBits
           word == {lo + r : r \in b[w - 1]}
           at == [r \in b[w - 1] |-> lo + r]
<1>1. WordBits \in Nat \ {0} /\ Words \in Nat \ {0}
  BY ScopesAssumption
<1>2. lo \in Nat /\ w * WordBits = lo + WordBits /\ w - 1 \in 0..Words - 1 /\ w - 1 \in Nat
  BY <1>1, SMTT(60)
<1>3. lo + WordBits <= BitmapMax /\ BitmapMax \in Nat
  <2>1. w * WordBits <= Words * WordBits
    BY <1>1, SMTT(60)
  <2> QED  BY <1>1, <1>2, <2>1, SMTT(60) DEF BitmapMax
<1>4. \A r \in 0..WordBits - 1 : (lo + r) \div WordBits = w - 1 /\ (lo + r) % WordBits = r
  BY <1>1, <1>2, PlaceInWord
<1>5. b[w - 1] \in SUBSET (0..WordBits - 1)
  BY <1>2 DEF Bitmap
<1> HIDE DEF lo
<1>6. BitsBelow(b, lo + WordBits) = BitsBelow(b, lo) \cup word
  <2>1. ASSUME NEW i \in 0..(lo + WordBits) - 1
        PROVE  nrm_bitmap_isset(b, i) <=> i \in BitsBelow(b, lo) \cup word
    <3>1. CASE i < lo
      <4>1. i \in 0..lo - 1 /\ \A r \in 0..WordBits - 1 : lo + r # i
        BY <1>2, <3>1, SMTT(60)
      <4> QED  BY <1>5, <4>1 DEF BitsBelow
    <3>2. CASE ~(i < lo)
      <4> DEFINE r == i - lo
      <4>1. r \in 0..WordBits - 1 /\ i = lo + r /\ i \notin 0..lo - 1 /\ i < BitmapMax
        BY <1>1, <1>2, <1>3, <3>2, SMTT(60)
      <4>2. \A s \in 0..WordBits - 1 : lo + s = i => s = r
        BY <1>2, <4>1, SMTT(60)
      <4> HIDE DEF r
      <4>3. nrm_bitmap_isset(b, i) <=> r \in b[w - 1]
        BY <1>4, <4>1 DEF nrm_bitmap_isset
      <4> QED  BY <1>5, <4>1, <4>2, <4>3 DEF BitsBelow
    <3> QED  BY <3>1, <3>2
  <2>2. \A i \in BitsBelow(b, lo) \cup word : i \in 0..(lo + WordBits) - 1
    <3>1. \A i \in 0..lo - 1 : i \in 0..(lo + WordBits) - 1
      BY <1>1, <1>2, SMTT(60)
    <3>2. \A r \in 0..WordBits - 1 : lo + r \in 0..(lo + WordBits) - 1
      BY <1>1, <1>2, SMTT(60)
    <3> QED  BY <1>5, <3>1, <3>2 DEF BitsBelow
  <2> DEFINE U == 0..(lo + WordBits) - 1
             A == BitsBelow(b, lo) \cup word
  <2>3. BitsBelow(b, lo + WordBits) = {i \in U : nrm_bitmap_isset(b, i)}
    BY DEF BitsBelow
  <2>4. A \in SUBSET U /\ \A i \in U : nrm_bitmap_isset(b, i) <=> i \in A
    BY <2>1, <2>2
  <2> HIDE DEF U, A
  <2>5. {i \in U : nrm_bitmap_isset(b, i)} = A
    BY <2>4, Zenon
  <2> QED  BY <2>3, <2>5 DEF A
<1>7. BitsBelow(b, lo) \cap word = {}
  <2>1. \A r \in 0..WordBits - 1 : lo + r \notin 0..lo - 1
    BY <1>1, <1>2, SMTT(60)
  <2> QED  BY <1>5, <2>1 DEF BitsBelow
<1>8. IsFiniteSet(BitsBelow(b, lo)) /\ IsFiniteSet(b[w - 1])
  <2>1. IsFiniteSet(0..lo - 1) /\ IsFiniteSet(0..WordBits - 1)
    <3>1. 0 \in Int /\ lo - 1 \in Int /\ WordBits - 1 \in Int
      BY <1>1, <1>2, SMTT(60)
    <3> QED  BY <3>1, FS_Interval
  <2>2. BitsBelow(b, lo) \in SUBSET (0..lo - 1)
    BY DEF BitsBelow
  <2> QED  BY <1>5, <2>1, <2>2, FS_Subset
<1>9. IsFiniteSet(word) /\ Cardinality(word) = Cardinality(b[w - 1])
  <2>1. \A r, s \in 0..WordBits - 1 : lo + r = lo + s => r = s
    BY <1>2, SMTT(60)
  <2>2. at \in Bijection(b[w - 1], word)
    BY <1>5, <2>1 DEF Bijection, Injection, Surjection, IsInjective
  <2>3. ExistsBijection(b[w - 1], word)
    BY <2>2 DEF ExistsBijection
  <2> QED  BY <1>8, <2>3, FS_Bijection
<1>10. Cardinality(BitsBelow(b, lo) \cup word) = Cardinality(BitsBelow(b, lo)) + Cardinality(word)
  <2> HIDE DEF word
  <2>1. Cardinality(BitsBelow(b, lo) \cup word) =
          Cardinality(BitsBelow(b, lo)) + Cardinality(word) - Cardinality(BitsBelow(b, lo) \cap word)
    BY <1>8, <1>9, FS_Union
  <2>2. Cardinality(BitsBelow(b, lo) \cap word) = 0
    BY <1>7, FS_EmptySet
  <2>3. Cardinality(BitsBelow(b, lo)) \in Nat /\ Cardinality(word) \in Nat
    BY <1>8, <1>9, FS_CardinalityType
  <2> QED  BY <2>1, <2>2, <2>3, SMTT(60)
<1> QED  BY <1>2, <1>6, <1>9, <1>10 DEF lo

\* The bits in front of a place are finitely many.
LEMMA BitsFinite ==
  ASSUME NEW b, NEW n \in Nat
  PROVE  IsFiniteSet(BitsBelow(b, n)) /\ Cardinality(BitsBelow(b, n)) \in Nat
<1>1. IsFiniteSet(0..n - 1)
  <2>1. 0 \in Int /\ n - 1 \in Int
    BY SMTT(60)
  <2> QED  BY <2>1, FS_Interval
<1>2. BitsBelow(b, n) \in SUBSET (0..n - 1)
  BY DEF BitsBelow
<1> QED  BY <1>1, <1>2, FS_Subset, FS_CardinalityType

\* The count over the words is the number of bits (nrm_bitmap_nset).
LEMMA BitsCounted ==
  ASSUME NEW b \in Bitmap
  PROVE  nrm_bitmap_nset(b) = Cardinality(Bits(b))
<1> DEFINE size == [w \in 1..Words |-> Cardinality(b[w - 1])]
           round == [w \in 1..Words |-> [n \in Nat |-> n + size[w]]]
           Counts(f) == f = [w \in 0..Words |->
                               IF w = 0 THEN 0 ELSE f[w - 1] + Cardinality(b[w - 1])]
           g == CHOOSE f : Counts(f)
           Good(w) == g[w] = Cardinality(BitsBelow(b, w * WordBits))
<1>1. WordBits \in Nat \ {0} /\ Words \in Nat \ {0}
  BY ScopesAssumption
<1>2. nrm_bitmap_nset(b) = g[Words]
  BY Zenon DEF nrm_bitmap_nset
<1>3. /\ 0 \in 0..Words /\ Words \in 0..Words
      /\ \A w \in 1..Words : w \in 0..Words /\ w # 0 /\ w - 1 \in 0..Words /\ w - 1 \in 0..Words - 1
      /\ \A w \in 0..Words : w # 0 => w \in 1..Words
  BY <1>1, SMTT(60)
<1>4. \A w \in 1..Words : size[w] = Cardinality(b[w - 1]) /\ size[w] \in Nat
  <2> SUFFICES ASSUME NEW w \in 1..Words PROVE Cardinality(b[w - 1]) \in Nat
    OBVIOUS
  <2>1. b[w - 1] \in SUBSET (0..WordBits - 1)
    BY <1>3 DEF Bitmap
  <2>2. 0 \in Int /\ WordBits - 1 \in Int
    BY <1>1, SMTT(60)
  <2>3. IsFiniteSet(0..WordBits - 1)
    BY <2>2, FS_Interval
  <2> QED  BY <2>1, <2>3, FS_Subset, FS_CardinalityType
<1> HIDE DEF size
<1>5. \E f : Counts(f)
  <2>1. \A w \in 1..Words, n \in Nat : n + size[w] \in Nat
    BY <1>4, SMTT(60)
  <2>2. round \in [1..Words -> [Nat -> Nat]]
    BY <2>1
  <2>3. \A w \in 1..Words, n \in Nat : round[w][n] = n + size[w]
    OBVIOUS
  <2> HIDE DEF round
  <2>4. 0 \in Nat
    OBVIOUS
  <2>5. PICK f : Recursion(f, Nat, 0, Words, round)
    BY <1>1, <2>2, <2>4, RecursionExists
  <2>6. f \in [0..Words -> Nat] /\ f[0] = 0 /\ \A w \in 1..Words : f[w] = f[w - 1] + size[w]
    BY <1>3, <2>3, <2>5 DEF Recursion
  <2>7. \A w \in 0..Words : f[w] = IF w = 0 THEN 0 ELSE f[w - 1] + Cardinality(b[w - 1])
    BY <1>3, <1>4, <2>6
  <2>8. Counts(f)
    BY <2>6, <2>7
  <2> QED  BY <2>8
<1>6. Counts(g)
  BY <1>5, Zenon
<1>7. g[0] = 0 /\ \A w \in 1..Words : g[w] = g[w - 1] + Cardinality(b[w - 1])
  BY <1>3, <1>6
<1> HIDE DEF g
<1>8. Good(0)
  <2>1. 0 * WordBits = 0 /\ 0..0 - 1 = {}
    BY <1>1, SMTT(60)
  <2>2. BitsBelow(b, 0 * WordBits) = {}
    BY <2>1 DEF BitsBelow
  <2> QED  BY <1>7, <2>2, FS_EmptySet
<1>9. \A w \in 1..Words : Good(w - 1) => Good(w)
  BY <1>7, BitsOfWord
<1>10. Good(Words)
  <2> DEFINE G == {w \in 0..Words : Good(w)}
  <2> HIDE DEF Good
  <2>1. G \in SUBSET (0..Words) /\ 0 \in G /\ \A w \in 1..Words : w - 1 \in G => w \in G
    BY <1>3, <1>8, <1>9
  <2>2. G = 0..Words
    <3> HIDE DEF G
    <3> QED  BY <1>1, <2>1, CountUp
  <2> QED  BY <1>3, <2>2
<1> QED  BY <1>2, <1>10 DEF Bits, BitmapMax

\* f has, after each place of the bitmap b, the bits found so far, but no more
\* than size of them.
Finds(f, b, size) ==
  f = [i \in 0..BitmapMax |->
         IF i = 0 THEN << >>
         ELSE IF Len(f[i - 1]) < size /\ nrm_bitmap_isset(b, i - 1)
              THEN Append(f[i - 1], i - 1) ELSE f[i - 1]]

\* q has the bits in front of the place n, each once.
Listing(q, b, n) ==
  /\ q \in Seq(0..BitmapMax - 1)
  /\ Links(q) = BitsBelow(b, n) /\ Len(q) = Cardinality(BitsBelow(b, n))

\* One round of the loop.
OneMore(q, b, i) ==
  IF Len(q) < Cardinality(Bits(b)) /\ nrm_bitmap_isset(b, i - 1) THEN Append(q, i - 1) ELSE q

\* One more place: a bit of it is appended.
LEMMA BitAppended ==
  ASSUME NEW b \in Bitmap, NEW i \in 1..BitmapMax, NEW q, Listing(q, b, i - 1)
  PROVE  Listing(OneMore(q, b, i), b, i)
<1> DEFINE r == OneMore(q, b, i)
<1>0. /\ q \in Seq(0..BitmapMax - 1)
      /\ Links(q) = BitsBelow(b, i - 1) /\ Len(q) = Cardinality(BitsBelow(b, i - 1))
      /\ r = IF Len(q) < Cardinality(Bits(b)) /\ nrm_bitmap_isset(b, i - 1)
             THEN Append(q, i - 1) ELSE q
  BY DEF Listing, OneMore
<1> HIDE DEF r
<1>1. /\ BitmapMax \in Nat /\ i \in Nat /\ i - 1 \in Nat /\ i - 1 \in 0..BitmapMax - 1
      /\ 0..i - 1 = (0..(i - 1) - 1) \cup {i - 1} /\ i - 1 \notin 0..(i - 1) - 1
      /\ \A j \in 0..(i - 1) - 1 : j \in 0..BitmapMax - 1
  BY ScopesAssumption, SMTT(60) DEF BitmapMax
<1>2. CASE ~nrm_bitmap_isset(b, i - 1)
  <2>1. BitsBelow(b, i) = BitsBelow(b, i - 1)
    BY <1>1, <1>2 DEF BitsBelow
  <2> QED  BY <1>0, <1>2, <2>1 DEF Listing, r
<1>3. CASE nrm_bitmap_isset(b, i - 1)
  <2>1. BitsBelow(b, i) = BitsBelow(b, i - 1) \cup {i - 1} /\ i - 1 \notin BitsBelow(b, i - 1)
    BY <1>1, <1>3 DEF BitsBelow
  <2>2. BitsBelow(b, i - 1) \in SUBSET Bits(b) /\ Bits(b) # BitsBelow(b, i - 1)
    BY <1>1, <1>3 DEF BitsBelow, Bits
  <2>3. /\ IsFiniteSet(BitsBelow(b, i - 1)) /\ Cardinality(BitsBelow(b, i - 1)) \in Nat
        /\ IsFiniteSet(Bits(b)) /\ Cardinality(Bits(b)) \in Nat
    BY <1>1, BitsFinite DEF Bits
  <2>4. /\ Cardinality(BitsBelow(b, i - 1)) <= Cardinality(Bits(b))
        /\ Cardinality(Bits(b)) # Cardinality(BitsBelow(b, i - 1))
    BY <2>2, <2>3, FS_Subset
  <2>5. Len(q) < Cardinality(Bits(b))
    BY <1>0, <2>3, <2>4, SMTT(60)
  <2> DEFINE one == <<i - 1>>
  <2>6. one \in Seq(0..BitmapMax - 1) /\ Links(one) = {i - 1}
    BY <1>1, ListOfOne
  <2>7. r = q \o one
    <3>1. r = Append(q, i - 1)
      BY <1>0, <1>3, <2>5
    <3>2. \A x : Append(q, x) = q \o <<x>>
      BY <1>0, SMTT(60)
    <3> QED  BY <3>1, <3>2
  <2> HIDE DEF one
  <2>8. r \in Seq(0..BitmapMax - 1) /\ Links(r) = Links(q) \cup {i - 1}
    <3>1. q \o one \in Seq(0..BitmapMax - 1) /\ Links(q \o one) = Links(q) \cup Links(one)
      BY <1>0, <2>6, ListsJoined
    <3> QED  BY <2>6, <2>7, <3>1
  <2>9. Len(r) = Len(q) + 1
    BY <1>0, <1>3, <2>5, SMTT(60)
  <2>10. Cardinality(BitsBelow(b, i)) = Cardinality(BitsBelow(b, i - 1)) + 1
    BY <2>1, <2>3, FS_AddElement
  <2> QED  BY <1>0, <2>1, <2>8, <2>9, <2>10 DEF Listing, r
<1> QED  BY <1>2, <1>3

\* The array of a bitmap lists its bits (nrm_bitmap_to_array).
LEMMA BitsListed ==
  ASSUME NEW b \in Bitmap
  PROVE  nrm_bitmap_to_array(b) \in Seq(0..BitmapMax - 1) /\ Links(nrm_bitmap_to_array(b)) = Bits(b)
<1> DEFINE size == nrm_bitmap_nset(b)
           S == Seq(0..BitmapMax - 1)
           More(i, q) == IF Len(q) < size /\ nrm_bitmap_isset(b, i - 1) THEN Append(q, i - 1) ELSE q
           round == [i \in 1..BitmapMax |-> [q \in S |-> More(i, q)]]
           g == CHOOSE f : Finds(f, b, size)
           Good(i) == Listing(g[i], b, i)
<1>1. /\ BitmapMax \in Nat /\ 0 \in 0..BitmapMax /\ BitmapMax \in 0..BitmapMax
      /\ \A i \in 1..BitmapMax : i \in 0..BitmapMax /\ i # 0 /\ i - 1 \in 0..BitmapMax
                                 /\ i - 1 \in 0..BitmapMax - 1
      /\ \A i \in 0..BitmapMax : i # 0 => i \in 1..BitmapMax
  BY ScopesAssumption, SMTT(60) DEF BitmapMax
<1>2. size = Cardinality(Bits(b)) /\ size \in Nat
  BY <1>1, BitsCounted, BitsFinite DEF Bits
<1>3. nrm_bitmap_to_array(b) =
        [k \in 1..size |-> IF k <= Len(g[BitmapMax]) THEN g[BitmapMax][k] ELSE 0]
  BY Zenon DEF nrm_bitmap_to_array, Finds
<1> HIDE DEF size
<1>4. \E f : Finds(f, b, size)
  <2>1. \A i \in 1..BitmapMax, q \in S : More(i, q) \in S
    <3>1. \A x \in 0..BitmapMax - 1, q \in S : Append(q, x) \in S
      BY SMTT(60)
    <3> QED  BY <1>1, <3>1
  <2>2. \A i \in 1..BitmapMax, q \in S : round[i][q] = More(i, q)
    OBVIOUS
  <2>3. round \in [1..BitmapMax -> [S -> S]]
    <3> HIDE DEF More
    <3> QED  BY <2>1
  <2>4. << >> \in S
    BY SMTT(60)
  <2> HIDE DEF round, S
  <2>5. PICK f : Recursion(f, S, << >>, BitmapMax, round)
    BY <1>1, <2>3, <2>4, RecursionExists
  <2>6. /\ f \in [0..BitmapMax -> S] /\ f[0] = << >>
        /\ \A i \in 1..BitmapMax : f[i] = More(i, f[i - 1])
    <3> HIDE DEF More
    <3> QED  BY <1>1, <2>2, <2>5 DEF Recursion
  <2>7. \A i \in 0..BitmapMax : f[i] = IF i = 0 THEN << >> ELSE More(i, f[i - 1])
    <3> HIDE DEF More
    <3> QED  BY <1>1, <2>6
  <2>8. Finds(f, b, size)
    BY <2>6, <2>7 DEF Finds
  <2> QED  BY <2>8
<1>5. Finds(g, b, size)
  BY <1>4, Zenon
<1> HIDE DEF g
<1>6. g[0] = << >> /\ \A i \in 1..BitmapMax : g[i] = More(i, g[i - 1])
  BY <1>1, <1>5 DEF Finds
<1>7. Good(0)
  <2>1. << >> \in S /\ DOMAIN << >> = {} /\ Len(<< >>) = 0 /\ 0..0 - 1 = {}
    BY SMTT(60)
  <2>2. BitsBelow(b, 0) = {} /\ Links(<< >>) = {}
    BY <2>1 DEF BitsBelow, Links
  <2> QED  BY <1>6, <2>1, <2>2, FS_EmptySet DEF Listing
<1>8. ASSUME NEW i \in 1..BitmapMax, Good(i - 1) PROVE Good(i)
  <2>1. g[i] = OneMore(g[i - 1], b, i)
    BY <1>2, <1>6 DEF OneMore
  <2>2. Listing(OneMore(g[i - 1], b, i), b, i)
    BY <1>8, BitAppended
  <2> QED  BY <2>1, <2>2
<1>9. Good(BitmapMax)
  <2> DEFINE G == {i \in 0..BitmapMax : Good(i)}
  <2> HIDE DEF Good
  <2>1. G \in SUBSET (0..BitmapMax) /\ 0 \in G /\ \A i \in 1..BitmapMax : i - 1 \in G => i \in G
    BY <1>1, <1>7, <1>8
  <2>2. G = 0..BitmapMax
    <3> HIDE DEF G
    <3> QED  BY <1>1, <2>1, CountUp
  <2> QED  BY <1>1, <2>2
<1>10. nrm_bitmap_to_array(b) = g[BitmapMax]
  <2> DEFINE q == g[BitmapMax]
  <2>1. q \in Seq(0..BitmapMax - 1) /\ Len(q) = size
    BY <1>2, <1>9 DEF Bits, Listing
  <2> HIDE DEF q
  <2>2. q = [k \in 1..size |-> q[k]] /\ \A k \in 1..size : k <= Len(q)
    BY <1>2, <2>1, SMTT(60)
  <2>3. q = [k \in 1..size |-> IF k <= Len(q) THEN q[k] ELSE 0]
    BY <2>2, Zenon
  <2> QED  BY <1>3, <2>3 DEF q
<1> QED  BY <1>9, <1>10 DEF Bits, Listing

\* A bitmap is made of the bits that an array lists (nrm_bitmap_from_array).
LEMMA BitsTaken ==
  ASSUME NEW s \in Seq(0..BitmapMax - 1)
  PROVE  nrm_bitmap_from_array(s) \in Bitmap /\ Bits(nrm_bitmap_from_array(s)) = Links(s)
<1> DEFINE n == Len(s)
           round == [i \in 1..n |-> [b \in Bitmap |-> nrm_bitmap_set(b, s[i])]]
           Sets(f) == f = [i \in 0..n |->
                             IF i = 0 THEN nrm_bitmap_reset ELSE nrm_bitmap_set(f[i - 1], s[i])]
           g == CHOOSE f : Sets(f)
           Good(i) == g[i] \in Bitmap /\ Bits(g[i]) = {s[j] : j \in 1..i}
<1>1. /\ n \in Nat /\ 0 \in 0..n /\ n \in 0..n
      /\ \A i \in 1..n : i \in 0..n /\ i # 0 /\ i - 1 \in 0..n
      /\ \A i \in 0..n : i # 0 => i \in 1..n
  BY SMTT(60)
<1>2. DOMAIN s = 1..n /\ \A i \in 1..n : s[i] \in 0..BitmapMax - 1
  BY LenProperties, ElementOfSeq
<1>3. BitmapMax \in Nat /\ \A x \in 0..BitmapMax - 1 : x \in Nat
  BY ScopesAssumption, SMTT(60) DEF BitmapMax
<1>4. nrm_bitmap_from_array(s) = g[n]
  BY Zenon DEF nrm_bitmap_from_array
<1>5. nrm_bitmap_reset \in Bitmap
  BY DEF nrm_bitmap_reset, Bitmap
<1> HIDE DEF n
<1>6. \E f : Sets(f)
  <2>1. \A i \in 1..n, b \in Bitmap : nrm_bitmap_set(b, s[i]) \in Bitmap
    BY <1>2, <1>3, BitSet
  <2>2. \A i \in 1..n, b \in Bitmap : round[i][b] = nrm_bitmap_set(b, s[i])
    OBVIOUS
  <2>3. round \in [1..n -> [Bitmap -> Bitmap]]
    BY <2>1
  <2> HIDE DEF round
  <2>4. PICK f : Recursion(f, Bitmap, nrm_bitmap_reset, n, round)
    BY <1>1, <1>5, <2>3, RecursionExists
  <2>5. /\ f \in [0..n -> Bitmap] /\ f[0] = nrm_bitmap_reset
        /\ \A i \in 1..n : f[i] = nrm_bitmap_set(f[i - 1], s[i])
    BY <1>1, <2>2, <2>4 DEF Recursion
  <2>6. \A i \in 0..n : f[i] = IF i = 0 THEN nrm_bitmap_reset ELSE nrm_bitmap_set(f[i - 1], s[i])
    BY <1>1, <2>5
  <2>7. Sets(f)
    BY <2>5, <2>6
  <2> QED  BY <2>7
<1>7. Sets(g)
  BY <1>6, Zenon
<1>8. g[0] = nrm_bitmap_reset /\ \A i \in 1..n : g[i] = nrm_bitmap_set(g[i - 1], s[i])
  BY <1>1, <1>7
<1> HIDE DEF g
<1>9. Good(0)
  <2>1. \A i \in 0..BitmapMax - 1 : ~nrm_bitmap_isset(nrm_bitmap_reset, i)
    <3> SUFFICES ASSUME NEW i \in 0..BitmapMax - 1 PROVE i \div WordBits \in 0..Words - 1
      BY DEF nrm_bitmap_isset, nrm_bitmap_reset
    <3>1. WordBits \in Nat \ {0} /\ Words \in Nat \ {0} /\ i \in Nat /\ i < Words * WordBits
      BY <1>3, ScopesAssumption, SMTT(60) DEF BitmapMax
    <3> QED  BY <3>1, WordPlace
  <2>2. Bits(nrm_bitmap_reset) = {}
    BY <2>1 DEF Bits, BitsBelow
  <2>3. 1..0 = {}
    BY SMTT(60)
  <2> QED  BY <1>5, <1>8, <2>2, <2>3
<1>10. ASSUME NEW i \in 1..n, Good(i - 1) PROVE Good(i)
  <2> DEFINE b == g[i - 1]
             c == nrm_bitmap_set(b, s[i])
  <2>1. b \in Bitmap /\ Bits(b) = {s[j] : j \in 1..i - 1} /\ g[i] = c
    BY <1>8, <1>10
  <2> HIDE DEF b
  <2>2. /\ c \in Bitmap
        /\ \A j \in 0..BitmapMax - 1 : nrm_bitmap_isset(c, j) <=> nrm_bitmap_isset(b, j) \/ j = s[i]
    BY <1>2, <1>3, <2>1, BitSet
  <2> HIDE DEF c
  <2>3. Bits(c) = Bits(b) \cup {s[i]}
    BY <1>2, <2>2 DEF Bits, BitsBelow
  <2>4. 1..i = (1..i - 1) \cup {i}
    BY SMTT(60)
  <2>5. {s[j] : j \in 1..i} = {s[j] : j \in 1..i - 1} \cup {s[i]}
    <3> DEFINE N == 1..i - 1
    <3>1. 1..i = N \cup {i}
      BY <2>4
    <3> HIDE DEF N
    <3>2. {s[j] : j \in N \cup {i}} = {s[j] : j \in N} \cup {s[i]}
      OBVIOUS
    <3> QED  BY <3>1, <3>2 DEF N
  <2> QED  BY <2>1, <2>2, <2>3, <2>5
<1>11. Good(n)
  <2> DEFINE G == {i \in 0..n : Good(i)}
  <2> HIDE DEF Good
  <2>1. G \in SUBSET (0..n) /\ 0 \in G /\ \A i \in 1..n : i - 1 \in G => i \in G
    BY <1>1, <1>9, <1>10
  <2>2. G = 0..n
    <3> HIDE DEF G
    <3> QED  BY <1>1, <2>1, CountUp
  <2> QED  BY <1>1, <2>2
<1> QED  BY <1>2, <1>4, <1>11 DEF Links

\* Bitmaps with the same bits are the same.
LEMMA SameBits ==
  ASSUME NEW b \in Bitmap, NEW c \in Bitmap, Bits(b) = Bits(c)
  PROVE  b = c
<1>1. WordBits \in Nat \ {0} /\ Words \in Nat \ {0} /\ BitmapMax \in Nat
  BY ScopesAssumption, SMTT(60) DEF BitmapMax
<1>2. ASSUME NEW w \in 0..Words - 1, NEW r \in 0..WordBits - 1
      PROVE  r \in b[w] <=> r \in c[w]
  <2> DEFINE i == w * WordBits + r
  <2>1. w \in Nat /\ i \in Nat /\ i < BitmapMax
    <3>1. w \in Nat /\ (w + 1) * WordBits <= Words * WordBits
      BY <1>1, SMTT(60)
    <3>2. (w + 1) * WordBits = w * WordBits + WordBits
      BY <1>1, <3>1, SMTT(60)
    <3> QED  BY <1>1, <3>1, <3>2, SMTT(60) DEF BitmapMax
  <2>2. i \div WordBits = w /\ i % WordBits = r
    BY <1>1, <2>1, PlaceInWord
  <2> HIDE DEF i
  <2>3. \A d : nrm_bitmap_isset(d, i) <=> r \in d[w]
    BY <2>1, <2>2 DEF nrm_bitmap_isset
  <2>4. i \in 0..BitmapMax - 1
    BY <1>1, <2>1, SMTT(60)
  <2>5. nrm_bitmap_isset(b, i) <=> nrm_bitmap_isset(c, i)
    BY <2>4 DEF Bits, BitsBelow
  <2> QED  BY <2>3, <2>5
<1>3. ASSUME NEW w \in 0..Words - 1 PROVE b[w] = c[w]
  <2>1. b[w] \in SUBSET (0..WordBits - 1) /\ c[w] \in SUBSET (0..WordBits - 1)
    BY DEF Bitmap
  <2> QED  BY <1>2, <2>1
<1>4. b = [w \in 0..Words - 1 |-> b[w]] /\ c = [w \in 0..Words - 1 |-> c[w]]
  BY DEF Bitmap
<1> QED  BY <1>3, <1>4, Zenon

\* A bitmap is the same after its trip through an array.
LEMMA BitmapSurvives ==
  ASSUME NEW b \in Bitmap
  PROVE  nrm_bitmap_from_array(nrm_bitmap_to_array(b)) = b
<1> DEFINE s == nrm_bitmap_to_array(b)
<1>1. s \in Seq(0..BitmapMax - 1) /\ Links(s) = Bits(b)
  BY BitsListed
<1> HIDE DEF s
<1>2. nrm_bitmap_from_array(s) \in Bitmap /\ Bits(nrm_bitmap_from_array(s)) = Links(s)
  BY <1>1, BitsTaken
<1>3. nrm_bitmap_from_array(s) = b
  BY <1>1, <1>2, SameBits
<1> QED  BY <1>3 DEF s

\* The three bitmaps of a scope are the same after their trip
\* (nrm_msg_scope_new, nrm_scope_create_frommsg).
LEMMA ScopeSurvives ==
  ASSUME NEW maps \in [Types -> Bitmap]
  PROVE  nrm_scope_create_frommsg(nrm_msg_scope_new(maps)) = maps
<1> DEFINE s == nrm_msg_scope_new(maps)
           array(t) == CASE t = "cpu" -> s.cpus [] t = "numa" -> s.numas [] t = "gpu" -> s.gpus
<1>1. \A t \in Types : array(t) = nrm_bitmap_to_array(maps[t])
  BY DEF Types, nrm_msg_scope_new
<1>2. nrm_scope_create_frommsg(s) = [t \in Types |-> nrm_bitmap_from_array(array(t))]
  BY DEF nrm_scope_create_frommsg
<1>3. \A t \in Types : nrm_bitmap_from_array(nrm_bitmap_to_array(maps[t])) = maps[t]
  BY BitmapSurvives
<1> HIDE DEF array, s
<1>4. nrm_scope_create_frommsg(s) = [t \in Types |-> maps[t]]
  BY <1>1, <1>2, <1>3
<1> QED  BY <1>4 DEF s

\* A time is the same after its trip through nanoseconds (nrm_time_tons,
\* nrm_time_fromns).
LEMMA TimeSurvives ==
  ASSUME NEW s \in Nat, NEW n \in 0..NsPerSec - 1
  PROVE  nrm_time_fromns(nrm_time_tons([sec |-> s, nsec |-> n])) = [sec |-> s, nsec |-> n]
<1>1. NsPerSec \in Nat \ {0}
  BY WireAssumption
<1>2. nrm_time_tons([sec |-> s, nsec |-> n]) = n + NsPerSec * s
  BY DEF nrm_time_tons
<1>3. n + NsPerSec * s = s * NsPerSec + n
  BY <1>1, SMTT(60)
<1>4. (s * NsPerSec + n) \div NsPerSec = s /\ (s * NsPerSec + n) % NsPerSec = n
  BY <1>1, PlaceInWord
<1> QED  BY <1>2, <1>3, <1>4 DEF nrm_time_fromns

\* The elements of q that are sorted in front of the one at i.
Before(q, i) == {j \in DOMAIN q : q[j] < q[i] \/ (q[j] = q[i] /\ j < i)}

\* Sorting keeps choices that are sorted.
LEMMA SortedKept ==
  ASSUME NEW q \in Seq(Int), Ascending(q)
  PROVE  Sorted(q) = q
<1> DEFINE N == DOMAIN q
<1>1. Len(q) \in Nat /\ N = 1..Len(q) /\ q = [k \in N |-> q[k]] /\ \A i \in N : q[i] \in Int
  BY SMTT(60)
<1>2. Sorted(q) = [k \in N |-> q[CHOOSE i \in N : Cardinality(Before(q, i)) = k - 1]]
  BY DEF Sorted, Before
<1>3. ASSUME NEW i \in N PROVE Cardinality(Before(q, i)) = i - 1
  <2>1. \A j \in N : j < i => q[j] <= q[i]
    BY <1>3 DEF Ascending
  <2>2. \A j \in N : i < j => q[i] <= q[j]
    BY <1>3 DEF Ascending
  <2>3. \A j \in N : (q[j] < q[i] \/ (q[j] = q[i] /\ j < i)) <=> j < i
    BY <1>1, <2>1, <2>2, SMTT(60)
  <2>4. \A j \in N : j < i <=> j \in 1..i - 1
    BY <1>1, SMTT(60)
  <2>5. 1..i - 1 \subseteq N /\ i \in Nat /\ 1 \in Int /\ i - 1 \in Int
    BY <1>1, SMTT(60)
  <2>6. Before(q, i) = 1..i - 1
    BY <2>3, <2>4, <2>5 DEF Before
  <2>7. Cardinality(1..i - 1) = IF 1 > i - 1 THEN 0 ELSE (i - 1) - 1 + 1
    BY <2>5, FS_Interval
  <2> QED  BY <1>1, <2>5, <2>6, <2>7, SMTT(60)
<1>4. \A i, k \in N : i - 1 = k - 1 => i = k
  BY <1>1, SMTT(60)
<1> HIDE DEF N
<1> DEFINE c(k) == CHOOSE i \in N : Cardinality(Before(q, i)) = k - 1
<1>5. ASSUME NEW k \in N PROVE c(k) = k
  <2>1. c(k) \in N /\ Cardinality(Before(q, c(k))) = k - 1
    BY <1>3
  <2> HIDE DEF c
  <2> QED  BY <1>3, <1>4, <2>1
<1>6. Sorted(q) = [k \in N |-> q[c(k)]]
  BY <1>2
<1> HIDE DEF c
<1>7. [k \in N |-> q[c(k)]] = [k \in N |-> q[k]]
  BY <1>5
<1> QED  BY <1>1, <1>6, <1>7

\* The choices of an actuator are sorted whatever its creator gave
\* (nrm_actuator_discrete_set_choices), which IsObject says of them.
LEMMA ChoicesAscend ==
  ASSUME NEW q \in Seq(Int)
  PROVE  Sorted(q) \in Seq(Int) /\ Ascending(Sorted(q))
<1> DEFINE N == DOMAIN q
           n == Len(q)
           below == [i \in N |-> Before(q, i)]
           p == [k \in N |-> CHOOSE i \in N : Cardinality(below[i]) = k - 1]
           r == Sorted(q)
<1>1. n \in Nat /\ N = 1..n /\ \A i \in N : q[i] \in Int
  BY SMTT(60)
<1>2. /\ \A i \in N : i \in Int
      /\ \A k \in N : k - 1 \in 0..n - 1
  BY <1>1, SMTT(60)
<1>3. r = [k \in N |-> q[p[k]]]
  <2>1. r = [k \in N |-> q[CHOOSE i \in N : Cardinality(Before(q, i)) = k - 1]]
    BY DEF Sorted, Before
  <2>2. \A i \in N : below[i] = Before(q, i)
    OBVIOUS
  <2> HIDE DEF N, below, r
  <2> DEFINE c(k) == CHOOSE i \in N : Cardinality(Before(q, i)) = k - 1
  <2>3. \A k \in N : p[k] = c(k)
    BY <2>2
  <2>4. r = [k \in N |-> q[c(k)]]
    BY <2>1
  <2> HIDE DEF p, c
  <2> QED  BY <2>3, <2>4
<1>4. IsFiniteSet(N) /\ Cardinality(N) = n
  <2>1. 1 \in Int /\ n \in Int
    BY <1>1, SMTT(60)
  <2>2. IsFiniteSet(1..n) /\ Cardinality(1..n) = IF 1 > n THEN 0 ELSE n - 1 + 1
    BY <2>1, FS_Interval
  <2>3. (IF 1 > n THEN 0 ELSE n - 1 + 1) = n
    BY <1>1, SMTT(60)
  <2> QED  BY <1>1, <2>2, <2>3
<1> HIDE DEF N, n
<1>5. /\ below \in [N -> SUBSET N]
      /\ \A x, t \in N : t \in below[x] <=> q[t] < q[x] \/ (q[t] = q[x] /\ t < x)
  BY DEF Before, N
<1> HIDE DEF below
<1>6. Ordered(N, below)
  <2>1. /\ \A x \in N : ~(q[x] < q[x] \/ (q[x] = q[x] /\ x < x))
        /\ \A x, y \in N : x # y => \/ q[x] < q[y] \/ (q[x] = q[y] /\ x < y)
                                    \/ q[y] < q[x] \/ (q[y] = q[x] /\ y < x)
    BY <1>1, <1>2, SMTT(60)
  <2>2. \A x, y, z \in N :
          /\ q[x] < q[y] \/ (q[x] = q[y] /\ x < y)
          /\ q[z] < q[x] \/ (q[z] = q[x] /\ z < x)
          => q[z] < q[y] \/ (q[z] = q[y] /\ z < y)
    BY <1>1, <1>2, SMTT(60)
  <2>3. \A x, y \in N : x \in below[y] => below[x] \subseteq below[y]
    BY <1>5, <2>2
  <2> QED  BY <1>5, <2>1, <2>3 DEF Ordered
<1>7. /\ \A x, y \in N : x \in below[y] => Cardinality(below[x]) < Cardinality(below[y])
      /\ \A i \in 0..n - 1 : \E x \in N : Cardinality(below[x]) = i
  BY <1>4, <1>6, Ranks
<1>8. \A k \in N : p[k] \in N /\ Cardinality(below[p[k]]) = k - 1
  BY <1>2, <1>7
<1> HIDE DEF p
<1>9. r \in Seq(Int) /\ DOMAIN r = N /\ \A k \in N : r[k] = q[p[k]]
  <2>1. r \in [N -> Int] /\ DOMAIN r = N /\ \A k \in N : r[k] = q[p[k]]
    BY <1>1, <1>3, <1>8
  <2> HIDE DEF r
  <2>2. r \in Seq(Int)
    BY <1>1, <2>1, SeqDef
  <2> QED  BY <2>1, <2>2
<1> HIDE DEF r
<1>10. ASSUME NEW i \in N, NEW j \in N, i < j PROVE r[i] <= r[j]
  <2>1. p[i] \in N /\ p[j] \in N /\ ~(Cardinality(below[p[j]]) < Cardinality(below[p[i]]))
    <3>1. ~(j - 1 < i - 1)
      BY <1>2, <1>10, SMTT(60)
    <3> QED  BY <1>8, <3>1
  <2>2. ~(q[p[j]] < q[p[i]])
    BY <1>5, <1>7, <2>1
  <2>3. r[i] = q[p[i]] /\ r[j] = q[p[j]] /\ q[p[i]] \in Int /\ q[p[j]] \in Int
    BY <1>1, <1>9, <2>1
  <2> QED  BY <2>2, <2>3, SMTT(60)
<1> QED  BY <1>9, <1>10 DEF Ascending, r

\* An object that belongs to the client id.
OwnedBy(o, id) == IF o.kind = "ACTUATOR" THEN [o EXCEPT !.clientid = id] ELSE o

\* What is left of a client's identity that a message carries.
IdSent(id) == IF id = NoId THEN "" ELSE id

\* An actuator with the fields named.
ActuatorOf(uuid, id, value, type, data) ==
  [kind |-> "ACTUATOR", uuid |-> uuid, clientid |-> id, value |-> value, type |-> type, data |-> data]

\* Choices that are sorted, or two limits.
WellDescribed(type, data) ==
  \/ type = "DISCRETE" /\ data \in Seq(Int) /\ Ascending(data)
  \/ type = "CONTINUOUS" /\ data \in Int \X Int

\* The body of an actuator's message, as unpacked.
BodyOf(uuid, id, value, type, data) ==
  [uuid |-> uuid, clientid |-> id, value |-> value, type |-> type,
   data |-> IF type = "DISCRETE" THEN [choices |-> data] ELSE [lmin |-> data[1], lmax |-> data[2]]]

\* Whatever the actuator had before, it is described as the one the message
\* was made of, choices or limits included (nrm_actuator_update_frommsg).
LEMMA ActuatorDescribed ==
  ASSUME NEW u, NEW v, NEW id, NEW t, NEW d, WellDescribed(t, d),
         NEW x, NEW y, NEW w, NEW e, t = "DISCRETE" /\ d = << >> => e = << >>,
         NEW body, body = BodyOf(u, id, v, t, d), id # NoId
  PROVE  Described(ActuatorOf(x, y, w, t, e), body) = ActuatorOf(u, id, v, t, d)
<1> DEFINE a == ActuatorOf(x, y, w, t, e)
           c == [a EXCEPT !.uuid = body.uuid, !.value = body.value,
                          !.clientid = IF body.clientid # NoId THEN body.clientid ELSE @]
<1>1. /\ body.uuid = u /\ body.value = v /\ body.clientid = id /\ body.type = t
      /\ body.data = IF t = "DISCRETE" THEN [choices |-> d] ELSE [lmin |-> d[1], lmax |-> d[2]]
  BY DEF BodyOf
<1>2. c = ActuatorOf(u, id, v, t, e)
  <2>1. a.clientid = y
    BY DEF ActuatorOf
  <2>2. [a EXCEPT !.uuid = u] = ActuatorOf(u, y, w, t, e)
    BY DEF ActuatorOf
  <2>3. [ActuatorOf(u, y, w, t, e) EXCEPT !.value = v] = ActuatorOf(u, y, v, t, e)
    BY DEF ActuatorOf
  <2>4. [ActuatorOf(u, y, v, t, e) EXCEPT !.clientid = id] = ActuatorOf(u, id, v, t, e)
    BY DEF ActuatorOf
  <2> HIDE DEF a
  <2>5. c = [[[a EXCEPT !.uuid = u] EXCEPT !.value = v] EXCEPT !.clientid = id]
    BY <1>1, <2>1, SMTT(60)
  <2> HIDE DEF c
  <2>6. c = [[ActuatorOf(u, y, w, t, e) EXCEPT !.value = v] EXCEPT !.clientid = id]
    BY <2>2, <2>5, Zenon
  <2>7. c = [ActuatorOf(u, y, v, t, e) EXCEPT !.clientid = id]
    BY <2>3, <2>6, Zenon
  <2> QED  BY <2>4, <2>7, Zenon
<1>3. Described(a, body) = IF body.type = "DISCRETE"
                           THEN nrm_actuator_discrete_set_choices(c, body.data.choices)
                           ELSE nrm_actuator_continuous_set_limits(c, body.data.lmin, body.data.lmax)
  BY DEF Described
<1> HIDE DEF a, c
<1>4. CASE t = "DISCRETE"
  <2>1. Described(a, body) = nrm_actuator_discrete_set_choices(c, d)
    BY <1>1, <1>3, <1>4
  <2>2. CASE d = << >>
    BY <1>2, <1>4, <2>1, <2>2 DEF nrm_actuator_discrete_set_choices, a
  <2>3. CASE d # << >>
    <3>1. Sorted(d) = d
      BY <1>4, SortedKept DEF WellDescribed
    <3>2. Described(a, body) = [c EXCEPT !.data = d]
      BY <2>1, <2>3, <3>1 DEF nrm_actuator_discrete_set_choices
    <3>3. [c EXCEPT !.data = d] = ActuatorOf(u, id, v, t, d)
      BY <1>2 DEF ActuatorOf
    <3> QED  BY <3>2, <3>3 DEF a
  <2> QED  BY <2>2, <2>3
<1>5. CASE t # "DISCRETE"
  <2>1. d \in Int \X Int
    BY <1>5 DEF WellDescribed
  <2>2. d = <<d[1], d[2]>>
    BY <2>1
  <2>3. Described(a, body) = [c EXCEPT !.data = d]
    BY <1>1, <1>3, <1>5, <2>2 DEF nrm_actuator_continuous_set_limits
  <2>4. [c EXCEPT !.data = d] = ActuatorOf(u, id, v, t, d)
    BY <1>2 DEF ActuatorOf
  <2> QED  BY <2>3, <2>4 DEF a
<1> QED  BY <1>4, <1>5

\* What is unpacked of an actuator's message: a clientid that was NULL is
\* the empty string (nrm_msg_actuator_new).
LEMMA ActuatorSent ==
  ASSUME NEW u, NEW id, NEW v, NEW t, NEW d
  PROVE  Unpacked(nrm_msg_new(ActuatorOf(u, id, v, t, d))) =
           [target |-> "ACTUATOR", body |-> BodyOf(u, IdSent(id), v, t, d)]
<1> DEFINE o == ActuatorOf(u, id, v, t, d)
           m == [target |-> "ACTUATOR", body |-> BodyOf(u, id, v, t, d)]
<1>1. /\ o.kind = "ACTUATOR" /\ o.uuid = u /\ o.clientid = id /\ o.value = v
      /\ o.type = t /\ o.data = d
  BY DEF ActuatorOf
<1> HIDE DEF o
<1>2. nrm_msg_actuator_new(o) = BodyOf(u, id, v, t, d)
  BY <1>1 DEF nrm_msg_actuator_new, nrm_msg_actuator_discrete_new,
     nrm_msg_actuator_continuous_new, BodyOf
<1>3. nrm_msg_new(o) = m
  BY <1>1, <1>2 DEF nrm_msg_new
<1>4. m.target = "ACTUATOR" /\ m.body = BodyOf(u, id, v, t, d) /\ m.body.clientid = id
  BY DEF BodyOf
<1>5. [BodyOf(u, id, v, t, d) EXCEPT !.clientid = ""] = BodyOf(u, "", v, t, d)
  <2> DEFINE e == IF t = "DISCRETE" THEN [choices |-> d] ELSE [lmin |-> d[1], lmax |-> d[2]]
  <2>1. \A i : BodyOf(u, i, v, t, d) =
                 [uuid |-> u, clientid |-> i, value |-> v, type |-> t, data |-> e]
    BY DEF BodyOf
  <2> HIDE DEF e
  <2>2. ASSUME NEW i
        PROVE  [[uuid |-> u, clientid |-> id, value |-> v, type |-> t, data |-> e] EXCEPT !.clientid = i]
                 = [uuid |-> u, clientid |-> i, value |-> v, type |-> t, data |-> e]
    BY SMTT(60)
  <2> QED  BY <2>1, <2>2, Zenon
<1>6. [m EXCEPT !.body.clientid = ""] = [m EXCEPT !.body = [m.body EXCEPT !.clientid = ""]]
  OBVIOUS
<1>7. \A b : [m EXCEPT !.body = b] = [target |-> "ACTUATOR", body |-> b]
  OBVIOUS
<1> HIDE DEF m
<1>8. Unpacked(m) = IF id = NoId THEN [m EXCEPT !.body.clientid = ""] ELSE m
  BY <1>4 DEF Unpacked
<1>9. CASE id = NoId
  <2>1. Unpacked(m) = [m EXCEPT !.body = BodyOf(u, "", v, t, d)]
    BY <1>4, <1>5, <1>6, <1>8, <1>9, Zenon
  <2>2. IdSent(id) = ""
    BY <1>9 DEF IdSent
  <2> QED  BY <1>3, <1>7, <2>1, <2>2, Zenon DEF o
<1>10. CASE id # NoId
  BY <1>3, <1>8, <1>10 DEF IdSent, o, m
<1> QED  BY <1>9, <1>10

\* An actuator that a message carries is the same but for a clientid that
\* was NULL, and an update with it makes any actuator of its type and uuid
\* the same as it.
LEMMA ActuatorSurvives ==
  ASSUME NEW u, NEW id, NEW v, NEW t, NEW d, WellDescribed(t, d),
         NEW m, m = Unpacked(nrm_msg_new(ActuatorOf(u, id, v, t, d)))
  PROVE  /\ Create(m) = ActuatorOf(u, IdSent(id), v, t, d)
         /\ \A y : Update(ActuatorOf(u, y, v, t, d), m) = ActuatorOf(u, IdSent(id), v, t, d)
<1> DEFINE b == BodyOf(u, IdSent(id), v, t, d)
           e == IF t = "DISCRETE" THEN << >> ELSE <<0, 0>>
<1>1. m.target = "ACTUATOR" /\ m.body = b
  BY ActuatorSent
<1>2. IdSent(id) # NoId
  BY DEF IdSent, NoId
<1>3. b.uuid = u /\ b.type = t
  BY DEF BodyOf
<1>4. ASSUME NEW x, NEW y, NEW w, NEW f, t = "DISCRETE" /\ d = << >> => f = << >>
      PROVE  Described(ActuatorOf(x, y, w, t, f), b) = ActuatorOf(u, IdSent(id), v, t, d)
  BY <1>2, <1>4, ActuatorDescribed
<1> HIDE DEF b
<1>5. nrm_actuator_create(u, t) = ActuatorOf(u, NoId, 0, t, e)
  BY DEF nrm_actuator_create, ActuatorOf
<1>6. t = "DISCRETE" => e = << >>
  OBVIOUS
<1> HIDE DEF e
<1>7. Create(m) = Described(ActuatorOf(u, NoId, 0, t, e), b)
  BY <1>1, <1>3, <1>5 DEF Create, nrm_actuator_create_frommsg
<1>8. ASSUME NEW y
      PROVE  Update(ActuatorOf(u, y, v, t, d), m) = Described(ActuatorOf(u, y, v, t, d), b)
  <2>1. ActuatorOf(u, y, v, t, d).kind = "ACTUATOR"
    BY DEF ActuatorOf
  <2> QED  BY <1>1, <2>1 DEF Update, nrm_actuator_update_frommsg
<1> QED  BY <1>4, <1>6, <1>7, <1>8

\* An object that belongs to another client is the same object otherwise.
LEMMA Owned ==
  ASSUME NEW o, IsObject(o)
  PROVE  /\ o = OwnedBy(o, o.clientid)
         /\ \A i, j : OwnedBy(OwnedBy(o, i), j) = OwnedBy(o, j)
         /\ \A i : OwnedBy(o, i).kind = o.kind /\ Content(OwnedBy(o, i)) = Content(o)
         /\ o.kind = "ACTUATOR" =>
              /\ WellDescribed(o.type, o.data)
              /\ \A i : OwnedBy(o, i) = ActuatorOf(o.uuid, i, o.value, o.type, o.data)
<1>1. CASE o.kind = "ACTUATOR"
  <2>1. /\ o = [kind |-> "ACTUATOR", uuid |-> o.uuid, clientid |-> o.clientid,
                value |-> o.value, type |-> o.type, data |-> o.data]
        /\ WellDescribed(o.type, o.data)
    BY <1>1 DEF IsObject, WellDescribed
  <2> DEFINE A(i) == ActuatorOf(o.uuid, i, o.value, o.type, o.data)
  <2>2. o = A(o.clientid)
    BY <2>1 DEF ActuatorOf
  <2>3. \A i : A(i).kind = "ACTUATOR" /\ A(i).clientid = i
    BY DEF ActuatorOf
  <2>4. ASSUME NEW u, NEW v, NEW t, NEW d, NEW i, NEW j
        PROVE  [ActuatorOf(u, i, v, t, d) EXCEPT !.clientid = j] = ActuatorOf(u, j, v, t, d)
    BY SMTT(60) DEF ActuatorOf
  <2>5. \A i, j : [A(i) EXCEPT !.clientid = j] = A(j)
    BY <2>4
  <2> HIDE DEF A
  <2>6. \A j : OwnedBy(o, j) = A(j)
    BY <1>1, <2>2, <2>5 DEF OwnedBy
  <2>7. \A i, j : OwnedBy(A(i), j) = A(j)
    BY <2>3, <2>5 DEF OwnedBy
  <2>8. Content(o) = A(NoId) /\ \A i : Content(A(i)) = A(NoId)
    BY <1>1, <2>2, <2>3, <2>5 DEF Content
  <2>9. \A i : OwnedBy(o, i) = ActuatorOf(o.uuid, i, o.value, o.type, o.data)
    BY <2>6 DEF A
  <2> QED  BY <1>1, <2>1, <2>2, <2>3, <2>6, <2>7, <2>8, <2>9
<1>2. CASE o.kind # "ACTUATOR"
  BY <1>2 DEF OwnedBy, Content
<1> QED  BY <1>1, <1>2

\* An object that a message carries is the same, its scope, its data and its
\* time included, but for a clientid that was NULL; an update with it leaves
\* the caller's object as it was but for its clientid.
LEMMA ObjectSurvives ==
  ASSUME NEW o, IsObject(o), NEW id,
         NEW m, m = Unpacked(nrm_msg_new(OwnedBy(o, id)))
  PROVE  Create(m) = OwnedBy(o, IdSent(id)) /\ Update(o, m) = OwnedBy(o, IdSent(id))
<1>1. CASE o.kind = "ACTUATOR"
  <2> DEFINE A(i) == ActuatorOf(o.uuid, i, o.value, o.type, o.data)
  <2>1. WellDescribed(o.type, o.data) /\ o = A(o.clientid) /\ \A i : OwnedBy(o, i) = A(i)
    BY <1>1, Owned
  <2>2. Create(m) = A(IdSent(id)) /\ \A y : Update(A(y), m) = A(IdSent(id))
    BY <2>1, ActuatorSurvives
  <2> HIDE DEF A
  <2> QED  BY <2>1, <2>2
<1>2. ASSUME o.kind # "ACTUATOR"
      PROVE  \A i : OwnedBy(o, i) = o
  BY <1>2 DEF OwnedBy
<1>3. ASSUME o.kind # "ACTUATOR"
      PROVE  m = nrm_msg_new(o) /\ m.target = o.kind
  <2>1. nrm_msg_new(o).target = o.kind
    BY DEF nrm_msg_new
  <2>2. Unpacked(nrm_msg_new(o)) = nrm_msg_new(o)
    BY <1>3, <2>1 DEF Unpacked
  <2>3. OwnedBy(o, id) = o
    BY <1>2, <1>3
  <2> QED  BY <2>1, <2>2, <2>3
<1>4. CASE o.kind = "SCOPE"
  <2>1. o = [kind |-> "SCOPE", uuid |-> o.uuid, maps |-> o.maps] /\ o.maps \in [Types -> Bitmap]
    BY <1>4 DEF IsObject
  <2>2. m.body = [uuid |-> o.uuid, scope |-> nrm_msg_scope_new(o.maps)]
    BY <1>3, <1>4 DEF nrm_msg_new
  <2>3. nrm_scope_create_frommsg(m.body.scope) = o.maps /\ m.body.uuid = o.uuid
    BY <2>1, <2>2, ScopeSurvives
  <2>4. Create(m) = o
    BY <1>3, <1>4, <2>1, <2>3 DEF Create
  <2>5. [o EXCEPT !.maps = o.maps] = o
    BY <2>1
  <2>6. Update(o, m) = o
    BY <1>4, <2>3, <2>5 DEF Update
  <2> QED  BY <1>2, <1>4, <2>4, <2>6
<1>5. CASE o.kind = "EVENT"
  <2> DEFINE t == o.time
  <2>1. /\ o = [kind |-> "EVENT", uuid |-> o.uuid, maps |-> o.maps,
                time |-> [sec |-> t.sec, nsec |-> t.nsec], value |-> o.value]
        /\ o.maps \in [Types -> Bitmap] /\ t.sec \in Nat /\ t.nsec \in 0..NsPerSec - 1
    BY <1>5 DEF IsObject
  <2>2. t = [sec |-> t.sec, nsec |-> t.nsec]
    BY <2>1
  <2>3. m.body = [uuid |-> o.uuid, scope |-> nrm_msg_scope_new(o.maps),
                  time |-> nrm_time_tons(t), value |-> o.value]
    BY <1>3, <1>5 DEF nrm_msg_new, nrm_msg_timeserie_new
  <2>4. /\ nrm_scope_create_frommsg(m.body.scope) = o.maps
        /\ m.body.uuid = o.uuid /\ m.body.value = o.value /\ m.body.time = nrm_time_tons(t)
    BY <2>1, <2>3, ScopeSurvives
  <2>5. nrm_time_fromns(nrm_time_tons(t)) = t
    <3>1. nrm_time_fromns(nrm_time_tons([sec |-> t.sec, nsec |-> t.nsec])) = [sec |-> t.sec, nsec |-> t.nsec]
      BY <2>1, TimeSurvives
    <3> HIDE DEF t
    <3> QED  BY <2>2, <3>1, Zenon
  <2>6. Create(m) = [kind |-> "EVENT", uuid |-> o.uuid, maps |-> o.maps, time |-> t, value |-> o.value]
    BY <1>3, <1>5, <2>4, <2>5 DEF Create
  <2>7. o = [kind |-> "EVENT", uuid |-> o.uuid, maps |-> o.maps, time |-> t, value |-> o.value]
    <3> HIDE DEF t
    <3> QED  BY <2>1, <2>2, Zenon
  <2>8. Update(o, m) = o
    BY <1>5 DEF Update
  <2> QED  BY <1>2, <1>5, <2>6, <2>7, <2>8
<1>6. CASE o.kind \in {"SENSOR", "SLICE"}
  <2>1. o = [kind |-> o.kind, uuid |-> o.uuid]
    BY <1>6 DEF IsObject
  <2>2. m.body = [uuid |-> o.uuid]
    BY <1>3, <1>6 DEF nrm_msg_new
  <2>3. m.body.uuid = o.uuid
    BY <2>2
  <2>4. Create(m) = o /\ Update(o, m) = o
    BY <1>3, <1>6, <2>1, <2>3 DEF Create, Update
  <2> QED  BY <1>2, <1>6, <2>4
<1> QED  BY <1>1, <1>4, <1>5, <1>6 DEF IsObject

\* The frames of a packed message, without and with one in front.
Packed(o) == <<Frame("empty", ""), Frame("packed", nrm_msg_new(o))>>
Addressed(x, o) == <<x, Frame("empty", ""), Frame("packed", nrm_msg_new(o))>>

\* The frames the senders push are those, a ROUTER's identity and a
\* publication's topic in front, and what is left without it is well framed
\* (nrm_msg_push_packed_frames, nrm_msg_pop_packed_frames).
LEMMA FramesPushed ==
  ASSUME NEW o
  PROVE  /\ WellFramed(Packed(o)) /\ nrm_msg_pop_packed_frames(Packed(o)) = Unpacked(nrm_msg_new(o))
         /\ \A id : /\ RouterReceives(nrm_msg_push_packed_frames(<< >>, nrm_msg_new(o)), id) =
                         Addressed(Frame("identity", id), o)
                    /\ nrm_msg_pop_identity(Addressed(Frame("identity", id), o)) = id
                    /\ RouterSends(nrm_msg_push_packed_frames(
                         nrm_msg_push_identity(<< >>, id), nrm_msg_new(o))) = Packed(o)
         /\ nrm_msg_push_packed_frames(nrm_msg_push_topic(<< >>, Topic), nrm_msg_new(o)) =
              Addressed(Frame("topic", Topic), o)
         /\ \A x : Tail(Addressed(x, o)) = Packed(o)
<1> DEFINE e == Frame("empty", "")
           p == Frame("packed", nrm_msg_new(o))
<1>1. /\ e.kind = "empty" /\ p.kind = "packed" /\ p.data = nrm_msg_new(o)
      /\ \A id : Frame("identity", id).data = id
  BY DEF Frame
<1> HIDE DEF e, p
<1>2. /\ << >> \o <<e, p>> = <<e, p>> /\ Len(<<e, p>>) = 2
      /\ <<e, p>>[1] = e /\ <<e, p>>[2] = p
  BY SMTT(60)
<1>3. ASSUME NEW x
      PROVE  /\ Append(<< >>, x) = <<x>> /\ <<x>> \o <<e, p>> = <<x, e, p>>
             /\ Tail(<<x, e, p>>) = <<e, p>> /\ Head(<<x, e, p>>) = x
  <2>1. Append(<< >>, x) = <<x>>
    BY SMTT(60)
  <2>2. <<x>> \o <<e, p>> = <<x, e, p>>
    <3> DEFINE S == {x, e, p}
               y == <<x>>
               z == <<e, p>>
    <3>1. y \in Seq(S) /\ z \in Seq(S) /\ <<x, e, p>> \in Seq(S)
      BY SMTT(60)
    <3>2. Len(y) = 1 /\ y[1] = x /\ Len(z) = 2 /\ z[1] = e /\ z[2] = p
      BY SMTT(60)
    <3> HIDE DEF y, z
    <3>3. y \o z \in Seq(S) /\ Len(y \o z) = 3 /\ (y \o z)[1] = x /\ (y \o z)[2] = e /\ (y \o z)[3] = p
      <4>1. /\ y \o z \in Seq(S) /\ Len(y \o z) = Len(y) + Len(z)
            /\ \A i \in 1..Len(y) + Len(z) : (y \o z)[i] = IF i <= Len(y) THEN y[i] ELSE z[i - Len(y)]
        BY <3>1, ConcatProperties
      <4> HIDE DEF S
      <4> QED  BY <3>2, <4>1, SMTT(60)
    <3>4. Len(<<x, e, p>>) = 3 /\ \A i \in 1..3 : i = 1 \/ i = 2 \/ i = 3
      BY SMTT(60)
    <3>5. <<x, e, p>>[1] = x /\ <<x, e, p>>[2] = e /\ <<x, e, p>>[3] = p
      BY SMTT(60)
    <3> QED  BY <3>1, <3>3, <3>4, <3>5, SeqEqual DEF y, z
  <2>3. Tail(<<x, e, p>>) = <<e, p>>
    BY SMTT(60)
  <2>4. Head(<<x, e, p>>) = x
    BY SMTT(60)
  <2> QED  BY <2>1, <2>2, <2>3, <2>4
<1>4. Packed(o) = <<e, p>> /\ \A x : Addressed(x, o) = <<x, e, p>>
  BY DEF Packed, Addressed, e, p
<1>5. \A zm : nrm_msg_push_packed_frames(zm, nrm_msg_new(o)) = zm \o <<e, p>>
  BY DEF nrm_msg_push_packed_frames, e, p
<1>6. /\ nrm_msg_push_packed_frames(<< >>, nrm_msg_new(o)) = <<e, p>>
      /\ \A x : nrm_msg_push_packed_frames(<<x>>, nrm_msg_new(o)) = <<x, e, p>>
  BY <1>2, <1>3, <1>5
<1>7. WellFramed(Packed(o)) /\ nrm_msg_pop_packed_frames(Packed(o)) = Unpacked(nrm_msg_new(o))
  BY <1>1, <1>2, <1>4 DEF WellFramed, nrm_msg_pop_packed_frames
<1>8. ASSUME NEW id
      PROVE  /\ RouterReceives(nrm_msg_push_packed_frames(<< >>, nrm_msg_new(o)), id) =
                  Addressed(Frame("identity", id), o)
             /\ nrm_msg_pop_identity(Addressed(Frame("identity", id), o)) = id
             /\ RouterSends(nrm_msg_push_packed_frames(
                  nrm_msg_push_identity(<< >>, id), nrm_msg_new(o))) = Packed(o)
  <2>1. RouterReceives(nrm_msg_push_packed_frames(<< >>, nrm_msg_new(o)), id) =
          Addressed(Frame("identity", id), o)
    BY <1>3, <1>4, <1>6, Zenon DEF RouterReceives
  <2>2. nrm_msg_pop_identity(Addressed(Frame("identity", id), o)) = id
    BY <1>1, <1>3, <1>4, Zenon DEF nrm_msg_pop_identity
  <2>3. RouterSends(nrm_msg_push_packed_frames(nrm_msg_push_identity(<< >>, id), nrm_msg_new(o))) =
          Packed(o)
    BY <1>3, <1>4, <1>6, Zenon DEF RouterSends, nrm_msg_push_identity
  <2> QED  BY <2>1, <2>2, <2>3
<1>9. nrm_msg_push_packed_frames(nrm_msg_push_topic(<< >>, Topic), nrm_msg_new(o)) =
        Addressed(Frame("topic", Topic), o)
  BY <1>3, <1>4, <1>6, Zenon DEF nrm_msg_push_topic
<1>10. \A x : Tail(Addressed(x, o)) = Packed(o)
  BY <1>3, <1>4, Zenon
<1> QED  BY <1>7, <1>8, <1>9, <1>10

\* The object everyone holds, and the frames under way, on each leg: before
\* the daemon answers, the client's object is as its caller made it, and
\* from then on what the answer carries belongs to the client.
WireInv ==
  /\ IsObject(crafted)
  /\ leg \in {"crafted", "request", "reply", "registered", "list", "publication", "listed"}
  /\ own = IF leg \in {"registered", "list", "listed"} THEN OwnedBy(crafted, Me) ELSE crafted
  /\ stored = IF leg \in {"crafted", "request"} THEN crafted ELSE OwnedBy(crafted, Me)
  /\ listed = IF leg = "listed" THEN OwnedBy(crafted, Me) ELSE crafted
  /\ leg \in {"reply", "registered", "list"} => crafted.kind # "EVENT"
  /\ leg = "publication" => crafted.kind = "EVENT"
  /\ leg = "request" => frames = Addressed(Frame("identity", Me), crafted)
  /\ leg = "publication" => frames = Addressed(Frame("topic", Topic), stored)
  /\ leg \in {"reply", "list"} => frames = Packed(stored)

\* The invariant is enough: whatever belongs to the client is the object
\* its caller made.
LEMMA WireInvEnough ==
  ASSUME WireInv
  PROVE  ObjectSurvivesMessage
<1> DEFINE mine == OwnedBy(crafted, Me)
<1>1. Content(mine) = Content(crafted) /\ (crafted.kind = "ACTUATOR" => mine.clientid = Me)
  <2>1. Content(mine) = Content(crafted)
    BY Owned DEF WireInv
  <2>2. ASSUME crafted.kind = "ACTUATOR" PROVE mine.clientid = Me
    <3>1. mine = ActuatorOf(crafted.uuid, Me, crafted.value, crafted.type, crafted.data)
      BY <2>2, Owned DEF WireInv
    <3> HIDE DEF mine
    <3> QED  BY <3>1 DEF ActuatorOf
  <2> QED  BY <2>1, <2>2
<1> HIDE DEF mine
<1>2. \A o \in {own, stored, listed} : o = crafted \/ o = mine
  BY DEF WireInv, mine
<1>3. \A o \in {own, stored, listed} : Content(o) = Content(crafted)
  BY <1>1, <1>2
<1>4. leg \in {"registered", "list"} => own = mine /\ stored = mine
  BY DEF WireInv, mine
<1>5. leg = "listed" => listed = mine
  BY DEF WireInv, mine
<1>6. leg \in {"request", "publication"} => WellFramed(Tail(frames))
  BY FramesPushed DEF WireInv
<1>7. leg \in {"reply", "list"} => WellFramed(frames)
  BY FramesPushed DEF WireInv
<1> QED  BY <1>1, <1>3, <1>4, <1>5, <1>6, <1>7 DEF ObjectSurvivesMessage

\* The invariant holds of the object the client's caller made.
LEMMA WireInvInit ==
  ASSUME WireInit
  PROVE  WireInv
BY WireAssumption DEF WireInit, WireInv

\* Every step of the library on the way keeps the invariant.
LEMMA WireInvStep ==
  ASSUME WireInv, [WireNext]_wirevars
  PROVE  WireInv'
<1> DEFINE mine == OwnedBy(crafted, Me)
<1>1. IsObject(crafted) /\ mine.kind = crafted.kind /\ OwnedBy(mine, Me) = mine
      /\ OwnedBy(OwnedBy(crafted, IdSent(crafted.clientid)), Me) = mine
      /\ OwnedBy(crafted, IdSent(crafted.clientid)).kind = crafted.kind
      /\ crafted = OwnedBy(crafted, crafted.clientid)
  BY Owned DEF WireInv
<1>2. IdSent(Me) = Me
  BY WireAssumption DEF IdSent
<1>3. /\ Create(Unpacked(nrm_msg_new(mine))) = mine
      /\ Update(crafted, Unpacked(nrm_msg_new(mine))) = mine
  BY <1>1, <1>2, ObjectSurvives
<1>4. Create(Unpacked(nrm_msg_new(crafted))) = OwnedBy(crafted, IdSent(crafted.clientid))
  BY <1>1, ObjectSurvives
<1>5. crafted.kind # "ACTUATOR" => mine = crafted /\ \A i : OwnedBy(crafted, i) = crafted
  BY DEF OwnedBy
<1>6. CASE nrm_msg_send_own
  <2>1. /\ leg = "crafted" /\ leg' = "request" /\ UNCHANGED <<crafted, own, stored, listed>>
        /\ own = crafted
    BY <1>6 DEF nrm_msg_send_own, WireInv
  <2>2. frames' = Addressed(Frame("identity", Me), crafted)
    BY <1>6, <2>1, FramesPushed DEF nrm_msg_send_own
  <2> QED  BY <1>1, <2>1, <2>2 DEF WireInv
<1>7. CASE nrm_server_add
  <2> DEFINE id == nrm_msg_pop_identity(frames)
             o  == Create(nrm_msg_pop_packed_frames(Tail(frames)))
             s  == IF o.kind = "ACTUATOR" THEN [o EXCEPT !.clientid = id] ELSE o
  <2>1. /\ leg = "request" /\ leg' = "reply" /\ crafted.kind # "EVENT"
        /\ UNCHANGED <<crafted, own, listed>>
        /\ frames = Addressed(Frame("identity", Me), crafted)
    BY <1>7 DEF nrm_server_add, WireInv
  <2>2. /\ stored' = s
        /\ frames' = RouterSends(nrm_msg_push_packed_frames(
                       nrm_msg_push_identity(<< >>, id), nrm_msg_new(s)))
    BY <1>7 DEF nrm_server_add
  <2>3. id = Me
    BY <2>1, FramesPushed
  <2>4. o = OwnedBy(crafted, IdSent(crafted.clientid))
    BY <1>4, <2>1, FramesPushed
  <2>5. s = OwnedBy(o, id)
    BY DEF OwnedBy
  <2> HIDE DEF id, o, s
  <2>6. s = mine
    BY <1>1, <2>3, <2>4, <2>5
  <2>7. frames' = Packed(mine)
    BY <2>2, <2>6, FramesPushed
  <2> QED  BY <1>1, <2>1, <2>2, <2>6, <2>7 DEF WireInv
<1>8. CASE nrm_client_updates
  <2>1. /\ leg = "reply" /\ leg' = "registered" /\ UNCHANGED <<crafted, stored, listed>>
        /\ own = crafted /\ stored = mine /\ frames = Packed(stored) /\ crafted.kind # "EVENT"
    BY <1>8 DEF nrm_client_updates, WireInv
  <2>2. own' = mine
    BY <1>3, <1>8, <2>1, FramesPushed DEF nrm_client_updates
  <2> QED  BY <1>1, <2>1, <2>2 DEF WireInv
<1>9. CASE nrm_server_list
  <2>1. /\ leg = "registered" /\ leg' = "list" /\ UNCHANGED <<crafted, own, stored, listed>>
    BY <1>9 DEF nrm_server_list
  <2>2. frames' = Packed(stored)
    BY <1>9, FramesPushed DEF nrm_server_list
  <2> QED  BY <1>1, <2>1, <2>2 DEF WireInv
<1>10. CASE nrm_server_publish
  <2> DEFINE e == Create(nrm_msg_pop_packed_frames(Tail(frames)))
  <2>1. /\ leg = "request" /\ leg' = "publication" /\ crafted.kind = "EVENT"
        /\ UNCHANGED <<crafted, own, listed>>
        /\ frames = Addressed(Frame("identity", Me), crafted)
    BY <1>10 DEF nrm_server_publish, WireInv
  <2>2. e = mine
    BY <1>4, <1>5, <2>1, FramesPushed
  <2>3. /\ stored' = e
        /\ frames' = nrm_msg_push_packed_frames(nrm_msg_push_topic(<< >>, Topic), nrm_msg_new(e))
    BY <1>10 DEF nrm_server_publish
  <2> HIDE DEF e
  <2>4. frames' = Addressed(Frame("topic", Topic), e)
    BY <2>3, FramesPushed
  <2> QED  BY <1>1, <2>1, <2>2, <2>3, <2>4 DEF WireInv
<1>11. CASE nrm_client_creates
  <2> DEFINE zm == IF leg = "publication" THEN Tail(frames) ELSE frames
  <2>1. /\ leg \in {"list", "publication"} /\ leg' = "listed" /\ UNCHANGED <<crafted, own, stored>>
        /\ listed' = Create(nrm_msg_pop_packed_frames(zm)) /\ stored = mine
    BY <1>11 DEF nrm_client_creates, WireInv
  <2>2. zm = Packed(mine)
    BY <2>1, FramesPushed DEF WireInv
  <2> HIDE DEF zm
  <2>3. listed' = mine
    BY <1>3, <2>1, <2>2, FramesPushed
  <2>4. own = mine
    BY <1>5, <2>1 DEF WireInv
  <2> QED  BY <1>1, <2>1, <2>3, <2>4 DEF WireInv
<1>12. CASE UNCHANGED wirevars
  BY <1>12 DEF wirevars, WireInv
<1> QED  BY <1>6, <1>7, <1>8, <1>9, <1>10, <1>11, <1>12 DEF WireNext

\* Whatever object a client makes, the daemon, the listeners and the other
\* clients hold the same, down to every bit of its scope, choice, limit and
\* nanosecond; the registration makes it the client's own and changes nothing
\* else; and no receiver finds another frame where src/messages.c asserts the
\* empty one.
THEOREM ObjectsSurvive ==
  WireInit /\ [][WireNext]_wirevars => []ObjectSurvivesMessage
<1>1. WireInit => WireInv
  BY WireInvInit
<1>2. WireInv /\ [WireNext]_wirevars => WireInv'
  BY WireInvStep
<1>3. WireInv => ObjectSurvivesMessage
  BY WireInvEnough
<1> QED  BY <1>1, <1>2, <1>3, PTL

-----------------------------------------------------------------------------
(* The daemon's scopes and the loops that look for one of them.  The       *)
(* scopes still listed and the one held are those not yet destroyed, and   *)
(* until a match is met the wanted scope is still in the list.             *)

\* Every memory node is one of the bits visited.
LEMMA NodeVisited ==
  ASSUME NEW nodes \in SUBSET Nat, IsFiniteSet(nodes), NEW n \in nodes
  PROVE  \E i \in 1..Cardinality(nodes) : NthNode(nodes, i) = n
<1> DEFINE below == [x \in nodes |-> {m \in nodes : m < x}]
           i == Cardinality(below[n]) + 1
<1>1. /\ \A x \in nodes : ~(x < x)
      /\ \A x, y \in nodes : x # y => x < y \/ y < x
      /\ \A x, y, z \in nodes : x < y /\ z < x => z < y
  BY SMTT(60)
<1>2. Ordered(nodes, below) /\ \A x \in nodes : below[x] = {m \in nodes : m < x}
  BY <1>1 DEF Ordered
<1> HIDE DEF below
<1>3. /\ \A x \in nodes : Cardinality(below[x]) \in 0..Cardinality(nodes) - 1
      /\ \A x, y \in nodes : Cardinality(below[x]) = Cardinality(below[y]) => x = y
  BY <1>2, Ranks
<1>4. Cardinality(nodes) \in Nat
  BY FS_CardinalityType
<1>5. i \in 1..Cardinality(nodes) /\ i - 1 = Cardinality(below[n])
  BY <1>3, <1>4, SMTT(60)
<1>6. \A x \in nodes : Cardinality({m \in nodes : m < x}) = i - 1 <=> x = n
  BY <1>2, <1>3, <1>5
<1> HIDE DEF i
<1>7. NthNode(nodes, i) = n
  BY <1>6 DEF NthNode
<1> QED  BY <1>5, <1>7

\* The elements of a list given by its indices.
LEMMA ListFilled ==
  ASSUME NEW S, NEW k \in Nat, NEW b \in [1..k -> S]
  PROVE  b \in Seq(S) /\ Links(b) = {b[i] : i \in 1..k}
<1>1. b \in Seq(S)
  BY SeqDef
<1>2. DOMAIN b = 1..k
  OBVIOUS
<1> QED  BY <1>1, <1>2 DEF Links

\* The scopes an object may have.
ScopesOf(o) == {Scope(o.cpus, o.nodes, {})} \cup
               {Scope(o.cpus, {NthNode(o.nodes, i)}, {}) : i \in 1..Cardinality(o.nodes)}

\* The scopes of an object: of all its nodes, and for a processor of each of
\* them.
LEMMA ScopesOfObject ==
  ASSUME NEW o, o.nodes \in SUBSET Nat, IsFiniteSet(o.nodes)
  PROVE  /\ ObjectScopes(o) \in Seq(ScopesOf(o))
         /\ o.type \notin {"L2", "L1d"} => Scope(o.cpus, o.nodes, {}) \in Links(ObjectScopes(o))
         /\ o.type = "PU" => \A n \in o.nodes : Scope(o.cpus, {n}, {}) \in Links(ObjectScopes(o))
<1> DEFINE a == Scope(o.cpus, o.nodes, {})
           k == Cardinality(o.nodes)
           b == [i \in 1..k |-> Scope(o.cpus, {NthNode(o.nodes, i)}, {})]
           S == ScopesOf(o)
<1>1. k \in Nat
  BY FS_CardinalityType
<1>2. << >> \in Seq(S) /\ a \in S /\ b \in [1..k -> S]
  <2>1. << >> \in Seq(S)
    BY EmptySeq
  <2> QED  BY <2>1 DEF ScopesOf
<1>3. ObjectScopes(o) = IF o.type \in {"L2", "L1d"} THEN << >>
                        ELSE <<a>> \o (IF o.type = "PU" /\ k > 1 THEN b ELSE << >>)
  BY DEF ObjectScopes
<1>4. <<a>> \in Seq(S) /\ Links(<<a>>) = {a}
  BY <1>2, ListOfOne
<1>5. b \in Seq(S) /\ Links(b) = {b[i] : i \in 1..k}
  <2> HIDE DEF b, k, S
  <2> QED  BY <1>1, <1>2, ListFilled
<1>6. \A i \in 1..k : b[i] = Scope(o.cpus, {NthNode(o.nodes, i)}, {})
  OBVIOUS
<1> HIDE DEF a, b, k, S
<1>7. \A q \in Seq(S) : <<a>> \o q \in Seq(S) /\ Links(<<a>> \o q) = {a} \cup Links(q)
  <2> SUFFICES ASSUME NEW q \in Seq(S)
               PROVE  <<a>> \o q \in Seq(S) /\ Links(<<a>> \o q) = {a} \cup Links(q)
    OBVIOUS
  <2> DEFINE one == <<a>>
  <2>0. one \in Seq(S)
    BY <1>4
  <2>1. one \o q \in Seq(S) /\ Links(one \o q) = Links(one) \cup Links(q)
    <3> HIDE DEF one
    <3> QED  BY <2>0, ListsJoined
  <2> QED  BY <1>4, <2>1
<1>8. CASE o.type \in {"L2", "L1d"}
  <2>1. o.type # "PU"
    BY <1>8
  <2> QED  BY <1>2, <1>3, <1>8, <2>1 DEF S
<1>9. CASE o.type \notin {"L2", "L1d"} /\ o.type = "PU" /\ k > 1
  <2>1. ObjectScopes(o) = <<a>> \o b
    BY <1>3, <1>9
  <2>2. \A n \in o.nodes : Scope(o.cpus, {n}, {}) \in Links(b)
    <3> SUFFICES ASSUME NEW n \in o.nodes PROVE Scope(o.cpus, {n}, {}) \in Links(b)
      OBVIOUS
    <3>1. PICK i \in 1..k : NthNode(o.nodes, i) = n
      BY NodeVisited DEF k
    <3> QED  BY <1>5, <1>6, <3>1
  <2> QED  BY <1>5, <1>7, <1>9, <2>1, <2>2 DEF S, a
<1>10. CASE o.type \notin {"L2", "L1d"} /\ ~(o.type = "PU" /\ k > 1)
  <2>1. ObjectScopes(o) = <<a>> \o << >>
    BY <1>3, <1>10
  <2>2. Links(<<a>> \o << >>) = {a} \cup Links(<< >>) /\ <<a>> \o << >> \in Seq(S)
    BY <1>2, <1>7
  <2>3. o.type = "PU" => \A n \in o.nodes : Scope(o.cpus, {n}, {}) = a
    <3> SUFFICES ASSUME o.type = "PU", NEW n \in o.nodes PROVE o.nodes = {n}
      BY DEF a
    <3>1. ~(k > 1)
      BY <1>10
    <3>2. {n} \in SUBSET o.nodes /\ Cardinality({n}) = 1
      BY FS_Singleton
    <3>3. Cardinality({n}) <= k /\ (k = Cardinality({n}) => o.nodes = {n})
      BY <3>2, FS_Subset DEF k
    <3>4. k = 1
      BY <1>1, <3>1, <3>2, <3>3, SMTT(60)
    <3> QED  BY <3>2, <3>3, <3>4
  <2> QED  BY <1>10, <2>1, <2>2, <2>3 DEF S, a
<1> QED  BY <1>8, <1>9, <1>10

\* The scopes of the objects are those of each of them.
LEMMA ScopesGathered ==
  ASSUME NEW t, NEW n \in Nat, NEW S, \A i \in 1..n : ObjectScopes(t.objects[i]) \in Seq(S)
  PROVE  /\ ScopesUpTo(t, n) \in Seq(S)
         /\ Links(ScopesUpTo(t, n)) = UNION {Links(ObjectScopes(t.objects[i])) : i \in 1..n}
<1> DEFINE IsAdded(f) ==
             f = [i \in 0..n |-> IF i = 0 THEN << >> ELSE f[i - 1] \o ObjectScopes(t.objects[i])]
           c == [i \in 1..n |-> ObjectScopes(t.objects[i])]
           g == CHOOSE f : IsAdded(f)
<1>1. c \in [1..n -> Seq(S)] /\ \A i \in 1..n : c[i] = ObjectScopes(t.objects[i])
  OBVIOUS
<1>2. \A i \in 0..n : i # 0 => i \in 1..n
  BY SMTT(60)
<1>3. ScopesUpTo(t, n) = g[n]
  BY Zenon DEF ScopesUpTo
<1> HIDE DEF c
<1>4. \A f : Joins(f, c, n) <=> IsAdded(f)
  BY <1>1, <1>2 DEF Joins
<1>5. /\ \E f : Joins(f, c, n)
      /\ \A f : Joins(f, c, n) => /\ f[n] \in Seq(S)
                                  /\ Links(f[n]) = UNION {Links(c[b]) : b \in 1..n}
  BY <1>1, JoinedAll, Zenon
<1>6. Joins(g, c, n)
  <2>1. \E f : IsAdded(f)
    BY <1>4, <1>5, Zenon
  <2>2. IsAdded(g)
    BY <2>1, Zenon
  <2> QED  BY <1>4, <2>2, Zenon
<1> HIDE DEF g
<1>7. g[n] \in Seq(S) /\ Links(g[n]) = UNION {Links(c[b]) : b \in 1..n}
  BY <1>5, <1>6, Zenon
<1>8. {Links(c[b]) : b \in 1..n} = {Links(ObjectScopes(t.objects[i])) : i \in 1..n}
  BY <1>1
<1> QED  BY <1>3, <1>7, <1>8

\* The nodes of an object are numbers.
LEMMA ObjectNodes ==
  ASSUME NEW t \in Topologies, NEW i \in DOMAIN t.objects
  PROVE  t.objects[i].nodes \in SUBSET Nat
<1>1. t.objects \in Seq([type : STRING, cpus : SUBSET Nat, nodes : SUBSET Nat])
  BY HwlocAssumption
<1>2. t.objects[i] \in [type : STRING, cpus : SUBSET Nat, nodes : SUBSET Nat]
  BY <1>1, LenProperties, ElementOfSeq
<1> QED  BY <1>2

\* The daemon's scopes are a list, of the scopes of the objects and of one
\* for each device.
LEMMA DaemonScopes ==
  ASSUME NEW t \in Topologies
  PROVE  \E S : /\ nrm_scope_hwloc_scopes(t) \in Seq(S)
                /\ \A i \in DOMAIN t.objects :
                      Links(ObjectScopes(t.objects[i])) \subseteq Links(nrm_scope_hwloc_scopes(t))
                /\ \A g \in 0..Cardinality(Devices(t.osdevs)) - 1 :
                      Scope({}, {}, {g}) \in Links(nrm_scope_hwloc_scopes(t))
<1> DEFINE n == Len(t.objects)
           d == Cardinality(Devices(t.osdevs))
           devs == [i \in 1..d |-> Scope({}, {}, {i - 1})]
           S == (UNION {ScopesOf(t.objects[i]) : i \in 1..n}) \cup {devs[i] : i \in 1..d}
           q == ScopesUpTo(t, n)
<1>1. /\ t.objects \in Seq([type : STRING, cpus : SUBSET Nat, nodes : SUBSET Nat])
      /\ t.osdevs \in Seq([kind : STRING, arity : Nat])
      /\ \A i \in DOMAIN t.objects : IsFiniteSet(t.objects[i].nodes)
  BY HwlocAssumption
<1>2. n \in Nat /\ DOMAIN t.objects = 1..n /\ \A i \in 1..n : t.objects[i].nodes \in SUBSET Nat
  <2>1. n \in Nat /\ DOMAIN t.objects = 1..n
    BY <1>1, LenProperties
  <2> QED  BY <2>1, ObjectNodes
<1>3. d \in Nat
  <2>1. Len(t.osdevs) \in Nat /\ DOMAIN t.osdevs = 1..Len(t.osdevs)
    BY <1>1, LenProperties
  <2>2. IsFiniteSet(DOMAIN t.osdevs)
    BY <2>1, FS_Interval, SMTT(60)
  <2>3. Devices(t.osdevs) \in SUBSET DOMAIN t.osdevs
    BY DEF Devices
  <2>4. IsFiniteSet(Devices(t.osdevs))
    BY <2>2, <2>3, FS_Subset
  <2> QED  BY <2>4, FS_CardinalityType
<1>4. nrm_scope_hwloc_scopes(t) = q \o devs
  BY DEF nrm_scope_hwloc_scopes
<1>5. devs \in [1..d -> S] /\ \A i \in 1..d : devs[i] = Scope({}, {}, {i - 1})
  OBVIOUS
<1>6. ASSUME NEW i \in 1..n
      PROVE  ObjectScopes(t.objects[i]) \in Seq(S)
  <2>1. ObjectScopes(t.objects[i]) \in Seq(ScopesOf(t.objects[i]))
    BY <1>1, <1>2, ScopesOfObject
  <2>2. ScopesOf(t.objects[i]) \subseteq S
    OBVIOUS
  <2> HIDE DEF S
  <2> QED  BY <2>1, <2>2, SMTT(60)
<1> HIDE DEF S, devs, d, n
<1>7. q \in Seq(S) /\ Links(q) = UNION {Links(ObjectScopes(t.objects[i])) : i \in 1..n}
  BY <1>2, <1>6, ScopesGathered
<1>8. devs \in Seq(S) /\ Links(devs) = {devs[i] : i \in 1..d}
  BY <1>3, <1>5, ListFilled
<1> HIDE DEF q
<1>9. q \o devs \in Seq(S) /\ Links(q \o devs) = Links(q) \cup Links(devs)
  BY <1>7, <1>8, ListsJoined
<1>10. \A i \in DOMAIN t.objects : Links(ObjectScopes(t.objects[i])) \subseteq Links(q)
  BY <1>2, <1>7
<1>11. \A g \in 0..d - 1 : Scope({}, {}, {g}) \in Links(devs)
  <2> SUFFICES ASSUME NEW g \in 0..d - 1 PROVE Scope({}, {}, {g}) \in Links(devs)
    OBVIOUS
  <2>1. g + 1 \in 1..d /\ (g + 1) - 1 = g
    BY <1>3, SMTT(60)
  <2>2. devs[g + 1] = Scope({}, {}, {g})
    BY <1>5, <2>1
  <2> QED  BY <1>8, <2>1, <2>2
<1> QED  BY <1>4, <1>9, <1>10, <1>11 DEF d

\* What the loops for all the process may use, for the current processor and
\* for a device look for is among the daemon's scopes.
LEMMA WantedIsListed ==
  ASSUME NEW t \in Topologies, NEW p \in {"allowed", "current", "device"},
         NEW s \in Wants(t, p)
  PROVE  s \in Links(nrm_scope_hwloc_scopes(t))
<1>0. /\ \A i \in DOMAIN t.objects :
             Links(ObjectScopes(t.objects[i])) \subseteq Links(nrm_scope_hwloc_scopes(t))
      /\ \A g \in 0..Cardinality(Devices(t.osdevs)) - 1 :
             Scope({}, {}, {g}) \in Links(nrm_scope_hwloc_scopes(t))
  BY DaemonScopes
<1>1. /\ t.objects \in Seq([type : STRING, cpus : SUBSET Nat, nodes : SUBSET Nat])
      /\ \A i \in DOMAIN t.objects : IsFiniteSet(t.objects[i].nodes)
      /\ \A i \in PUs(t) : \E c \in t.objects[i].cpus : t.objects[i].cpus = {c}
  BY HwlocAssumption
<1>2. \A i \in DOMAIN t.objects : t.objects[i].nodes \in SUBSET Nat
  BY ObjectNodes
<1>3. CASE p = "allowed"
  <2>1. s = nrm_scope_create_hwloc_allowed(t)
    BY <1>3 DEF Wants
  <2>2. PICK i \in DOMAIN t.objects :
          /\ t.objects[i].type \notin {"L2", "L1d"}
          /\ Scope(t.objects[i].cpus, t.objects[i].nodes, {}) = nrm_scope_create_hwloc_allowed(t)
    BY HwlocAssumption
  <2>3. s \in Links(ObjectScopes(t.objects[i]))
    BY <1>1, <1>2, <2>1, <2>2, ScopesOfObject
  <2> QED  BY <1>0, <2>3
<1>4. CASE p = "current"
  <2>0. PICK i \in PUs(t) : s \in CurrentScopes(t.objects[i])
    <3>1. Wants(t, p) = UNION {CurrentScopes(t.objects[j]) : j \in PUs(t)}
      BY <1>4 DEF Wants
    <3> QED  BY <3>1
  <2>1. PICK c \in t.objects[i].cpus, n \in t.objects[i].nodes : s = Scope({c}, {n}, {})
    BY <2>0 DEF CurrentScopes
  <2>2. i \in DOMAIN t.objects /\ t.objects[i].type = "PU" /\ t.objects[i].cpus = {c}
    BY <1>1, <2>1 DEF PUs
  <2>3. s \in Links(ObjectScopes(t.objects[i]))
    BY <1>1, <1>2, <2>1, <2>2, ScopesOfObject
  <2> QED  BY <1>0, <2>2, <2>3
<1>5. CASE p = "device"
  <2>1. PICK g \in 0..Cardinality(Devices(t.osdevs)) - 1 : s = Scope({}, {}, {g})
    <3>1. Wants(t, p) = {Scope({}, {}, {g}) : g \in 0..Cardinality(Devices(t.osdevs)) - 1}
      BY <1>5 DEF Wants
    <3> QED  BY <3>1
  <2> QED  BY <1>0, <2>1
<1> QED  BY <1>3, <1>4, <1>5

\* The scopes the daemon has answered with.
Listed == nrm_scope_hwloc_scopes(topo)

\* The scopes in the list and the one held are alive, the others have been
\* destroyed once; the wanted scope is still in the list until it is met.
Searching ==
  /\ nrmd_scopes \in Seq(Links(Listed)) /\ Len(nrmd_scopes) <= Len(Listed)
  /\ kept \in 0..Len(Listed) /\ kept \notin 1..Len(nrmd_scopes)
  /\ destroyed \in [0..Len(Listed) -> {0, 1}]
  /\ \A i \in 0..Len(Listed) :
        destroyed[i] = IF i = kept \/ i \in 1..Len(nrmd_scopes) THEN 0 ELSE 1
  /\ purpose # "package" /\ ~newscope => wanted \in Links(nrmd_scopes)
  /\ findpc = "done" => nrmd_scopes = << >>

HwlocInv ==
  /\ topo \in Topologies /\ purpose \in {"allowed", "current", "package", "device"}
  /\ wanted \in Wants(topo, purpose)
  /\ findpc \in {"list", "loop", "done"} /\ newscope \in BOOLEAN
  /\ findpc = "list" => kept = 0
  /\ findpc # "list" => Searching

\* A list without its last element.
LEMMA LastTaken ==
  ASSUME NEW S, NEW q \in Seq(S), q # << >>
  PROVE  /\ Len(q) \in Nat \ {0}
         /\ SubSeq(q, 1, Len(q) - 1) \in Seq(S)
         /\ Len(SubSeq(q, 1, Len(q) - 1)) = Len(q) - 1
         /\ Links(q) = Links(SubSeq(q, 1, Len(q) - 1)) \cup {q[Len(q)]}
<1> DEFINE L == Len(q)
           r == SubSeq(q, 1, L - 1)
<1>1. L \in Nat \ {0} /\ DOMAIN q = 1..L
  BY SMTT(60)
<1>2. r \in Seq(S) /\ Len(r) = L - 1 /\ DOMAIN r = 1..L - 1 /\ \A i \in 1..L - 1 : r[i] = q[i]
  BY SMTT(60)
<1> HIDE DEF L, r
<1>3. L \in 1..L /\ \A i \in 1..L : i = L \/ i \in 1..L - 1
  BY <1>1, SMTT(60)
<1>4. \A i \in 1..L - 1 : i \in 1..L
  BY <1>1, SMTT(60)
<1>5. Links(q) = Links(r) \cup {q[L]}
  BY <1>1, <1>2, <1>3, <1>4 DEF Links
<1> QED  BY <1>1, <1>2, <1>5 DEF L, r

\* The daemon's answer holds every scope, none destroyed.
LEMMA ListKept ==
  ASSUME HwlocInv, ListScopes
  PROVE  HwlocInv'
<1>1. PICK S : Listed \in Seq(S)
  BY DaemonScopes DEF HwlocInv, Listed
<1>2. Len(Listed) \in Nat /\ DOMAIN Listed = 1..Len(Listed)
  BY <1>1, LenProperties
<1>3. Listed \in Seq(Links(Listed))
  <2>1. Listed \in [1..Len(Listed) -> S]
    BY <1>1, LenProperties
  <2>2. Listed \in [1..Len(Listed) -> Links(Listed)]
    BY <1>2, <2>1 DEF Links
  <2> QED  BY <1>2, <2>2, SeqDef
<1>4. Listed' = Listed /\ nrmd_scopes' = Listed
  BY DEF ListScopes, Listed
<1>5. kept = 0 /\ kept' = 0 /\ findpc' = "loop"
  BY DEF HwlocInv, ListScopes
<1>6. 0 \in 0..Len(Listed) /\ 0 \notin 1..Len(Listed) /\ Len(Listed) <= Len(Listed)
      /\ \A i \in 0..Len(Listed) : i = 0 \/ i \in 1..Len(Listed)
  BY <1>2, SMTT(60)
<1>7. destroyed' = [i \in 0..Len(Listed) |-> 0]
  BY DEF ListScopes, Listed
<1>8. purpose # "package" => wanted \in Links(Listed)
  BY WantedIsListed DEF HwlocInv, Listed
<1>9. Searching'
  BY <1>3, <1>4, <1>5, <1>6, <1>7, <1>8 DEF Searching, ListScopes
<1> QED  BY <1>5, <1>9 DEF HwlocInv, ListScopes

\* A turn of the loop destroys the scope held when the one it takes
\* matches, and the one it takes when it does not.
LEMMA PopKept ==
  ASSUME HwlocInv, PopBack
  PROVE  HwlocInv'
<1> DEFINE L == Len(nrmd_scopes)
           n == Len(Listed)
           r == SubSeq(nrmd_scopes, 1, L - 1)
           s == nrmd_scopes[L]
           S == Links(Listed)
<1>1. /\ Searching /\ nrmd_scopes # << >> /\ findpc' = "loop" /\ nrmd_scopes' = r
      /\ UNCHANGED <<topo, purpose, wanted>> /\ Listed' = Listed /\ Popped = L
      /\ Match(s) \/ NoMatch(s)
  BY DEF HwlocInv, PopBack, Popped, Listed
<1>2. L \in Nat \ {0} /\ r \in Seq(S) /\ Len(r) = L - 1 /\ Links(nrmd_scopes) = Links(r) \cup {s}
  <2>1. nrmd_scopes \in Seq(S)
    BY <1>1 DEF Searching
  <2> HIDE DEF S
  <2> QED  BY <1>1, <2>1, LastTaken
<1>3. n \in Nat /\ L <= n
  <2>1. PICK T : Listed \in Seq(T)
    BY DaemonScopes DEF HwlocInv, Listed
  <2> QED  BY <1>1, <2>1, LenProperties DEF Searching
<1>4. /\ L - 1 <= n /\ L \in 0..n /\ L \in 1..L /\ L \notin 1..L - 1
      /\ \A i : i \in 1..L <=> i = L \/ i \in 1..L - 1
  BY <1>2, <1>3, SMTT(60)
<1>5. /\ kept \in 0..n /\ kept \notin 1..L /\ destroyed \in [0..n -> {0, 1}]
      /\ \A i \in 0..n : destroyed[i] = IF i = kept \/ i \in 1..L THEN 0 ELSE 1
      /\ purpose # "package" /\ ~newscope => wanted \in Links(nrmd_scopes)
  BY <1>1 DEF Searching
<1> HIDE DEF L, n, r, s, S
<1>6. CASE Match(s)
  <2>1. destroyed' = [destroyed EXCEPT ![kept] = 1] /\ kept' = L /\ newscope' = TRUE
    <3>1. destroyed[kept] = 0 /\ 0 + 1 = 1
      BY <1>5
    <3> QED  BY <1>1, <1>6, <3>1 DEF Match
  <2>2. /\ destroyed' \in [0..n -> {0, 1}]
        /\ \A i \in 0..n : destroyed'[i] = IF i = L \/ i \in 1..L - 1 THEN 0 ELSE 1
    BY <1>4, <1>5, <2>1
  <2>3. Searching'
    BY <1>1, <1>2, <1>4, <2>1, <2>2 DEF Searching, n, S
  <2> QED  BY <1>1, <2>1, <2>3 DEF HwlocInv
<1>7. CASE NoMatch(s)
  <2>1. destroyed' = [destroyed EXCEPT ![L] = 1] /\ kept' = kept /\ newscope' = newscope /\ s # wanted
    <3>1. destroyed[L] = 0 /\ 0 + 1 = 1
      BY <1>4, <1>5
    <3> QED  BY <1>1, <1>7, <3>1 DEF NoMatch
  <2>2. /\ destroyed' \in [0..n -> {0, 1}]
        /\ \A i \in 0..n : destroyed'[i] = IF i = kept \/ i \in 1..L - 1 THEN 0 ELSE 1
    BY <1>4, <1>5, <2>1
  <2>3. purpose # "package" /\ ~newscope => wanted \in Links(r)
    BY <1>2, <1>5, <2>1
  <2>4. Searching'
    BY <1>1, <1>2, <1>4, <1>5, <2>1, <2>2, <2>3 DEF Searching, n, S
  <2> QED  BY <1>1, <2>1, <2>4 DEF HwlocInv
<1> QED  BY <1>1, <1>6, <1>7

\* The loops keep the invariant.
LEMMA HwlocStep ==
  HwlocInv /\ [HwlocNext]_hwlocvars => HwlocInv'
<1> SUFFICES ASSUME HwlocInv, [HwlocNext]_hwlocvars PROVE HwlocInv'
  OBVIOUS
<1>1. CASE ListScopes
  BY <1>1, ListKept
<1>2. CASE PopBack
  BY <1>2, PopKept
<1>3. CASE FindReturns
  BY <1>3 DEF FindReturns, HwlocInv, Searching, Listed
<1>4. CASE UNCHANGED hwlocvars
  BY <1>4 DEF hwlocvars, HwlocInv, Searching, Listed
<1> QED  BY <1>1, <1>2, <1>3, <1>4 DEF HwlocNext

\* The scope a find loop returns is alive and every other one it was given
\* has been destroyed exactly once, on every machine and however many of the
\* daemon's scopes have the wanted bits.
THEOREM FoundIsAlive ==
  HwlocInit /\ [][HwlocNext]_hwlocvars => []FoundScopeAlive
<1>1. HwlocInit => HwlocInv
  BY DEF HwlocInit, HwlocInv
<1>2. HwlocInv => FoundScopeAlive
  <2> SUFFICES ASSUME HwlocInv, findpc = "done", NEW i \in DOMAIN destroyed
               PROVE  destroyed[i] = IF i = kept THEN 0 ELSE 1
    BY DEF FoundScopeAlive
  <2>1. Searching /\ nrmd_scopes = << >> /\ i \in 0..Len(Listed)
    BY DEF HwlocInv, Searching
  <2>2. i \notin 1..Len(nrmd_scopes)
    BY <2>1, SMTT(60)
  <2> QED  BY <2>1, <2>2 DEF Searching
<1> QED  BY <1>1, <1>2, HwlocStep, PTL

\* The daemon has a scope for all a process may use, for the processor and
\* memory node an MPI rank runs on and for every device of nrm-geopm, on
\* every machine with an object that is all of it.
THEOREM PlaceIsFound ==
  HwlocInit /\ [][HwlocNext]_hwlocvars => []PlaceFound
<1>1. HwlocInit => HwlocInv
  BY DEF HwlocInit, HwlocInv
<1>2. HwlocInv => PlaceFound
  <2> SUFFICES ASSUME HwlocInv, findpc = "done", purpose # "package", ~newscope PROVE FALSE
    BY DEF PlaceFound
  <2>1. wanted \in Links(<< >>)
    BY DEF HwlocInv, Searching
  <2>2. DOMAIN << >> = {}
    BY SMTT(60)
  <2> QED  BY <2>1, <2>2 DEF Links
<1> QED  BY <1>1, <1>2, HwlocStep, PTL
=============================================================================
