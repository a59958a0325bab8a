----------------------------- MODULE NrmStartup -----------------------------
(* How a client role starts and ends.  The caller of                       *)
(* nrm_role_client_create_fromparams starts the broker thread, hands it    *)
(* pointers into its own stack frame and into the role it allocated, and   *)
(* waits twice on the pipe: zactor_new waits for the signal that says the  *)
(* thread runs, zsock_wait for the one that says how its start-up ended.   *)
(* Every socket call of the broker may fail, and the daemon may be absent. *)
EXTENDS Sequences

VARIABLES
    creator,    \* where the calling thread is
    frame,      \* the creator's stack frame, which holds bargs, is live
    roleheap,   \* the role, which holds sub_cb and cmd_cb, is allocated
    brokerpc,   \* where the broker thread is
    tocreator,  \* signals on the pipe, broker to creator
    term,       \* $TERM has been sent on the pipe
    open,       \* sockets the broker has created and not destroyed
    connected,  \* sockets whose monitor has reported CONNECTED
    daemon      \* the daemon answers connections

startupvars == <<creator, frame, roleheap, brokerpc, tocreator, term, open,
                 connected, daemon>>

OK == 0
FAILURE == 1

StartupInit ==
    /\ creator = "call"
    /\ frame = FALSE
    /\ roleheap = FALSE
    /\ brokerpc = "none"
    /\ tocreator = <<>>
    /\ term = FALSE
    /\ open = {}
    /\ connected = {}
    /\ daemon \in BOOLEAN

(* The creator. *)

\* The call: the role and the arguments exist, the thread starts, or the
\* allocation or the thread cannot be had and the call returns NULL.
nrm_role_client_create_fromparams ==
    /\ creator = "call"
    /\ \/ /\ creator' = "zactor_new"
          /\ frame' = TRUE
          /\ roleheap' = TRUE
          /\ brokerpc' = "start"
       \/ /\ creator' = "NULL"
          /\ UNCHANGED <<frame, roleheap, brokerpc>>
    /\ UNCHANGED <<tocreator, term, open, connected, daemon>>

\* zactor_new returns with the first signal.
zactor_new ==
    /\ creator = "zactor_new"
    /\ tocreator # <<>>
    /\ tocreator' = Tail(tocreator)
    /\ creator' = "zsock_wait"
    /\ UNCHANGED <<frame, roleheap, brokerpc, term, open, connected, daemon>>

\* A creator that trusts the first signal.
zsock_wait_Skipped ==
    /\ creator = "zsock_wait"
    /\ creator' = "role"
    /\ frame' = FALSE
    /\ UNCHANGED <<tocreator, roleheap, brokerpc, term, open, connected,
                   daemon>>

\* The second wait: the role is returned, or the broker is ended first.
zsock_wait ==
    /\ creator = "zsock_wait"
    /\ tocreator # <<>>
    /\ tocreator' = Tail(tocreator)
    /\ IF Head(tocreator) = OK
         THEN creator' = "role" /\ frame' = FALSE
         ELSE creator' = "err_actor" /\ UNCHANGED frame
    /\ UNCHANGED <<roleheap, brokerpc, term, open, connected, daemon>>

\* zactor_destroy sends $TERM and waits for the signal of a thread that ends.
zactor_destroy ==
    /\ creator \in {"err_actor", "destroy"}
    /\ \/ ~term /\ term' = TRUE /\ UNCHANGED <<creator, frame, roleheap,
                                               tocreator>>
       \/ /\ term
          /\ tocreator # <<>>
          /\ tocreator' = Tail(tocreator)
          /\ creator' = IF creator = "err_actor" THEN "NULL" ELSE "gone"
          /\ frame' = FALSE
          /\ roleheap' = FALSE
          /\ UNCHANGED term
    /\ UNCHANGED <<brokerpc, open, connected, daemon>>

nrm_role_client_destroy ==
    /\ creator = "role"
    /\ creator' = "destroy"
    /\ UNCHANGED <<frame, roleheap, brokerpc, tocreator, term, open,
                   connected, daemon>>

(* The broker. *)

\* The step of a broker at pc that may succeed and go on to `next', or fail,
\* signal the failure and unwind from `label'.
Try(pc, next, label) ==
    /\ brokerpc = pc
    /\ \/ brokerpc' = next /\ UNCHANGED tocreator
       \/ brokerpc' = label /\ tocreator' = Append(tocreator, FAILURE)
    /\ UNCHANGED <<creator, frame, roleheap, term, connected, daemon>>

BrokerRuns ==
    /\ brokerpc = "start"
    /\ tocreator' = Append(tocreator, OK)
    /\ brokerpc' = "alloc"
    /\ UNCHANGED <<creator, frame, roleheap, term, open, connected, daemon>>

BrokerAlloc == Try("alloc", "rpc_init", "exit") /\ UNCHANGED open

rpc_client_init ==
    /\ Try("rpc_init", "rpc_connect", "cleanup")
    /\ open' = IF brokerpc' = "rpc_connect" THEN open \cup {"rpc"} ELSE open

sub_init ==
    /\ Try("sub_init", "sub_connect", "cleanup_rpc")
    /\ open' = IF brokerpc' = "sub_connect" THEN open \cup {"sub"} ELSE open

\* Where each socket's connection leads, and where its failure unwinds to.
AfterConnect == [rpc |-> "sub_init", sub |-> "zloop_new"]
CleanupOf == [rpc |-> "cleanup_rpc", sub |-> "cleanup_sub"]
ConnectAt == [rpc |-> "rpc_connect", sub |-> "sub_connect"]
WaitAt == [rpc |-> "rpc_wait", sub |-> "sub_wait"]

\* nrm_net_connect_and_wait up to the wait on the monitor: zsock_connect
\* fails on a bad address only, whether or not the daemon is there.
Connect(s) == Try(ConnectAt[s], WaitAt[s], CleanupOf[s]) /\ UNCHANGED open

\* The monitor reports CONNECTED.
Connected(s) ==
    /\ brokerpc = WaitAt[s]
    /\ daemon
    /\ connected' = connected \cup {s}
    /\ brokerpc' = AfterConnect[s]
    /\ UNCHANGED <<creator, frame, roleheap, tocreator, term, open, daemon>>

\* A monitor whose receive has no timeout.
MonitorTimeout_Never(s) ==
    FALSE /\ UNCHANGED startupvars

\* The receive on the monitor gives up after nrm_timeout.
MonitorTimeout(s) ==
    /\ brokerpc = WaitAt[s]
    /\ brokerpc' = CleanupOf[s]
    /\ tocreator' = Append(tocreator, FAILURE)
    /\ UNCHANGED <<creator, frame, roleheap, term, open, connected, daemon>>

\* The loop and its three readers exist: the role is ready.
BrokerReady ==
    /\ brokerpc = "zloop_new"
    /\ \/ brokerpc' = "loop" /\ tocreator' = Append(tocreator, OK)
       \/ brokerpc' = "cleanup_sub" /\ tocreator' = Append(tocreator, FAILURE)
    /\ UNCHANGED <<creator, frame, roleheap, term, open, connected, daemon>>

\* The loop's pipe handler meets $TERM and ends the loop.
BrokerLoopEnds ==
    /\ brokerpc = "loop"
    /\ term
    /\ brokerpc' = "cleanup_sub"
    /\ UNCHANGED <<creator, frame, roleheap, tocreator, term, open, connected,
                   daemon>>

\* The labels at the end of nrm_client_broker_fn, each falling into the next.
BrokerUnwinds ==
    /\ \/ /\ brokerpc = "cleanup_sub"
          /\ brokerpc' = "cleanup_rpc" /\ open' = open \ {"sub"}
       \/ /\ brokerpc = "cleanup_rpc"
          /\ brokerpc' = "cleanup" /\ open' = open \ {"rpc"}
       \/ /\ brokerpc = "cleanup"
          /\ brokerpc' = "exit" /\ UNCHANGED open
    /\ UNCHANGED <<creator, frame, roleheap, tocreator, term, connected,
                   daemon>>

\* czmq signals the pipe when the thread's function has returned.
BrokerExits ==
    /\ brokerpc = "exit"
    /\ brokerpc' = "ended"
    /\ tocreator' = Append(tocreator, OK)
    /\ UNCHANGED <<creator, frame, roleheap, term, open, connected, daemon>>

\* The daemon stops or starts.
DaemonChanges ==
    /\ creator \in {"zactor_new", "zsock_wait"}
    /\ daemon' = ~daemon
    /\ UNCHANGED <<creator, frame, roleheap, brokerpc, tocreator, term, open,
                   connected>>

CreatorStep ==
    \/ nrm_role_client_create_fromparams
    \/ zactor_new
    \/ zsock_wait
    \/ zactor_destroy

BrokerStep ==
    \/ BrokerRuns
    \/ BrokerAlloc
    \/ rpc_client_init
    \/ sub_init
    \/ \E s \in {"rpc", "sub"} : Connect(s) \/ Connected(s)
                                            \/ MonitorTimeout(s)
    \/ BrokerReady
    \/ BrokerLoopEnds
    \/ BrokerUnwinds
    \/ BrokerExits

StartupNext ==
    \/ CreatorStep
    \/ nrm_role_client_destroy
    \/ BrokerStep
    \/ DaemonChanges

StartupSpec == StartupInit /\ [][StartupNext]_startupvars

(* Properties. *)

\* Where the broker still has to read bargs, and where it still uses the
\* callbacks of the role.
NeedsParams == {"alloc", "rpc_init", "rpc_connect", "sub_init", "sub_connect"}
               \cup {"rpc_wait"}
NeedsRole == NeedsParams \cup {"sub_wait", "zloop_new", "loop"}

\* A broker never outlives what it points to, a role is returned only once
\* both of its sockets are connected and its loop is about to run, and a call
\* that returns NULL or a destroyed role leaves no thread and no socket
\* behind, whichever step of the start-up failed (the two waits of
\* nrm_role_client_create_fromparams, the labels of nrm_client_broker_fn).
StartupSafe ==
    /\ brokerpc \in NeedsParams => frame
    /\ brokerpc \in NeedsRole => roleheap
    /\ creator = "role" => brokerpc = "loop" /\ connected = {"rpc", "sub"}
                           /\ open = connected
    /\ creator \in {"NULL", "gone"} => brokerpc \in {"none", "ended"}
                                       /\ open = {}

\* Every call of nrm_role_client_create_fromparams returns, whether or not
\* the daemon answers, and every destruction of a role ends.
StartupEnds ==
    /\ (creator \in {"zactor_new", "zsock_wait"})
          ~> (creator \in {"role", "NULL"})
    /\ (creator \in {"err_actor", "destroy"})
          ~> (creator \in {"NULL", "gone"})
=============================================================================
