---------------------------- MODULE NrmPrograms -----------------------------
(* The main functions of the programs and the signals they live with: the  *)
(* daemon, nrm-papiwrapper with the command it runs, nrm-geopm and         *)
(* nrm-dummy-extra.  Each starts a broker thread, blocks the signals its   *)
(* reactor is to read from a signalfd, runs a loop until a callback        *)
(* returns -1, and cleans up.  A signal sent to the process goes to any    *)
(* thread that does not block it and kills it there, since nrm_init leaves *)
(* the default dispositions; blocked by every thread it stays pending, and *)
(* a second one of its kind is dropped.                                    *)
EXTENDS Naturals, Sequences

CONSTANTS
    Programs,   \* the programs explored
    MaxInts,    \* bound on the SIGINTs (SIGTERMs) sent to one process
    CanStop     \* whether signals may stop the command

ASSUME ProgramsAssumption ==
    /\ Programs \subseteq {"nrmd", "papi", "geopm", "dummy"}
    /\ MaxInts \in Nat
    /\ CanStop \in BOOLEAN

VARIABLES
    program,    \* the program that runs
    at,         \* the main thread's place in Order(program)
    mask,       \* signals the main thread blocks
    oldmask,    \* the mask nrm_reactor_create saved
    brokermask, \* signals the broker thread blocks
    broker,     \* the broker thread runs
    pending,    \* per signal, the code of the pending instance
    killed,     \* a signal's default action ended the process
    traced,     \* cmpinfo->attach_must_ptrace
    child,      \* the command nrm-papiwrapper runs
    interrupts  \* SIGINTs sent so far

programvars == <<program, at, mask, oldmask, brokermask, broker, pending,
                 killed, traced, child, interrupts>>

Signals == {"INT", "CHLD"}
None == "none"

\* The order of nrm-papiwrapper with the mask of nrm-geopm: blocked only when
\* the reactor is made.
Steps_BlockLate ==
    [nrmd  |-> <<"client", "block", "reactor">>,
     papi  |-> <<"client", "block", "find", "sensors", "setup", "fork",
                 "wait", "attach", "reactor", "cont">>,
     geopm |-> <<"client", "events", "actuator", "reactor">>,
     dummy |-> <<"client", "register", "reactor">>]

\* What each main does before its loop, in order.  "client" creates the role
\* with its broker thread.
Steps ==
    [nrmd  |-> <<"block", "client", "reactor">>,
     papi  |-> <<"block", "client", "find", "sensors", "setup", "fork",
                 "wait", "attach", "reactor", "cont">>,
     geopm |-> <<"client", "events", "actuator", "reactor">>,
     dummy |-> <<"client", "register", "reactor">>]

Order(p) == Steps[p] \o <<"loop", "final", "cleanup", "exited">>
Label == IF killed THEN "killed" ELSE Order(program)[at]
IndexOf(l) == CHOOSE i \in DOMAIN Order(program) : Order(program)[i] = l

\* The set the reactor of each program reads: the default of
\* nrm_reactor_create, or the set nrm-papiwrapper gives it.
ReactorSet == IF program = "papi" THEN Signals ELSE {"INT"}

ProgramsInit ==
    /\ program \in Programs
    /\ at = 1
    /\ mask = {}
    /\ oldmask = {}
    /\ brokermask = {}
    /\ broker = FALSE
    /\ pending = [s \in Signals |-> None]
    /\ killed = FALSE
    /\ traced \in (IF program = "papi" THEN BOOLEAN ELSE {FALSE})
    /\ child = None
    /\ interrupts = 0

(* Signals. *)

Blocked(s) == s \in mask /\ (broker => s \in brokermask)

\* pending once the process is sent s: an instance already there stays.
Raised(s, code) ==
    IF Blocked(s) /\ pending[s] = None
      THEN [pending EXCEPT ![s] = code] ELSE pending

\* SIGINT or SIGTERM from a terminal or a supervisor.
Interrupt ==
    /\ Label \notin {"killed", "exited"}
    /\ interrupts < MaxInts
    /\ interrupts' = interrupts + 1
    /\ pending' = Raised("INT", "user")
    /\ killed' = ~Blocked("INT")
    /\ UNCHANGED <<program, at, mask, oldmask, brokermask, broker, traced,
                   child>>

\* The command changes state and its parent is sent SIGCHLD, which a process
\* that does not block it ignores.
ChildChanges(new, code) ==
    /\ Label \notin {"killed", "exited"}
    /\ child' = new
    /\ pending' = Raised("CHLD", code)
    /\ UNCHANGED <<program, at, mask, oldmask, brokermask, broker, killed,
                   traced, interrupts>>

\* execvp: a traced child stops on it, one whose command is not found exits.
ChildExec ==
    /\ child = "exec"
    /\ \/ traced /\ ChildChanges("trapped", "CLD_TRAPPED")
       \/ ~traced /\ child' = "running"
          /\ UNCHANGED <<program, at, mask, oldmask, brokermask, broker,
                         pending, killed, traced, interrupts>>
       \/ ChildChanges("zombie", "CLD_EXITED")

\* A signal stops the command: for good when it is traced, since nothing in
\* the wrapper continues it again.
ChildStops ==
    /\ CanStop
    /\ child = "running"
    /\ IF traced THEN ChildChanges("trapped", "CLD_TRAPPED")
                 ELSE ChildChanges("stopped", "CLD_STOPPED")

ChildContinues ==
    /\ child = "stopped"
    /\ ChildChanges("running", "CLD_CONTINUED")

\* The command ends, by itself or killed.
ChildExits ==
    /\ child \in {"running", "stopped", "trapped"}
    /\ ChildChanges("zombie", "CLD_EXITED")

(* The main thread. *)

\* The main thread goes on to the next step, or gives up: for the cleanup,
\* in nrm-dummy-extra with a plain return.
Goes == at' = at + 1
GivesUp == at' = IndexOf(IF program = "dummy" THEN "exited" ELSE "cleanup")

Block ==
    /\ Label = "block"
    /\ mask' = mask \cup ReactorSet
    /\ Goes
    /\ UNCHANGED <<program, oldmask, brokermask, broker, pending, killed,
                   traced, child, interrupts>>

\* nrm_client_create, or the role of nrm_server_create: the broker thread is
\* born with the main thread's mask.  A daemon that cannot bind asserts.
StartBroker ==
    /\ Label = "client"
    /\ \/ /\ broker' = TRUE
          /\ brokermask' = mask
          /\ Goes
       \/ program # "nrmd" /\ GivesUp /\ UNCHANGED <<broker, brokermask>>
    /\ UNCHANGED <<program, mask, oldmask, pending, killed, traced, child,
                   interrupts>>

\* The main thread passes a step that changes nothing here, or gives up.
Passes(l, mayfail) ==
    /\ Label = l
    /\ Goes \/ (mayfail /\ GivesUp)
    /\ UNCHANGED <<program, mask, oldmask, brokermask, broker, pending,
                   killed, traced, child, interrupts>>

\* nrm-papiwrapper: the scope and the sensors of the daemon, the PAPI event
\* set.  Adding the sensors fails by an assert only, which is left out.
Prepare ==
    \/ Passes("find", TRUE)
    \/ Passes("sensors", FALSE)
    \/ Passes("setup", TRUE)

\* PAPI_attach, PAPI_start and the memory for the counters.
Attach == Passes("attach", TRUE)

\* nrm-geopm: the sensors and domains of its events (asserts only), and its
\* actuator.
PrepareGeopm == Passes("events", FALSE) \/ Passes("actuator", TRUE)

\* nrm-dummy-extra adds a sensor, a scope and an actuator, then listens.
Register == Passes("register", TRUE)

Fork ==
    /\ Label = "fork"
    /\ \/ child' = "exec" /\ Goes
       \/ GivesUp /\ UNCHANGED child
    /\ UNCHANGED <<program, mask, oldmask, brokermask, broker, pending,
                   killed, traced, interrupts>>

\* waitpid takes the child's status; the SIGCHLD that came with it stays
\* pending.
WaitStopped ==
    /\ Label = "wait"
    /\ \/ (traced => child = "trapped") /\ Goes
       \/ traced /\ child = "zombie" /\ GivesUp
    /\ UNCHANGED <<program, mask, oldmask, brokermask, broker, pending,
                   killed, traced, child, interrupts>>

\* nrm_reactor_create blocks what it reads in the calling thread, and undoes
\* it when signalfd fails.
nrm_reactor_create ==
    /\ Label = "reactor"
    /\ \/ /\ mask' = mask \cup ReactorSet
          /\ oldmask' = mask
          /\ Goes
       \/ program # "nrmd" /\ GivesUp /\ UNCHANGED <<mask, oldmask>>
    /\ UNCHANGED <<program, brokermask, broker, pending, killed, traced,
                   child, interrupts>>

\* PTRACE_CONT, which fails on a child that is no longer stopped.
Continue ==
    /\ Label = "cont"
    /\ \/ traced /\ child = "trapped" /\ child' = "running" /\ Goes
       \/ traced /\ child # "trapped" /\ GivesUp /\ UNCHANGED child
       \/ ~traced /\ Goes /\ UNCHANGED child
    /\ UNCHANGED <<program, mask, oldmask, brokermask, broker, pending,
                   killed, traced, interrupts>>

\* nrm_papiwrapper_signal_callback for SIGCHLD.
Ignored(code) == code \in {"CLD_STOPPED", "CLD_CONTINUED", "CLD_TRAPPED"}

\* The signalfd is readable: its callback reads the pending signal of the
\* lowest number and ends the loop, unless it is news of a command that still
\* runs.
nrm_reactor_signal_callback(s) ==
    /\ Label = "loop"
    /\ s \in ReactorSet
    /\ pending[s] # None
    /\ s = "CHLD" => pending["INT"] = None
    /\ pending' = [pending EXCEPT ![s] = None]
    /\ IF s = "CHLD" /\ Ignored(pending[s]) THEN UNCHANGED at ELSE Goes
    /\ UNCHANGED <<program, mask, oldmask, brokermask, broker, killed, traced,
                   child, interrupts>>

\* The timer callback of nrm-papiwrapper fails to read its counters; those of
\* the other programs always return 0.
TimerFails ==
    /\ Label = "loop"
    /\ program = "papi"
    /\ Goes
    /\ UNCHANGED <<program, mask, oldmask, brokermask, broker, pending,
                   killed, traced, child, interrupts>>

\* After the loop: nrm-papiwrapper stops the counters and sends them, the
\* daemon tears down its own state, the others destroy the reactor, which
\* puts the old mask back and lets a pending signal through.
AfterLoop ==
    /\ Label = "final"
    /\ Goes
    /\ IF program \in {"geopm", "dummy"}
         THEN /\ mask' = oldmask
              /\ killed' = (pending["INT"] # None /\ "INT" \notin oldmask)
         ELSE UNCHANGED <<mask, killed>>
    /\ UNCHANGED <<program, oldmask, brokermask, broker, pending, traced,
                   child, interrupts>>

\* The rest of main: nrm_client_destroy or nrm_server_destroy ends the
\* broker.
Cleanup ==
    /\ Label = "cleanup"
    /\ broker' = FALSE
    /\ Goes
    /\ UNCHANGED <<program, mask, oldmask, brokermask, pending, killed,
                   traced, child, interrupts>>

MainStep ==
    \/ Block
    \/ StartBroker
    \/ Prepare
    \/ Attach
    \/ PrepareGeopm
    \/ Register
    \/ Fork
    \/ WaitStopped
    \/ nrm_reactor_create
    \/ Continue
    \/ \E s \in Signals : nrm_reactor_signal_callback(s)
    \/ AfterLoop
    \/ Cleanup

ProgramsNext ==
    \/ MainStep
    \/ TimerFails
    \/ Interrupt
    \/ ChildExec
    \/ ChildStops
    \/ ChildContinues
    \/ ChildExits

\* The main thread runs, and a forked child gets to its execvp.
ProgramsFairness ==
    /\ WF_programvars(MainStep)
    /\ WF_programvars(ChildExec)

ProgramsSpec == ProgramsInit /\ [][ProgramsNext]_programvars /\ ProgramsFairness

(* Properties. *)

\* A SIGINT or SIGTERM sent once the broker thread exists leads the programs
\* that block their signals before they create a thread (nrmd through
\* nrm_server_create, nrm-papiwrapper) to their cleanup and a normal exit,
\* whatever else fails meanwhile: no thread is killed by it, and it is not
\* lost while the program still starts up or handles its child.
InterruptIsClean ==
    (program \in {"nrmd", "papi"} /\ broker /\ interrupts > 0)
        ~> (Label = "exited")

\* The comment of nrm_papiwrapper_signal_callback: once the command has
\* exited, the wrapper leaves its reactor and ends.
ChildExitEndsWrapper ==
    (Label = "loop" /\ child = "zombie") ~> (Label = "exited")
=============================================================================
