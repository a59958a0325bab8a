---------------------------- MODULE MCNrmHelpers ----------------------------
(* The programs around the daemon for TLC.  As with the containers, a      *)
(* behaviour follows one of them, `part', and leaves the others as they    *)
(* begin.                                                                  *)
EXTENDS NrmStartup, NrmPrograms, NrmHwloc, NrmOmpt, NrmGeopm

VARIABLE part

Parts == {"startup", "programs", "hwloc", "ompt", "geopm"}

mcvars == <<part, startupvars, programvars, hwlocvars, omptvars, geopmvars>>

Object(type, cpus, nodes) == [type |-> type, cpus |-> cpus, nodes |-> nodes]
Device(kind, arity) == [kind |-> kind, arity |-> arity]

\* One package on one memory node; two packages with a node each; a package
\* whose processors have two nodes; devices without and with subdevices.
Machine1 == [objects |-> <<Object("Machine", {0, 1}, {0}),
                           Object("Package", {0, 1}, {0}),
                           Object("L2", {0, 1}, {0}),
                           Object("PU", {0}, {0}), Object("PU", {1}, {0})>>,
             osdevs  |-> <<Device("Net", 0)>>]
Machine2 == [objects |-> <<Object("Machine", {0, 1, 2, 3}, {0, 1}),
                           Object("Package", {0, 2}, {0}),
                           Object("Package", {1, 3}, {1}),
                           Object("PU", {0}, {0}), Object("PU", {2}, {0}),
                           Object("PU", {1}, {1}), Object("PU", {3}, {1})>>,
             osdevs  |-> <<Device("GPU", 0), Device("Block", 0),
                           Device("COPROC", 0)>>]
Machine3 == [objects |-> <<Object("Machine", {0, 1}, {0, 1}),
                           Object("Package", {0, 1}, {0, 1}),
                           Object("PU", {0}, {0, 1}),
                           Object("PU", {1}, {0, 1})>>,
             osdevs  |-> <<Device("GPU", 2), Device("GPU", 0),
                           Device("GPU", 0), Device("Net", 0),
                           Device("GPU", 1), Device("GPU", 0)>>]
Machine4 == [objects |-> <<Object("Machine", {0}, {0}),
                           Object("Package", {0}, {0}),
                           Object("Core", {0}, {0}), Object("PU", {0}, {0})>>,
             osdevs  |-> <<>>]

MCTopologies == {Machine1, Machine2, Machine3, Machine4}

MCInit ==
    /\ part \in Parts
    /\ StartupInit /\ (part # "startup" => daemon)
    /\ ProgramsInit /\ (part # "programs" => program = "nrmd")
    /\ HwlocInit /\ (part # "hwloc" => topo = Machine4 /\ purpose = "allowed")
    /\ OmptInit
    /\ GeopmInit /\ (part # "geopm" => command = CHOOSE v \in Powers : TRUE)

MCNext ==
    \/ /\ part = "startup" /\ StartupNext
       /\ UNCHANGED <<part, programvars, hwlocvars, omptvars, geopmvars>>
    \/ /\ part = "programs" /\ ProgramsNext
       /\ UNCHANGED <<part, startupvars, hwlocvars, omptvars, geopmvars>>
    \/ /\ part = "hwloc" /\ HwlocNext
       /\ UNCHANGED <<part, startupvars, programvars, omptvars, geopmvars>>
    \/ /\ part = "ompt" /\ OmptNext
       /\ UNCHANGED <<part, startupvars, programvars, hwlocvars, geopmvars>>
    \/ /\ part = "geopm" /\ GeopmNext
       /\ UNCHANGED <<part, startupvars, programvars, hwlocvars, omptvars>>

\* Threads run: creator and broker of a role, the main thread of a program
\* and the child it forked, the two threads of nrm-geopm.  Timers, signals,
\* commands and the daemon owe nothing.
MCFairness ==
    /\ WF_startupvars(part = "startup" /\ CreatorStep)
    /\ WF_startupvars(part = "startup" /\ BrokerStep)
    /\ WF_programvars(part = "programs" /\ MainStep)
    /\ WF_programvars(part = "programs" /\ ChildExec)
    /\ WF_geopmvars(part = "geopm" /\ GeopmMain)
    /\ WF_geopmvars(part = "geopm" /\ GeopmBroker)

MCSpec == MCInit /\ [][MCNext]_mcvars /\ MCFairness
=============================================================================
