------------------------------ MODULE NrmHwloc ------------------------------
(* The scopes a daemon makes from the machine's topology                   *)
(* (nrm_scope_hwloc_scopes), and how a program that wants to report on a   *)
(* part of the machine finds the daemon's scope for it: it builds a scope  *)
(* of its own, lists the daemon's and keeps the one with the same bits.    *)
(* The loop is written four times: in nrm-papiwrapper and the OMPT tool    *)
(* for all the process may use, in the MPI tool for the processor it runs  *)
(* on, in nrm-geopm for a package or a device.                             *)
EXTENDS Naturals, Sequences, FiniteSets

CONSTANT Topologies     \* records [objects, osdevs]: the objects of every
                        \* depth, [type, cpus, nodes], and the OS devices,
                        \* [kind, arity], both in hwloc's order

VARIABLES
    topo,       \* the machine
    purpose,    \* which of the four loops runs
    wanted,     \* the bits of the scope the program built
    nrmd_scopes,\* the daemon's scopes still in the received list
    kept,       \* the scope held: 0 is the program's own, i the i-th listed
    newscope,   \* a match has been met
    destroyed,  \* how often each scope has been destroyed
    findpc      \* "list", "loop" or "done"

hwlocvars == <<topo, purpose, wanted, nrmd_scopes, kept, newscope, destroyed,
               findpc>>

Scope(cpus, nodes, gpus) == [cpu |-> cpus, numa |-> nodes, gpu |-> gpus]

(* The daemon. *)

\* The first scope of a processor on several memory nodes, without the others.
ObjectScopes_One(o) ==
    IF o.type \in {"L2", "L1d"} THEN <<>>
    ELSE <<Scope(o.cpus, o.nodes, {})>>

\* The i-th bit of a set of memory nodes, in ascending order.
NthNode(nodes, i) ==
    CHOOSE n \in nodes : Cardinality({m \in nodes : m < n}) = i - 1

\* The scopes of one object: caches have none, a processor on several memory
\* nodes has one more for each of them.
ObjectScopes(o) ==
    IF o.type \in {"L2", "L1d"} THEN <<>>
    ELSE <<Scope(o.cpus, o.nodes, {})>> \o
         (IF o.type = "PU" /\ Cardinality(o.nodes) > 1
            THEN [i \in 1..Cardinality(o.nodes) |->
                     Scope(o.cpus, {NthNode(o.nodes, i)}, {})]
            ELSE <<>>)

IsGPU(d) == d.kind \in {"GPU", "COPROC"}

\* The devices that count: when some device has subdevices, those that have
\* none are taken for subdevices.
Devices(osdevs) ==
    LET subdevices == \E i \in DOMAIN osdevs :
                          IsGPU(osdevs[i]) /\ osdevs[i].arity # 0
    IN  {i \in DOMAIN osdevs : IsGPU(osdevs[i]) /\
                               (subdevices => osdevs[i].arity # 0)}

\* The scopes of the first n objects.
ScopesUpTo(t, n) ==
    LET added[i \in 0..n] ==
            IF i = 0 THEN <<>>
            ELSE added[i - 1] \o ObjectScopes(t.objects[i])
    IN  added[n]

\* All scopes, in the order they are added to the daemon's table.
nrm_scope_hwloc_scopes(t) ==
    ScopesUpTo(t, Len(t.objects))
    \o [i \in 1..Cardinality(Devices(t.osdevs)) |-> Scope({}, {}, {i - 1})]

(* The programs. *)

PUs(t) == {i \in DOMAIN t.objects : t.objects[i].type = "PU"}

\* nrm_scope_create_hwloc_allowed, for a process that may use all of the
\* machine.
nrm_scope_create_hwloc_allowed(t) ==
    Scope(UNION {t.objects[i].cpus : i \in PUs(t)},
          UNION {t.objects[i].nodes : i \in PUs(t)}, {})

\* nrm_geopm_domain_to_scope: a package by its processors alone, a device by
\* its index.
nrm_geopm_domain_to_scope(t) ==
    {Scope(t.objects[i].cpus, {}, {}) :
        i \in {j \in DOMAIN t.objects : t.objects[j].type = "Package"}}

\* The MPI tool's scope on a processor: its number and a memory node.
CurrentScopes(o) ==
    UNION {{Scope({c}, {n}, {}) : n \in o.nodes} : c \in o.cpus}

\* What each loop may look for.
Wants(t, p) ==
    CASE p = "allowed" -> {nrm_scope_create_hwloc_allowed(t)}
      [] p = "current" -> UNION {CurrentScopes(t.objects[i]) : i \in PUs(t)}
      [] p = "package" -> nrm_geopm_domain_to_scope(t)
      [] p = "device"  -> {Scope({}, {}, {g}) :
                             g \in 0..Cardinality(Devices(t.osdevs)) - 1}

\* What hwloc says of a machine: one of its objects is all of it, and a
\* processor is one bit.
ASSUME HwlocAssumption == \A t \in Topologies :
    /\ t.objects \in Seq([type : STRING, cpus : SUBSET Nat, nodes : SUBSET Nat])
    /\ t.osdevs \in Seq([kind : STRING, arity : Nat])
    /\ \A i \in DOMAIN t.objects : IsFiniteSet(t.objects[i].nodes)
    /\ \A i \in PUs(t) : \E c \in t.objects[i].cpus : t.objects[i].cpus = {c}
    /\ \E i \in DOMAIN t.objects :
          /\ t.objects[i].type \notin {"L2", "L1d"}
          /\ Scope(t.objects[i].cpus, t.objects[i].nodes, {}) =
                nrm_scope_create_hwloc_allowed(t)

HwlocInit ==
    /\ topo \in Topologies
    /\ purpose \in {"allowed", "current", "package", "device"}
    /\ wanted \in Wants(topo, purpose)
    /\ nrmd_scopes = <<>>
    /\ kept = 0
    /\ newscope = FALSE
    /\ destroyed = <<>>
    /\ findpc = "list"

\* nrm_client_list_scopes: copies of the daemon's scopes, for the caller to
\* destroy.
ListScopes ==
    /\ findpc = "list"
    /\ nrmd_scopes' = nrm_scope_hwloc_scopes(topo)
    /\ destroyed' = [i \in 0..Len(nrm_scope_hwloc_scopes(topo)) |-> 0]
    /\ findpc' = "loop"
    /\ UNCHANGED <<topo, purpose, wanted, kept, newscope>>

\* The index of the scope the next turn takes.
Popped == Len(nrmd_scopes)

\* A loop body without its `continue'.
Match_FallsThrough(s) ==
    /\ s = wanted
    /\ destroyed' = [destroyed EXCEPT ![kept] = @ + 1, ![Popped] = @ + 1]
    /\ kept' = Popped
    /\ newscope' = TRUE

\* A listed scope with the wanted bits takes the place of the one held.
Match(s) ==
    /\ s = wanted
    /\ destroyed' = [destroyed EXCEPT ![kept] = @ + 1]
    /\ kept' = Popped
    /\ newscope' = TRUE

NoMatch(s) ==
    /\ s # wanted
    /\ destroyed' = [destroyed EXCEPT ![Popped] = @ + 1]
    /\ UNCHANGED <<kept, newscope>>

\* One turn of the loop, from the end of the list.
PopBack ==
    /\ findpc = "loop"
    /\ nrmd_scopes # <<>>
    /\ nrmd_scopes' = SubSeq(nrmd_scopes, 1, Popped - 1)
    /\ Match(nrmd_scopes[Popped]) \/ NoMatch(nrmd_scopes[Popped])
    /\ UNCHANGED <<topo, purpose, wanted, findpc>>

\* The end of the loop: a match or, in nrm-geopm, whatever is held is
\* returned; the others return an error and keep what they built.
FindReturns ==
    /\ findpc = "loop"
    /\ nrmd_scopes = <<>>
    /\ findpc' = "done"
    /\ UNCHANGED <<topo, purpose, wanted, nrmd_scopes, kept, newscope, destroyed>>

HwlocNext == ListScopes \/ PopBack \/ FindReturns

(* Properties. *)

\* The scope a find loop returns is alive and every other scope it was given
\* has been destroyed exactly once, however many of the daemon's scopes have
\* the wanted bits (on a machine with one package the machine, the package
\* and perhaps a core and a processor are the same set).
FoundScopeAlive ==
    findpc = "done" =>
        \A i \in DOMAIN destroyed : destroyed[i] = IF i = kept THEN 0 ELSE 1

\* The daemon has a scope for whatever a program starts from: the whole
\* machine ("we know for a fact that the daemon should already have this
\* scope", nrm-papiwrapper.c and ompt/entrypoint.c), the processor and memory
\* node any MPI rank runs on, and every device of nrm-geopm, counted by
\* nrm_scope_hwloc_scopes without its subdevices.
PlaceFound ==
    findpc = "done" /\ purpose # "package" => newscope
=============================================================================
