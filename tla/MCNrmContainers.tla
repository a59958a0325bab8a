-------------------------- MODULE MCNrmContainers ---------------------------
(* The library's containers for TLC.  They share nothing: a behaviour      *)
(* follows one of them, `part', and leaves the others as they begin.       *)
EXTENDS NrmRingBuffer, NrmVector, NrmHash, NrmTopics, NrmWire

VARIABLE part

Parts == {"ring", "vector", "hash", "topics", "scopes", "wire"}

mcvars == <<part, ringvars, vectorvars, hashvars, topicvars, scopevars,
            wirevars>>

\* The hash values TLC explores: a good hash, one that fills half of the
\* buckets, one that tells keys apart late, and one that never does.
MCHashFunctions ==
    {[k \in Keys |-> k], [k \in Keys |-> 2 * k], [k \in Keys |-> 4 * (k % 3)],
     [k \in Keys |-> 0]}

MCPlaces == {<<0, 0>>, <<1, 0>>, <<3, 1>>, <<4, 1>>}

\* Scopes over both words, actuators without and with choices, out of order
\* and with one twice, events within and past the first second.
MCScopes ==
    {[t \in Types |-> IF t = "gpu" THEN nrm_bitmap_from_array(<<3>>)
                      ELSE nrm_bitmap_from_array(s)] :
        s \in {<< >>, <<0>>, <<1, 2>>, <<3, 0>>, <<0, 1, 2, 3>>}}

MCCrafted ==
    {[kind |-> k, uuid |-> "u"] : k \in {"SENSOR", "SLICE"}} \cup
    {[kind |-> "SCOPE", uuid |-> "u", maps |-> m] : m \in MCScopes} \cup
    {[nrm_actuator_discrete_set_choices(nrm_actuator_create("u", "DISCRETE"), c)
        EXCEPT !.value = v] :
        c \in {<< >>, <<2>>, <<3, 1>>, <<2, 1, 2>>}, v \in 0..2} \cup
    {[nrm_actuator_continuous_set_limits(nrm_actuator_create("u", "CONTINUOUS"),
                                         l[1], l[2])
        EXCEPT !.value = v] : l \in {<<0, 0>>, <<1, 3>>}, v \in 0..2} \cup
    {[kind |-> "EVENT", uuid |-> "u", maps |-> m,
      time |-> [sec |-> x[1], nsec |-> x[2]], value |-> 1] :
        m \in MCScopes, x \in (0..2) \X (0..NsPerSec - 1)}

MCInit ==
    /\ part \in Parts
    /\ RingInit
    /\ VectorInit
    /\ HashInit /\ (part # "hash" => hashv = [k \in Keys |-> k])
    /\ TopicsInit
    /\ ScopesInit /\ (part # "scopes" => \A t \in Threads :
                                             place[t] = <<0, 0>>)
    /\ WireInit /\ (part # "wire" => crafted = [kind |-> "SLICE", uuid |-> "u"])

MCNext ==
    \/ /\ part = "ring" /\ RingNext
       /\ UNCHANGED <<part, vectorvars, hashvars, topicvars, scopevars,
                      wirevars>>
    \/ /\ part = "vector" /\ VectorNext
       /\ UNCHANGED <<part, ringvars, hashvars, topicvars, scopevars,
                      wirevars>>
    \/ /\ part = "hash" /\ HashNextAction
       /\ UNCHANGED <<part, ringvars, vectorvars, topicvars, scopevars,
                      wirevars>>
    \/ /\ part = "topics" /\ TopicsNext
       /\ UNCHANGED <<part, ringvars, vectorvars, hashvars, scopevars, wirevars>>
    \/ /\ part = "scopes" /\ ScopesNext
       /\ UNCHANGED <<part, ringvars, vectorvars, hashvars, topicvars,
                      wirevars>>
    \/ /\ part = "wire" /\ WireNext
       /\ UNCHANGED <<part, ringvars, vectorvars, hashvars, topicvars,
                      scopevars>>

MCSpec == MCInit /\ [][MCNext]_mcvars
=============================================================================
