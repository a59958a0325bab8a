----------------------------- MODULE NrmTopics ------------------------------
(***************************************************************************)
(* Reference-counted strings (src/utils/strings.c) where two threads share *)
(* them: nrmd publishes under topics it owns, the broker thread of the     *)
(* controller role reads a topic when it takes the request from the pipe,  *)
(* and nrmd drops its own references before it stops the broker            *)
(* (src/roles/controller.c, src/binaries/nrmd.c).                          *)
(***************************************************************************)
EXTENDS Naturals, Sequences

CONSTANTS
    Topics,
    MaxPipe     \* bound: requests waiting in the pipe

\* A request to publish is told from the one to stop.
ASSUME TopicsAssumption == "TERM" \notin Topics

VARIABLES
    rc,         \* reference count of each string
    freed,      \* the strings whose memory was given back
    held,       \* the topics nrmd still holds
    pubpipe,    \* requests to the broker: topics, then "TERM"
    broker,     \* the broker's loop runs
    touched     \* strings used after they were freed

topicvars == <<rc, freed, held, pubpipe, broker, touched>>

TopicsInit ==
    /\ rc = [t \in Topics |-> 1]
    /\ freed = {}
    /\ held = Topics
    /\ pubpipe = << >>
    /\ broker = TRUE
    /\ touched = {}

\* What dropping a reference does to the count and the memory.
nrm_string_decref(t) ==
    /\ rc' = [rc EXCEPT ![t] = @ - 1]
    /\ freed' = IF rc[t] - 1 = 0 THEN freed \union {t} ELSE freed

\* A plausible slip: the topic is lent to the broker without a reference.
nrm_string_incref_Forgotten(t) == UNCHANGED rc

nrm_string_incref(t) == rc' = [rc EXCEPT ![t] = @ + 1]

\* nrmd publishes from its callbacks, that is before it tears down.
nrm_role_controller_pub(t) ==
    /\ held = Topics
    /\ Len(pubpipe) < MaxPipe
    /\ nrm_string_incref(t)
    /\ pubpipe' = Append(pubpipe, t)
    /\ UNCHANGED <<freed, held, broker, touched>>

\* The teardown of nrmd drops its topics one after the other.
DropTopic(t) ==
    /\ t \in held
    /\ nrm_string_decref(t)
    /\ held' = held \ {t}
    /\ UNCHANGED <<pubpipe, broker, touched>>

nrm_role_controller_destroy ==
    /\ held = {} /\ broker
    /\ \A i \in DOMAIN pubpipe : pubpipe[i] # "TERM"
    /\ pubpipe' = Append(pubpipe, "TERM")
    /\ UNCHANGED <<rc, freed, held, broker, touched>>

nrm_controller_broker_pipe_handler ==
    /\ broker /\ pubpipe # << >>
    /\ pubpipe' = Tail(pubpipe)
    /\ LET t == Head(pubpipe) IN
       \/ /\ t = "TERM"
          /\ broker' = FALSE
          /\ UNCHANGED <<rc, freed, touched>>
       \/ /\ t # "TERM"
          /\ touched' = touched \union ({t} \intersect freed)
          /\ nrm_string_decref(t)
          /\ UNCHANGED broker
    /\ UNCHANGED held

TopicsNext ==
    \/ \E t \in Topics : nrm_role_controller_pub(t)
    \/ \E t \in Topics : DropTopic(t)
    \/ nrm_role_controller_destroy
    \/ nrm_controller_broker_pipe_handler

(* The broker never reads or releases a topic whose memory is gone,        *)
(* however many requests are still in the pipe when nrmd drops its own     *)
(* references (src/binaries/nrmd.c:236), and once the broker has left its  *)
(* loop no topic is left allocated.                                        *)
TopicsOutlivePipe ==
    /\ touched = {}
    /\ ~broker => freed = Topics
=============================================================================
