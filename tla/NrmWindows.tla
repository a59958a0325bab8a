----------------------------- MODULE NrmWindows -----------------------------
(***************************************************************************)
(* The control loop of nrmd seen from its measurements: helpers measure    *)
(* and send, the daemon stores what arrives in its event base, and a tick  *)
(* pulls the window since the policy's last decision and lets the policy   *)
(* decide (nrmd_event_callback and nrmd_control_tick of                    *)
(* src/binaries/nrmd.c, nrm_control_europar21_getargs and _action of       *)
(* src/control/europar21.c).  The value the decision commands and its way  *)
(* to the actuator are modelled in NrmActuator and NrmServer.              *)
(*                                                                         *)
(* The daemon runs one handler at a time, but the clock runs on inside a   *)
(* tick: the pull reads it, and the action reads it again.                 *)
(***************************************************************************)
EXTENDS NrmEventBase, FiniteSets

CONSTANTS
    Senders,        \* the client connections that send events
    Sensors,
    Scopes,
    Streams(_),     \* the sensors and scopes a connection sends events for
    InSensor,       \* the input of the control policy
    InScope,
    MaxEvents,      \* bound: events sent on each connection
    MaxTime         \* bound: the last instant of the clock

ASSUME InputAssumption ==
    /\ InSensor \in Sensors /\ InScope \in Scopes
    /\ \A s \in Senders : Streams(s) \subseteq Sensors \X Scopes
    /\ MaxEvents \in Nat /\ MaxTime \in Nat

VARIABLES
    clock,          \* CLOCK_REALTIME, the same for all processes of a node
    sent,           \* number of events measured on each connection
    flight,         \* events sent and not handled yet, in order
    base,           \* my_daemon.events
    known,          \* the input's scope is in the daemon's state
    up,             \* the daemon has not crashed
    pc,             \* "loop", or "action" between the pull and the action
    series,         \* in->timeserie; NULL before the first pull is << >>
    pulled,         \* the instant the last pull saw
    lastaction,     \* data->lastaction
    newest,         \* history: the latest time among the input's events
    ordered,        \* history: they arrived in the order of their times
    late,           \* history: those that arrived behind the last decision
    decisions,      \* history: the events each decision was based on
    gaps            \* history: the slices closed between pull and decision

daemon == <<base, known, up, pc, series, pulled, lastaction>>
history == <<newest, ordered, late, decisions, gaps>>
vars == <<clock, sent, flight, daemon, history>>

Event == [sender : Senders, n : 1..MaxEvents, sensor : Sensors,
          scope : Scopes, time : 0..MaxTime]

IsInput(e) == e.sensor = InSensor /\ e.scope = InScope

Init ==
    /\ clock = 0
    /\ sent = [s \in Senders |-> 0]
    /\ flight = [s \in Senders |-> << >>]
    /\ base = nrm_eventbase_create
    /\ known \in BOOLEAN
    /\ up = TRUE
    /\ pc = "loop"
    /\ series = << >>
    /\ pulled = 0
    /\ lastaction = 0
    /\ newest = 0
    /\ ordered = TRUE
    /\ late = {}
    /\ decisions = << >>
    /\ gaps = {}

-----------------------------------------------------------------------------

Advance ==
    /\ clock < MaxTime
    /\ clock' = clock + 1
    /\ UNCHANGED <<sent, flight, daemon, history>>

\* A helper stamps a measurement and sends it; connections are FIFO and
\* independent of each other.
Measure(s) ==
    /\ sent[s] < MaxEvents
    /\ sent' = [sent EXCEPT ![s] = @ + 1]
    /\ \E x \in Streams(s) :
           flight' = [flight EXCEPT ![s] = Append(@,
               [sender |-> s, n |-> sent[s] + 1, sensor |-> x[1],
                scope |-> x[2], time |-> clock])]
    /\ UNCHANGED <<clock, daemon, history>>

nrmd_event_callback(s) ==
    /\ up /\ pc = "loop" /\ flight[s] # << >>
    /\ LET e == Head(flight[s]) IN
       /\ base' = nrm_eventbase_push_event(base, e)
       /\ IF IsInput(e)
          THEN /\ newest' = IF e.time > newest THEN e.time ELSE newest
               /\ ordered' = (ordered /\ e.time >= newest)
               /\ late' = late \union
                    {x \in {e} : x.time < nrm_eb_time2key(lastaction)}
          ELSE UNCHANGED <<newest, ordered, late>>
    /\ flight' = [flight EXCEPT ![s] = Tail(@)]
    /\ UNCHANGED <<clock, sent, known, up, pc, series, pulled, lastaction,
                   decisions, gaps>>

\* A client registers the scope of the input.
AddScope ==
    /\ up /\ pc = "loop" /\ ~known
    /\ known' = TRUE
    /\ UNCHANGED <<clock, sent, flight, base, up, pc, series, pulled,
                   lastaction, history>>

\* nrm_control_europar21_getargs: the window starts at the last decision.
Since == lastaction

\* The first half of nrmd_control_tick.  When the scope is not registered
\* nrm_hash_find leaves the pointer as it was, and nothing initialised it:
\* it is NULL, and the input is skipped, or anything else, and the pull
\* dereferences it.
Pull ==
    /\ up /\ pc = "loop"
    /\ \/ /\ known
          /\ series' = nrm_eventbase_pull_timeserie(base, InSensor, InScope,
                                                    Since, clock)
          /\ pulled' = clock
          /\ pc' = "action"
          /\ UNCHANGED up
       \/ /\ ~known
          /\ pc' = "action"
          /\ UNCHANGED <<series, pulled, up>>
       \/ /\ ~known
          /\ up' = FALSE
          /\ UNCHANGED <<series, pulled, pc>>
    /\ UNCHANGED <<clock, sent, flight, base, known, lastaction, history>>

\* Too few events to compute a progress from.
\* A plausible slip: one event more is asked for.
TooFew_Off(events) == Len(events) <= 2

TooFew(events) == Len(events) <= 1

\* The second half: the policy decides and notes the time, or leaves the
\* window open for the next tick.
Action ==
    /\ up /\ pc = "action"
    /\ pc' = "loop"
    /\ \/ /\ TooFew(series)
          /\ UNCHANGED <<lastaction, decisions, gaps>>
       \/ /\ ~TooFew(series)
          /\ lastaction' = clock
          /\ decisions' = Append(decisions, EventsOf(series))
          /\ gaps' = gaps \union {k \in nrm_eb_time2key(pulled) ..
                                        nrm_eb_time2key(clock) - 1 :
                                  nrm_eb_time2key(k) = k}
    /\ base' = nrm_eventbase_tick(base, clock)
    /\ UNCHANGED <<clock, sent, flight, known, up, series, pulled,
                   newest, ordered, late>>

Next ==
    \/ Advance
    \/ \E s \in Senders : Measure(s)
    \/ \E s \in Senders : nrmd_event_callback(s)
    \/ AddScope
    \/ Pull
    \/ Action

Spec == Init /\ [][Next]_vars

\* Time passes, and the daemon's timer fires again and again: a periodic
\* zloop timer without end (src/server.c, nrm_server_settimer).
FairSpec ==
    /\ Spec
    /\ WF_vars(Advance)
    /\ WF_vars(Pull)
    /\ WF_vars(Action)

-----------------------------------------------------------------------------

Key(e) == nrm_eb_time2key(e.time)
Counted == UNION {decisions[i] : i \in DOMAIN decisions}
Pending == Stored(base, InSensor, InScope) \ Counted
Waiting == {e \in Pending : Key(e) >= nrm_eb_time2key(lastaction)}
GivenUp == Pending \ Waiting

Progress == INSTANCE NrmProgress WITH
    Measurement <- Event,
    waiting <- Waiting,
    decisions <- decisions,
    given_up <- GivenUp

(* The event base and the control policy together keep the promise of      *)
(* NrmProgress: no event is counted in two decisions, each decision counts *)
(* two events or more, and events leave the window only when one is taken  *)
(* (nrm_eventbase_pull_timeserie, nrm_control_europar21_action).           *)
CountsOnce == Progress!Spec

(* An event that no decision will count either arrived after a decision    *)
(* had gone past its slice, or belongs to a slice that closed between the  *)
(* pull of a tick and the clock read of its action, the only hole between  *)
(* one window and the next (src/control/europar21.c:250).                  *)
LossExplained == \A e \in GivenUp : e \in late \/ Key(e) \in gaps

(* While the events of the input arrive in the order of their times, the   *)
(* series a decision sees is in that order too, although it is gathered    *)
(* from a hash table of slices (src/eventbase.c:264); the policy divides   *)
(* by the differences of neighbours (src/control/europar21.c:173).         *)
SeriesInOrder ==
    ordered =>
        \A i \in 1..Len(series) - 1 : series[i].time <= series[i + 1].time

(* Two events of the input in slices that have closed do not wait for      *)
(* ever: as long as time passes and ticks go on, a decision counts or      *)
(* passes them.  A lone event may wait, the policy needs two.              *)
Due == {e \in Waiting : Key(e) < nrm_eb_time2key(MaxTime)}
DecisionComes == []<>(known => Cardinality(Due) < 2)
=============================================================================
