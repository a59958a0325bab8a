---------------------------- MODULE NrmEventBase ----------------------------
(***************************************************************************)
(* The daemon's store of measurements (src/eventbase.c) and the time       *)
(* series it hands to the control policy (src/timeserie.c).                *)
(*                                                                         *)
(* The store is a table of sensors, each with a table of scopes, each with *)
(* its slices of Period nanoseconds.  A slice is found by its key, the     *)
(* start of the period; the slices of a scope are kept, and iterated, in   *)
(* the order in which they were created, which is the order in which the   *)
(* first event of each period arrived.  An event is any record with the    *)
(* fields sensor, scope and time.                                          *)
(***************************************************************************)
EXTENDS Naturals, Sequences

CONSTANT
    Period      \* TIMESLICE_PERIOD

ASSUME PeriodAssumption == Period \in Nat \ {0}

nrm_eb_time2key(t) == t - (t % Period)

\* A table that holds nothing yet.
NoEntry == [uuid \in {} |-> << >>]

nrm_eventbase_create == NoEntry

nrm_eventbase_add_sensor(eb, sensor) ==
    [s \in DOMAIN eb \union {sensor} |-> IF s = sensor THEN NoEntry ELSE eb[s]]

nrm_eventbase_add_scope(sb, scope) ==
    [s \in DOMAIN sb \union {scope} |-> IF s = scope THEN << >> ELSE sb[s]]

\* A plausible slip: the new slice goes to the head of the table.
nrm_eventbase_add_timeslice_Front(slices, key) ==
    << [key |-> key, events |-> << >>] >> \o slices

nrm_eventbase_add_timeslice(slices, key) ==
    Append(slices, [key |-> key, events |-> << >>])

nrm_eventbase_add_event(slice, e) ==
    [slice EXCEPT !.events = Append(@, e)]

\* The slices of a scope after an event was pushed: its slice is created
\* when there is none.
SlicesWith(sc, e) ==
    LET key    == nrm_eb_time2key(e.time)
        slices == IF \E i \in DOMAIN sc : sc[i].key = key
                  THEN sc ELSE nrm_eventbase_add_timeslice(sc, key)
    IN  [i \in DOMAIN slices |->
            IF slices[i].key = key
            THEN nrm_eventbase_add_event(slices[i], e) ELSE slices[i]]

\* The store after an event was pushed: its sensor and its scope are created
\* when the store has none.
nrm_eventbase_push_event(eb, e) ==
    LET sensors == IF e.sensor \in DOMAIN eb
                   THEN eb ELSE nrm_eventbase_add_sensor(eb, e.sensor)
        sb      == sensors[e.sensor]
        scopes  == IF e.scope \in DOMAIN sb
                   THEN sb ELSE nrm_eventbase_add_scope(sb, e.scope)
    IN  [sensors EXCEPT ![e.sensor] =
            [scopes EXCEPT ![e.scope] = SlicesWith(scopes[e.scope], e)]]

\* The slices kept for one sensor and scope, none when either is unknown.
Slices(eb, sensor, scope) ==
    IF sensor \in DOMAIN eb
    THEN IF scope \in DOMAIN eb[sensor] THEN eb[sensor][scope] ELSE << >>
    ELSE << >>

\* The window of a pull, from the slice of the last decision up to and
\* without the slice of the present.
\* Plausible slips: the slice of the present is taken too, or the slice of
\* the last decision is left out.
InWindow_Closed(key, since, now) ==
    /\ key >= nrm_eb_time2key(since)
    /\ key <= nrm_eb_time2key(now)

InWindow_After(key, since, now) ==
    /\ key > nrm_eb_time2key(since)
    /\ key < nrm_eb_time2key(now)

InWindow(key, since, now) ==
    /\ key >= nrm_eb_time2key(since)
    /\ key < nrm_eb_time2key(now)

\* A time series: the events, in the order they were added.
nrm_timeserie_create == << >>
nrm_timeserie_add_events(ts, events) == ts \o events

\* The events of the slices in the window, slice after slice.
InWindowOf(sc, since, now) ==
    LET ret[i \in 0..Len(sc)] ==
            IF i = 0 THEN nrm_timeserie_create
            ELSE IF InWindow(sc[i].key, since, now)
            THEN nrm_timeserie_add_events(ret[i - 1], sc[i].events)
            ELSE ret[i - 1]
    IN  ret[Len(sc)]

nrm_eventbase_pull_timeserie(eb, sensor, scope, since, now) ==
    InWindowOf(Slices(eb, sensor, scope), since, now)

\* Nothing is ever removed: the body only discards its arguments.
nrm_eventbase_tick(eb, now) == eb

\* The events of a series, in no order.
EventsOf(ts) == {ts[i] : i \in DOMAIN ts}

\* Every event the store holds for one sensor and scope.
Stored(eb, sensor, scope) ==
    LET sc == Slices(eb, sensor, scope)
    IN  UNION {EventsOf(sc[i].events) : i \in DOMAIN sc}
=============================================================================
