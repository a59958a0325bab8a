------------------------------ MODULE NrmOmpt -------------------------------
(* The OMPT tool's progress counter.  Every OpenMP thread that dispatches  *)
(* a piece of a loop adds one to a counter the threads share, and the      *)
(* thread that finds the last report old enough sends the count to the     *)
(* daemon and starts from zero.  What is left is sent when the tool ends.  *)
EXTENDS Integers, Sequences

CONSTANTS
    OmpThreads,     \* the application's OpenMP threads
    RateLimit,      \* nrm_ratelimit
    MaxDispatch,    \* bound on the dispatches of the whole application
    MaxClock        \* bound on the clock

ASSUME OmptAssumption ==
    RateLimit \in Nat /\ MaxDispatch \in Nat /\ MaxClock \in Nat

VARIABLES
    clock,          \* what nrm_time_gettime returns
    omppc,          \* where each thread is in nrm_ompt_send_event
    seen,           \* the count each thread has read
    now,            \* the time each thread has read
    global_lock,    \* the threads that hold the lock
    global_count,
    last_send,
    reports,        \* events sent, [time, count]
    dispatches,     \* callbacks the runtime has made
    finalized       \* nrm_ompt_finalize has run

omptvars == <<clock, omppc, seen, now, global_lock, global_count, last_send,
              reports, dispatches, finalized>>

\* nrm_ompt_initialize has run: the clock is read into last_send.
OmptInit ==
    /\ clock = 0
    /\ omppc = [t \in OmpThreads |-> "outside"]
    /\ seen = [t \in OmpThreads |-> 0]
    /\ now = [t \in OmpThreads |-> 0]
    /\ global_lock = {}
    /\ global_count = 0
    /\ last_send = 0
    /\ reports = <<>>
    /\ dispatches = 0
    /\ finalized = FALSE

\* Time passes.
ClockTicks ==
    /\ clock < MaxClock
    /\ clock' = clock + 1
    /\ UNCHANGED <<omppc, seen, now, global_lock, global_count, last_send,
                   reports, dispatches, finalized>>

\* The runtime calls nrm_ompt_callback_dispatch_cb.
nrm_ompt_callback_dispatch_cb(t) ==
    /\ ~finalized
    /\ omppc[t] = "outside"
    /\ dispatches < MaxDispatch
    /\ dispatches' = dispatches + 1
    /\ omppc' = [omppc EXCEPT ![t] = "lock"]
    /\ UNCHANGED <<clock, seen, now, global_lock, global_count, last_send,
                   reports, finalized>>

\* Every thread has a lock of its own.
LockFree_Private(t) == t \notin global_lock

LockFree(t) == global_lock = {}

\* nrm_ompt_send_event, a step for each access to what the threads share.
TakeLock(t) ==
    /\ omppc[t] = "lock"
    /\ LockFree(t)
    /\ global_lock' = global_lock \cup {t}
    /\ now' = [now EXCEPT ![t] = clock]
    /\ seen' = [seen EXCEPT ![t] = global_count]
    /\ omppc' = [omppc EXCEPT ![t] = "count"]
    /\ UNCHANGED <<clock, global_count, last_send, reports, dispatches,
                   finalized>>

AddOne(t) ==
    /\ omppc[t] = "count"
    /\ global_count' = seen[t] + 1
    /\ omppc' = [omppc EXCEPT ![t] =
                    IF now[t] - last_send > RateLimit THEN "send"
                                                      ELSE "unlock"]
    /\ UNCHANGED <<clock, seen, now, global_lock, last_send, reports,
                   dispatches, finalized>>

\* The report without the time of it.
SendCount_NoTime(t) ==
    /\ omppc[t] = "send"
    /\ reports' = Append(reports, [time |-> now[t], count |-> global_count])
    /\ global_count' = 0
    /\ omppc' = [omppc EXCEPT ![t] = "unlock"]
    /\ UNCHANGED <<clock, seen, now, global_lock, last_send, dispatches,
                   finalized>>

SendCount(t) ==
    /\ omppc[t] = "send"
    /\ reports' = Append(reports, [time |-> now[t], count |-> global_count])
    /\ global_count' = 0
    /\ last_send' = now[t]
    /\ omppc' = [omppc EXCEPT ![t] = "unlock"]
    /\ UNCHANGED <<clock, seen, now, global_lock, dispatches, finalized>>

Unlock(t) ==
    /\ omppc[t] = "unlock"
    /\ global_lock' = global_lock \ {t}
    /\ omppc' = [omppc EXCEPT ![t] = "outside"]
    /\ UNCHANGED <<clock, seen, now, global_count, last_send, reports,
                   dispatches, finalized>>

\* nrm_ompt_ratelimit_finalize, called from atexit once the application's
\* parallel regions are over: it takes no lock, and does not reset the count.
nrm_ompt_ratelimit_finalize ==
    /\ ~finalized
    /\ \A t \in OmpThreads : omppc[t] = "outside"
    /\ last_send' = clock
    /\ reports' = IF global_count > 0
                    THEN Append(reports, [time |-> clock,
                                          count |-> global_count])
                    ELSE reports
    /\ finalized' = TRUE
    /\ UNCHANGED <<clock, omppc, seen, now, global_lock, global_count,
                   dispatches>>

OmptNext ==
    \/ ClockTicks
    \/ \E t \in OmpThreads : \/ nrm_ompt_callback_dispatch_cb(t)
                             \/ TakeLock(t)
                             \/ AddOne(t)
                             \/ SendCount(t)
                             \/ Unlock(t)
    \/ nrm_ompt_ratelimit_finalize

(* Properties. *)

\* What the reports of q add up to.
Total(q) ==
    LET sum[i \in 0..Len(q)] == IF i = 0 THEN 0 ELSE sum[i - 1] + q[i].count
    IN  sum[Len(q)]

Reported == Total(reports)

\* Between two callbacks every dispatch is either in a report or in the
\* counter, and once the tool has ended every one of them has been reported
\* once: none is lost to two threads that count together or to the rate
\* limit, and none is reported twice.
DispatchesCounted ==
    (\A t \in OmpThreads : omppc[t] = "outside") =>
        dispatches = Reported + (IF finalized THEN 0 ELSE global_count)

\* The reports of the callbacks are in the order of their times and more than
\* nrm_ratelimit apart, whichever threads send them; the last one, of
\* nrm_ompt_ratelimit_finalize, comes whenever the tool ends.
RateLimited ==
    \A i \in 2..Len(reports) :
        (finalized => i < Len(reports)) =>
            reports[i].time > reports[i - 1].time + RateLimit
=============================================================================
