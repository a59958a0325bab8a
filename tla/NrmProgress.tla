---------------------------- MODULE NrmProgress -----------------------------
(***************************************************************************)
(* What the event base and the control policy promise together about the   *)
(* measurements of the policy's input: every measurement that arrives is   *)
(* counted in at most one decision, a decision rests on at least two       *)
(* measurements, and a measurement is given up only on arrival or when a   *)
(* decision is taken.                                                      *)
(***************************************************************************)
EXTENDS Naturals, Sequences, FiniteSets

CONSTANT Measurement

VARIABLES
    waiting,    \* arrived, a later decision may count them
    decisions,  \* the measurements counted in each decision
    given_up    \* arrived and never to be counted

vars == <<waiting, decisions, given_up>>

Counted == UNION {decisions[i] : i \in DOMAIN decisions}
Seen == waiting \union Counted \union given_up

Init == /\ waiting = {}
        /\ decisions = << >>
        /\ given_up = {}

Arrive == \E e \in Seen' \ Seen :
    /\ e \in Measurement
    /\ \/ waiting' = waiting \union {e} /\ UNCHANGED given_up
       \/ given_up' = given_up \union {e} /\ UNCHANGED waiting
    /\ UNCHANGED decisions

\* Some of the waiting measurements are counted, some may be passed over.
Decide ==
    LET C == waiting \ (waiting' \union given_up')
        G == waiting \intersect given_up'
    IN  /\ Cardinality(C) >= 2
        /\ decisions' = Append(decisions, C)
        /\ given_up' = given_up \union G
        /\ waiting' = waiting \ (C \union G)

Next == Arrive \/ Decide

Spec == Init /\ [][Next]_vars
=============================================================================
