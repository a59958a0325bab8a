---------------------------- MODULE NrmDictionary ---------------------------
(***************************************************************************)
(* What the tables of the library promise: keys in the order in which they *)
(* were added, each at most once, and truthful answers to questions.       *)
(***************************************************************************)
EXTENDS Naturals, Sequences

CONSTANTS Keys, NoReply

VARIABLES
    keys,       \* the keys in the table, in order of addition
    reply       \* what the last call answered: [call, key, answer]

vars == <<keys, reply>>

Has(k) == \E i \in DOMAIN keys : keys[i] = k

Init == keys = << >> /\ reply = NoReply

Add == \E k \in Keys :
    \/ /\ Has(k)
       /\ reply' = [call |-> "add", key |-> k, answer |-> "FAILURE"]
       /\ UNCHANGED keys
    \/ /\ ~Has(k)
       /\ reply' = [call |-> "add", key |-> k, answer |-> "SUCCESS"]
       /\ keys' = Append(keys, k)

\* An empty table is no table, and asking it is an error of the caller.
Find == \E k \in Keys :
    /\ reply' = [call |-> "find", key |-> k,
                 answer |-> IF Has(k) THEN "SUCCESS"
                            ELSE IF keys = << >> THEN "EINVAL"
                            ELSE "ENOTFOUND"]
    /\ UNCHANGED keys

\* Destroying the table takes the oldest key first.
DropFirst == keys # << >> /\ keys' = Tail(keys) /\ reply' = NoReply

Next == Add \/ Find \/ DropFirst

Spec == Init /\ [][Next]_vars
=============================================================================
