---------------------------- MODULE NrmSequence -----------------------------
(***************************************************************************)
(* What the containers of src/utils promise: a ring buffer is the sequence *)
(* of the last `limit' elements pushed, a vector is a sequence without     *)
(* limit whose elements can also be dropped from the end, taken out of the *)
(* middle, padded with zeroes and sorted.                                  *)
(***************************************************************************)
EXTENDS Integers, Sequences

CONSTANTS
    Elements,   \* what is stored, a set of integers
    Ring        \* TRUE for a ring buffer, FALSE for a vector

VARIABLES
    items,      \* the contents, oldest first
    limit,      \* capacity of a ring buffer, 0 when there is no buffer
    call        \* the last operation and its argument

vars == <<items, limit, call>>

Init == items = << >> /\ limit = 0 /\ call = << >>

Create == /\ items = << >> /\ items' = << >>
          /\ limit = 0 /\ limit' > 0
          /\ call' = <<"create", limit'>>

Push == \E x \in Elements :
    LET s == Append(items, x)
    IN  /\ limit > 0
        /\ call' = <<"push", x>>
        /\ items' = IF Ring /\ Len(s) > limit THEN Tail(s) ELSE s
        /\ UNCHANGED limit

Clear == /\ limit > 0
         /\ call' = <<"clear">>
         /\ items' = << >>
         /\ UNCHANGED limit

Destroy == /\ limit > 0
           /\ call' = <<"destroy">>
           /\ items' = << >>
           /\ limit' = 0

\* What the operations of a vector do to its contents; places count from
\* zero.
Edit == /\ ~Ring /\ limit > 0
        /\ UNCHANGED limit
        /\ LET n == Len(items) IN
           \/ /\ call' = <<"copy">>
              /\ items' = items
           \/ /\ call' = <<"resize", Len(items')>>
              /\ items' = [j \in 1..call'[2] |->
                              IF j <= n THEN items[j] ELSE 0]
           \/ /\ n > 0
              /\ call' = <<"pop">>
              /\ items' = SubSeq(items, 1, n - 1)
           \/ \E p \in 1..n :
              /\ call' = <<"take", p - 1>>
              /\ items' = SubSeq(items, 1, p - 1) \o SubSeq(items, p + 1, n)
           \/ /\ call' = <<"sort">>
              /\ Len(items') = n
              /\ \A j \in 1..n - 1 : items'[j] <= items'[j + 1]
              /\ \E p \in [1..n -> 1..n] :
                     /\ \A j, k \in 1..n : p[j] = p[k] => j = k
                     /\ items' = [j \in 1..n |-> items[p[j]]]

Next == Create \/ Push \/ Clear \/ Destroy \/ Edit

Spec == Init /\ [][Next]_vars
=============================================================================
