------------------------------ MODULE NrmHash -------------------------------
(***************************************************************************)
(* The tables of src/utils/hashes.c over include/internal/uthash.h: the    *)
(* elements are linked in the order of addition, and once more in the      *)
(* chains of their buckets.  A bucket whose chain has become too long      *)
(* doubles the number of buckets; a bucket that is overfull although the   *)
(* buckets were doubled is allowed longer chains; two doublings that do    *)
(* not help end the doubling.                                              *)
(*                                                                         *)
(* nrm_hash_remove looks up the address of its key instead of the key and  *)
(* finds nothing (see RemoveRemoves in NrmSystem), so elements leave a     *)
(* table only when it is destroyed.                                        *)
(***************************************************************************)
EXTENDS Naturals, Sequences

CONSTANTS
    Keys,
    HashFunctions,  \* functions from Keys to Nat: hash values to explore
    InitBuckets,    \* HASH_INITIAL_NUM_BUCKETS, a power of two (32)
    Thresh,         \* HASH_BKT_CAPACITY_THRESH (10)
    NULL

ASSUME HashAssumption ==
    /\ InitBuckets \in Nat \ {0}
    /\ Thresh \in Nat \ {0}
    /\ HashFunctions \subseteq [Keys -> Nat]
    /\ NULL \notin Keys
    /\ \A k \in Keys, n \in Keys \union {NULL} : [el |-> k, tmp |-> n] # NULL

VARIABLES
    hashv,      \* the hash function
    tbl,        \* the table: [nb, buckets, order, ineff, noexpand]
    iter,       \* [el, tmp] of the loop of nrm_hash_destroy, or NULL
    heap,       \* the elements allocated and not freed
    answered    \* what the last call answered

hashvars == <<hashv, tbl, iter, heap, answered>>

NoBucket == [chain |-> << >>, expand_mult |-> 0]

HASH_MAKE_TABLE ==
    [nb |-> InitBuckets, buckets |-> [b \in 0..InitBuckets - 1 |-> NoBucket],
     order |-> << >>, ineff |-> 0, noexpand |-> FALSE]

\* No table: a NULL head.
NoTable == [HASH_MAKE_TABLE EXCEPT !.nb = 0]

HashInit ==
    /\ hashv \in HashFunctions
    /\ tbl = NoTable
    /\ iter = NULL
    /\ heap = {}
    /\ answered = NULL

\* hashv & (num_buckets - 1), the number of buckets being a power of two.
HASH_TO_BKT(k, nb) == hashv[k] % nb

HASH_FIND_IN_BKT(bucket, k) ==
    \E i \in DOMAIN bucket.chain : bucket.chain[i] = k

HASH_FIND(t, k) ==
    t.nb # 0 /\ HASH_FIND_IN_BKT(t.buckets[HASH_TO_BKT(k, t.nb)], k)

\* The elements in the order in which an expansion visits them: the chains
\* of the first n buckets.
ChainsUpTo(t, n) ==
    LET visits[b \in 0..n] ==
            IF b = 0 THEN << >> ELSE visits[b - 1] \o t.buckets[b - 1].chain
    IN  visits[n]

\* A plausible slip: the last bucket is forgotten.
BucketOrder_Short(t) == ChainsUpTo(t, t.nb - 1)

BucketOrder(t) == ChainsUpTo(t, t.nb)

\* ideal_chain_maxlen: the items spread evenly, rounded up.
Ideal(items, nb) == (items \div nb) + (IF items % nb # 0 THEN 1 ELSE 0)

\* An element goes to the front of its new chain; past the ideal length it
\* raises the multiplier.
MoveToBucket(s, k, ideal) ==
    LET b    == HASH_TO_BKT(k, s.nb)
        c    == Len(s.buckets[b].chain) + 1
        mult == s.buckets[b].expand_mult
    IN  [nb |-> s.nb,
         nonideal |-> IF c > ideal THEN s.nonideal + 1 ELSE s.nonideal,
         buckets |-> [s.buckets EXCEPT ![b] =
                          [chain |-> <<k>> \o s.buckets[b].chain,
                           expand_mult |-> IF c > ideal /\ c > mult * ideal
                                           THEN mult + 1 ELSE mult]]]

\* Twice as many buckets after the first n elements visited moved to them.
Moved(visits, nb, ideal, n) ==
    LET moved[i \in 0..n] ==
            IF i = 0 THEN [nb |-> nb, nonideal |-> 0,
                           buckets |-> [b \in 0..nb - 1 |-> NoBucket]]
            ELSE MoveToBucket(moved[i - 1], visits[i], ideal)
    IN  moved[n]

HASH_EXPAND_BUCKETS(t) ==
    LET items  == Len(t.order)
        visits == BucketOrder(t)
        moved  == Moved(visits, 2 * t.nb, Ideal(items, 2 * t.nb), Len(visits))
        ineff  == IF moved.nonideal > items \div 2 THEN t.ineff + 1 ELSE 0
    IN  [nb |-> moved.nb, buckets |-> moved.buckets, order |-> t.order,
         ineff |-> ineff, noexpand |-> t.noexpand \/ ineff > 1]

\* A chain that has grown to the capacity of its bucket.
\* A plausible slip: one element too many.
TooLong_Off(bucket) ==
    Len(bucket.chain) > (bucket.expand_mult + 1) * Thresh

TooLong(bucket) ==
    Len(bucket.chain) >= (bucket.expand_mult + 1) * Thresh

HASH_ADD_TO_BKT(t, k) ==
    LET b == HASH_TO_BKT(k, t.nb)
        u == [t EXCEPT !.buckets[b].chain = <<k>> \o @]
    IN  IF TooLong(u.buckets[b]) /\ ~u.noexpand
        THEN HASH_EXPAND_BUCKETS(u) ELSE u

HASH_APPEND_LIST(t, k) == [t EXCEPT !.order = Append(@, k)]

HASH_ADD(t, k) ==
    LET u == IF t.nb = 0 THEN HASH_MAKE_TABLE ELSE t
    IN  HASH_ADD_TO_BKT(HASH_APPEND_LIST(u, k), k)

\* A list after one element was unlinked.
Without(s, k) ==
    LET i == CHOOSE i \in DOMAIN s : s[i] = k
    IN  [j \in 1..Len(s) - 1 |-> IF j < i THEN s[j] ELSE s[j + 1]]

\* The last element takes the table with it.
HASH_DELETE(t, k) ==
    IF t.order = <<k>> THEN NoTable
    ELSE LET b == HASH_TO_BKT(k, t.nb)
         IN  [t EXCEPT !.order = Without(@, k),
                       !.buckets[b].chain = Without(@, k)]

\* hh.next of an element in the table.
HashNext(t, k) ==
    LET later == {i \in DOMAIN t.order : i > 1 /\ t.order[i - 1] = k}
    IN  IF later = {} THEN NULL ELSE t.order[CHOOSE i \in later : TRUE]

-----------------------------------------------------------------------------

Answer(call, k, a) == [call |-> call, key |-> k, answer |-> a]

nrm_hash_add(k) ==
    /\ iter = NULL
    /\ \/ /\ HASH_FIND(tbl, k)
          /\ answered' = Answer("add", k, "FAILURE")
          /\ UNCHANGED <<tbl, heap>>
       \/ /\ ~HASH_FIND(tbl, k)
          /\ answered' = Answer("add", k, "SUCCESS")
          /\ heap' = heap \union {k}
          /\ tbl' = HASH_ADD(tbl, k)
    /\ UNCHANGED <<hashv, iter>>

nrm_hash_find(k) ==
    /\ iter = NULL
    /\ answered' = Answer("find", k, IF tbl.nb = 0 THEN "EINVAL"
                                     ELSE IF HASH_FIND(tbl, k) THEN "SUCCESS"
                                     ELSE "ENOTFOUND")
    /\ UNCHANGED <<hashv, tbl, iter, heap>>

\* nrm_hash_destroy, and the same loop in nrm_eventbase_destroy.
HASH_ITER_first ==
    /\ iter = NULL /\ tbl.nb # 0
    /\ LET first == Head(tbl.order)
       IN  iter' = [el |-> first, tmp |-> HashNext(tbl, first)]
    /\ UNCHANGED <<hashv, tbl, heap, answered>>

\* A plausible slip: the successor is read before it becomes the element.
HASH_ITER_next_Swapped(t, it) ==
    LET n == IF it.tmp = NULL THEN NULL ELSE HashNext(t, it.tmp)
    IN  [el |-> n, tmp |-> n]

HASH_ITER_next(t, it) ==
    [el |-> it.tmp,
     tmp |-> IF it.tmp = NULL THEN NULL ELSE HashNext(t, it.tmp)]

\* One round: delete and free the element, go on with its successor.
nrm_hash_destroy ==
    /\ iter # NULL
    /\ heap' = heap \ {iter.el}
    /\ LET rest == HASH_DELETE(tbl, iter.el)
           next == HASH_ITER_next(tbl, iter)
       IN  /\ tbl' = IF next.el = NULL THEN NoTable ELSE rest
           /\ iter' = IF next.el = NULL THEN NULL ELSE next
    /\ answered' = NULL
    /\ UNCHANGED hashv

HashNextAction ==
    \/ \E k \in Keys : nrm_hash_add(k)
    \/ \E k \in Keys : nrm_hash_find(k)
    \/ HASH_ITER_first
    \/ nrm_hash_destroy

-----------------------------------------------------------------------------

Dictionary == INSTANCE NrmDictionary WITH
    keys <- tbl.order, reply <- answered, NoReply <- NULL

(* A table answers as the dictionary it stands for, also after its buckets *)
(* were doubled and its chains taken apart: an element that was added is   *)
(* found, and added once (include/internal/uthash.h:984).                  *)
HashIsDictionary == Dictionary!Spec

(* Until the table gives up doubling, every chain stays below the capacity *)
(* of its bucket, or within the multiple of the ideal length that the      *)
(* bucket had when the elements were last spread: "by expanding buckets    *)
(* the hash keeps a bound on the chain length"                             *)
(* (include/internal/uthash.h:962).                                        *)
ChainsBounded ==
    iter = NULL /\ ~tbl.noexpand => \A b \in 0..tbl.nb - 1 :
        LET length   == Len(tbl.buckets[b].chain)
            multiple == tbl.buckets[b].expand_mult + 1
        IN  \/ length < multiple * Thresh
            \/ length <= multiple * Ideal(Len(tbl.order), tbl.nb)

(* Destroying a table frees every element, and the loop never stands on an *)
(* element that is freed, although it deletes what it stands on            *)
(* (src/utils/hashes.c:71, src/eventbase.c:100).                           *)
DestroyFreesAll ==
    /\ tbl.nb = 0 => heap = {}
    /\ iter # NULL => iter.el \in heap /\ iter.tmp \in heap \union {NULL}
=============================================================================
