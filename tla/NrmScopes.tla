----------------------------- MODULE NrmScopes ------------------------------
(***************************************************************************)
(* Scopes: sets of processors, memory nodes and devices, kept as bitmaps   *)
(* (src/utils/bitmaps.c, src/utils/scopes.c).  A bitmap is an array of     *)
(* words; here a word is the set of its bits.  The state machine is that   *)
(* of the threads of a parallel region which all add the place they run on *)
(* to one scope (nrm_scope_threadshared).                                  *)
(***************************************************************************)
EXTENDS Naturals, Sequences, FiniteSets

CONSTANTS
    WordBits,   \* NRM_BITMAP_NBITS (64)
    Words,      \* NRM_BITMAP_SIZE (32)
    Threads,
    Places      \* pairs <<cpu, node>> a thread may find itself on

BitmapMax == Words * WordBits

ASSUME ScopesAssumption ==
    /\ WordBits \in Nat \ {0}
    /\ Words \in Nat \ {0}
    /\ Places \subseteq Nat \X Nat

Bitmap == [0..Words - 1 -> SUBSET (0..WordBits - 1)]

nrm_bitmap_reset == [n \in 0..Words - 1 |-> {}]

nrm_bitmap_isset(b, i) ==
    i < BitmapMax /\ i % WordBits \in b[i \div WordBits]

\* A bit past the end is refused.
nrm_bitmap_set(b, i) ==
    IF i >= BitmapMax THEN b
    ELSE [b EXCEPT ![i \div WordBits] = @ \union {i % WordBits}]

\* A plausible slip: only the first word is counted.
nrm_bitmap_nset_First(b) == Cardinality(b[0])

nrm_bitmap_nset(b) ==
    LET n[w \in 0..Words] ==
        IF w = 0 THEN 0 ELSE n[w - 1] + Cardinality(b[w - 1])
    IN  n[Words]

\* The bits in ascending order; the loop ends when it has seen as many as
\* nrm_bitmap_nset counted, and what it has not filled by then is 0.
nrm_bitmap_to_array(b) ==
    LET size == nrm_bitmap_nset(b)
        set[i \in 0..BitmapMax] ==
            IF i = 0 THEN << >>
            ELSE IF Len(set[i - 1]) < size /\ nrm_bitmap_isset(b, i - 1)
                 THEN Append(set[i - 1], i - 1) ELSE set[i - 1]
        items == set[BitmapMax]
    IN  [k \in 1..size |-> IF k <= Len(items) THEN items[k] ELSE 0]

nrm_bitmap_from_array(s) ==
    LET acc[i \in 0..Len(s)] ==
        IF i = 0 THEN nrm_bitmap_reset ELSE nrm_bitmap_set(acc[i - 1], s[i])
    IN  acc[Len(s)]

\* A scope without its name: one bitmap for each type of resource.
Types == {"cpu", "numa", "gpu"}
nrm_scope_create == [t \in Types |-> nrm_bitmap_reset]

-----------------------------------------------------------------------------

VARIABLES
    shared,     \* the scope of the region
    place,      \* what getcpu told each thread
    read,       \* the bitmap each thread saw when it began its update
    step        \* where each thread is: "getcpu", "cpu", "numa", "done"

scopevars == <<shared, place, read, step>>

ScopesInit ==
    /\ shared = nrm_scope_create
    /\ place \in [Threads -> Places]
    /\ read = [t \in Threads |-> nrm_bitmap_reset]
    /\ step = [t \in Threads |-> "getcpu"]

\* The bitmap a thread leaves, from the one it finds and the one it saw: the
\* update is one atomic operation on the word.
\* A plausible slip: the word is read, changed and written in three steps,
\* as nrm_bitmap_set does.
nrm_bitmap_set_atomic_Plain(now, seen, i) == nrm_bitmap_set(seen, i)

nrm_bitmap_set_atomic(now, seen, i) == nrm_bitmap_set(now, i)

\* nrm_scope_threadshared, one step for each access to the shared scope.
Arrive(t) ==
    /\ step[t] = "getcpu"
    /\ step' = [step EXCEPT ![t] = "cpu"]
    /\ read' = [read EXCEPT ![t] = shared["cpu"]]
    /\ UNCHANGED <<shared, place>>

AddCpu(t) ==
    /\ step[t] = "cpu"
    /\ shared' = [shared EXCEPT !["cpu"] =
                     nrm_bitmap_set_atomic(@, read[t], place[t][1])]
    /\ step' = [step EXCEPT ![t] = "numa"]
    /\ read' = [read EXCEPT ![t] = shared["numa"]]
    /\ UNCHANGED place

AddNode(t) ==
    /\ step[t] = "numa"
    /\ shared' = [shared EXCEPT !["numa"] =
                     nrm_bitmap_set_atomic(@, read[t], place[t][2])]
    /\ step' = [step EXCEPT ![t] = "done"]
    /\ UNCHANGED <<place, read>>

ScopesNext == \E t \in Threads : Arrive(t) \/ AddCpu(t) \/ AddNode(t)

(* When all threads of a region have called nrm_scope_threadshared, its    *)
(* scope "maps to the union of all resources in use by ALL threads"        *)
(* (src/utils/scopes.c:159), but for processors past the bitmap's end.     *)
SharedIsUnion ==
    (\A t \in Threads : step[t] = "done") =>
        \A i \in 0..BitmapMax - 1 :
            /\ nrm_bitmap_isset(shared["cpu"], i)
                   <=> \E t \in Threads : place[t][1] = i
            /\ nrm_bitmap_isset(shared["numa"], i)
                   <=> \E t \in Threads : place[t][2] = i
=============================================================================
