----------------------------- MODULE NrmVector ------------------------------
(***************************************************************************)
(* The vector of src/utils/vectors.c over include/internal/utarray.h: n    *)
(* slots of memory of which the first i hold elements; the memory grows by *)
(* doubling and is moved down when an element is taken out.                *)
(***************************************************************************)
EXTENDS Integers, Sequences, FiniteSets

CONSTANTS
    Elements,   \* integers: the code orders elements as it orders doubles
    MinSlots,   \* slots of the first allocation (8 in the code)
    MaxLen      \* bound: elements in the vector

\* What memory that nobody wrote holds.
Junk == -1

ASSUME VectorAssumption ==
    /\ Elements \subseteq Nat
    /\ MinSlots \in Nat \ {0}
    /\ MaxLen \in Nat

VARIABLES
    va,         \* the vector: [open, i, n, d]
    vectorcall  \* history: the last operation

vectorvars == <<va, vectorcall>>

NoVector == [open |-> FALSE, i |-> 0, n |-> 0, d |-> << >>]

VectorInit == va = NoVector /\ vectorcall = << >>

EmptyVector == [NoVector EXCEPT !.open = TRUE]

\* The number of slots after doubling until `need' of them are there: each
\* round adds one at least, so `need' rounds are enough.
GrowTo(n, need) ==
    LET slots[r \in 0..need] ==
            IF r = 0 THEN n
            ELSE IF slots[r - 1] >= need THEN slots[r - 1]
            ELSE IF slots[r - 1] = 0 THEN MinSlots
            ELSE 2 * slots[r - 1]
    IN  slots[need]

utarray_reserve(a, by) ==
    LET m == GrowTo(a.n, a.i + by)
    IN  [a EXCEPT !.n = m,
                  !.d = [s \in 0..m - 1 |-> IF s < a.n THEN a.d[s] ELSE Junk]]

utarray_push_back(a, x) ==
    LET r == utarray_reserve(a, 1)
    IN  [r EXCEPT !.d[r.i] = x, !.i = @ + 1]

\* memset fills the new elements with zeroes.
utarray_resize(a, num) ==
    LET r == IF a.i < num THEN utarray_reserve(a, num - a.i) ELSE a
    IN  [r EXCEPT !.i = num,
                  !.d = [s \in DOMAIN r.d |->
                            IF a.i <= s /\ s < num THEN 0 ELSE r.d[s]]]

\* The elements of w behind those of a.
utarray_concat(a, w) ==
    IF w.i = 0 THEN a
    ELSE LET r == utarray_reserve(a, w.i)
         IN  [r EXCEPT !.i = a.i + w.i,
                       !.d = [s \in DOMAIN r.d |->
                                 IF a.i <= s /\ s < a.i + w.i
                                 THEN w.d[s - a.i] ELSE r.d[s]]]

\* A plausible slip: the move copies one element too few.
utarray_erase_Short(a, pos) ==
    [a EXCEPT !.i = @ - 1,
              !.d = [s \in DOMAIN a.d |->
                        IF pos <= s /\ s < a.i - 2 THEN a.d[s + 1] ELSE a.d[s]]]

utarray_erase(a, pos) ==
    [a EXCEPT !.i = @ - 1,
              !.d = [s \in DOMAIN a.d |->
                        IF pos <= s /\ s < a.i - 1 THEN a.d[s + 1] ELSE a.d[s]]]

\* qsort: the elements in ascending order, the other slots untouched.
utarray_sort(a) ==
    LET rank(s) == Cardinality({t \in 0..a.i - 1 :
                       a.d[t] < a.d[s] \/ (a.d[t] = a.d[s] /\ t < s)})
    IN  [a EXCEPT !.d = [s \in DOMAIN a.d |->
                            IF s < a.i
                            THEN a.d[CHOOSE t \in 0..a.i - 1 : rank(t) = s]
                            ELSE a.d[s]]]

-----------------------------------------------------------------------------

nrm_vector_create ==
    /\ ~va.open
    /\ va' = EmptyVector
    /\ vectorcall' = <<"create", 1>>

nrm_vector_destroy ==
    /\ va.open
    /\ va' = NoVector
    /\ vectorcall' = <<"destroy">>

\* The program goes on with the copy and drops the original.
nrm_vector_copy ==
    /\ va.open
    /\ va' = utarray_concat(EmptyVector, va)
    /\ vectorcall' = <<"copy">>

nrm_vector_resize(len) ==
    /\ va.open
    /\ va' = utarray_resize(va, len)
    /\ vectorcall' = <<"resize", len>>

nrm_vector_push_back(x) ==
    /\ va.open /\ va.i < MaxLen
    /\ va' = utarray_push_back(va, x)
    /\ vectorcall' = <<"push", x>>

\* -NRM_EDOM when the vector is empty.
nrm_vector_pop_back ==
    /\ va.open /\ va.i > 0
    /\ va' = [va EXCEPT !.i = @ - 1]
    /\ vectorcall' = <<"pop">>

\* -NRM_EDOM when there is no such element.
nrm_vector_take(pos) ==
    /\ va.open /\ pos < va.i
    /\ va' = utarray_erase(va, pos)
    /\ vectorcall' = <<"take", pos>>

nrm_vector_sort ==
    /\ va.open
    /\ va' = utarray_sort(va)
    /\ vectorcall' = <<"sort">>

nrm_vector_clear ==
    /\ va.open
    /\ va' = [va EXCEPT !.i = 0]
    /\ vectorcall' = <<"clear">>

VectorNext ==
    \/ nrm_vector_create
    \/ nrm_vector_destroy
    \/ nrm_vector_copy
    \/ \E len \in 0..MaxLen : nrm_vector_resize(len)
    \/ \E x \in Elements : nrm_vector_push_back(x)
    \/ nrm_vector_pop_back
    \/ \E pos \in 0..MaxLen : nrm_vector_take(pos)
    \/ nrm_vector_sort
    \/ nrm_vector_clear

\* The elements a user reads with nrm_vector_length and nrm_vector_get.
VectorItems == [j \in 1..va.i |-> va.d[j - 1]]

Contents == INSTANCE NrmSequence WITH
    items <- VectorItems, limit <- (IF va.open THEN 1 ELSE 0),
    call <- vectorcall, Ring <- FALSE

(* A vector behaves as a sequence: growing, copying, padding, sorting and  *)
(* taking elements out never lose, repeat or invent one, whatever the      *)
(* number of slots (include/internal/utarray.h:106 and :238).              *)
VectorIsSequence == Contents!Spec

-----------------------------------------------------------------------------

\* The median of a policy's progress rates, times two to stay an integer:
\* the rates are sorted, and the middle one or the middle two are read
\* (nrm_control_europar21_events2progress).
\* A plausible slip: the rates are not sorted first.
Median2_Unsorted(a) ==
    IF a.i % 2 = 1
    THEN 2 * a.d[a.i \div 2]
    ELSE a.d[a.i \div 2 - 1] + a.d[a.i \div 2]

Median2(a) ==
    LET s == utarray_sort(a)
    IN  IF s.i % 2 = 1
        THEN 2 * s.d[s.i \div 2]
        ELSE s.d[s.i \div 2 - 1] + s.d[s.i \div 2]

(* At most half of the rates lie below the progress the policy computes    *)
(* and at most half above it, for an odd and an even number of them: one   *)
(* stray measurement does not move it (src/control/europar21.c:184).       *)
MedianSplits ==
    va.i > 0 =>
        LET m     == Median2(va)
            below == {s \in 0..va.i - 1 : 2 * va.d[s] < m}
            above == {s \in 0..va.i - 1 : 2 * va.d[s] > m}
        IN  /\ 2 * Cardinality(below) <= va.i
            /\ 2 * Cardinality(above) <= va.i
=============================================================================
