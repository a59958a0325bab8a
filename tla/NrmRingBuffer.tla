--------------------------- MODULE NrmRingBuffer ----------------------------
(***************************************************************************)
(* The ring buffer of src/utils/ringbuffer.c over                          *)
(* include/internal/utringbuffer.h: n slots of memory, the index i of the  *)
(* slot written next, and the flag f, set once the index has wrapped.      *)
(* Elements are plain memory: no copy function and no destructor.          *)
(***************************************************************************)
EXTENDS Integers, Sequences

CONSTANTS
    RingElements,
    NoElement,  \* NULL
    MaxSize     \* bound: the largest buffer created

VARIABLES
    rb,         \* the buffer: [n, i, f, d]; n = 0 when there is none
    ringcall    \* history: the last operation

Slots(n) == 0..n - 1

NoRing == [n |-> 0, i |-> 0, f |-> FALSE, d |-> << >>]

ringvars == <<rb, ringcall>>

RingInit == rb = NoRing /\ ringcall = << >>

\* The memory is not initialised: the first elements are arbitrary.
nrm_ringbuffer_create(size) ==
    /\ rb.n = 0
    /\ size # 0
    /\ \E junk \in RingElements :
           rb' = [n |-> size, i |-> 0, f |-> FALSE,
                  d |-> [s \in Slots(size) |-> junk]]
    /\ ringcall' = <<"create", size>>

nrm_ringbuffer_destroy ==
    /\ rb.n # 0
    /\ rb' = NoRing
    /\ ringcall' = <<"destroy">>

utringbuffer_len(a) == IF a.f THEN a.n ELSE a.i
utringbuffer_empty(a) == a.i = 0 /\ ~a.f
utringbuffer_real_idx(a, j) == IF a.f THEN (j + a.i) % a.n ELSE j

\* The element at place j, oldest first (NRM_EDOM when there is none).
utringbuffer_eltptr(a, j) ==
    IF j < utringbuffer_len(a) THEN a.d[utringbuffer_real_idx(a, j)] ELSE NoElement

utringbuffer_back(a) ==
    IF utringbuffer_empty(a) THEN NoElement
    ELSE utringbuffer_eltptr(a, utringbuffer_len(a) - 1)

\* A plausible slip: the flag is not set when the index wraps.
utringbuffer_push_back_NoFlag(a, x) ==
    LET next == a.i + 1
    IN  [a EXCEPT !.d[a.i] = x, !.i = IF next = a.n THEN 0 ELSE next]

utringbuffer_push_back(a, x) ==
    LET next == a.i + 1
    IN  [a EXCEPT !.d[a.i] = x,
                  !.i = IF next = a.n THEN 0 ELSE next,
                  !.f = a.f \/ next = a.n]

nrm_ringbuffer_push_back(x) ==
    /\ rb.n # 0
    /\ rb' = utringbuffer_push_back(rb, x)
    /\ ringcall' = <<"push", x>>

nrm_ringbuffer_clear ==
    /\ rb.n # 0
    /\ rb' = [rb EXCEPT !.i = 0, !.f = FALSE]
    /\ ringcall' = <<"clear">>

RingNext ==
    \/ \E size \in 0..MaxSize : nrm_ringbuffer_create(size)
    \/ \E x \in RingElements : nrm_ringbuffer_push_back(x)
    \/ nrm_ringbuffer_clear
    \/ nrm_ringbuffer_destroy

-----------------------------------------------------------------------------

\* What a user reads: the elements one by one, and the newest on its own.
RingItems ==
    IF utringbuffer_empty(rb) THEN << >>
    ELSE Append([j \in 1..utringbuffer_len(rb) - 1 |->
                    utringbuffer_eltptr(rb, j - 1)],
                utringbuffer_back(rb))

LastPushed == INSTANCE NrmSequence WITH
    Elements <- RingElements, Ring <- TRUE,
    items <- RingItems, limit <- rb.n, call <- ringcall

(* A ring buffer holds the last elements pushed, oldest first and as many  *)
(* as it has slots, however often the index has wrapped; a wrap at the     *)
(* last slot is where the flag, the index and the order of reading change  *)
(* together (include/internal/utringbuffer.h:107).                         *)
RingKeepsLast == LastPushed!Spec
=============================================================================
