-------------------------- MODULE NrmWindowProofs ---------------------------
(* Proofs about the event base and the windows of the control policy, and  *)
(* about the ring buffers the library keeps events in.                     *)
EXTENDS NrmWindows, NrmRingBuffer, Integers, Sequences, FiniteSets,
        FiniteSetTheorems, NaturalsInduction, WellFoundedInduction,
        SequenceTheorems, TLAPS

USE ZenonT(8), SMTT(60)

-----------------------------------------------------------------------------
\* A set of natural numbers has a least element.
LEMMA SmallestNat ==
  ASSUME NEW K \in SUBSET Nat, K # {}
  PROVE  \E m \in K : \A k \in K : m <= k
<1> DEFINE R == OpToRel(<, Nat)
<1>1. IsWellFoundedOn(R, Nat)
  BY NatLessThanWellFounded
<1>2. PICK m \in K : \A k \in K : ~(<<k, m>> \in R)
  <2> HIDE DEF R
  <2> QED  BY <1>1, WFMin, Zenon
<1>3. ASSUME NEW k \in K PROVE m <= k
  <2>1. k \in Nat /\ m \in Nat
    OBVIOUS
  <2>2. k < m => <<k, m>> \in R
    BY <2>1 DEF OpToRel
  <2> HIDE DEF R
  <2> QED  BY <1>2, <2>1, <2>2, SMTT(60)
<1> QED  BY <1>3

-----------------------------------------------------------------------------
(* The arithmetic of slices. *)

\* A time is in the slice that starts at its key, and the keys are the
\* multiples of the period.
LEMMA KeyOf ==
  ASSUME NEW t \in Nat
  PROVE  /\ nrm_eb_time2key(t) \in Nat
         /\ nrm_eb_time2key(t) <= t /\ t < nrm_eb_time2key(t) + Period
         /\ nrm_eb_time2key(t) = Period * (t \div Period)
<1>1. Period \in Nat /\ Period > 0
  BY PeriodAssumption, SMTT(60)
<1>2. t % Period \in 0..Period - 1 /\ t = Period * (t \div Period) + (t % Period) /\ t \div Period \in Nat
  BY <1>1, SMTT(60)
<1> QED  BY <1>1, <1>2, SMTT(60) DEF nrm_eb_time2key

\* Later times have later keys, or the same.
LEMMA KeysInOrder ==
  ASSUME NEW t \in Nat, NEW u \in Nat
  PROVE  /\ t <= u => nrm_eb_time2key(t) <= nrm_eb_time2key(u)
         /\ nrm_eb_time2key(t) < nrm_eb_time2key(u) => t < nrm_eb_time2key(u)
         /\ nrm_eb_time2key(nrm_eb_time2key(t)) = nrm_eb_time2key(t)
<1> DEFINE a == t \div Period
           b == u \div Period
           k(x) == nrm_eb_time2key(x)
<1>1. Period \in Nat /\ Period > 0 /\ a \in Nat /\ b \in Nat
  BY PeriodAssumption, SMTT(60)
<1>2. /\ k(t) \in Nat /\ k(t) <= t /\ t < k(t) + Period /\ k(t) = Period * a
      /\ k(u) \in Nat /\ k(u) <= u /\ u < k(u) + Period /\ k(u) = Period * b
  BY KeyOf
<1> HIDE DEF a, b
<1>3. ASSUME NEW x \in Nat, NEW y \in Nat, x < y
      PROVE  Period * x + Period <= Period * y
  <2>1. PICK d \in Nat : y = x + 1 + d
    BY <1>3, SMTT(60)
  <2>2. Period * y = Period * x + Period + Period * d
    BY <1>1, <2>1, SMTT(60)
  <2>3. Period * d \in Nat /\ Period * x \in Nat
    BY <1>1, SMTT(60)
  <2> QED  BY <1>1, <2>2, <2>3, SMTT(60)
<1>4. ASSUME t <= u PROVE k(t) <= k(u)
  <2>1. CASE b < a
    BY <1>1, <1>2, <1>3, <1>4, <2>1, SMTT(60)
  <2>2. CASE a = b
    BY <1>2, <2>2, SMTT(60)
  <2>3. CASE a < b
    BY <1>1, <1>2, <1>3, <2>3, SMTT(60)
  <2> QED  BY <1>1, <2>1, <2>2, <2>3, SMTT(60)
<1>5. ASSUME k(t) < k(u) PROVE t < k(u)
  <2>1. CASE a < b
    BY <1>1, <1>2, <1>3, <2>1, SMTT(60)
  <2>2. CASE b <= a
    BY <1>1, <1>2, <1>3, <1>5, <2>2, SMTT(60)
  <2> QED  BY <1>1, <2>1, <2>2, SMTT(60)
<1>6. k(k(t)) = k(t)
  <2>1. (Period * a) % Period = 0
    BY <1>1, SMTT(60)
  <2> QED  BY <1>2, <2>1, SMTT(60) DEF nrm_eb_time2key
<1> QED  BY <1>4, <1>5, <1>6

-----------------------------------------------------------------------------
(* Slices.  What the store keeps for the input of the policy is a sequence *)
(* of slices; the properties need that an event is kept once, under its    *)
(* own key.                                                                *)

Slice == [key : Nat, events : Seq(Event)]

\* The events of some slices.
StoredIn(sc) == UNION {EventsOf(sc[i].events) : i \in DOMAIN sc}

\* Each slice holds events of its period, at least one, and no event twice;
\* there is one slice for a period.
WellKept(sc) ==
    /\ sc \in Seq(Slice)
    /\ \A i, j \in DOMAIN sc : sc[i].key = sc[j].key => i = j
    /\ \A i \in DOMAIN sc :
        /\ sc[i].events # << >>
        /\ \A a \in DOMAIN sc[i].events : Key(sc[i].events[a]) = sc[i].key
        /\ \A a, b \in DOMAIN sc[i].events :
               sc[i].events[a] = sc[i].events[b] => a = b

\* The slices follow each other in time, and so do the events of each.
InOrder(sc) ==
    /\ \A i, j \in DOMAIN sc : i < j => sc[i].key < sc[j].key
    /\ \A i \in DOMAIN sc : \A a, b \in DOMAIN sc[i].events :
           a < b => sc[i].events[a].time <= sc[i].events[b].time

\* The key of an event is a natural number.
LEMMA KeyType ==
  ASSUME NEW e \in Event
  PROVE  Key(e) \in Nat /\ e.time \in Nat /\ Key(e) = nrm_eb_time2key(e.time)
<1>1. e.time \in Nat
  BY InputAssumption, SMTT(60) DEF Event
<1> QED  BY <1>1, KeyOf DEF Key

\* Elements and places of a sequence with one element more.
LEMMA Appended ==
  ASSUME NEW S, NEW q \in Seq(S), NEW x \in S
  PROVE  /\ Append(q, x) \in Seq(S) /\ Len(q) \in Nat
         /\ DOMAIN q = 1..Len(q) /\ DOMAIN Append(q, x) = 1..Len(q) + 1
         /\ Append(q, x)[Len(q) + 1] = x /\ \A i \in 1..Len(q) : Append(q, x)[i] = q[i]
         /\ EventsOf(Append(q, x)) = EventsOf(q) \cup {x}
<1>1. /\ Append(q, x) \in Seq(S) /\ Len(q) \in Nat
      /\ DOMAIN q = 1..Len(q) /\ DOMAIN Append(q, x) = 1..Len(q) + 1
      /\ Append(q, x)[Len(q) + 1] = x /\ \A i \in 1..Len(q) : Append(q, x)[i] = q[i]
  BY SMTT(60)
<1>2. EventsOf(Append(q, x)) \subseteq EventsOf(q) \cup {x}
  <2> SUFFICES ASSUME NEW i \in 1..Len(q) + 1 PROVE Append(q, x)[i] \in EventsOf(q) \cup {x}
    BY <1>1 DEF EventsOf
  <2>1. i = Len(q) + 1 \/ i \in 1..Len(q)
    BY <1>1, SMTT(60)
  <2> QED  BY <1>1, <2>1 DEF EventsOf
<1>3. EventsOf(q) \cup {x} \subseteq EventsOf(Append(q, x))
  <2>1. Len(q) + 1 \in 1..Len(q) + 1 /\ 1..Len(q) \subseteq 1..Len(q) + 1
    BY <1>1, SMTT(60)
  <2> QED  BY <1>1, <2>1 DEF EventsOf
<1> QED  BY <1>1, <1>2, <1>3

\* A slice with one event more.
LEMMA AddedEvent ==
  ASSUME NEW x \in Slice, NEW e \in Event
  PROVE  /\ nrm_eventbase_add_event(x, e) \in Slice
         /\ nrm_eventbase_add_event(x, e).key = x.key
         /\ nrm_eventbase_add_event(x, e).events = Append(x.events, e)
<1>1. x.events \in Seq(Event) /\ x.key \in Nat
  BY DEF Slice
<1>2. Append(x.events, e) \in Seq(Event)
  BY <1>1, Appended
<1> QED  BY <1>1, <1>2, SMTT(60) DEF nrm_eventbase_add_event, Slice
\* Pushing an event changes one slice: that of its period, or a new one
\* behind the others.
LEMMA PushedAt ==
  ASSUME NEW sc, WellKept(sc), NEW e \in Event
  PROVE  \E m \in 1..Len(SlicesWith(sc, e)) :
           /\ SlicesWith(sc, e) \in Seq(Slice)
           /\ SlicesWith(sc, e)[m].key = Key(e)
           /\ \A i \in 1..Len(SlicesWith(sc, e)) : i # m =>
                i \in 1..Len(sc) /\ SlicesWith(sc, e)[i] = sc[i] /\ sc[i].key # Key(e)
           /\ \/ /\ m \in 1..Len(sc) /\ Len(SlicesWith(sc, e)) = Len(sc) /\ sc[m].key = Key(e)
                 /\ SlicesWith(sc, e)[m].events = Append(sc[m].events, e)
              \/ /\ m = Len(sc) + 1 /\ Len(SlicesWith(sc, e)) = Len(sc) + 1
                 /\ SlicesWith(sc, e)[m].events = Append(<< >>, e)
                 /\ \A i \in 1..Len(sc) : sc[i].key # Key(e)
<1> DEFINE w == SlicesWith(sc, e)
           key == nrm_eb_time2key(e.time)
           fresh == [key |-> key, events |-> << >>]
<1>1. /\ sc \in Seq(Slice) /\ Len(sc) \in Nat /\ DOMAIN sc = 1..Len(sc)
      /\ \A i \in 1..Len(sc) : sc[i] \in Slice
      /\ \A i, j \in 1..Len(sc) : sc[i].key = sc[j].key => i = j
  <2>1. sc \in Seq(Slice) /\ \A i, j \in DOMAIN sc : sc[i].key = sc[j].key => i = j
    BY DEF WellKept
  <2> QED  BY <2>1, SMTT(60)
<1>2. key = Key(e) /\ key \in Nat
  BY KeyType
<1> HIDE DEF key
<1>3. CASE \E i \in 1..Len(sc) : sc[i].key = key
  <2>1. w = [i \in 1..Len(sc) |-> IF sc[i].key = key THEN nrm_eventbase_add_event(sc[i], e) ELSE sc[i]]
    BY <1>1, <1>3 DEF SlicesWith, key
  <2>2. PICK m \in 1..Len(sc) : sc[m].key = key
    BY <1>3
  <2> HIDE DEF w
  <2>3. /\ \A i \in 1..Len(sc) : i # m => w[i] = sc[i] /\ sc[i].key # key
        /\ w[m] = nrm_eventbase_add_event(sc[m], e)
    BY <1>1, <2>1, <2>2
  <2>4. w[m] \in Slice /\ w[m].key = key /\ w[m].events = Append(sc[m].events, e)
    BY <1>1, <2>2, <2>3, AddedEvent, SMTT(60)
  <2>5. \A i \in 1..Len(sc) : w[i] \in Slice
    BY <1>1, <2>3, <2>4
  <2>6. w \in Seq(Slice) /\ Len(w) = Len(sc)
    <3>1. w \in [1..Len(sc) -> Slice]
      BY <2>1, <2>5
    <3> QED  BY <1>1, <3>1, SMTT(60)
  <2> QED  BY <1>2, <2>2, <2>3, <2>4, <2>6 DEF w
<1>4. CASE \A i \in 1..Len(sc) : sc[i].key # key
  <2> DEFINE s == Append(sc, fresh)
             n == Len(sc) + 1
  <2>1. fresh \in Slice /\ fresh.key = key /\ fresh.events = << >>
    BY <1>2, SMTT(60) DEF Slice
  <2> HIDE DEF fresh
  <2>2. /\ DOMAIN s = 1..n /\ s[n] = fresh /\ \A i \in 1..Len(sc) : s[i] = sc[i]
    BY <1>1, <2>1, Appended, SMTT(60)
  <2>3. w = [i \in 1..n |-> IF s[i].key = key THEN nrm_eventbase_add_event(s[i], e) ELSE s[i]]
    <3> HIDE DEF n
    <3> QED  BY <1>1, <1>4, <2>2 DEF SlicesWith, key, nrm_eventbase_add_timeslice, fresh
  <2>4. n \in 1..n /\ \A i \in 1..n : i # n => i \in 1..Len(sc)
    BY <1>1, SMTT(60)
  <2> HIDE DEF w, s, n
  <2>5. /\ \A i \in 1..n : i # n => i \in 1..Len(sc) /\ w[i] = sc[i] /\ sc[i].key # key
        /\ w[n] = nrm_eventbase_add_event(fresh, e)
    BY <1>4, <2>1, <2>2, <2>3, <2>4
  <2>6. w[n] \in Slice /\ w[n].key = key /\ w[n].events = Append(<< >>, e)
    BY <2>1, <2>5, AddedEvent, ZenonT(30)
  <2>7. \A i \in 1..n : w[i] \in Slice
    BY <1>1, <2>5, <2>6
  <2>8. w \in Seq(Slice) /\ Len(w) = n
    <3>1. w \in [1..n -> Slice] /\ n \in Nat
      BY <1>1, <2>3, <2>7, SMTT(60) DEF n
    <3> QED  BY <3>1, SMTT(60)
  <2> QED  BY <1>2, <1>4, <2>4, <2>5, <2>6, <2>8 DEF w, n
<1> QED  BY <1>3, <1>4
\* An event that was not there is kept once, and nothing else changes.
LEMMA PushedKept ==
  ASSUME NEW sc, WellKept(sc), NEW e \in Event, e \notin StoredIn(sc)
  PROVE  /\ WellKept(SlicesWith(sc, e))
         /\ StoredIn(SlicesWith(sc, e)) = StoredIn(sc) \cup {e}
<1> DEFINE w == SlicesWith(sc, e)
<1>1. PICK m \in 1..Len(w) :
        /\ w \in Seq(Slice)
        /\ w[m].key = Key(e)
        /\ \A i \in 1..Len(w) : i # m => i \in 1..Len(sc) /\ w[i] = sc[i] /\ sc[i].key # Key(e)
        /\ \/ /\ m \in 1..Len(sc) /\ Len(w) = Len(sc) /\ sc[m].key = Key(e)
              /\ w[m].events = Append(sc[m].events, e)
           \/ /\ m = Len(sc) + 1 /\ Len(w) = Len(sc) + 1
              /\ w[m].events = Append(<< >>, e)
              /\ \A i \in 1..Len(sc) : sc[i].key # Key(e)
  BY PushedAt, ZenonT(30)
<1> HIDE DEF w
<1>2. /\ sc \in Seq(Slice) /\ Len(sc) \in Nat /\ DOMAIN sc = 1..Len(sc)
      /\ DOMAIN w = 1..Len(w) /\ Len(w) \in Nat
      /\ \A i \in 1..Len(sc) : sc[i] \in Slice /\ sc[i].events \in Seq(Event)
      /\ \A i \in 1..Len(w) : w[i] \in Slice /\ w[i].events \in Seq(Event)
  <2>1. sc \in Seq(Slice) /\ w \in Seq(Slice)
    BY <1>1 DEF WellKept
  <2>2. \A x \in Slice : x.events \in Seq(Event)
    BY DEF Slice
  <2>3. /\ Len(sc) \in Nat /\ DOMAIN sc = 1..Len(sc) /\ DOMAIN w = 1..Len(w) /\ Len(w) \in Nat
        /\ \A i \in 1..Len(sc) : sc[i] \in Slice
        /\ \A i \in 1..Len(w) : w[i] \in Slice
    BY <2>1, SMTT(60)
  <2> QED  BY <2>1, <2>2, <2>3
<1>3. PICK q \in Seq(Event) :
        /\ w[m].events = Append(q, e)
        /\ \A a \in DOMAIN q : Key(q[a]) = Key(e) /\ q[a] # e
        /\ \A a, b \in DOMAIN q : q[a] = q[b] => a = b
        /\ m \in 1..Len(sc) => q = sc[m].events
        /\ m \notin 1..Len(sc) => q = << >>
  <2>1. CASE m \in 1..Len(sc) /\ sc[m].key = Key(e) /\ w[m].events = Append(sc[m].events, e)
    <3>1. /\ \A a \in DOMAIN sc[m].events : Key(sc[m].events[a]) = sc[m].key
          /\ \A a, b \in DOMAIN sc[m].events : sc[m].events[a] = sc[m].events[b] => a = b
      BY <1>2, <2>1 DEF WellKept
    <3>2. \A a \in DOMAIN sc[m].events : sc[m].events[a] # e
      BY <1>2, <2>1, SMTT(60) DEF StoredIn, EventsOf
    <3> QED  BY <1>2, <2>1, <3>1, <3>2
  <2>2. CASE m = Len(sc) + 1 /\ w[m].events = Append(<< >>, e)
    <3>1. << >> \in Seq(Event) /\ DOMAIN << >> = 1..0 /\ 1..0 = {} /\ m \notin 1..Len(sc)
      BY <1>2, <2>2, SMTT(60)
    <3> QED  BY <2>2, <3>1
  <2> QED  BY <1>1, <2>1, <2>2
<1>4. /\ Len(q) \in Nat /\ DOMAIN q = 1..Len(q) /\ DOMAIN w[m].events = 1..Len(q) + 1
      /\ w[m].events[Len(q) + 1] = e /\ \A a \in 1..Len(q) : w[m].events[a] = q[a]
      /\ EventsOf(w[m].events) = EventsOf(q) \cup {e}
  BY <1>3, Appended, SMTT(60)
<1>5. \A i, j \in 1..Len(w) : w[i].key = w[j].key => i = j
  <2>1. \A i, j \in 1..Len(sc) : sc[i].key = sc[j].key => i = j
    BY <1>2 DEF WellKept
  <2> QED  BY <1>1, <2>1
<1>6. /\ w[m].events # << >>
      /\ \A a \in DOMAIN w[m].events : Key(w[m].events[a]) = w[m].key
      /\ \A a, b \in DOMAIN w[m].events : w[m].events[a] = w[m].events[b] => a = b
  <2>0. \A a \in 1..Len(q) + 1 : a = Len(q) + 1 \/ a \in 1..Len(q)
    BY <1>4, SMTT(60)
  <2>1. w[m].events # << >>
    <3>1. DOMAIN << >> = 1..0 /\ Len(q) + 1 \in 1..Len(q) + 1 /\ Len(q) + 1 \notin 1..0
      BY <1>4, SMTT(60)
    <3> QED  BY <1>4, <3>1
  <2>2. \A a \in 1..Len(q) + 1 : Key(w[m].events[a]) = w[m].key
    BY <1>1, <1>3, <1>4, <2>0, SMTT(60)
  <2>3. \A a, b \in 1..Len(q) + 1 : w[m].events[a] = w[m].events[b] => a = b
    BY <1>3, <1>4, <2>0
  <2> QED  BY <1>4, <2>1, <2>2, <2>3
<1>7. ASSUME NEW i \in 1..Len(w), i # m
      PROVE  /\ w[i].events # << >>
             /\ \A a \in DOMAIN w[i].events : Key(w[i].events[a]) = w[i].key
             /\ \A a, b \in DOMAIN w[i].events : w[i].events[a] = w[i].events[b] => a = b
  <2>1. i \in DOMAIN sc /\ w[i] = sc[i]
    BY <1>1, <1>2, <1>7
  <2> QED  BY <2>1 DEF WellKept
<1>8. WellKept(w)
  BY <1>1, <1>2, <1>5, <1>6, <1>7 DEF WellKept
<1>9. StoredIn(w) \subseteq StoredIn(sc) \cup {e}
  <2> SUFFICES ASSUME NEW i \in 1..Len(w), NEW x \in EventsOf(w[i].events)
               PROVE  x \in StoredIn(sc) \cup {e}
    BY <1>2 DEF StoredIn
  <2>1. CASE i # m
    BY <1>1, <1>2, <2>1 DEF StoredIn
  <2>2. CASE i = m /\ m \in 1..Len(sc)
    <3>1. x \in EventsOf(sc[m].events) \/ x = e
      BY <1>3, <1>4, <2>2
    <3> QED  BY <1>2, <2>2, <3>1 DEF StoredIn
  <2>3. CASE i = m /\ m \notin 1..Len(sc)
    <3>1. EventsOf(q) = {}
      <4>1. DOMAIN << >> = 1..0 /\ 1..0 = {}
        BY SMTT(60)
      <4> QED  BY <1>3, <2>3, <4>1 DEF EventsOf
    <3> QED  BY <1>4, <2>3, <3>1
  <2> QED  BY <2>1, <2>2, <2>3
<1>10. StoredIn(sc) \cup {e} \subseteq StoredIn(w)
  <2>1. e \in StoredIn(w)
    BY <1>2, <1>4, SMTT(60) DEF StoredIn
  <2>2. ASSUME NEW i \in 1..Len(sc), NEW x \in EventsOf(sc[i].events)
        PROVE  x \in StoredIn(w)
    <3>0. Len(sc) \in Nat /\ (Len(w) = Len(sc) \/ Len(w) = Len(sc) + 1)
      BY <1>1, <1>2
    <3>1. i \in 1..Len(w)
      BY <3>0, SMTT(60)
    <3>2. EventsOf(sc[i].events) \subseteq EventsOf(w[i].events)
      <4>1. CASE i # m
        BY <1>1, <3>1, <4>1
      <4>2. CASE i = m
        BY <1>3, <1>4, <4>2
      <4> QED  BY <4>1, <4>2
    <3> QED  BY <1>2, <2>2, <3>1, <3>2 DEF StoredIn
  <2> QED  BY <1>2, <2>1, <2>2 DEF StoredIn
<1> QED  BY <1>8, <1>9, <1>10 DEF w
\* An event that is not older than those kept leaves them in order.
LEMMA PushedInOrder ==
  ASSUME NEW sc, WellKept(sc), InOrder(sc), NEW e \in Event,
         \A x \in StoredIn(sc) : x.time <= e.time
  PROVE  InOrder(SlicesWith(sc, e))
<1> DEFINE w == SlicesWith(sc, e)
<1>1. PICK m \in 1..Len(w) :
        /\ w \in Seq(Slice)
        /\ w[m].key = Key(e)
        /\ \A i \in 1..Len(w) : i # m => i \in 1..Len(sc) /\ w[i] = sc[i] /\ sc[i].key # Key(e)
        /\ \/ /\ m \in 1..Len(sc) /\ Len(w) = Len(sc) /\ sc[m].key = Key(e)
              /\ w[m].events = Append(sc[m].events, e)
           \/ /\ m = Len(sc) + 1 /\ Len(w) = Len(sc) + 1
              /\ w[m].events = Append(<< >>, e)
              /\ \A i \in 1..Len(sc) : sc[i].key # Key(e)
  BY PushedAt, ZenonT(30)
<1> HIDE DEF w
<1>2. /\ sc \in Seq(Slice) /\ Len(sc) \in Nat /\ DOMAIN sc = 1..Len(sc)
      /\ DOMAIN w = 1..Len(w) /\ Len(w) \in Nat
      /\ \A i \in 1..Len(sc) : sc[i].key \in Nat /\ sc[i].events \in Seq(Event)
  <2>1. sc \in Seq(Slice) /\ w \in Seq(Slice)
    BY <1>1 DEF WellKept
  <2>2. \A x \in Slice : x.events \in Seq(Event) /\ x.key \in Nat
    BY DEF Slice
  <2>3. /\ Len(sc) \in Nat /\ DOMAIN sc = 1..Len(sc) /\ DOMAIN w = 1..Len(w) /\ Len(w) \in Nat
        /\ \A i \in 1..Len(sc) : sc[i] \in Slice
    BY <2>1, SMTT(60)
  <2> QED  BY <2>1, <2>2, <2>3
<1>3. ASSUME NEW i \in 1..Len(sc) PROVE sc[i].key <= Key(e)
  <2> DEFINE x == sc[i].events[1]
  <2>1. sc[i].events # << >> /\ \A a \in DOMAIN sc[i].events : Key(sc[i].events[a]) = sc[i].key
    BY <1>2 DEF WellKept
  <2>2. 1 \in DOMAIN sc[i].events /\ x \in Event
    <3>1. ASSUME NEW q \in Seq(Event), q # << >> PROVE 1 \in DOMAIN q /\ q[1] \in Event
      BY <3>1, SMTT(60)
    <3> QED  BY <1>2, <2>1, <3>1
  <2>3. Key(x) = sc[i].key /\ x \in StoredIn(sc)
    BY <1>2, <2>1, <2>2, SMTT(60) DEF StoredIn, EventsOf
  <2>4. x.time <= e.time /\ x.time \in Nat /\ e.time \in Nat
    BY <2>2, <2>3, KeyType
  <2> QED  BY <2>2, <2>3, <2>4, KeysInOrder, KeyType, ZenonT(30)
<1>4. ASSUME NEW i \in 1..Len(w), NEW j \in 1..Len(w), i < j
      PROVE  w[i].key < w[j].key
  <2>0. /\ \A a, b \in 1..Len(sc) : a < b => sc[a].key < sc[b].key
        /\ Key(e) \in Nat
    BY <1>2, KeyType DEF InOrder
  <2>1. CASE i # m /\ j # m
    BY <1>1, <1>4, <2>0, <2>1
  <2>2. CASE j = m
    <3>1. i # m /\ i \in 1..Len(sc) /\ w[i] = sc[i] /\ sc[i].key # Key(e)
      BY <1>1, <1>4, <2>2, SMTT(60)
    <3>2. sc[i].key <= Key(e) /\ sc[i].key \in Nat
      BY <1>2, <1>3, <3>1
    <3>3. sc[i].key < Key(e)
      BY <2>0, <3>1, <3>2, SMTT(60)
    <3> QED  BY <1>1, <2>2, <3>1, <3>3
  <2>3. CASE i = m
    <3>1. j # m /\ j \in 1..Len(sc) /\ w[j] = sc[j] /\ sc[j].key # Key(e)
      BY <1>1, <1>4, <2>3, SMTT(60)
    <3>2. m # Len(sc) + 1
      <4>1. Len(sc) \in Nat
        BY <1>2
      <4> QED  BY <1>4, <2>3, <3>1, <4>1, SMTT(60)
    <3>3. sc[m].key < sc[j].key /\ sc[m].key = Key(e)
      BY <1>1, <1>4, <2>0, <2>3, <3>1, <3>2
    <3> QED  BY <1>1, <2>3, <3>1, <3>3
  <2> QED  BY <2>1, <2>2, <2>3
<1>5. ASSUME NEW i \in 1..Len(w), NEW a \in DOMAIN w[i].events, NEW b \in DOMAIN w[i].events, a < b
      PROVE  w[i].events[a].time <= w[i].events[b].time
  <2>1. CASE i # m
    <3>1. i \in DOMAIN sc /\ w[i] = sc[i]
      BY <1>1, <1>2, <2>1
    <3> QED  BY <1>5, <3>1 DEF InOrder
  <2>2. CASE i = m /\ m \in 1..Len(sc) /\ w[m].events = Append(sc[m].events, e)
    <3> DEFINE q == sc[m].events
    <3>1. /\ q \in Seq(Event) /\ \A x \in EventsOf(q) : x.time <= e.time
          /\ \A c, d \in DOMAIN q : c < d => q[c].time <= q[d].time
      BY <1>2, <2>2 DEF StoredIn, InOrder
    <3> HIDE DEF q
    <3>2. /\ Len(q) \in Nat /\ DOMAIN q = 1..Len(q) /\ a \in 1..Len(q) + 1 /\ b \in 1..Len(q) + 1
          /\ w[m].events[Len(q) + 1] = e /\ \A c \in 1..Len(q) : w[m].events[c] = q[c]
      BY <1>5, <2>2, <3>1, Appended, SMTT(60) DEF q
    <3>3. a \in 1..Len(q)
      BY <1>5, <3>2, SMTT(60)
    <3>4. CASE b = Len(q) + 1
      <4>1. q[a] \in EventsOf(q)
        BY <3>2, <3>3 DEF EventsOf
      <4> QED  BY <2>2, <3>1, <3>2, <3>3, <3>4, <4>1
    <3>5. CASE b \in 1..Len(q)
      BY <1>5, <2>2, <3>1, <3>2, <3>3, <3>5
    <3> QED  BY <3>2, <3>4, <3>5, SMTT(60)
  <2>3. CASE i = m /\ w[m].events = Append(<< >>, e)
    <3>1. << >> \in Seq(Event) /\ Len(<< >>) = 0
      BY SMTT(60)
    <3>2. a \in 1..1 /\ b \in 1..1
      BY <1>5, <2>3, <3>1, Appended, SMTT(60)
    <3> QED  BY <1>5, <3>2, SMTT(60)
  <2> QED  BY <1>1, <2>1, <2>2, <2>3
<1> QED  BY <1>2, <1>4, <1>5 DEF InOrder, w
-----------------------------------------------------------------------------
(* The store: a table of sensors, each a table of scopes. *)

IsTable(t) == t = [k \in DOMAIN t |-> t[k]]

IsBase(eb) == IsTable(eb) /\ \A s \in DOMAIN eb : IsTable(eb[s])

\* A table with an entry replaced, and one with an entry more.
LEMMA TableSet ==
  ASSUME NEW t, IsTable(t), NEW k \in DOMAIN t, NEW v
  PROVE  /\ IsTable([t EXCEPT ![k] = v]) /\ DOMAIN [t EXCEPT ![k] = v] = DOMAIN t
         /\ \A x \in DOMAIN t : [t EXCEPT ![k] = v][x] = IF x = k THEN v ELSE t[x]
<1> DEFINE u == [t EXCEPT ![k] = v]
<1>1. u = [x \in DOMAIN t |-> IF x = k THEN v ELSE t[x]]
  BY DEF IsTable
<1> HIDE DEF u
<1> QED  BY <1>1 DEF IsTable, u

\* An event is added to the slices of its own sensor and scope, and to no
\* others.
LEMMA PushedBase ==
  ASSUME NEW eb, IsBase(eb), NEW e, NEW a, NEW b
  PROVE  /\ IsBase(nrm_eventbase_push_event(eb, e))
         /\ Slices(nrm_eventbase_push_event(eb, e), a, b) =
              IF e.sensor = a /\ e.scope = b THEN SlicesWith(Slices(eb, a, b), e)
              ELSE Slices(eb, a, b)
<1> DEFINE sensors == IF e.sensor \in DOMAIN eb
                      THEN eb ELSE nrm_eventbase_add_sensor(eb, e.sensor)
           sb == sensors[e.sensor]
           scopes == IF e.scope \in DOMAIN sb
                     THEN sb ELSE nrm_eventbase_add_scope(sb, e.scope)
           new == [scopes EXCEPT ![e.scope] = SlicesWith(scopes[e.scope], e)]
           r == nrm_eventbase_push_event(eb, e)
<1>1. r = [sensors EXCEPT ![e.sensor] = new]
  BY DEF nrm_eventbase_push_event
<1>2. /\ IsTable(sensors) /\ DOMAIN sensors = DOMAIN eb \cup {e.sensor}
      /\ \A s \in DOMAIN eb : sensors[s] = eb[s]
      /\ e.sensor \notin DOMAIN eb => sensors[e.sensor] = NoEntry
  BY DEF nrm_eventbase_add_sensor, IsTable, IsBase
<1>3. \A s \in DOMAIN sensors : IsTable(sensors[s])
  <2>1. IsTable(NoEntry)
    BY DEF IsTable, NoEntry
  <2> QED  BY <1>2, <2>1 DEF IsBase
<1>4. Slices(eb, a, b) = IF a \in DOMAIN sensors
                         THEN IF b \in DOMAIN sensors[a] THEN sensors[a][b] ELSE << >>
                         ELSE << >>
  <2>1. DOMAIN NoEntry = {}
    BY DEF NoEntry
  <2> QED  BY <1>2, <2>1 DEF Slices
<1> HIDE DEF sensors, r
<1>5. /\ IsTable(scopes) /\ DOMAIN scopes = DOMAIN sb \cup {e.scope}
      /\ \A s \in DOMAIN sb : scopes[s] = sb[s]
      /\ e.scope \notin DOMAIN sb => scopes[e.scope] = << >>
  BY <1>2, <1>3 DEF nrm_eventbase_add_scope, IsTable
<1> HIDE DEF sb, scopes
<1>6. /\ IsTable(new) /\ DOMAIN new = DOMAIN scopes
      /\ \A x \in DOMAIN scopes : new[x] = IF x = e.scope THEN SlicesWith(scopes[e.scope], e)
                                           ELSE scopes[x]
  <2> DEFINE v == SlicesWith(scopes[e.scope], e)
  <2>1. e.scope \in DOMAIN scopes
    BY <1>5
  <2> HIDE DEF v
  <2>2. /\ IsTable([scopes EXCEPT ![e.scope] = v]) /\ DOMAIN [scopes EXCEPT ![e.scope] = v] = DOMAIN scopes
        /\ \A x \in DOMAIN scopes : [scopes EXCEPT ![e.scope] = v][x] = IF x = e.scope THEN v ELSE scopes[x]
    BY <1>5, <2>1, TableSet, Zenon
  <2> QED  BY <2>2, Zenon DEF v
<1> HIDE DEF new
<1>7. /\ IsTable(r) /\ DOMAIN r = DOMAIN sensors
      /\ \A x \in DOMAIN sensors : r[x] = IF x = e.sensor THEN new ELSE sensors[x]
  BY <1>1, <1>2, TableSet
<1>8. IsBase(r)
  BY <1>3, <1>6, <1>7 DEF IsBase
<1>9. Slices(r, a, b) = IF a \in DOMAIN r
                        THEN IF b \in DOMAIN r[a] THEN r[a][b] ELSE << >> ELSE << >>
  BY DEF Slices
<1>10. Slices(r, a, b) = IF e.sensor = a /\ e.scope = b THEN SlicesWith(Slices(eb, a, b), e)
                         ELSE Slices(eb, a, b)
  <2>1. CASE a # e.sensor
    BY <1>4, <1>7, <1>9, <2>1
  <2>2. CASE a = e.sensor
    <3>1. /\ a \in DOMAIN sensors /\ r[a] = new /\ sensors[a] = sb
          /\ Slices(r, a, b) = IF b \in DOMAIN scopes THEN new[b] ELSE << >>
          /\ Slices(eb, a, b) = IF b \in DOMAIN sb THEN sb[b] ELSE << >>
      BY <1>2, <1>4, <1>6, <1>7, <1>9, <2>2 DEF sb
    <3>2. CASE b # e.scope
      BY <1>5, <1>6, <2>2, <3>1, <3>2, ZenonT(30)
    <3>3. CASE b = e.scope
      <4>1. Slices(r, a, b) = SlicesWith(scopes[e.scope], e)
        BY <1>5, <1>6, <3>1, <3>3
      <4>2. scopes[e.scope] = Slices(eb, a, b)
        BY <1>5, <3>1, <3>3
      <4> QED  BY <2>2, <3>3, <4>1, <4>2
    <3> QED  BY <3>2, <3>3
  <2> QED  BY <2>1, <2>2
<1> QED  BY <1>8, <1>10 DEF r

\* A new store holds nothing.
LEMMA EmptyBase ==
  ASSUME NEW a, NEW b
  PROVE  /\ IsBase(nrm_eventbase_create)
         /\ Slices(nrm_eventbase_create, a, b) = << >>
         /\ WellKept(<< >>) /\ InOrder(<< >>) /\ StoredIn(<< >>) = {}
<1>1. DOMAIN NoEntry = {} /\ IsTable(NoEntry)
  BY DEF NoEntry, IsTable
<1>2. << >> \in Seq(Slice) /\ DOMAIN << >> = {}
  BY SMTT(60)
<1>3. IsBase(nrm_eventbase_create) /\ Slices(nrm_eventbase_create, a, b) = << >>
  BY <1>1 DEF IsBase, nrm_eventbase_create, Slices
<1> QED  BY <1>2, <1>3 DEF WellKept, InOrder, StoredIn
-----------------------------------------------------------------------------
(* Pulling a series.  What the loop over the slices gathers is established *)
(* with the least round for which it would fail.                           *)

\* No event twice, and every event before those of later times.
Distinct(ts) == \A a, b \in DOMAIN ts : ts[a] = ts[b] => a = b
Sorted(ts) == \A a, b \in DOMAIN ts : a < b => ts[a].time <= ts[b].time

\* Places in two series put together.
LEMMA JoinedAt ==
  ASSUME NEW q \in Seq(Event), NEW r \in Seq(Event)
  PROVE  /\ q \o r \in Seq(Event) /\ Len(q) \in Nat /\ Len(r) \in Nat
         /\ DOMAIN q = 1..Len(q) /\ DOMAIN r = 1..Len(r) /\ DOMAIN (q \o r) = 1..Len(q) + Len(r)
         /\ \A i \in 1..Len(q) : (q \o r)[i] = q[i] /\ i \in 1..Len(q) + Len(r)
         /\ \A j \in 1..Len(r) : (q \o r)[Len(q) + j] = r[j] /\ Len(q) + j \in 1..Len(q) + Len(r)
         /\ \A i \in 1..Len(q) + Len(r) : i \in 1..Len(q) \/ \E j \in 1..Len(r) : i = Len(q) + j
<1>1. /\ q \o r \in Seq(Event) /\ Len(q) \in Nat /\ Len(r) \in Nat
      /\ DOMAIN q = 1..Len(q) /\ DOMAIN r = 1..Len(r) /\ DOMAIN (q \o r) = 1..Len(q) + Len(r)
  BY SMTT(60)
<1>2. \A i \in 1..Len(q) : (q \o r)[i] = q[i] /\ i \in 1..Len(q) + Len(r)
  BY SMTT(60)
<1>3. \A j \in 1..Len(r) : (q \o r)[Len(q) + j] = r[j] /\ Len(q) + j \in 1..Len(q) + Len(r)
  BY SMTT(60)
<1>4. ASSUME NEW i \in 1..Len(q) + Len(r), i \notin 1..Len(q)
      PROVE  \E j \in 1..Len(r) : i = Len(q) + j
  <2>1. i - Len(q) \in 1..Len(r) /\ i = Len(q) + (i - Len(q))
    BY <1>1, <1>4, SMTT(60)
  <2> QED  BY <2>1
<1> QED  BY <1>1, <1>2, <1>3, <1>4

\* The events of two series put together; without repetition when they have
\* no event in common, in order when the second is later.
LEMMA Joined ==
  ASSUME NEW q \in Seq(Event), NEW r \in Seq(Event)
  PROVE  /\ EventsOf(q \o r) = EventsOf(q) \cup EventsOf(r)
         /\ Distinct(q) /\ Distinct(r) /\ EventsOf(q) \cap EventsOf(r) = {} => Distinct(q \o r)
         /\ Sorted(q) /\ Sorted(r) /\ (\A x \in EventsOf(q), y \in EventsOf(r) : x.time <= y.time)
              => Sorted(q \o r)
<1> DEFINE s == q \o r
<1>1. /\ Len(q) \in Nat /\ Len(r) \in Nat /\ DOMAIN q = 1..Len(q) /\ DOMAIN r = 1..Len(r)
      /\ DOMAIN s = 1..Len(q) + Len(r)
      /\ \A i \in 1..Len(q) : s[i] = q[i] /\ i \in 1..Len(q) + Len(r)
      /\ \A j \in 1..Len(r) : s[Len(q) + j] = r[j] /\ Len(q) + j \in 1..Len(q) + Len(r)
      /\ \A i \in 1..Len(q) + Len(r) : i \in 1..Len(q) \/ \E j \in 1..Len(r) : i = Len(q) + j
  BY JoinedAt
<1> HIDE DEF s
<1>2. EventsOf(s) = EventsOf(q) \cup EventsOf(r)
  <2>1. EventsOf(s) \subseteq EventsOf(q) \cup EventsOf(r)
    <3> SUFFICES ASSUME NEW i \in 1..Len(q) + Len(r) PROVE s[i] \in EventsOf(q) \cup EventsOf(r)
      BY <1>1 DEF EventsOf
    <3>1. CASE i \in 1..Len(q)
      BY <1>1, <3>1 DEF EventsOf
    <3>2. CASE i \notin 1..Len(q)
      <4>1. PICK j \in 1..Len(r) : i = Len(q) + j
        BY <1>1, <3>2
      <4> QED  BY <1>1, <4>1 DEF EventsOf
    <3> QED  BY <3>1, <3>2
  <2>2. EventsOf(q) \cup EventsOf(r) \subseteq EventsOf(s)
    BY <1>1, ZenonT(30) DEF EventsOf
  <2> QED  BY <2>1, <2>2
<1>3. ASSUME Distinct(q), Distinct(r), EventsOf(q) \cap EventsOf(r) = {},
             NEW a \in DOMAIN s, NEW b \in DOMAIN s, s[a] = s[b]
      PROVE  a = b
  <2>0. \A i \in 1..Len(q), j \in 1..Len(r) : q[i] # r[j]
    BY <1>1, <1>3 DEF EventsOf
  <2>1. CASE a \in 1..Len(q)
    <3>1. b \in 1..Len(q)
      BY <1>1, <1>3, <2>0, <2>1, SMTT(60)
    <3> QED  BY <1>1, <1>3, <2>1, <3>1 DEF Distinct
  <2>2. CASE a \notin 1..Len(q)
    <3>1. PICK i \in 1..Len(r) : a = Len(q) + i
      BY <1>1, <2>2
    <3>2. b \notin 1..Len(q)
      BY <1>1, <1>3, <2>0, <3>1
    <3>3. PICK j \in 1..Len(r) : b = Len(q) + j
      BY <1>1, <3>2
    <3> QED  BY <1>1, <1>3, <3>1, <3>3 DEF Distinct
  <2> QED  BY <2>1, <2>2
<1>4. ASSUME Sorted(q), Sorted(r), \A x \in EventsOf(q), y \in EventsOf(r) : x.time <= y.time,
             NEW a \in DOMAIN s, NEW b \in DOMAIN s, a < b
      PROVE  s[a].time <= s[b].time
  <2>1. CASE a \in 1..Len(q) /\ b \in 1..Len(q)
    BY <1>1, <1>4, <2>1 DEF Sorted
  <2>2. CASE a \in 1..Len(q) /\ b \notin 1..Len(q)
    <3>1. PICK j \in 1..Len(r) : b = Len(q) + j
      BY <1>1, <2>2
    <3>2. q[a] \in EventsOf(q) /\ r[j] \in EventsOf(r) /\ s[a] = q[a] /\ s[b] = r[j]
      BY <1>1, <2>2, <3>1 DEF EventsOf
    <3> QED  BY <1>4, <3>2
  <2>3. CASE a \notin 1..Len(q)
    <3>1. PICK i \in 1..Len(r) : a = Len(q) + i
      BY <1>1, <2>3
    <3>0. Len(q) \in Nat /\ Len(r) \in Nat /\ b \in 1..Len(q) + Len(r)
      BY <1>1
    <3>2. b \notin 1..Len(q)
      BY <1>4, <3>0, <3>1, SMTT(60)
    <3>3. PICK j \in 1..Len(r) : b = Len(q) + j
      BY <1>1, <3>2
    <3>4. i < j
      BY <1>4, <3>0, <3>1, <3>3, SMTT(60)
    <3>5. s[a] = r[i] /\ s[b] = r[j] /\ i \in DOMAIN r /\ j \in DOMAIN r
      BY <1>1, <3>1, <3>3
    <3>6. r[i].time <= r[j].time
      BY <1>4, <3>4, <3>5 DEF Sorted
    <3> QED  BY <3>5, <3>6
  <2> QED  BY <2>1, <2>2, <2>3
<1> QED  BY <1>2, <1>3, <1>4 DEF s, Distinct, Sorted
\* A round of the loop over the slices.
Longer(r, x, since, now) ==
    IF InWindow(x.key, since, now)
    THEN nrm_timeserie_add_events(r, x.events) ELSE r

\* f holds the series after each of the first n rounds.
IsGathered(f, sc, since, now, n) ==
    f = [i \in 0..n |-> IF i = 0 THEN nrm_timeserie_create
                        ELSE Longer(f[i - 1], sc[i], since, now)]

\* There is a function that holds the series after each round,
LEMMA GatheredExists ==
  ASSUME NEW sc \in Seq(Slice), NEW since, NEW now
  PROVE  \E f : IsGathered(f, sc, since, now, Len(sc))
<1> DEFINE Is(f, n) == IsGathered(f, sc, since, now, n)
           K == {n \in 0..Len(sc) : ~\E f : Is(f, n)}
<1> SUFFICES ASSUME Len(sc) \in K PROVE FALSE
  BY SMTT(60)
<1>1. PICK m \in K : \A k \in K : m <= k
  <2>1. K \in SUBSET Nat /\ K # {}
    BY SMTT(60)
  <2> HIDE DEF K
  <2> QED  BY <2>1, SmallestNat
<1>2. m \in 0..Len(sc) /\ Len(sc) \in Nat /\ ~\E f : Is(f, m)
  BY SMTT(60)
<1>3. CASE m = 0
  <2> DEFINE g == [i \in 0..0 |-> nrm_timeserie_create]
  <2>1. g = [i \in 0..0 |-> IF i = 0 THEN nrm_timeserie_create
                            ELSE Longer(g[i - 1], sc[i], since, now)]
    <3>1. \A i \in 0..0 : i = 0
      BY SMTT(60)
    <3> QED  BY <3>1
  <2> HIDE DEF g
  <2>2. Is(g, 0)
    BY <2>1 DEF IsGathered
  <2> QED  BY <1>2, <1>3, <2>2
<1>4. CASE m > 0
  <2>1. m - 1 \in 0..Len(sc) /\ m - 1 \notin K
    BY <1>1, <1>2, <1>4, SMTT(60)
  <2>2. PICK f : Is(f, m - 1)
    BY <2>1
  <2> DEFINE g == [i \in 0..m |-> IF i = m THEN Longer(f[m - 1], sc[m], since, now) ELSE f[i]]
             After(h, i) == IF i = 0 THEN nrm_timeserie_create
                            ELSE Longer(h[i - 1], sc[i], since, now)
  <2>3. /\ m \in 0..m /\ m # 0 /\ m - 1 \in 0..m - 1 /\ 0 \in 0..m - 1
        /\ \A i \in 0..m - 1 : i \in 0..m /\ i # m
        /\ \A i \in 0..m : i # m => i \in 0..m - 1
        /\ \A i \in 0..m - 1 : i # 0 => i - 1 \in 0..m - 1
    BY <1>2, <1>4, SMTT(60)
  <2>4. \A i \in 0..m - 1 : g[i] = f[i] /\ f[i] = After(f, i)
    <3>1. ASSUME NEW i \in 0..m - 1 PROVE f[i] = After(f, i)
      BY <2>2, Zenon DEF IsGathered
    <3>2. ASSUME NEW i \in 0..m - 1 PROVE g[i] = f[i]
      BY <2>3
    <3> QED  BY <3>1, <3>2
  <2>5. g[m] = Longer(f[m - 1], sc[m], since, now) /\ g = [i \in 0..m |-> g[i]]
    BY <2>3
  <2> HIDE DEF g
  <2>6. ASSUME NEW i \in 0..m PROVE g[i] = After(g, i)
    <3>1. CASE i = m
      BY <2>3, <2>4, <2>5, <3>1
    <3>2. CASE i # m
      BY <2>3, <2>4, <3>2
    <3> QED  BY <3>1, <3>2
  <2>7. Is(g, m)
    BY <2>5, <2>6, Zenon DEF IsGathered
  <2> QED  BY <1>2, <2>7
<1> QED  BY <1>2, <1>3, <1>4, SMTT(60)

\* and what the pull returns is its last value.
LEMMA PullIsGathered ==
  ASSUME NEW sc \in Seq(Slice), NEW since, NEW now
  PROVE  \E f : IsGathered(f, sc, since, now, Len(sc)) /\ InWindowOf(sc, since, now) = f[Len(sc)]
<1> DEFINE f == CHOOSE f : IsGathered(f, sc, since, now, Len(sc))
<1>1. IsGathered(f, sc, since, now, Len(sc))
  BY GatheredExists
<1>2. InWindowOf(sc, since, now) = f[Len(sc)]
  BY Zenon DEF InWindowOf, IsGathered, Longer
<1> QED  BY <1>1, <1>2, Zenon

\* What is gathered after n rounds: the events of the slices in the window,
\* each once, in order when the slices are.
Within(sc, since, now, n) ==
    UNION {EventsOf(sc[i].events) : i \in {j \in 1..n : InWindow(sc[j].key, since, now)}}

Gathers(r, sc, since, now, n) ==
    /\ r \in Seq(Event)
    /\ EventsOf(r) = Within(sc, since, now, n)
    /\ Distinct(r)
    /\ InOrder(sc) => Sorted(r)

\* A round adds the events of its slice, which are in no other slice and,
\* when the slices are in order, later than those of the slices before.
LEMMA GatherRound ==
  ASSUME NEW sc, WellKept(sc), NEW since, NEW now, NEW n \in 1..Len(sc), NEW r,
         Gathers(r, sc, since, now, n - 1)
  PROVE  Gathers(Longer(r, sc[n], since, now), sc, since, now, n)
<1> DEFINE W(k) == {j \in 1..k : InWindow(sc[j].key, since, now)}
           q == sc[n].events
<1>1. /\ sc \in Seq(Slice) /\ DOMAIN sc = 1..Len(sc) /\ Len(sc) \in Nat
      /\ \A i \in 1..Len(sc) : sc[i] \in Slice
  <2>1. sc \in Seq(Slice)
    BY DEF WellKept
  <2> QED  BY <2>1, SMTT(60)
<1>2. /\ \A i \in 1..Len(sc) : sc[i].key \in Nat /\ sc[i].events \in Seq(Event)
      /\ q \in Seq(Event) /\ r \in Seq(Event)
  BY <1>1 DEF Slice, Gathers
<1>3. /\ \A j \in 1..n - 1 : j \in 1..n /\ j \in 1..Len(sc) /\ j < n
      /\ \A j \in 1..n : j = n \/ j \in 1..n - 1
      /\ n \in 1..n
  <2>1. Len(sc) \in Nat
    BY <1>1
  <2> QED  BY <2>1, SMTT(60)
<1>4. CASE ~InWindow(sc[n].key, since, now)
  <2>1. W(n) = W(n - 1)
    BY <1>3, <1>4
  <2> QED  BY <1>4, <2>1 DEF Longer, Gathers, Within
<1>5. CASE InWindow(sc[n].key, since, now)
  <2>1. Longer(r, sc[n], since, now) = r \o q
    BY <1>5 DEF Longer, nrm_timeserie_add_events
  <2>2. Within(sc, since, now, n) = Within(sc, since, now, n - 1) \cup EventsOf(q)
    <3>1. W(n) = W(n - 1) \cup {n}
      BY <1>3, <1>5
    <3> HIDE DEF W
    <3>2. Within(sc, since, now, n) = UNION {EventsOf(sc[i].events) : i \in W(n)}
      BY DEF Within, W
    <3>3. Within(sc, since, now, n - 1) = UNION {EventsOf(sc[i].events) : i \in W(n - 1)}
      BY DEF Within, W
    <3> QED  BY <3>1, <3>2, <3>3
  <2>3. ASSUME NEW x \in EventsOf(r)
        PROVE  \E j \in 1..n - 1 : \E a \in DOMAIN sc[j].events : x = sc[j].events[a]
    <3>1. x \in Within(sc, since, now, n - 1)
      BY <2>3 DEF Gathers
    <3>2. PICK j \in 1..n - 1 : x \in EventsOf(sc[j].events)
      BY <3>1 DEF Within
    <3> QED  BY <3>2 DEF EventsOf
  <2>4. EventsOf(r) \cap EventsOf(q) = {}
    <3> SUFFICES ASSUME NEW x \in EventsOf(r), x \in EventsOf(q) PROVE FALSE
      OBVIOUS
    <3>1. PICK j \in 1..n - 1 : \E a \in DOMAIN sc[j].events : x = sc[j].events[a]
      BY <2>3
    <3>2. Key(x) = sc[j].key
      BY <1>1, <1>3, <3>1 DEF WellKept
    <3>3. Key(x) = sc[n].key
      BY <1>1, ZenonT(30) DEF WellKept, EventsOf
    <3>4. j = n
      BY <1>1, <1>3, <3>2, <3>3 DEF WellKept
    <3>5. j \in Nat /\ n \in Nat /\ j < n
      BY <1>3, SMTT(60)
    <3> QED  BY <3>4, <3>5, SMTT(60)
  <2>5. ASSUME InOrder(sc), NEW x \in EventsOf(r), NEW y \in EventsOf(q)
        PROVE  x.time <= y.time
    <3>1. PICK j \in 1..n - 1 : \E a \in DOMAIN sc[j].events : x = sc[j].events[a]
      BY <2>3
    <3>2. Key(x) = sc[j].key
      BY <1>1, <1>3, <3>1 DEF WellKept
    <3>3. Key(y) = sc[n].key
      BY <1>1, ZenonT(30) DEF WellKept, EventsOf
    <3>4. sc[j].key < sc[n].key
      BY <1>1, <1>3, <2>5 DEF InOrder
    <3>5. x \in Event /\ y \in Event
      BY <1>2, <1>3, <3>1, SMTT(60) DEF EventsOf
    <3>6. /\ x.time \in Nat /\ y.time \in Nat
          /\ nrm_eb_time2key(x.time) < nrm_eb_time2key(y.time)
          /\ nrm_eb_time2key(x.time) \in Nat /\ nrm_eb_time2key(y.time) \in Nat
      BY <3>2, <3>3, <3>4, <3>5, KeyType
    <3>7. x.time < nrm_eb_time2key(y.time) /\ nrm_eb_time2key(y.time) <= y.time
      BY <3>6, KeysInOrder, KeyOf
    <3> QED  BY <3>6, <3>7, SMTT(60)
  <2>6. Distinct(q) /\ (InOrder(sc) => Sorted(q))
    BY <1>1 DEF WellKept, InOrder, Distinct, Sorted
  <2> HIDE DEF q
  <2>7. r \o q \in Seq(Event)
    BY <1>2, JoinedAt
  <2>8. EventsOf(r \o q) = Within(sc, since, now, n)
    BY <1>2, <2>2, Joined DEF Gathers
  <2>9. Distinct(r \o q)
    BY <1>2, <2>4, <2>6, Joined DEF Gathers
  <2>10. InOrder(sc) => Sorted(r \o q)
    BY <1>2, <2>5, <2>6, Joined DEF Gathers
  <2> QED  BY <2>1, <2>7, <2>8, <2>9, <2>10 DEF Gathers
<1> QED  BY <1>4, <1>5
\* The series pulled from well-kept slices holds the events of the window,
\* each once, in order when the slices are (nrm_eventbase_pull_timeserie).
LEMMA Pulled ==
  ASSUME NEW sc, WellKept(sc), NEW since, NEW now
  PROVE  /\ InWindowOf(sc, since, now) \in Seq(Event)
         /\ EventsOf(InWindowOf(sc, since, now)) =
              {e \in StoredIn(sc) : InWindow(Key(e), since, now)}
         /\ Distinct(InWindowOf(sc, since, now))
         /\ InOrder(sc) => Sorted(InWindowOf(sc, since, now))
<1> DEFINE Good(r, n) == Gathers(r, sc, since, now, n)
<1>1. sc \in Seq(Slice) /\ DOMAIN sc = 1..Len(sc) /\ Len(sc) \in Nat
  <2>1. sc \in Seq(Slice)
    BY DEF WellKept
  <2> QED  BY <2>1, SMTT(60)
<1>2. PICK f : IsGathered(f, sc, since, now, Len(sc)) /\ InWindowOf(sc, since, now) = f[Len(sc)]
  BY <1>1, PullIsGathered
<1>3. Good(f[0], 0)
  <2>1. 0 \in 0..Len(sc)
    BY <1>1, SMTT(60)
  <2>2. f[0] = << >>
    BY <1>2, <2>1, Zenon DEF IsGathered, nrm_timeserie_create
  <2>3. << >> \in Seq(Event) /\ DOMAIN << >> = {} /\ 1..0 = {}
    BY SMTT(60)
  <2>4. EventsOf(<< >>) = {} /\ Distinct(<< >>) /\ Sorted(<< >>) /\ Within(sc, since, now, 0) = {}
    BY <2>3 DEF EventsOf, Distinct, Sorted, Within
  <2> QED  BY <2>2, <2>3, <2>4 DEF Gathers
<1>4. ASSUME NEW n \in 1..Len(sc), Good(f[n - 1], n - 1)
      PROVE  Good(f[n], n)
  <2>1. n \in 0..Len(sc) /\ n # 0
    BY <1>1, SMTT(60)
  <2>2. f[n] = Longer(f[n - 1], sc[n], since, now)
    BY <1>2, <2>1, Zenon DEF IsGathered
  <2> QED  BY <1>4, <2>2, GatherRound
<1>5. Good(f[Len(sc)], Len(sc))
  <2> DEFINE K == {n \in 0..Len(sc) : ~Good(f[n], n)}
  <2> HIDE DEF Good
  <2> SUFFICES ASSUME Len(sc) \in K PROVE FALSE
    BY <1>1, SMTT(60)
  <2>1. PICK m \in K : \A k \in K : m <= k
    <3>1. K \in SUBSET Nat /\ K # {}
      BY SMTT(60)
    <3> HIDE DEF K
    <3> QED  BY <3>1, SmallestNat
  <2>2. m \in 0..Len(sc) /\ ~Good(f[m], m) /\ m # 0
    BY <1>3
  <2>3. m \in 1..Len(sc) /\ m - 1 \in 0..Len(sc) /\ m - 1 < m /\ m \in Nat
    BY <1>1, <2>2, SMTT(60)
  <2>4. m - 1 \notin K
    BY <2>1, <2>3, SMTT(60)
  <2> QED  BY <1>4, <2>2, <2>3, <2>4
<1>6. Within(sc, since, now, Len(sc)) = {e \in StoredIn(sc) : InWindow(Key(e), since, now)}
  <2>1. \A i \in 1..Len(sc) : \A e \in EventsOf(sc[i].events) : Key(e) = sc[i].key
    BY <1>1, SMTT(60) DEF WellKept, EventsOf
  <2> QED  BY <1>1, <2>1 DEF Within, StoredIn
<1> QED  BY <1>2, <1>5, <1>6 DEF Gathers

-----------------------------------------------------------------------------
(* The inductive invariant. *)

In == Slices(base, InSensor, InScope)
Kept == StoredIn(In)

WindowTypes ==
    /\ clock \in 0..MaxTime
    /\ sent \in [Senders -> 0..MaxEvents]
    /\ flight \in [Senders -> Seq(Event)]
    /\ known \in BOOLEAN /\ up \in BOOLEAN /\ pc \in {"loop", "action"}
    /\ series \in Seq(Event)
    /\ pulled \in 0..clock /\ lastaction \in 0..clock
    /\ newest \in Nat /\ ordered \in BOOLEAN
    /\ decisions \in Seq(SUBSET Event)

\* Number of a connection's events that have left it.
Handled(s) == sent[s] - Len(flight[s])

\* The events on a connection are numbered on from those handled,
Numbered ==
    \A s \in Senders :
        /\ Len(flight[s]) <= sent[s]
        /\ \A i \in 1..Len(flight[s]) :
               flight[s][i].sender = s /\ flight[s][i].n = Handled(s) + i

\* so that none of them is in the store yet.
StoreOK ==
    /\ IsBase(base) /\ WellKept(In)
    /\ \A e \in Kept : e.n <= Handled(e.sender)

\* As long as events arrive in order, they are kept in order.
OrderOK == ordered => InOrder(In) /\ \A e \in Kept : e.time <= newest

\* What was pulled is what the window holds until the action has seen it.
SeriesOK ==
    /\ Distinct(series)
    /\ ordered => Sorted(series)
    /\ ~known => series = << >>
    /\ pc = "action" /\ known =>
         EventsOf(series) = {e \in Kept : InWindow(Key(e), lastaction, pulled)}

\* The decisions have gone past every event they counted.
CountedOK ==
    /\ Counted \subseteq Kept
    /\ \A e \in Counted : Key(e) < nrm_eb_time2key(lastaction)

WindowInv ==
    /\ WindowTypes /\ Numbered /\ StoreOK /\ OrderOK /\ SeriesOK /\ CountedOK
    /\ LossExplained

\* The invariant holds when the daemon starts with an empty store.
LEMMA InitWindow == Init => WindowInv
<1> SUFFICES ASSUME Init PROVE WindowInv
  OBVIOUS
<1>1. IsBase(base) /\ In = << >> /\ WellKept(In) /\ InOrder(In) /\ Kept = {}
  BY EmptyBase DEF Init, In, Kept
<1>2. /\ << >> \in Seq(Event) /\ << >> \in Seq(SUBSET Event) /\ DOMAIN << >> = {}
      /\ Len(<< >>) = 0 /\ 1..0 = {} /\ 0 \in Nat /\ 0 <= 0
  BY SMTT(60)
<1>3. WindowTypes
  <2>1. MaxTime \in Nat /\ MaxEvents \in Nat
    BY InputAssumption
  <2>2. 0 \in 0..MaxTime /\ 0 \in 0..MaxEvents /\ 0 \in 0..0
    BY <2>1, SMTT(60)
  <2> QED  BY <1>2, <2>2 DEF Init, WindowTypes
<1>4. Numbered
  <2> SUFFICES ASSUME NEW s \in Senders
               PROVE  Len(flight[s]) <= sent[s] /\ 1..Len(flight[s]) = {}
    BY DEF Numbered
  <2>1. flight[s] = << >> /\ sent[s] = 0
    BY DEF Init
  <2> QED  BY <1>2, <2>1
<1>5. Counted = {}
  BY <1>2 DEF Init, Counted
<1>6. StoreOK /\ OrderOK
  BY <1>1 DEF StoreOK, OrderOK
<1>7. SeriesOK
  BY <1>2 DEF Init, SeriesOK, Distinct, Sorted
<1>8. CountedOK
  BY <1>5 DEF CountedOK
<1>9. LossExplained
  BY <1>1 DEF LossExplained, GivenUp, Pending, Stored, Kept, StoredIn, In
<1> QED  BY <1>3, <1>4, <1>6, <1>7, <1>8, <1>9 DEF WindowInv

\* The operators of the invariant over the store, when the store stays.
LEMMA StoreSame ==
  ASSUME UNCHANGED base
  PROVE  In' = In /\ Kept' = Kept /\ IsBase(base)' = IsBase(base)
BY DEF In, Kept

\* The sets of events in terms of what is kept.
LEMMA Sets ==
  /\ Pending = Kept \ Counted
  /\ Waiting = {e \in Pending : Key(e) >= nrm_eb_time2key(lastaction)}
  /\ GivenUp = Pending \ Waiting
BY DEF Pending, Waiting, GivenUp, Stored, Kept, StoredIn, In

\* Slices hold events.
LEMMA KeptEvents ==
  ASSUME NEW sc, WellKept(sc)
  PROVE  StoredIn(sc) \subseteq Event
<1>1. sc \in Seq(Slice)
  BY DEF WellKept
<1>2. \A i \in DOMAIN sc : sc[i] \in Slice
  BY <1>1, SMTT(60)
<1>3. \A ts \in Seq(Event) : EventsOf(ts) \subseteq Event
  BY SMTT(60) DEF EventsOf
<1> QED  BY <1>2, <1>3 DEF StoredIn, Slice

\* The clock keeps the invariant,
LEMMA AdvanceWindow == WindowInv /\ Advance => WindowInv'
<1> SUFFICES ASSUME WindowInv, Advance PROVE WindowInv'
  OBVIOUS
<1>1. /\ clock' = clock + 1 /\ clock < MaxTime
      /\ UNCHANGED <<sent, flight, base, known, up, pc, series, pulled, lastaction>>
      /\ UNCHANGED <<newest, ordered, late, decisions, gaps>>
  BY DEF Advance, daemon, history
<1>2. In' = In /\ Kept' = Kept /\ Counted' = Counted
  BY <1>1, StoreSame DEF Counted
<1>3. WindowTypes'
  <2>1. clock \in 0..MaxTime /\ pulled \in 0..clock /\ lastaction \in 0..clock /\ MaxTime \in Nat
    BY InputAssumption DEF WindowInv, WindowTypes
  <2>2. clock' \in 0..MaxTime /\ pulled \in 0..clock' /\ lastaction \in 0..clock'
    BY <1>1, <2>1, SMTT(60)
  <2> QED  BY <1>1, <2>2 DEF WindowInv, WindowTypes
<1>4. Numbered'
  BY <1>1 DEF WindowInv, Numbered, Handled
<1>5. StoreOK' /\ OrderOK'
  BY <1>1, <1>2 DEF WindowInv, StoreOK, OrderOK, Handled
<1>6. SeriesOK' /\ CountedOK'
  BY <1>1, <1>2 DEF WindowInv, SeriesOK, CountedOK
<1>7. LossExplained'
  <2>1. GivenUp' = GivenUp
    BY <1>1, ZenonT(30) DEF GivenUp, Pending, Waiting, Counted
  <2> QED  BY <1>1, <2>1 DEF WindowInv, LossExplained
<1> QED  BY <1>3, <1>4, <1>5, <1>6, <1>7 DEF WindowInv

\* and so does a helper that sends the next event on its connection.
LEMMA MeasureWindow ==
  ASSUME NEW s \in Senders, WindowInv, Measure(s)
  PROVE  WindowInv'
<1>1. /\ UNCHANGED <<clock, base, known, up, pc, series, pulled, lastaction>>
      /\ UNCHANGED <<newest, ordered, late, decisions, gaps>>
  BY DEF Measure, daemon, history
<1>2. In' = In /\ Kept' = Kept /\ Counted' = Counted
  BY <1>1, StoreSame DEF Counted
<1>3. PICK x \in Streams(s) :
        flight' = [flight EXCEPT ![s] = Append(@,
            [sender |-> s, n |-> sent[s] + 1, sensor |-> x[1], scope |-> x[2], time |-> clock])]
  BY DEF Measure
<1> DEFINE e == [sender |-> s, n |-> sent[s] + 1, sensor |-> x[1], scope |-> x[2], time |-> clock]
           q == flight[s]
<1>4. /\ sent \in [Senders -> 0..MaxEvents] /\ flight \in [Senders -> Seq(Event)]
      /\ sent[s] \in 0..MaxEvents /\ q \in Seq(Event)
  BY DEF WindowInv, WindowTypes
<1>5. e \in Event /\ e.sender = s /\ e.n = sent[s] + 1
  <2>1. sent[s] + 1 \in 1..MaxEvents
    BY <1>4, InputAssumption, SMTT(60) DEF Measure
  <2>2. x[1] \in Sensors /\ x[2] \in Scopes
    BY InputAssumption
  <2>3. clock \in 0..MaxTime
    BY DEF WindowInv, WindowTypes
  <2> QED  BY <2>1, <2>2, <2>3, SMTT(60) DEF Event
<1> HIDE DEF e
<1>6. /\ \A t \in Senders : t # s => flight'[t] = flight[t] /\ sent'[t] = sent[t]
      /\ flight'[s] = Append(q, e) /\ sent'[s] = sent[s] + 1
      /\ flight' \in [Senders -> Seq(Event)]
      /\ sent' \in [Senders -> 0..MaxEvents]
  <2>1. flight' = [flight EXCEPT ![s] = Append(@, e)] /\ sent' = [sent EXCEPT ![s] = @ + 1]
    BY <1>3 DEF e, Measure
  <2>2. Append(q, e) \in Seq(Event) /\ sent[s] + 1 \in 0..MaxEvents
    <3>1. sent[s] + 1 \in 0..MaxEvents
      BY <1>4, InputAssumption, SMTT(60) DEF Measure
    <3> QED  BY <1>4, <1>5, <3>1, Appended
  <2> QED  BY <1>4, <2>1, <2>2
<1>7. /\ Len(q) \in Nat /\ sent[s] \in Nat /\ Len(Append(q, e)) = Len(q) + 1
      /\ Append(q, e)[Len(q) + 1] = e /\ \A i \in 1..Len(q) : Append(q, e)[i] = q[i]
  <2>1. q \in Seq(Event) /\ e \in Event /\ sent[s] \in Nat
    BY <1>4, <1>5, InputAssumption, SMTT(60)
  <2> HIDE DEF q
  <2>2. Len(Append(q, e)) = Len(q) + 1
    BY <2>1, SMTT(60)
  <2> QED  BY <2>1, <2>2, Appended, SMTT(60)
<1>8. \A t \in Senders : Handled(t)' = Handled(t)
  <2>1. Handled(s)' = Handled(s)
    <3>1. (sent[s] + 1) - (Len(q) + 1) = sent[s] - Len(q)
      BY <1>7, SMTT(60)
    <3> QED  BY <1>6, <1>7, <3>1 DEF Handled
  <2> QED  BY <1>6, <2>1 DEF Handled
<1>9. WindowTypes'
  BY <1>1, <1>6 DEF WindowInv, WindowTypes
<1>10. Numbered'
  <2> SUFFICES ASSUME NEW t \in Senders
               PROVE  /\ Len(flight'[t]) <= sent'[t]
                      /\ \A i \in 1..Len(flight'[t]) :
                             flight'[t][i].sender = t /\ flight'[t][i].n = Handled(t)' + i
    BY DEF Numbered
  <2>0. /\ Len(flight[t]) <= sent[t]
        /\ \A i \in 1..Len(flight[t]) :
               flight[t][i].sender = t /\ flight[t][i].n = Handled(t) + i
    BY DEF WindowInv, Numbered
  <2>1. CASE t # s
    BY <1>6, <1>8, <2>0, <2>1
  <2>2. CASE t = s
    <3>1. Len(q) + 1 <= sent[s] + 1 /\ sent[s] + 1 = Handled(s) + (Len(q) + 1)
      BY <1>7, <2>0, <2>2, SMTT(60) DEF Handled
    <3>2. ASSUME NEW i \in 1..Len(q) + 1
          PROVE  Append(q, e)[i].sender = s /\ Append(q, e)[i].n = Handled(s) + i
      <4>1. i = Len(q) + 1 \/ i \in 1..Len(q)
        BY <1>7, SMTT(60)
      <4>2. CASE i = Len(q) + 1
        BY <1>5, <1>7, <3>1, <4>2
      <4>3. CASE i \in 1..Len(q)
        BY <1>7, <2>0, <2>2, <4>3
      <4> QED  BY <4>1, <4>2, <4>3
    <3> QED  BY <1>6, <1>7, <1>8, <2>2, <3>1, <3>2
  <2> QED  BY <2>1, <2>2
<1>11. StoreOK' /\ OrderOK'
  <2>1. \A y \in Kept : y.sender \in Senders
    <3>1. Kept \subseteq Event
      BY KeptEvents DEF WindowInv, StoreOK, Kept
    <3> QED  BY <3>1 DEF Event
  <2> QED  BY <1>1, <1>2, <1>8, <2>1 DEF WindowInv, StoreOK, OrderOK
<1>12. SeriesOK' /\ CountedOK'
  BY <1>1, <1>2 DEF WindowInv, SeriesOK, CountedOK
<1>13. LossExplained'
  <2>1. GivenUp' = GivenUp
    BY <1>1, ZenonT(30) DEF GivenUp, Pending, Waiting, Counted
  <2> QED  BY <1>1, <2>1 DEF WindowInv, LossExplained
<1> QED  BY <1>9, <1>10, <1>11, <1>12, <1>13 DEF WindowInv
\* The handler of an event: it is new to the store, and goes to the slices
\* of the input when it is for the input.
LEMMA CallbackWindow ==
  ASSUME NEW s \in Senders, WindowInv, nrmd_event_callback(s)
  PROVE  WindowInv'
<1> DEFINE q == flight[s]
           e == Head(q)
<1>1. /\ UNCHANGED <<clock, sent, known, up, pc, series, pulled, lastaction, decisions, gaps>>
      /\ pc = "loop" /\ q # << >>
      /\ base' = nrm_eventbase_push_event(base, e)
      /\ flight' = [flight EXCEPT ![s] = Tail(@)]
  BY DEF nrmd_event_callback
<1>2. /\ sent \in [Senders -> 0..MaxEvents] /\ flight \in [Senders -> Seq(Event)]
      /\ sent[s] \in 0..MaxEvents /\ q \in Seq(Event)
  BY DEF WindowInv, WindowTypes
<1>3. /\ Len(q) \in Nat \ {0} /\ sent[s] \in Nat /\ e = q[1] /\ e \in Event
      /\ Tail(q) \in Seq(Event) /\ Len(Tail(q)) = Len(q) - 1
      /\ \A i \in 1..Len(q) - 1 : Tail(q)[i] = q[i + 1] /\ i + 1 \in 1..Len(q)
      /\ 1 \in 1..Len(q)
  <2>1. q \in Seq(Event) /\ q # << >> /\ sent[s] \in Nat
    BY <1>1, <1>2, InputAssumption, SMTT(60)
  <2> HIDE DEF q
  <2> QED  BY <2>1, SMTT(60)
<1>4. /\ Len(q) <= sent[s]
      /\ \A i \in 1..Len(q) : q[i].sender = s /\ q[i].n = Handled(s) + i
  BY DEF WindowInv, Numbered
<1>5. e.sender = s /\ e.n = Handled(s) + 1 /\ Handled(s) \in Nat
  <2>1. Handled(s) \in Nat
    BY <1>3, <1>4, SMTT(60) DEF Handled
  <2> QED  BY <1>3, <1>4, <2>1
<1>6. /\ \A t \in Senders : t # s => flight'[t] = flight[t]
      /\ flight'[s] = Tail(q) /\ flight' \in [Senders -> Seq(Event)]
  BY <1>1, <1>2, <1>3
<1> HIDE DEF e
<1>7. /\ \A t \in Senders : t # s => Handled(t)' = Handled(t)
      /\ Handled(s)' = Handled(s) + 1
  <2>1. Handled(s)' = sent[s] - (Len(q) - 1)
    BY <1>1, <1>3, <1>6 DEF Handled
  <2>2. sent[s] - (Len(q) - 1) = (sent[s] - Len(q)) + 1
    BY <1>3, SMTT(60)
  <2> QED  BY <1>1, <1>6, <2>1, <2>2 DEF Handled
<1>8. Kept \subseteq Event /\ \A x \in Kept : x.n <= Handled(x.sender)
  BY KeptEvents DEF WindowInv, StoreOK, Kept
<1>9. e \notin Kept
  <2>1. ~(Handled(s) + 1 <= Handled(s))
    BY <1>5, SMTT(60)
  <2> QED  BY <1>5, <1>8, <2>1
<1>10. /\ IsBase(base)'
       /\ In' = IF IsInput(e) THEN SlicesWith(In, e) ELSE In
  BY <1>1, PushedBase, SMTT(60) DEF WindowInv, StoreOK, In, IsInput
<1>11. /\ WellKept(In)'
       /\ Kept' = IF IsInput(e) THEN Kept \cup {e} ELSE Kept
  <2>1. WellKept(In)
    BY DEF WindowInv, StoreOK
  <2>2. /\ WellKept(SlicesWith(In, e)) /\ StoredIn(SlicesWith(In, e)) = StoredIn(In) \cup {e}
    BY <1>3, <1>9, <2>1, PushedKept DEF Kept
  <2> QED  BY <1>10, <2>1, <2>2 DEF Kept
<1>12. Counted' = Counted
  BY <1>1 DEF Counted
<1>13. Numbered'
  <2> SUFFICES ASSUME NEW t \in Senders
               PROVE  /\ Len(flight'[t]) <= sent'[t]
                      /\ \A i \in 1..Len(flight'[t]) :
                             flight'[t][i].sender = t /\ flight'[t][i].n = Handled(t)' + i
    BY DEF Numbered
  <2>1. CASE t # s
    BY <1>1, <1>6, <1>7, <2>1, SMTT(60) DEF WindowInv, Numbered
  <2>2. CASE t = s
    <3>1. Len(q) - 1 <= sent[s]
      BY <1>3, <1>4, SMTT(60)
    <3>2. ASSUME NEW i \in 1..Len(q) - 1
          PROVE  Tail(q)[i].sender = s /\ Tail(q)[i].n = (Handled(s) + 1) + i
      <4>1. Tail(q)[i] = q[i + 1] /\ q[i + 1].sender = s /\ q[i + 1].n = Handled(s) + (i + 1)
        BY <1>3, <1>4
      <4>2. Handled(s) + (i + 1) = (Handled(s) + 1) + i
        BY <1>5, SMTT(60)
      <4> QED  BY <4>1, <4>2
    <3> QED  BY <1>1, <1>3, <1>6, <1>7, <2>2, <3>1, <3>2
  <2> QED  BY <2>1, <2>2
<1>14. StoreOK'
  <2> SUFFICES ASSUME NEW x \in Kept' PROVE x.n <= Handled(x.sender)'
    BY <1>10, <1>11 DEF StoreOK
  <2>1. CASE x = e
    BY <1>5, <1>7, <2>1, SMTT(60)
  <2>2. CASE x # e
    <3>1. x \in Kept /\ x \in Event /\ x.n <= Handled(x.sender) /\ x.sender \in Senders
      BY <1>8, <1>11, <2>2 DEF Event
    <3>2. CASE x.sender # s
      BY <1>7, <3>1, <3>2
    <3>3. CASE x.sender = s
      <4>1. x.n \in Nat /\ x.n <= Handled(s)
        BY <3>1, <3>3, SMTT(60) DEF Event
      <4>2. x.n <= Handled(s) + 1
        BY <1>5, <4>1, SMTT(60)
      <4> QED  BY <1>7, <3>3, <4>2
    <3> QED  BY <3>2, <3>3
  <2> QED  BY <2>1, <2>2
<1>15. newest \in Nat /\ ordered \in BOOLEAN /\ e.time \in Nat
  BY <1>3, KeyType DEF WindowInv, WindowTypes
<1>16. newest' \in Nat /\ ordered' \in BOOLEAN /\ (ordered' => ordered)
  BY <1>1, <1>15, Zenon DEF nrmd_event_callback, e
<1>17. WindowTypes'
  BY <1>1, <1>6, <1>16 DEF WindowInv, WindowTypes
<1>18. OrderOK'
  <2> SUFFICES ASSUME ordered' PROVE InOrder(In') /\ \A x \in Kept' : x.time <= newest'
    BY DEF OrderOK
  <2>1. InOrder(In) /\ \A x \in Kept : x.time <= newest
    BY <1>16 DEF WindowInv, OrderOK
  <2>2. CASE ~IsInput(e)
    <3>1. newest' = newest
      BY <2>2 DEF nrmd_event_callback, e
    <3> QED  BY <1>10, <1>11, <2>1, <2>2, <3>1
  <2>3. CASE IsInput(e)
    <3>1. /\ e.time >= newest
          /\ newest' = IF e.time > newest THEN e.time ELSE newest
      BY <2>3 DEF nrmd_event_callback, e
    <3>2. newest' = e.time /\ newest <= e.time /\ e.time <= e.time
      BY <1>15, <3>1, SMTT(60)
    <3>3. ASSUME NEW x \in Kept PROVE x.time <= e.time
      <4>1. x.time <= newest /\ x.time \in Nat
        BY <1>8, <2>1, KeyType
      <4> QED  BY <1>15, <3>2, <4>1, SMTT(60)
    <3>4. InOrder(SlicesWith(In, e))
      BY <1>3, <2>1, <3>3, PushedInOrder DEF WindowInv, StoreOK, Kept
    <3> QED  BY <1>10, <1>11, <2>3, <3>2, <3>3, <3>4
  <2> QED  BY <2>2, <2>3
<1>19. SeriesOK'
  BY <1>1, <1>16 DEF WindowInv, SeriesOK
<1>20. CountedOK'
  BY <1>1, <1>11, <1>12 DEF WindowInv, CountedOK
<1>21. LossExplained'
  <2> SUFFICES ASSUME NEW x \in GivenUp' PROVE x \in late' \/ Key(x) \in gaps'
    BY DEF LossExplained
  <2>1. x \in Kept' /\ x \notin Counted' /\ ~(Key(x) >= nrm_eb_time2key(lastaction))
    BY <1>1 DEF GivenUp, Pending, Waiting, Stored, Kept, StoredIn, In
  <2>2. gaps' = gaps /\ late \subseteq late'
    BY <1>1 DEF nrmd_event_callback
  <2>3. CASE x \in Kept
    <3>1. x \in GivenUp
      BY <1>12, <2>1, <2>3, Sets
    <3> QED  BY <2>2, <3>1 DEF WindowInv, LossExplained
  <2>4. CASE x \notin Kept
    <3>1. IsInput(e) /\ x = e
      BY <1>11, <2>1, <2>4
    <3>2. lastaction \in Nat
      BY SMTT(60) DEF WindowInv, WindowTypes
    <3>3. /\ nrm_eb_time2key(lastaction) \in Nat /\ nrm_eb_time2key(e.time) \in Nat
          /\ Key(e) = nrm_eb_time2key(e.time)
          /\ nrm_eb_time2key(e.time) < nrm_eb_time2key(lastaction) => e.time < nrm_eb_time2key(lastaction)
      BY <1>3, <1>15, <3>2, KeyOf, KeyType, KeysInOrder
    <3>4. e.time < nrm_eb_time2key(lastaction)
      <4>1. ~(nrm_eb_time2key(e.time) >= nrm_eb_time2key(lastaction))
        BY <2>1, <3>1, <3>3
      <4> QED  BY <3>3, <4>1, SMTT(60)
    <3>5. late' = late \union {y \in {e} : y.time < nrm_eb_time2key(lastaction)}
      BY <3>1 DEF nrmd_event_callback, e
    <3> QED  BY <3>1, <3>4, <3>5
  <2> QED  BY <2>3, <2>4
<1> QED  BY <1>13, <1>14, <1>17, <1>18, <1>19, <1>20, <1>21 DEF WindowInv
\* The registration of the input's scope keeps the invariant.
LEMMA AddScopeWindow == WindowInv /\ AddScope => WindowInv'
<1> SUFFICES ASSUME WindowInv, AddScope PROVE WindowInv'
  OBVIOUS
<1>1. /\ UNCHANGED <<clock, sent, flight, base, up, pc, series, pulled, lastaction>>
      /\ UNCHANGED <<newest, ordered, late, decisions, gaps>> /\ known' = TRUE /\ pc = "loop"
  BY DEF AddScope, history
<1>2. In' = In /\ Kept' = Kept /\ Counted' = Counted
  BY <1>1, StoreSame DEF Counted
<1>3. WindowTypes'
  BY <1>1 DEF WindowInv, WindowTypes
<1>4. Numbered'
  BY <1>1 DEF WindowInv, Numbered, Handled
<1>5. StoreOK' /\ OrderOK'
  BY <1>1, <1>2 DEF WindowInv, StoreOK, OrderOK, Handled
<1>6. SeriesOK' /\ CountedOK'
  BY <1>1, <1>2 DEF WindowInv, SeriesOK, CountedOK
<1>7. LossExplained'
  <2>1. GivenUp' = GivenUp
    BY <1>1, ZenonT(30) DEF GivenUp, Pending, Waiting, Counted
  <2> QED  BY <1>1, <2>1 DEF WindowInv, LossExplained
<1> QED  BY <1>3, <1>4, <1>5, <1>6, <1>7 DEF WindowInv

\* The first half of a tick: the series becomes what the window holds.
LEMMA PullWindow == WindowInv /\ Pull => WindowInv'
<1> SUFFICES ASSUME WindowInv, Pull PROVE WindowInv'
  OBVIOUS
<1>1. /\ UNCHANGED <<clock, sent, flight, base, known, lastaction>>
      /\ UNCHANGED <<newest, ordered, late, decisions, gaps>>
  BY DEF Pull, history
<1>2. In' = In /\ Kept' = Kept /\ Counted' = Counted
  BY <1>1, StoreSame DEF Counted
<1>3. Numbered'
  BY <1>1 DEF WindowInv, Numbered, Handled
<1>4. StoreOK' /\ OrderOK' /\ CountedOK'
  BY <1>1, <1>2 DEF WindowInv, StoreOK, OrderOK, CountedOK, Handled
<1>5. LossExplained'
  <2>1. GivenUp' = GivenUp
    BY <1>1, ZenonT(30) DEF GivenUp, Pending, Waiting, Counted
  <2> QED  BY <1>1, <2>1 DEF WindowInv, LossExplained
<1>6. WindowTypes' /\ SeriesOK'
  <2>1. CASE /\ known
             /\ series' = nrm_eventbase_pull_timeserie(base, InSensor, InScope, Since, clock)
             /\ pulled' = clock /\ pc' = "action" /\ UNCHANGED up
    <3>1. series' = InWindowOf(In, lastaction, clock)
      BY <2>1 DEF nrm_eventbase_pull_timeserie, Since, In
    <3>2. WellKept(In)
      BY DEF WindowInv, StoreOK
    <3>3. /\ series' \in Seq(Event) /\ Distinct(series') /\ (InOrder(In) => Sorted(series'))
          /\ EventsOf(series') = {e \in Kept : InWindow(Key(e), lastaction, clock)}
      BY <3>1, <3>2, Pulled DEF Kept
    <3>4. clock \in 0..clock
      BY InputAssumption, SMTT(60) DEF WindowInv, WindowTypes
    <3>5. WindowTypes'
      BY <1>1, <2>1, <3>3, <3>4 DEF WindowInv, WindowTypes
    <3>6. SeriesOK'
      BY <1>1, <1>2, <2>1, <3>3 DEF WindowInv, SeriesOK, OrderOK
    <3> QED  BY <3>5, <3>6
  <2>2. CASE ~known /\ pc' = "action" /\ UNCHANGED <<series, pulled, up>>
    BY <1>1, <1>2, <2>2 DEF WindowInv, WindowTypes, SeriesOK
  <2>3. CASE ~known /\ up' = FALSE /\ UNCHANGED <<series, pulled, pc>>
    BY <1>1, <1>2, <2>3 DEF WindowInv, WindowTypes, SeriesOK
  <2> QED  BY <2>1, <2>2, <2>3 DEF Pull
<1> QED  BY <1>3, <1>4, <1>5, <1>6 DEF WindowInv

\* The second half, when the policy decides: it counts the events of the
\* window, all of them waiting, and passes those of the slices that closed
\* since the pull.
LEMMA Decides ==
  ASSUME WindowInv, Action, ~TooFew(series)
  PROVE  /\ lastaction' = clock /\ decisions' = Append(decisions, EventsOf(series))
         /\ Kept' = Kept /\ Counted' = Counted \cup EventsOf(series)
         /\ EventsOf(series) \subseteq Waiting /\ EventsOf(series) \subseteq Event
         /\ \A e \in EventsOf(series) : Key(e) < nrm_eb_time2key(clock)
         /\ \A e \in Waiting : e \in EventsOf(series) \/ Key(e) >= nrm_eb_time2key(pulled)
         /\ nrm_eb_time2key(lastaction) <= nrm_eb_time2key(clock)
         /\ nrm_eb_time2key(lastaction) \in Nat /\ nrm_eb_time2key(clock) \in Nat
         /\ nrm_eb_time2key(pulled) \in Nat
<1> DEFINE k(t) == nrm_eb_time2key(t)
           E == EventsOf(series)
<1>1. /\ lastaction' = clock /\ decisions' = Append(decisions, E)
      /\ base' = base /\ pc = "action"
  BY DEF Action, nrm_eventbase_tick
<1>2. /\ clock \in Nat /\ pulled \in Nat /\ lastaction \in Nat
      /\ pulled <= clock /\ lastaction <= clock
  BY InputAssumption, SMTT(60) DEF WindowInv, WindowTypes
<1>3. /\ k(clock) \in Nat /\ k(pulled) \in Nat /\ k(lastaction) \in Nat
      /\ k(pulled) <= k(clock) /\ k(lastaction) <= k(clock)
  BY <1>2, KeyOf, KeysInOrder
<1>4. known
  <2>1. Len(<< >>) <= 1
    BY SMTT(60)
  <2> QED  BY <2>1 DEF WindowInv, SeriesOK, TooFew
<1>5. E = {e \in Kept : InWindow(Key(e), lastaction, pulled)}
  BY <1>1, <1>4 DEF WindowInv, SeriesOK
<1> HIDE DEF E
<1>6. Kept \subseteq Event
  BY KeptEvents DEF WindowInv, StoreOK, Kept
<1>7. \A e \in Kept : Key(e) \in Nat
  BY <1>6, KeyType
<1>8. E \subseteq Event
  BY <1>5, <1>6
<1>9. Counted' = Counted \cup E
  <2> DEFINE D == SUBSET Event
  <2>1. decisions \in Seq(D) /\ E \in D
    BY <1>8 DEF WindowInv, WindowTypes
  <2> HIDE DEF D
  <2>2. EventsOf(Append(decisions, E)) = EventsOf(decisions) \cup {E}
    BY <2>1, Appended, SMTT(60)
  <2>3. Counted = UNION EventsOf(decisions) /\ Counted' = UNION EventsOf(decisions')
    BY DEF Counted, EventsOf
  <2> QED  BY <1>1, <2>2, <2>3
<1>10. E \subseteq Waiting
  <2> SUFFICES ASSUME NEW e \in E PROVE e \in Waiting
    OBVIOUS
  <2>1. e \in Kept /\ Key(e) >= k(lastaction) /\ Key(e) \in Nat
    BY <1>5, <1>7 DEF InWindow
  <2>2. ~(Key(e) < k(lastaction))
    BY <1>3, <2>1, SMTT(60)
  <2>3. e \notin Counted
    BY <2>2 DEF WindowInv, CountedOK
  <2> QED  BY <2>1, <2>3, Sets
<1>11. ASSUME NEW e \in E PROVE Key(e) < k(clock)
  <2>1. Key(e) < k(pulled) /\ Key(e) \in Nat
    BY <1>5, <1>7 DEF InWindow
  <2> QED  BY <1>3, <2>1, SMTT(60)
<1>12. ASSUME NEW e \in Waiting, e \notin E PROVE Key(e) >= k(pulled)
  <2>1. e \in Kept /\ Key(e) >= k(lastaction) /\ Key(e) \in Nat
    BY <1>7, Sets
  <2>2. ~(Key(e) < k(pulled))
    BY <1>5, <1>12, <2>1 DEF InWindow
  <2> QED  BY <1>3, <2>1, <2>2, SMTT(60)
<1>13. Kept' = Kept
  BY <1>1, StoreSame
<1> QED  BY <1>1, <1>3, <1>8, <1>9, <1>10, <1>11, <1>12, <1>13 DEF E

\* The second half of a tick keeps the invariant, whether the policy decides
\* or waits for more events.
LEMMA ActionWindow == WindowInv /\ Action => WindowInv'
<1> SUFFICES ASSUME WindowInv, Action PROVE WindowInv'
  OBVIOUS
<1> DEFINE k(t) == nrm_eb_time2key(t)
           E == EventsOf(series)
<1>1. /\ UNCHANGED <<clock, sent, flight, known, up, series, pulled, newest, ordered, late>>
      /\ pc' = "loop" /\ base' = base
  BY DEF Action, nrm_eventbase_tick
<1>2. In' = In /\ Kept' = Kept
  BY <1>1, StoreSame
<1>3. Numbered'
  BY <1>1 DEF WindowInv, Numbered, Handled
<1>4. StoreOK' /\ OrderOK'
  BY <1>1, <1>2 DEF WindowInv, StoreOK, OrderOK, Handled
<1>5. SeriesOK'
  BY <1>1 DEF WindowInv, SeriesOK
<1>6. WindowTypes' /\ CountedOK' /\ LossExplained'
  <2>1. CASE TooFew(series) /\ UNCHANGED <<lastaction, decisions, gaps>>
    <3>1. WindowTypes'
      BY <1>1, <2>1 DEF WindowInv, WindowTypes
    <3>2. CountedOK'
      BY <1>2, <2>1 DEF WindowInv, CountedOK, Counted
    <3>3. GivenUp' = GivenUp
      BY <1>1, <2>1, ZenonT(30) DEF GivenUp, Pending, Waiting, Counted
    <3>4. LossExplained'
      BY <1>1, <2>1, <3>3 DEF WindowInv, LossExplained
    <3> QED  BY <3>1, <3>2, <3>4
  <2>2. CASE ~TooFew(series)
    <3>1. gaps' = gaps \cup {m \in k(pulled)..k(clock) - 1 : k(m) = m}
      BY <2>2 DEF Action
    <3>2. /\ lastaction' = clock /\ decisions' = Append(decisions, E)
          /\ Counted' = Counted \cup E /\ E \subseteq Waiting /\ E \subseteq Event
          /\ \A e \in E : Key(e) < k(clock)
          /\ \A e \in Waiting : e \in E \/ Key(e) >= k(pulled)
          /\ k(lastaction) <= k(clock) /\ k(lastaction) \in Nat /\ k(clock) \in Nat
          /\ k(pulled) \in Nat
      BY <2>2, Decides
    <3> HIDE DEF E
    <3>3. Kept \subseteq Event
      BY KeptEvents DEF WindowInv, StoreOK, Kept
    <3>4. WindowTypes'
      <4>1. clock \in 0..clock
        BY InputAssumption, SMTT(60) DEF WindowInv, WindowTypes
      <4> DEFINE D == SUBSET Event
      <4>2. decisions \in Seq(D) /\ E \in D
        BY <3>2 DEF WindowInv, WindowTypes
      <4> HIDE DEF D
      <4>3. decisions' \in Seq(D)
        BY <3>2, <4>2, Appended
      <4> USE DEF D
      <4> QED  BY <1>1, <3>2, <4>1, <4>3, ZenonT(30) DEF WindowInv, WindowTypes
    <3>5. CountedOK'
      <4>1. Counted' \subseteq Kept'
        BY <1>2, <3>2, Sets DEF WindowInv, CountedOK
      <4>2. ASSUME NEW e \in Counted PROVE Key(e) < k(clock)
        <5>1. Key(e) < k(lastaction) /\ Key(e) \in Nat
          BY <3>3, KeyType DEF WindowInv, CountedOK
        <5> QED  BY <3>2, <5>1, SMTT(60)
      <4> QED  BY <3>2, <4>1, <4>2 DEF CountedOK
    <3>6. LossExplained'
      <4> SUFFICES ASSUME NEW e \in GivenUp' PROVE e \in late' \/ Key(e) \in gaps'
        BY DEF LossExplained
      <4>1. e \in Kept /\ e \notin Counted /\ e \notin E /\ ~(Key(e) >= k(clock))
        BY <1>1, <1>2, <3>2 DEF GivenUp, Pending, Waiting, Stored, Kept, StoredIn, In
      <4>2. CASE e \notin Waiting
        <5>1. e \in GivenUp
          BY <4>1, <4>2, Sets
        <5> QED  BY <1>1, <3>1, <5>1 DEF WindowInv, LossExplained
      <4>3. CASE e \in Waiting
        <5>1. Key(e) >= k(pulled) /\ Key(e) \in Nat /\ e.time \in Nat /\ Key(e) = k(e.time)
          BY <3>2, <3>3, <4>1, <4>3, KeyType, ZenonT(30)
        <5>2. Key(e) \in k(pulled)..k(clock) - 1
          BY <3>2, <4>1, <5>1, SMTT(60)
        <5>3. k(Key(e)) = Key(e)
          BY <5>1, KeysInOrder
        <5> QED  BY <3>1, <5>2, <5>3
      <4> QED  BY <4>2, <4>3
    <3> QED  BY <3>4, <3>5, <3>6
  <2> QED  BY <2>1, <2>2 DEF Action
<1> QED  BY <1>3, <1>4, <1>5, <1>6 DEF WindowInv
\* A step of the daemon, of a helper or of the clock keeps the invariant.
LEMMA StepWindow == WindowInv /\ [Next]_vars => WindowInv'
<1> SUFFICES ASSUME WindowInv, [Next]_vars PROVE WindowInv'
  OBVIOUS
<1>1. CASE Advance
  BY <1>1, AdvanceWindow
<1>2. CASE \E s \in Senders : Measure(s)
  BY <1>2, MeasureWindow
<1>3. CASE \E s \in Senders : nrmd_event_callback(s)
  BY <1>3, CallbackWindow, ZenonT(30)
<1>4. CASE AddScope
  BY <1>4, AddScopeWindow
<1>5. CASE Pull
  BY <1>5, PullWindow
<1>6. CASE Action
  BY <1>6, ActionWindow
<1>7. CASE UNCHANGED vars
  <2>1. /\ UNCHANGED <<clock, sent, flight, base, known, up, pc, series, pulled, lastaction>>
        /\ UNCHANGED <<newest, ordered, late, decisions, gaps>>
    BY <1>7 DEF vars, daemon, history
  <2>2. In' = In /\ Kept' = Kept /\ Counted' = Counted
    BY <2>1, StoreSame DEF Counted
  <2>3. WindowTypes' /\ Numbered'
    BY <2>1, ZenonT(30) DEF WindowInv, WindowTypes, Numbered, Handled
  <2>4. StoreOK' /\ OrderOK'
    BY <2>1, <2>2 DEF WindowInv, StoreOK, OrderOK, Handled
  <2>5. SeriesOK' /\ CountedOK'
    BY <2>1, <2>2 DEF WindowInv, SeriesOK, CountedOK
  <2>6. GivenUp' = GivenUp
    BY <2>1, ZenonT(30) DEF GivenUp, Pending, Waiting, Counted
  <2>7. LossExplained'
    BY <2>1, <2>6 DEF WindowInv, LossExplained
  <2> QED  BY <2>3, <2>4, <2>5, <2>7 DEF WindowInv
<1> QED  BY <1>1, <1>2, <1>3, <1>4, <1>5, <1>6, <1>7, ZenonT(30) DEF Next

\* The inductive invariant of the control windows holds throughout.
LEMMA WindowsConsistent == Spec => []WindowInv
BY InitWindow, StepWindow, PTL DEF Spec

(* For any period, number of connections, streams and run length: an event *)
(* that no decision will count arrived behind a decision or belongs to a   *)
(* slice that closed between a pull and its action                         *)
(* (src/control/europar21.c:250).                                          *)
THEOREM LossesExplained == Spec => []LossExplained
<1>1. WindowInv => LossExplained
  BY DEF WindowInv
<1> QED  BY <1>1, WindowsConsistent, PTL

(* For any period, number of connections, streams and run length: the      *)
(* series gathered from the table of slices is in the order of time as     *)
(* long as the events of the input arrive in that order                    *)
(* (nrm_eventbase_pull_timeserie).                                         *)
THEOREM SeriesSorted == Spec => []SeriesInOrder
<1>1. WindowInv => SeriesInOrder
  <2> SUFFICES ASSUME WindowInv, ordered, NEW i \in 1..Len(series) - 1
               PROVE  series[i].time <= series[i + 1].time
    BY DEF SeriesInOrder
  <2>1. series \in Seq(Event) /\ Sorted(series)
    BY DEF WindowInv, WindowTypes, SeriesOK
  <2>2. i \in DOMAIN series /\ i + 1 \in DOMAIN series /\ i < i + 1
    BY <2>1, SMTT(60)
  <2> QED  BY <2>1, <2>2 DEF Sorted
<1> QED  BY <1>1, WindowsConsistent, PTL

-----------------------------------------------------------------------------
(* The store and the policy keep the promise of NrmProgress. *)

\* A series of two events or more without repetition holds two events or
\* more.
LEMMA TwoCounted ==
  ASSUME NEW ts \in Seq(Event), Distinct(ts), ~TooFew(ts)
  PROVE  Cardinality(EventsOf(ts)) >= 2
<1> DEFINE n == Len(ts)
           E == EventsOf(ts)
<1>1. n \in Nat /\ n >= 2 /\ DOMAIN ts = 1..n /\ ts = [i \in 1..n |-> ts[i]]
  BY SMTT(60) DEF TooFew
<1> HIDE DEF n
<1>2. IsFiniteSet(1..n) /\ Cardinality(1..n) = n
  <2>1. n \in Int /\ 1 \in Int /\ ~(1 > n) /\ n - 1 + 1 = n
    BY <1>1, SMTT(60)
  <2> QED  BY <2>1, FS_Interval
<1>3. ts \in [1..n -> E] /\ \A x \in E : \E i \in 1..n : ts[i] = x
  BY <1>1 DEF EventsOf
<1>4. \A i, j \in 1..n : ts[i] = ts[j] => i = j
  BY <1>1 DEF Distinct
<1> HIDE DEF E
<1>5. ts \in Surjection(1..n, E) /\ ts \in Injection(1..n, E)
  BY <1>1, <1>3, <1>4 DEF Surjection, Injection, IsInjective
<1>6. Cardinality(E) = n
  BY <1>2, <1>5, FS_Surjection
<1> QED  BY <1>1, <1>6 DEF E

\* Everything the store holds for the input was seen, in the terms of the
\* promise.
LEMMA SeenIsKept == /\ WindowInv => Progress!Seen = Kept
                    /\ WindowInv' => Progress!Seen' = Kept'
<1>1. Progress!Seen = Waiting \cup Counted \cup GivenUp
  BY DEF Progress!Seen, Progress!Counted, Counted
<1>2. Waiting \cup GivenUp = Kept \ Counted
  BY Sets
<1>3. Progress!Seen' = Waiting' \cup Counted' \cup GivenUp'
  BY DEF Progress!Seen, Progress!Counted, Counted
<1>4. Waiting' \cup GivenUp' = Kept' \ Counted'
  BY DEF GivenUp, Pending, Waiting, Stored, Kept, StoredIn, In
<1> QED  BY <1>1, <1>2, <1>3, <1>4 DEF WindowInv, CountedOK

\* Steps that leave the store, the decisions and the last decision's time
\* alone are no steps of the promise.
LEMMA NoProgress ==
  ASSUME UNCHANGED <<base, decisions, lastaction>>
  PROVE  UNCHANGED Progress!vars
BY ZenonT(30) DEF Progress!vars, Waiting, GivenUp, Pending, Counted

\* An event that is still on its connection is not in the store.
LEMMA EventIsNew ==
  ASSUME WindowInv, NEW s \in Senders, flight[s] # << >>
  PROVE  Head(flight[s]) \in Event /\ Head(flight[s]) \notin Kept
<1> DEFINE q == flight[s]
           e == Head(q)
<1>1. q \in Seq(Event) /\ sent[s] \in 0..MaxEvents /\ MaxEvents \in Nat
  BY InputAssumption DEF WindowInv, WindowTypes
<1>2. /\ Len(q) <= sent[s]
      /\ \A i \in 1..Len(q) : q[i].sender = s /\ q[i].n = Handled(s) + i
  BY DEF WindowInv, Numbered
<1>3. Handled(s) = sent[s] - Len(q)
  BY DEF Handled
<1> HIDE DEF q
<1>4. e = q[1] /\ e \in Event /\ 1 \in 1..Len(q) /\ Len(q) \in Nat
  BY <1>1, SMTT(60) DEF q
<1>5. e.sender = s /\ e.n = Handled(s) + 1
  BY <1>2, <1>4
<1>6. ~(Handled(s) + 1 <= Handled(s))
  BY <1>1, <1>2, <1>3, <1>4, SMTT(60)
<1>7. e \notin Kept
  BY <1>5, <1>6 DEF WindowInv, StoreOK
<1> QED  BY <1>4, <1>7 DEF q

\* An event of the input that arrives is waiting or given up.
LEMMA CallbackArrives ==
  ASSUME WindowInv, WindowInv', NEW s \in Senders, nrmd_event_callback(s)
  PROVE  [Progress!Next]_Progress!vars
<1> DEFINE e == Head(flight[s])
           k == nrm_eb_time2key(lastaction)
<1>1. /\ UNCHANGED <<lastaction, decisions>>
      /\ base' = nrm_eventbase_push_event(base, e)
  BY DEF nrmd_event_callback
<1>2. e \in Event
  <2>1. flight[s] \in Seq(Event) /\ flight[s] # << >>
    BY DEF WindowInv, WindowTypes, nrmd_event_callback
  <2> QED  BY <2>1, SMTT(60)
<1> HIDE DEF e
<1>3. IsBase(base) /\ WellKept(In)
  BY DEF WindowInv, StoreOK
<1>4. In' = IF IsInput(e) THEN SlicesWith(In, e) ELSE In
  BY <1>1, <1>3, PushedBase, SMTT(60) DEF In, IsInput
<1>5. Counted' = Counted
  BY <1>1 DEF Counted
<1>6. /\ Waiting = {x \in Kept \ Counted : Key(x) >= k}
      /\ GivenUp = (Kept \ Counted) \ Waiting
      /\ Waiting' = {x \in Kept' \ Counted : Key(x) >= k}
      /\ GivenUp' = (Kept' \ Counted) \ Waiting'
  BY <1>1, <1>5 DEF Waiting, GivenUp, Pending, Stored, Kept, StoredIn, In
<1>7. CASE Kept' = Kept
  <2>1. Waiting' = Waiting /\ GivenUp' = GivenUp
    BY <1>6, <1>7
  <2> QED  BY <1>1, <2>1 DEF Progress!vars
<1>8. CASE IsInput(e) /\ e \notin Kept
  <2>1. Kept' = Kept \cup {e}
    BY <1>2, <1>3, <1>4, <1>8, PushedKept DEF Kept
  <2>2. e \notin Counted
    BY <1>8 DEF WindowInv, CountedOK
  <2>3. e \in Progress!Seen' \ Progress!Seen
    <3>1. Progress!Seen' = Kept' /\ Progress!Seen = Kept
      BY SeenIsKept
    <3> QED  BY <1>8, <2>1, <3>1
  <2>4. \/ Waiting' = Waiting \cup {e} /\ GivenUp' = GivenUp
        \/ GivenUp' = GivenUp \cup {e} /\ Waiting' = Waiting
    <3>1. CASE Key(e) >= k
      BY <1>6, <1>8, <2>1, <2>2, <3>1
    <3>2. CASE ~(Key(e) >= k)
      BY <1>6, <1>8, <2>1, <2>2, <3>2
    <3> QED  BY <3>1, <3>2
  <2>5. Progress!Arrive
    BY <1>1, <1>2, <2>3, <2>4 DEF Progress!Arrive
  <2> QED  BY <2>5 DEF Progress!Next
<1>9. CASE IsInput(e) /\ e \in Kept
  BY <1>9, EventIsNew DEF e, nrmd_event_callback
<1>10. CASE ~IsInput(e)
  <2>1. Kept' = Kept
    BY <1>4, <1>10 DEF Kept
  <2> QED  BY <1>7, <2>1
<1> QED  BY <1>8, <1>9, <1>10
\* A decision counts the events of its window and gives up those it passes.
LEMMA ActionDecides ==
  ASSUME WindowInv, Action
  PROVE  [Progress!Next]_Progress!vars
<1> DEFINE E == EventsOf(series)
           k(t) == nrm_eb_time2key(t)
<1>1. CASE TooFew(series) /\ UNCHANGED <<lastaction, decisions, gaps>>
  BY <1>1, NoProgress DEF Action, nrm_eventbase_tick
<1>2. CASE ~TooFew(series)
  <2>1. /\ lastaction' = clock /\ decisions' = Append(decisions, E)
        /\ Kept' = Kept /\ Counted' = Counted \cup E /\ E \subseteq Waiting
        /\ k(lastaction) <= k(clock) /\ k(lastaction) \in Nat /\ k(clock) \in Nat
    BY <1>2, Decides
  <2>2. Cardinality(E) >= 2
    BY <1>2, TwoCounted DEF WindowInv, WindowTypes, SeriesOK
  <2> HIDE DEF E
  <2>3. /\ Waiting = {x \in Kept \ Counted : Key(x) >= k(lastaction)}
        /\ GivenUp = (Kept \ Counted) \ Waiting
    BY Sets
  <2>4. /\ Waiting' = {x \in Kept \ (Counted \cup E) : Key(x) >= k(clock)}
        /\ GivenUp' = (Kept \ (Counted \cup E)) \ Waiting'
    BY <2>1 DEF Waiting, GivenUp, Pending, Stored, Kept, StoredIn, In
  <2>5. ASSUME NEW x \in Kept, Key(x) >= k(clock) PROVE Key(x) >= k(lastaction)
    <3>1. Key(x) \in Nat
      BY KeptEvents, KeyType DEF WindowInv, StoreOK, Kept
    <3> QED  BY <2>1, <2>5, <3>1, SMTT(60)
  <2>6. Waiting' \cup GivenUp' = (Waiting \cup GivenUp) \ E
    BY <2>3, <2>4
  <2>7. Waiting' \subseteq Waiting
    BY <2>3, <2>4, <2>5
  <2>8. GivenUp \subseteq GivenUp'
    BY <2>1, <2>3, <2>4, <2>5
  <2>9. Waiting \ (Waiting' \cup GivenUp') = E
    BY <2>1, <2>3, <2>6
  <2>10. GivenUp' = GivenUp \cup (Waiting \cap GivenUp')
    BY <2>6, <2>8
  <2>11. Waiting' = Waiting \ (E \cup (Waiting \cap GivenUp'))
    BY <2>3, <2>4, <2>6, <2>7
  <2>12. Progress!Decide
    <3> DEFINE C == Waiting \ (Waiting' \cup GivenUp')
    <3>1. C = E
      BY <2>9
    <3> HIDE DEF C
    <3>2. Cardinality(C) >= 2 /\ decisions' = Append(decisions, C)
      BY <2>1, <2>2, <3>1
    <3>3. Waiting' = Waiting \ (C \cup (Waiting \cap GivenUp'))
      BY <2>11, <3>1
    <3>4. Progress!Cardinality(C) = Cardinality(C)
      BY DEF Progress!Cardinality, Cardinality
    <3>5. Progress!Cardinality(C) >= 2
      BY <3>2, <3>4
    <3> QED  BY <2>10, <3>2, <3>3, <3>5, Zenon DEF Progress!Decide, C
  <2> QED  BY <2>12 DEF Progress!Next
<1> QED  BY <1>1, <1>2 DEF Action

(* For any period, number of connections, streams and run length: no event *)
(* is counted in two decisions, each decision rests on two events or more, *)
(* and events are given up only on arrival or by a decision               *)
(* (nrm_eventbase_push_event, nrm_eventbase_pull_timeserie,                *)
(* nrm_control_europar21_action).                                          *)
THEOREM EventsCountedOnce == Spec => CountsOnce
<1>1. Init => Progress!Init
  <2> SUFFICES ASSUME Init PROVE Waiting = {} /\ decisions = << >> /\ GivenUp = {}
    BY DEF Progress!Init
  <2>1. Kept = {}
    BY EmptyBase DEF Init, Kept, In
  <2> QED  BY <2>1, Sets DEF Init
<1>2. WindowInv /\ WindowInv' /\ [Next]_vars => [Progress!Next]_Progress!vars
  <2> SUFFICES ASSUME WindowInv, WindowInv', [Next]_vars
               PROVE  [Progress!Next]_Progress!vars
    OBVIOUS
  <2>1. CASE Advance
    <3>1. UNCHANGED <<base, decisions, lastaction>>
      BY <2>1 DEF Advance, daemon, history
    <3> QED  BY <3>1, NoProgress
  <2>2. CASE \E s \in Senders : Measure(s)
    <3>1. UNCHANGED <<base, decisions, lastaction>>
      BY <2>2 DEF Measure, daemon, history
    <3> QED  BY <3>1, NoProgress
  <2>3. CASE \E s \in Senders : nrmd_event_callback(s)
    BY <2>3, CallbackArrives
  <2>4. CASE AddScope
    BY <2>4, NoProgress DEF AddScope, history
  <2>5. CASE Pull
    <3>1. UNCHANGED <<base, decisions, lastaction>>
      BY <2>5 DEF Pull, history
    <3> QED  BY <3>1, NoProgress
  <2>6. CASE Action
    BY <2>6, ActionDecides
  <2>7. CASE UNCHANGED vars
    <3>1. UNCHANGED <<base, decisions, lastaction>>
      BY <2>7 DEF vars, daemon, history
    <3> QED  BY <3>1, NoProgress
  <2> QED  BY <2>1, <2>2, <2>3, <2>4, <2>5, <2>6, <2>7 DEF Next
<1> QED  BY <1>1, <1>2, WindowsConsistent, PTL DEF Spec, CountsOnce, Progress!Spec

-----------------------------------------------------------------------------
(* The ring buffer implements the sequence of the last elements pushed.    *)

\* A buffer that was created, with memory for its slots and the index at one
\* of them.
RingMemory(a) ==
    /\ a.n \in Nat \ {0}
    /\ a.i \in Slots(a.n)
    /\ a.f \in BOOLEAN
    /\ a.d \in [Slots(a.n) -> RingElements]
    /\ a = [n |-> a.n, i |-> a.i, f |-> a.f, d |-> a.d]

RingInv == rb = NoRing \/ RingMemory(rb)

\* The elements, oldest first.
RingContents(a) == [j \in 1..utringbuffer_len(a) |-> a.d[utringbuffer_real_idx(a, j - 1)]]

\* Places past the end of the memory are counted from its beginning.
LEMMA Wraps ==
  ASSUME NEW n \in Nat \ {0}, NEW x \in Nat, x < 2 * n
  PROVE  x % n = IF x < n THEN x ELSE x - n
  OBVIOUS

\* Where the place j of a buffer is (utringbuffer_real_idx).
LEMMA RealIdx ==
  ASSUME NEW a, RingMemory(a), NEW j \in Nat, j < utringbuffer_len(a)
  PROVE  utringbuffer_real_idx(a, j) =
           IF a.f /\ j + a.i >= a.n THEN j + a.i - a.n
           ELSE IF a.f THEN j + a.i ELSE j
<1>1. a.n \in Nat \ {0} /\ a.i \in Nat /\ a.i < a.n
  BY DEF RingMemory, Slots
<1>2. CASE ~a.f
  BY <1>2 DEF utringbuffer_real_idx
<1>3. CASE a.f
  <2>1. j < a.n
    BY <1>3 DEF utringbuffer_len
  <2>2. j + a.i \in Nat /\ j + a.i < 2 * a.n
    BY <1>1, <2>1, SMTT(60)
  <2>3. (j + a.i) % a.n = IF j + a.i < a.n THEN j + a.i ELSE j + a.i - a.n
    BY <1>1, <2>2, Wraps, SMTT(60)
  <2> QED  BY <1>1, <1>3, <2>2, <2>3, SMTT(60) DEF utringbuffer_real_idx
<1> QED  BY <1>2, <1>3

\* The elements kept are a sequence as long as utringbuffer_len says.
LEMMA KeptSeq ==
  ASSUME NEW a, RingMemory(a)
  PROVE  /\ utringbuffer_len(a) \in Nat /\ utringbuffer_len(a) <= a.n
         /\ RingContents(a) \in Seq(RingElements) /\ Len(RingContents(a)) = utringbuffer_len(a)
         /\ \A j \in 1..utringbuffer_len(a) :
              RingContents(a)[j] = a.d[utringbuffer_real_idx(a, j - 1)]
<1>1. /\ a.n \in Nat \ {0} /\ a.i \in Nat /\ a.i < a.n
      /\ a.f \in BOOLEAN /\ a.d \in [Slots(a.n) -> RingElements]
  BY SMTT(60) DEF RingMemory, Slots
<1>2. utringbuffer_len(a) \in Nat /\ utringbuffer_len(a) <= a.n
  BY <1>1 DEF utringbuffer_len
<1>3. ASSUME NEW j \in 1..utringbuffer_len(a)
      PROVE  a.d[utringbuffer_real_idx(a, j - 1)] \in RingElements
  <2>1. j - 1 \in Nat /\ j - 1 < utringbuffer_len(a)
    BY <1>2, SMTT(60)
  <2>2. utringbuffer_real_idx(a, j - 1) \in Slots(a.n)
    BY <1>1, <1>2, <2>1, RealIdx, SMTT(60) DEF Slots, utringbuffer_len
  <2> QED  BY <1>1, <2>2
<1> QED  BY <1>2, <1>3 DEF RingContents

\* What a user reads is the elements kept: utringbuffer_back is the element
\* at the last place.
LEMMA ItemsKept ==
  ASSUME RingMemory(rb)
  PROVE  RingItems = RingContents(rb)
<1> DEFINE len == utringbuffer_len(rb)
<1>1. len \in Nat /\ (utringbuffer_empty(rb) <=> len = 0)
  BY SMTT(60) DEF utringbuffer_len, utringbuffer_empty, RingMemory, Slots
<1>2. RingContents(rb) \in Seq(RingElements) /\ Len(RingContents(rb)) = len
  BY KeptSeq
<1>3. ASSUME NEW j \in 1..len
      PROVE  utringbuffer_eltptr(rb, j - 1) = RingContents(rb)[j]
  BY <1>1, KeptSeq, SMTT(60) DEF utringbuffer_eltptr
<1> HIDE DEF len
<1>4. CASE len = 0
  BY <1>1, <1>2, <1>4 DEF RingItems
<1>5. CASE len # 0
  <2> DEFINE older == [j \in 1..len - 1 |-> utringbuffer_eltptr(rb, j - 1)]
  <2>1. RingItems = Append(older, utringbuffer_eltptr(rb, len - 1))
    BY <1>1, <1>5 DEF RingItems, utringbuffer_back, len
  <2>2. older \in Seq(RingElements) /\ Len(older) = len - 1
    <3>1. ASSUME NEW j \in 1..len - 1
          PROVE  utringbuffer_eltptr(rb, j - 1) \in RingElements
      <4>1. j \in 1..len
        BY <1>1, SMTT(60)
      <4> QED  BY <1>2, <1>3, <4>1, ElementOfSeq, ZenonT(30)
    <3> QED  BY <1>1, <1>5, <3>1, SMTT(60)
  <2>3. utringbuffer_eltptr(rb, len - 1) = RingContents(rb)[len]
    BY <1>1, <1>3, <1>5
  <2>4. \A j \in 1..len - 1 : older[j] = RingContents(rb)[j]
    BY <1>1, <1>3, SMTT(60)
  <2> HIDE DEF older
  <2>5. Append(older, utringbuffer_eltptr(rb, len - 1)) = RingContents(rb)
    BY <1>1, <1>2, <1>5, <2>2, <2>3, <2>4, SeqEqual, SMTT(60)
  <2> QED  BY <2>1, <2>5
<1> QED  BY <1>4, <1>5

\* Pushing an element leaves a buffer, and drops the oldest element when all
\* slots are taken (utringbuffer_push_back).
LEMMA PushKeeps ==
  ASSUME NEW a, RingMemory(a), NEW x \in RingElements
  PROVE  LET b == utringbuffer_push_back(a, x)
             s == Append(RingContents(a), x)
         IN  /\ RingMemory(b)
             /\ b.n = a.n
             /\ RingContents(b) = IF Len(s) > a.n THEN Tail(s) ELSE s
<1> DEFINE b == utringbuffer_push_back(a, x)
           s == Append(RingContents(a), x)
           len == utringbuffer_len(a)
<1>1. /\ a.n \in Nat \ {0} /\ a.i \in Nat /\ a.i < a.n /\ a.i \in Slots(a.n)
      /\ a.f \in BOOLEAN /\ a.d \in [Slots(a.n) -> RingElements]
      /\ a = [n |-> a.n, i |-> a.i, f |-> a.f, d |-> a.d]
  BY SMTT(60) DEF RingMemory, Slots
<1>2. b = [n |-> a.n, i |-> IF a.i + 1 = a.n THEN 0 ELSE a.i + 1,
           f |-> (a.f \/ a.i + 1 = a.n), d |-> [a.d EXCEPT ![a.i] = x]]
  <2>1. b = [a EXCEPT !.d = [a.d EXCEPT ![a.i] = x],
                      !.i = IF a.i + 1 = a.n THEN 0 ELSE a.i + 1,
                      !.f = (a.f \/ a.i + 1 = a.n)]
    BY DEF utringbuffer_push_back
  <2> QED  BY <1>1, <2>1, Zenon
<1>3. RingMemory(b) /\ b.n = a.n
  BY <1>1, <1>2, SMTT(60) DEF RingMemory, Slots
<1>4. /\ len \in Nat /\ len <= a.n /\ RingContents(a) \in Seq(RingElements) /\ Len(RingContents(a)) = len
      /\ \A j \in 1..len : RingContents(a)[j] = a.d[utringbuffer_real_idx(a, j - 1)]
  BY KeptSeq
<1>5. /\ RingContents(b) \in Seq(RingElements) /\ Len(RingContents(b)) = utringbuffer_len(b)
      /\ \A j \in 1..utringbuffer_len(b) : RingContents(b)[j] = b.d[utringbuffer_real_idx(b, j - 1)]
  BY <1>3, KeptSeq
<1>6. /\ s \in Seq(RingElements) /\ Len(s) = len + 1
      /\ \A j \in 1..len : s[j] = a.d[utringbuffer_real_idx(a, j - 1)]
      /\ s[len + 1] = x
  BY <1>4, SMTT(60)
<1> HIDE DEF b, s
<1>7. CASE ~a.f
  <2>1. len = a.i
    BY <1>7 DEF utringbuffer_len
  <2>2. utringbuffer_len(b) = len + 1
    BY <1>1, <1>2, <1>7, <2>1 DEF utringbuffer_len
  <2>3. ASSUME NEW j \in 1..len + 1
        PROVE  RingContents(b)[j] = s[j]
    <3>1. j - 1 \in Nat /\ j - 1 < utringbuffer_len(b)
      BY <1>4, <2>2
    <3>2. utringbuffer_real_idx(b, j - 1) = j - 1
      BY <1>1, <1>2, <1>3, <1>7, <2>1, <3>1, RealIdx, SMTT(60)
    <3>3. RingContents(b)[j] = b.d[j - 1]
      BY <1>5, <2>2, <3>2
    <3>4. b.d[j - 1] = IF j = len + 1 THEN x ELSE a.d[j - 1]
      BY <1>1, <1>2, <2>1, SMTT(60) DEF Slots
    <3>5. j # len + 1 => utringbuffer_real_idx(a, j - 1) = j - 1
      BY <1>7 DEF utringbuffer_real_idx
    <3> QED  BY <1>4, <1>6, <3>3, <3>4, <3>5, SMTT(60)
  <2>4. RingContents(b) = s
    BY <1>4, <1>5, <1>6, <2>2, <2>3, SeqEqual
  <2> QED  BY <1>1, <1>3, <1>6, <2>1, <2>4, SMTT(60) DEF b, s
<1>8. CASE a.f
  <2>1. len = a.n
    BY <1>8 DEF utringbuffer_len
  <2>2. utringbuffer_len(b) = a.n
    BY <1>1, <1>2, <1>8 DEF utringbuffer_len
  <2>3. Tail(s) \in Seq(RingElements) /\ Len(Tail(s)) = a.n /\ \A j \in 1..a.n : Tail(s)[j] = s[j + 1]
    <3>1. Len(s) = a.n + 1 /\ s # << >>
      BY <1>1, <1>6, <2>1, SMTT(60)
    <3>2. /\ Tail(s) \in Seq(RingElements) /\ Len(Tail(s)) = Len(s) - 1
          /\ \A j \in 1..Len(Tail(s)) : Tail(s)[j] = s[j + 1]
      BY <1>6, <3>1, HeadTailProperties, Zenon
    <3>3. Len(Tail(s)) = a.n
      BY <1>1, <3>1, <3>2, SMTT(60)
    <3> QED  BY <3>2, <3>3
  <2>4. ASSUME NEW j \in 1..a.n
        PROVE  RingContents(b)[j] = s[j + 1]
    <3>1. j - 1 \in Nat /\ j - 1 < utringbuffer_len(b)
      BY <1>1, <2>2
    <3>2. utringbuffer_real_idx(b, j - 1) = IF j - 1 + b.i >= a.n THEN j - 1 + b.i - a.n ELSE j - 1 + b.i
      <4>1. b.f /\ b.n = a.n
        BY <1>2, <1>8, Zenon
      <4> QED  BY <1>3, <3>1, <4>1, RealIdx, ZenonT(30)
    <3>3. RingContents(b)[j] = b.d[utringbuffer_real_idx(b, j - 1)]
      BY <1>5, <2>2
    <3>4. CASE j = a.n
      BY <1>1, <1>2, <1>6, <2>1, <3>2, <3>3, <3>4, SMTT(60) DEF Slots
    <3>5. CASE j < a.n
      <4>1. utringbuffer_real_idx(a, j) = IF j + a.i >= a.n THEN j + a.i - a.n ELSE j + a.i
        BY <1>1, <1>8, <2>1, <3>5, RealIdx, SMTT(60)
      <4>2. utringbuffer_real_idx(b, j - 1) = utringbuffer_real_idx(a, j)
        BY <1>1, <1>2, <3>2, <3>5, <4>1
      <4>3. utringbuffer_real_idx(a, j) # a.i /\ utringbuffer_real_idx(a, j) \in Slots(a.n)
        BY <1>1, <3>5, <4>1, SMTT(60) DEF Slots
      <4>4. b.d[utringbuffer_real_idx(a, j)] = a.d[utringbuffer_real_idx(a, j)]
        BY <1>1, <1>2, <4>3
      <4>5. j + 1 \in 1..len /\ (j + 1) - 1 = j
        BY <1>1, <2>1, <3>5
      <4> QED  BY <1>6, <3>3, <4>2, <4>4, <4>5
    <3> QED  BY <1>1, <3>4, <3>5
  <2>5. RingContents(b) = Tail(s)
    BY <1>1, <1>5, <2>2, <2>3, <2>4, SeqEqual, SMTT(60)
  <2> QED  BY <1>1, <1>3, <1>6, <2>1, <2>5, SMTT(60) DEF b, s
<1> QED  BY <1>1, <1>7, <1>8

\* Every step of a ring buffer is a step of the sequence of the last elements
\* pushed, which the user reads from it.
LEMMA RingStep ==
  ASSUME RingInv, RingNext
  PROVE  RingInv' /\ LastPushed!Next
<1>1. CASE \E size \in 0..MaxSize : nrm_ringbuffer_create(size)
  <2> PICK size \in 0..MaxSize, junk \in RingElements :
        /\ rb.n = 0 /\ size # 0
        /\ rb' = [n |-> size, i |-> 0, f |-> FALSE, d |-> [p \in Slots(size) |-> junk]]
        /\ ringcall' = <<"create", size>>
    BY Zenon, <1>1 DEF nrm_ringbuffer_create
  <2>1. rb = NoRing /\ RingItems = << >>
    BY DEF RingInv, RingMemory, RingItems, utringbuffer_empty, NoRing
  <2>2. RingMemory(rb')
    BY SMTT(60) DEF RingMemory, Slots
  <2>3. RingItems' = << >>
    BY DEF RingItems, utringbuffer_empty
  <2>4. rb'.n = size /\ size > 0
    OBVIOUS
  <2>5. LastPushed!Create
    BY <2>1, <2>3, <2>4 DEF LastPushed!Create
  <2> QED  BY <2>2, <2>5 DEF RingInv, LastPushed!Next
<1>2. CASE \E x \in RingElements : nrm_ringbuffer_push_back(x)
  <2> PICK x \in RingElements : nrm_ringbuffer_push_back(x)
    BY <1>2
  <2>1. rb.n # 0 /\ rb' = utringbuffer_push_back(rb, x) /\ ringcall' = <<"push", x>>
    BY DEF nrm_ringbuffer_push_back
  <2>2. RingMemory(rb)
    BY <2>1, SMTT(60) DEF RingInv, NoRing
  <2>3. /\ RingMemory(rb') /\ rb'.n = rb.n
        /\ RingContents(rb') = IF Len(Append(RingContents(rb), x)) > rb.n THEN Tail(Append(RingContents(rb), x))
                       ELSE Append(RingContents(rb), x)
    BY <2>1, <2>2, PushKeeps
  <2>4. RingItems = RingContents(rb)
    BY <2>2, ItemsKept
  <2>5. RingItems' = RingContents(rb')
    <3>1. RingMemory(rb)'
      BY <2>3
    <3>2. (RingMemory(rb) => RingItems = RingContents(rb))'
      BY ItemsKept, PTL
    <3> QED  BY <3>1, <3>2
  <2>6. rb.n > 0
    BY <2>2, SMTT(60) DEF RingMemory
  <2>7. LastPushed!Push
    BY <2>1, <2>3, <2>4, <2>5, <2>6 DEF LastPushed!Push
  <2> QED  BY <2>3, <2>7 DEF RingInv, LastPushed!Next
<1>3. CASE nrm_ringbuffer_clear
  <2>1. rb.n # 0 /\ rb' = [rb EXCEPT !.i = 0, !.f = FALSE] /\ ringcall' = <<"clear">>
    BY <1>3 DEF nrm_ringbuffer_clear
  <2>2. RingMemory(rb)
    BY <2>1, SMTT(60) DEF RingInv, NoRing
  <2>3. rb' = [n |-> rb.n, i |-> 0, f |-> FALSE, d |-> rb.d]
    BY <2>1, <2>2, Zenon DEF RingMemory
  <2>4. RingMemory(rb')
    BY <2>2, <2>3, SMTT(60) DEF RingMemory, Slots
  <2>5. RingItems' = << >>
    BY <2>3 DEF RingItems, utringbuffer_empty
  <2>6. rb.n > 0 /\ rb'.n = rb.n
    BY <2>2, <2>3 DEF RingMemory
  <2>7. LastPushed!Clear
    BY <2>1, <2>5, <2>6 DEF LastPushed!Clear
  <2> QED  BY <2>4, <2>7 DEF RingInv, LastPushed!Next
<1>4. CASE nrm_ringbuffer_destroy
  <2>1. rb.n # 0 /\ rb' = NoRing /\ ringcall' = <<"destroy">>
    BY <1>4 DEF nrm_ringbuffer_destroy
  <2>2. RingItems' = << >> /\ rb'.n = 0
    BY <2>1 DEF RingItems, utringbuffer_empty, NoRing
  <2>3. rb.n > 0
    BY <2>1, SMTT(60) DEF RingInv, RingMemory, NoRing
  <2>4. LastPushed!Destroy
    BY <2>1, <2>2, <2>3 DEF LastPushed!Destroy
  <2> QED  BY <2>1, <2>4 DEF RingInv, LastPushed!Next
<1> QED  BY <1>1, <1>2, <1>3, <1>4 DEF RingNext

\* A ring buffer of any number of slots is the sequence of the last elements
\* pushed (RingKeepsLast), however often its index has wrapped.
THEOREM RingIsLastPushed == RingInit /\ [][RingNext]_ringvars => RingKeepsLast
<1>1. RingInit => RingInv /\ LastPushed!Init
  BY DEF RingInit, RingInv, LastPushed!Init, RingItems, utringbuffer_empty, NoRing
<1>2. RingInv /\ [RingNext]_ringvars => RingInv' /\ [LastPushed!Next]_(LastPushed!vars)
  <2>1. CASE UNCHANGED ringvars
    BY <2>1 DEF ringvars, RingInv, RingMemory, LastPushed!vars, RingItems, utringbuffer_empty,
                utringbuffer_len, utringbuffer_eltptr, utringbuffer_back, utringbuffer_real_idx
  <2> QED  BY <2>1, RingStep
<1> QED  BY <1>1, <1>2, PTL DEF RingKeepsLast, LastPushed!Spec
=============================================================================
