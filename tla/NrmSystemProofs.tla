-------------------------- MODULE NrmSystemProofs ---------------------------
(***************************************************************************)
(* Facts that the proofs share: what the correction of a requested value   *)
(* (src/actuators/) guarantees, what queues hold when they grow, move on   *)
(* and are cut, and what messages and handlers are made of.  Then type     *)
(* correctness of the system; its steps as one client and the daemon's     *)
(* pipes see them; and two invariants the others rest on: processes and    *)
(* their sockets end together, and a listener is there when a published    *)
(* message arrives.                                                        *)
(***************************************************************************)
EXTENDS NrmSystem, NaturalsInduction, WellFoundedInduction, TLAPS

\* Time for the provers in a large context.
USE ZenonT(8), SMTT(60)

\* A set of natural numbers has a least element.
LEMMA SmallestNat ==
  ASSUME NEW K \in SUBSET Nat, K # {}
  PROVE  \E m \in K : \A k \in K : m <= k
<1> DEFINE R == OpToRel(<, Nat)
<1>1. IsWellFoundedOn(R, Nat)
  BY NatLessThanWellFounded
<1>2. PICK m \in K : \A k \in K : ~(<<k, m>> \in R)
  <2> HIDE DEF R
  <2> QED  BY <1>1, WFMin, Zenon
<1>3. ASSUME NEW k \in K PROVE m <= k
  <2>1. k \in Nat /\ m \in Nat
    OBVIOUS
  <2>2. k < m => <<k, m>> \in R
    BY <2>1 DEF OpToRel
  <2> HIDE DEF R
  <2> QED  BY <1>2, <2>1, <2>2
<1> QED  BY <1>3

-----------------------------------------------------------------------------
(* Corrected values *)

\* Distances are natural numbers and determine a value up to its side.
LEMMA DistNat ==
  ASSUME NEW v \in Int, NEW d \in Int
  PROVE  /\ Dist(v, d) \in Nat
         /\ d = v - Dist(v, d) \/ d = v + Dist(v, d)
  BY DEF Dist

\* Some distance from v to a choice is the smallest: what best_dist of
\* discrete_corrected_value ends with.
LEMMA SmallestDist ==
  ASSUME NEW choices \in SUBSET Int, choices # {}, NEW v \in Int
  PROVE  \E d \in choices : \A e \in choices : Dist(v, d) <= Dist(v, e)
<1> DEFINE D == {Dist(v, e) : e \in choices}
<1>1. D \in SUBSET Nat /\ D # {}
  BY DistNat, Zenon
<1>2. PICK x \in D : \A y \in D : x <= y
  <2> HIDE DEF D
  <2> QED  BY <1>1, SmallestNat
<1> QED  BY <1>2

\* The choice kept is one of the choices, none is closer, and none as close is
\* lower (src/actuators/discrete.c:86).
THEOREM ClosestIsClosest ==
  ASSUME NEW choices \in SUBSET Int, choices # {}, NEW v \in Int
  PROVE  /\ Closest(choices, v) \in choices
         /\ \A e \in choices :
              \/ Dist(v, Closest(choices, v)) < Dist(v, e)
              \/ /\ Dist(v, Closest(choices, v)) = Dist(v, e)
                 /\ Closest(choices, v) <= e
<1>1. PICK d \in choices : \A e \in choices : Dist(v, d) <= Dist(v, e)
  BY SmallestDist
<1> DEFINE m == Dist(v, d)
           low == IF v - m \in choices THEN v - m ELSE d
<1>2. low \in choices /\ Dist(v, low) = m
  BY DEF Dist
<1>3. \A e \in choices : \/ Dist(v, low) < Dist(v, e)
                         \/ Dist(v, low) = Dist(v, e) /\ low <= e
  <2> TAKE e \in choices
  <2>1. CASE m = Dist(v, e)
    <3>1. e = v - m \/ e = v + m
      BY <2>1, DistNat
    <3>2. low <= e
      BY <3>1, DistNat, SMTT(60) DEF Dist
    <3> QED  BY <1>2, <2>1, <3>2
  <2>2. CASE m # Dist(v, e)
    <3>1. m \in Nat /\ Dist(v, e) \in Nat /\ m <= Dist(v, e)
      BY <1>1, DistNat
    <3> HIDE DEF m, low
    <3> QED  BY <1>2, <2>2, <3>1
  <2> QED  BY <2>1, <2>2
<1>4. QED
  BY <1>2, <1>3, Zenon DEF Closest

\* The type of a corrected value, whatever the actuator.
THEOREM CorrectedType ==
  ASSUME NEW a \in Actuator, NEW v \in Int
  PROVE  nrm_actuator_corrected_value(a, v) \in Int
<1>1. CASE a \in ContinuousActuator
  BY <1>1 DEF ContinuousActuator, nrm_actuator_corrected_value,
              nrm_actuator_continuous_corrected_value
<1>2. CASE a \in DiscreteActuator
  <2>1. a.choices \in SUBSET Int /\ a.type = "DISCRETE"
    BY <1>2 DEF DiscreteActuator
  <2>2. CASE a.choices = {}
    BY <2>1, <2>2 DEF nrm_actuator_corrected_value, nrm_actuator_discrete_corrected_value
  <2>3. CASE a.choices # {}
    <3>1. Closest(a.choices, v) \in Int
      BY <2>1, <2>3, ClosestIsClosest, Zenon
    <3> QED
      BY <2>1, <2>3, <3>1 DEF nrm_actuator_corrected_value, nrm_actuator_discrete_corrected_value
  <2> QED  BY <2>2, <2>3
<1> QED  BY <1>1, <1>2 DEF Actuator

\* A corrected value is one the actuator accepts (nrm_actuator_validate_value
\* returns 0 on it), and a value it accepts is not changed: correcting is
\* idempotent, and the daemon's second look at a value never alters it.
THEOREM CorrectedValid ==
  ASSUME NEW a \in Actuator, NEW v \in Int, Correctable(a)
  PROVE  /\ nrm_actuator_validate_value(a, nrm_actuator_corrected_value(a, v))
         /\ nrm_actuator_validate_value(a, v) => nrm_actuator_corrected_value(a, v) = v
<1>1. CASE a \in ContinuousActuator
  BY <1>1, SMTT(60) DEF ContinuousActuator, Correctable, nrm_actuator_corrected_value,
              nrm_actuator_continuous_corrected_value, nrm_actuator_validate_value,
              nrm_actuator_continuous_validate_value
<1>2. CASE a \in DiscreteActuator
  <2>1. a.choices \in SUBSET Int /\ a.type = "DISCRETE" /\ a.choices # {}
    BY <1>2 DEF DiscreteActuator, Correctable
  <2>2. Closest(a.choices, v) \in a.choices
    BY <2>1, ClosestIsClosest, Zenon
  <2>3. ASSUME v \in a.choices
        PROVE  Closest(a.choices, v) = v
    <3>1. Dist(v, v) = 0
      BY DEF Dist
    <3> DEFINE d == Closest(a.choices, v)
    <3>2. d \in Int /\ (Dist(v, d) < Dist(v, v) \/ Dist(v, d) = Dist(v, v))
      BY <2>1, <2>2, <2>3, ClosestIsClosest
    <3>3. d = v
      <4> HIDE DEF d
      <4> QED  BY <3>1, <3>2 DEF Dist
    <3> QED  BY <3>3
  <2> QED
    BY <2>1, <2>2, <2>3 DEF nrm_actuator_corrected_value, nrm_actuator_discrete_corrected_value,
       nrm_actuator_validate_value, nrm_actuator_discrete_validate_value
<1> QED  BY <1>1, <1>2 DEF Actuator

-----------------------------------------------------------------------------
(* Queues *)

\* The elements behind the head.
LEMMA TailAt ==
  ASSUME NEW T, NEW q \in Seq(T), q # <<>>
  PROVE  /\ Len(q) \in Nat /\ Len(q) > 0 /\ Len(Tail(q)) = Len(q) - 1
         /\ \A i \in 1 .. Len(q) - 1 : Tail(q)[i] = q[i + 1]
         /\ Head(q) = q[1]
  OBVIOUS

\* The elements of a queue that grows.
LEMMA AppendAt ==
  ASSUME NEW T, NEW q \in Seq(T), NEW e \in T
  PROVE  /\ Len(q) \in Nat /\ Len(Append(q, e)) = Len(q) + 1
         /\ \A i \in 1 .. Len(q) : Append(q, e)[i] = q[i]
         /\ Append(q, e)[Len(q) + 1] = e
  OBVIOUS

\* The elements of a queue that is cut.
LEMMA PrefixAt ==
  ASSUME NEW T, NEW q \in Seq(T), NEW p \in Prefix(q)
  PROVE  /\ Len(p) \in 0 .. Len(q) /\ Len(q) \in Nat
         /\ \A i \in 1 .. Len(p) : p[i] = q[i]
<1>1. PICK n \in 0 .. Len(q) : p = SubSeq(q, 1, n)
  BY DEF Prefix
<1> QED  BY <1>1

\* Appending to, taking from and cutting a queue keeps the type of its elements.
LEMMA QueueTypes ==
  ASSUME NEW T, NEW q \in Seq(T)
  PROVE  /\ \A e \in T : Append(q, e) \in Seq(T)
         /\ q # <<>> => Head(q) \in T /\ Tail(q) \in Seq(T)
         /\ Prefix(q) \subseteq Seq(T)
         /\ <<>> \in Seq(T)
<1>1. \A e \in T : Append(q, e) \in Seq(T)
  OBVIOUS
<1>2. q # <<>> => Head(q) \in T /\ Tail(q) \in Seq(T)
  OBVIOUS
<1>3. ASSUME NEW n \in 0 .. Len(q) PROVE SubSeq(q, 1, n) \in Seq(T)
  OBVIOUS
<1> QED  BY <1>1, <1>2, <1>3 DEF Prefix

\* An element of another kind joins the queue.
LEMMA QueueAppend ==
  ASSUME NEW T, NEW q \in Seq(T), NEW S, NEW M, NEW e \in T, e \notin S
  PROVE  /\ NoneIn(q, S) => NoneIn(Append(q, e), S)
         /\ OneIn(q, S, M) => OneIn(Append(q, e), S, M)
<1>1. ASSUME OneIn(q, S, M) PROVE OneIn(Append(q, e), S, M)
  <2>1. PICK i \in 1 .. Len(q) : /\ q[i] \in M
                                 /\ \A j \in 1 .. Len(q) : j # i => q[j] \notin S
    BY <1>1 DEF OneIn
  <2>2. i \in 1 .. Len(Append(q, e)) /\ Append(q, e)[i] \in M
    BY <2>1
  <2>3. \A j \in 1 .. Len(Append(q, e)) : j # i => Append(q, e)[j] \notin S
    BY <2>1
  <2> QED  BY <2>2, <2>3 DEF OneIn
<1>2. ASSUME NoneIn(q, S) PROVE NoneIn(Append(q, e), S)
  BY <1>2 DEF NoneIn
<1> QED  BY <1>1, <1>2

\* The one element of a kind joins the queue.
LEMMA QueueNew ==
  ASSUME NEW T, NEW q \in Seq(T), NEW S, NEW M, NEW e \in T, e \in M, NoneIn(q, S)
  PROVE  OneIn(Append(q, e), S, M)
<1> DEFINE n == Len(q) + 1
<1>1. n \in 1 .. Len(Append(q, e)) /\ Append(q, e)[n] \in M
  OBVIOUS
<1>2. \A j \in 1 .. Len(Append(q, e)) : j # n => Append(q, e)[j] \notin S
  BY DEF NoneIn
<1> QED  BY <1>1, <1>2 DEF OneIn

\* A head of another kind leaves the queue.
LEMMA QueueTail ==
  ASSUME NEW T, NEW q \in Seq(T), NEW S, NEW M \in SUBSET S, q # <<>>, Head(q) \notin S
  PROVE  /\ NoneIn(q, S) => NoneIn(Tail(q), S)
         /\ OneIn(q, S, M) => OneIn(Tail(q), S, M)
<1>1. ASSUME OneIn(q, S, M) PROVE OneIn(Tail(q), S, M)
  <2>1. PICK i \in 1 .. Len(q) : /\ q[i] \in M
                                 /\ \A j \in 1 .. Len(q) : j # i => q[j] \notin S
    BY <1>1 DEF OneIn
  <2>2. i # 1 /\ i - 1 \in 1 .. Len(Tail(q)) /\ Tail(q)[i - 1] \in M
    BY <2>1, TailAt, SMTT(60)
  <2>3. \A j \in 1 .. Len(Tail(q)) : j # i - 1 => Tail(q)[j] \notin S
    BY <2>1, TailAt, SMTT(60)
  <2> QED  BY <2>2, <2>3, Zenon DEF OneIn
<1>2. ASSUME NoneIn(q, S) PROVE NoneIn(Tail(q), S)
  BY <1>2, TailAt, SMTT(60) DEF NoneIn
<1> QED  BY <1>1, <1>2

\* A head of the kind leaves the queue: it was the one.
LEMMA QueueTake ==
  ASSUME NEW T, NEW q \in Seq(T), NEW S, NEW M \in SUBSET S, q # <<>>, Head(q) \in S
  PROVE  /\ ~NoneIn(q, S)
         /\ OneIn(q, S, M) => Head(q) \in M /\ NoneIn(Tail(q), S)
<1>1. ~NoneIn(q, S)
  BY TailAt, SMTT(60) DEF NoneIn
<1>2. ASSUME OneIn(q, S, M) PROVE Head(q) \in M /\ NoneIn(Tail(q), S)
  <2>1. PICK i \in 1 .. Len(q) : /\ q[i] \in M
                                 /\ \A j \in 1 .. Len(q) : j # i => q[j] \notin S
    BY <1>2 DEF OneIn
  <2>2. i = 1
    BY <2>1, TailAt, SMTT(60)
  <2>3. NoneIn(Tail(q), S)
    BY <2>1, <2>2, TailAt, SMTT(60) DEF NoneIn
  <2> QED  BY <2>1, <2>2, <2>3, TailAt
<1> QED  BY <1>1, <1>2

\* The end of the queue is lost.
LEMMA QueueCut ==
  ASSUME NEW T, NEW q \in Seq(T), NEW S, NEW M, NEW p \in Prefix(q)
  PROVE  /\ NoneIn(q, S) => NoneIn(p, S)
         /\ OneIn(q, S, M) => NoneIn(p, S) \/ OneIn(p, S, M)
<1>1. PICK n \in 0 .. Len(q) : p = SubSeq(q, 1, n)
  BY DEF Prefix
<1>2. Len(p) = n /\ n <= Len(q) /\ \A i \in 1 .. n : p[i] = q[i]
  BY <1>1
<1>3. ASSUME OneIn(q, S, M) PROVE NoneIn(p, S) \/ OneIn(p, S, M)
  <2>1. PICK i \in 1 .. Len(q) : /\ q[i] \in M
                                 /\ \A j \in 1 .. Len(q) : j # i => q[j] \notin S
    BY <1>3 DEF OneIn
  <2>2. CASE i <= n
    BY <1>2, <2>1, <2>2, SMTT(60) DEF OneIn
  <2>3. CASE ~(i <= n)
    BY <1>2, <2>1, <2>3, SMTT(60) DEF NoneIn
  <2> QED  BY <2>2, <2>3
<1>4. ASSUME NoneIn(q, S) PROVE NoneIn(p, S)
  BY <1>2, <1>4 DEF NoneIn
<1> QED  BY <1>3, <1>4

\* An empty queue holds nothing.
LEMMA QueueEmpty ==
  ASSUME NEW S PROVE NoneIn(<<>>, S)
  BY DEF NoneIn

\* A queue that holds nothing of a kind, when its first element is taken.
LEMMA QueueNone ==
  ASSUME NEW T, NEW q \in Seq(T), NEW S, q # <<>>, NoneIn(q, S)
  PROVE  Head(q) \notin S /\ NoneIn(Tail(q), S)
<1>1. /\ Len(q) \in Nat /\ Len(q) > 0 /\ Len(Tail(q)) = Len(q) - 1
      /\ \A i \in 1 .. Len(q) - 1 : Tail(q)[i] = q[i + 1]
      /\ Head(q) = q[1]
  BY TailAt
<1> DEFINE r == Tail(q)
<1>2. Len(r) = Len(q) - 1 /\ \A i \in 1 .. Len(q) - 1 : r[i] = q[i + 1]
  BY <1>1
<1> HIDE DEF r
<1>3. NoneIn(r, S)
  BY <1>1, <1>2, SMTT(60) DEF NoneIn
<1> QED  BY <1>1, <1>3, SMTT(60) DEF NoneIn, r

\* The last element of a kind, when the queue grows.
LEMMA LastAppend ==
  ASSUME NEW T, NEW q \in Seq(T), NEW S, NEW M, NEW e \in T
  PROVE  /\ e \in M => LastIn(Append(q, e), S, M)
         /\ e \notin S /\ LastIn(q, S, M) => LastIn(Append(q, e), S, M)
<1>1. ASSUME e \in M PROVE LastIn(Append(q, e), S, M)
  BY <1>1, AppendAt DEF LastIn
<1>2. ASSUME e \notin S, LastIn(q, S, M) PROVE LastIn(Append(q, e), S, M)
  <2>1. PICK i \in 1 .. Len(q) : q[i] \in M /\ \A j \in i + 1 .. Len(q) : q[j] \notin S
    BY <1>2 DEF LastIn
  <2>2. i \in 1 .. Len(Append(q, e)) /\ Append(q, e)[i] \in M
    BY <2>1, AppendAt, SMTT(60)
  <2>3. \A j \in i + 1 .. Len(Append(q, e)) : Append(q, e)[j] \notin S
    BY <1>2, <2>1, AppendAt, SMTT(60)
  <2> QED  BY <2>2, <2>3 DEF LastIn
<1> QED  BY <1>1, <1>2

\* The last element of a kind, when the head leaves.
LEMMA LastTail ==
  ASSUME NEW T, NEW q \in Seq(T), NEW S, NEW M, q # <<>>, LastIn(q, S, M)
  PROVE  \/ LastIn(Tail(q), S, M)
         \/ Head(q) \in M /\ NoneIn(Tail(q), S)
<1>1. PICK i \in 1 .. Len(q) : q[i] \in M /\ \A j \in i + 1 .. Len(q) : q[j] \notin S
  BY DEF LastIn
<1>2. CASE i = 1
  BY <1>1, <1>2, TailAt, SMTT(60) DEF NoneIn
<1>3. CASE i # 1
  <2>1. i - 1 \in 1 .. Len(Tail(q)) /\ Tail(q)[i - 1] \in M
    BY <1>1, <1>3, TailAt, SMTT(60)
  <2>2. \A j \in (i - 1) + 1 .. Len(Tail(q)) : Tail(q)[j] \notin S
    BY <1>1, <1>3, TailAt, SMTT(60)
  <2> QED  BY <2>1, <2>2, Zenon DEF LastIn
<1> QED  BY <1>2, <1>3

\* The first element of a kind, when the queue grows.
LEMMA FirstAppend ==
  ASSUME NEW T, NEW q \in Seq(T), NEW S, NEW M, NEW e \in T
  PROVE  /\ FirstIn(q, S, M) => FirstIn(Append(q, e), S, M)
         /\ NoneIn(q, S) /\ e \in M => FirstIn(Append(q, e), S, M)
<1>1. ASSUME FirstIn(q, S, M) PROVE FirstIn(Append(q, e), S, M)
  <2>1. PICK i \in 1 .. Len(q) : q[i] \in M /\ \A j \in 1 .. i - 1 : q[j] \notin S
    BY <1>1 DEF FirstIn
  <2>2. i \in 1 .. Len(Append(q, e)) /\ Append(q, e)[i] \in M
    BY <2>1, AppendAt, SMTT(60)
  <2>3. \A j \in 1 .. i - 1 : Append(q, e)[j] \notin S
    BY <2>1, AppendAt, SMTT(60)
  <2> QED  BY <2>2, <2>3 DEF FirstIn
<1>2. ASSUME NoneIn(q, S), e \in M PROVE FirstIn(Append(q, e), S, M)
  BY <1>2, AppendAt, SMTT(60) DEF FirstIn, NoneIn
<1> QED  BY <1>1, <1>2

\* The first element of a kind, when the head leaves.
LEMMA FirstTail ==
  ASSUME NEW T, NEW q \in Seq(T), NEW S, NEW M, q # <<>>, FirstIn(q, S, M)
  PROVE  \/ Head(q) \in M
         \/ Head(q) \notin S /\ FirstIn(Tail(q), S, M)
<1>1. PICK i \in 1 .. Len(q) : q[i] \in M /\ \A j \in 1 .. i - 1 : q[j] \notin S
  BY DEF FirstIn
<1>2. CASE i = 1
  BY <1>1, <1>2, TailAt
<1>3. CASE i # 1
  <2>1. i - 1 \in 1 .. Len(Tail(q)) /\ Tail(q)[i - 1] \in M /\ Head(q) \notin S
    BY <1>1, <1>3, TailAt, SMTT(60)
  <2>2. \A j \in 1 .. (i - 1) - 1 : Tail(q)[j] \notin S
    BY <1>1, <1>3, TailAt, SMTT(60)
  <2> QED  BY <2>1, <2>2, Zenon DEF FirstIn
<1> QED  BY <1>2, <1>3

\* The first element of a kind, when the queue is cut.
LEMMA FirstCut ==
  ASSUME NEW T, NEW q \in Seq(T), NEW S, NEW M, NEW p \in Prefix(q), FirstIn(q, S, M)
  PROVE  FirstIn(p, S, M) \/ NoneIn(p, S)
<1>1. PICK i \in 1 .. Len(q) : q[i] \in M /\ \A j \in 1 .. i - 1 : q[j] \notin S
  BY DEF FirstIn
<1>2. CASE i <= Len(p)
  <2>1. i \in 1 .. Len(p) /\ p[i] \in M
    BY <1>1, <1>2, PrefixAt, SMTT(60)
  <2>2. \A j \in 1 .. i - 1 : p[j] \notin S
    BY <1>1, <1>2, PrefixAt, SMTT(60)
  <2> QED  BY <2>1, <2>2, Zenon DEF FirstIn
<1>3. CASE ~(i <= Len(p))
  BY <1>1, <1>3, PrefixAt, SMTT(60) DEF NoneIn
<1> QED  BY <1>2, <1>3

\* Nothing behind, when the queue grows.
LEMMA BehindAppend ==
  ASSUME NEW T, NEW q \in Seq(T), NEW A, NEW E, NEW e \in T, NoneBehind(q, A, E),
         e \notin E \/ NoneIn(q, A)
  PROVE  NoneBehind(Append(q, e), A, E)
<1> SUFFICES ASSUME NEW i \in 1 .. Len(q) + 1, NEW j \in 1 .. Len(q) + 1, i < j,
                    Append(q, e)[i] \in A
             PROVE  Append(q, e)[j] \notin E
  BY AppendAt, SMTT(60) DEF NoneBehind
<1>1. i \in 1 .. Len(q) /\ q[i] \in A
  BY AppendAt, SMTT(60)
<1>2. CASE j = Len(q) + 1
  BY <1>1, <1>2, AppendAt DEF NoneIn
<1>3. CASE j # Len(q) + 1
  BY <1>1, <1>3, AppendAt, SMTT(60) DEF NoneBehind
<1> QED  BY <1>2, <1>3

\* The same when the head leaves: of what is behind it nothing is in E.
LEMMA BehindTail ==
  ASSUME NEW T, NEW q \in Seq(T), NEW A, NEW E, q # <<>>, NoneBehind(q, A, E)
  PROVE  /\ NoneBehind(Tail(q), A, E)
         /\ Head(q) \in A => NoneIn(Tail(q), E)
<1>1. NoneBehind(Tail(q), A, E)
  BY TailAt, SMTT(60) DEF NoneBehind
<1>2. Head(q) \in A => NoneIn(Tail(q), E)
  BY TailAt, SMTT(60) DEF NoneBehind, NoneIn
<1> QED  BY <1>1, <1>2

\* The same when the queue is cut: what is behind an element in A was not in E.
LEMMA BehindCut ==
  ASSUME NEW T, NEW q \in Seq(T), NEW A, NEW E, NEW p \in Prefix(q), NoneBehind(q, A, E)
  PROVE  /\ NoneBehind(p, A, E)
         /\ ~NoneIn(p, A) => \A j \in 1 .. Len(q) : q[j] \in E => j \in 1 .. Len(p)
<1>1. NoneBehind(p, A, E)
  BY PrefixAt, SMTT(60) DEF NoneBehind
<1>2. ~NoneIn(p, A) => \A j \in 1 .. Len(q) : q[j] \in E => j \in 1 .. Len(p)
  BY PrefixAt, SMTT(60) DEF NoneBehind, NoneIn
<1> QED  BY <1>1, <1>2

\* Elements that tell their number.
Counts(F, T) == F \in [Nat -> T] /\ \A k, l \in Nat : F[k] = F[l] => k = l

\* Numbered elements, when the queue grows.
LEMMA NumberedAppend ==
  ASSUME NEW T, NEW q \in Seq(T), NEW F, Counts(F, T), NEW lo \in Nat, NEW hi \in Nat,
         NEW e \in T, Numbered(q, F, lo, hi)
  PROVE  /\ e = F[hi + 1] => Numbered(Append(q, e), F, lo, hi + 1)
         /\ (\A k \in Nat : e # F[k]) => Numbered(Append(q, e), F, lo, hi)
<1> DEFINE r == Append(q, e)
<1>0. /\ Len(q) \in Nat /\ Len(r) = Len(q) + 1 /\ r[Len(q) + 1] = e
      /\ \A i \in 1 .. Len(q) : r[i] = q[i]
  BY AppendAt, SMTT(60)
<1> HIDE DEF r
<1>1. ASSUME e = F[hi + 1] PROVE Numbered(r, F, lo, hi + 1)
  <2>0. \A k \in Nat : e = F[k] => k = hi + 1
    <3>1. hi + 1 \in Nat
      OBVIOUS
    <3> QED  BY <1>1, <3>1, Zenon DEF Counts
  <2>1. ASSUME NEW i \in 1 .. Len(r), NEW k \in Nat, r[i] = F[k] PROVE lo < k /\ k <= hi + 1
    <3>1. CASE i = Len(q) + 1
      BY <1>0, <2>0, <2>1, <3>1, SMTT(60) DEF Numbered
    <3>2. CASE i # Len(q) + 1
      BY <1>0, <2>1, <3>2, SMTT(60) DEF Numbered
    <3> QED  BY <3>1, <3>2
  <2>2. ASSUME NEW i \in 1 .. Len(r), NEW j \in 1 .. Len(r), NEW k \in Nat, NEW l \in Nat,
               i < j, r[i] = F[k], r[j] = F[l]
        PROVE  k < l
    <3>1. i \in 1 .. Len(q) /\ q[i] = F[k] /\ k <= hi
      BY <1>0, <2>2, SMTT(60) DEF Numbered
    <3>2. CASE j = Len(q) + 1
      <4>1. l = hi + 1
        BY <1>0, <2>0, <2>2, <3>2
      <4> QED  BY <3>1, <4>1
    <3>3. CASE j # Len(q) + 1
      <4>1. j \in 1 .. Len(q) /\ q[j] = F[l]
        BY <1>0, <2>2, <3>3
      <4> QED  BY <2>2, <3>1, <4>1 DEF Numbered
    <3> QED  BY <3>2, <3>3
  <2>3. ASSUME NEW k \in lo + 1 .. hi + 1 PROVE \E i \in 1 .. Len(r) : r[i] = F[k]
    <3>1. CASE k = hi + 1
      BY <1>0, <1>1, <3>1
    <3>2. CASE k # hi + 1
      <4>1. PICK i \in 1 .. Len(q) : q[i] = F[k]
        BY <3>2, SMTT(60) DEF Numbered
      <4> QED  BY <1>0, <4>1
    <3> QED  BY <3>1, <3>2
  <2> QED  BY <2>1, <2>2, <2>3, SMTT(60) DEF Numbered
<1>2. ASSUME \A k \in Nat : e # F[k] PROVE Numbered(r, F, lo, hi)
  <2>0. ASSUME NEW i \in 1 .. Len(r), NEW k \in Nat, r[i] = F[k]
        PROVE  i \in 1 .. Len(q) /\ q[i] = F[k]
    BY <1>0, <1>2, <2>0
  <2>1. \A i \in 1 .. Len(r), k \in Nat : r[i] = F[k] => lo < k /\ k <= hi
    BY <2>0 DEF Numbered
  <2>2. \A i, j \in 1 .. Len(r), k, l \in Nat : i < j /\ r[i] = F[k] /\ r[j] = F[l] => k < l
    BY <2>0 DEF Numbered
  <2>3. \A k \in lo + 1 .. hi : \E i \in 1 .. Len(r) : r[i] = F[k]
    BY <1>0, <1>2, SMTT(60) DEF Numbered
  <2> QED  BY <2>1, <2>2, <2>3 DEF Numbered
<1> QED  BY <1>1, <1>2 DEF r

\* Numbered elements, when the head leaves: the next one, or none of them.
LEMMA NumberedTail ==
  ASSUME NEW T, NEW q \in Seq(T), NEW F, Counts(F, T), NEW lo \in Nat, NEW hi \in Nat,
         q # <<>>, Numbered(q, F, lo, hi)
  PROVE  /\ \A k \in Nat : Head(q) = F[k] => k = lo + 1 /\ Numbered(Tail(q), F, lo + 1, hi)
         /\ (\A k \in Nat : Head(q) # F[k]) => Numbered(Tail(q), F, lo, hi)
<1> DEFINE r == Tail(q)
<1>0. /\ Len(q) \in Nat /\ Len(q) > 0 /\ Len(r) = Len(q) - 1 /\ Head(q) = q[1]
      /\ \A i \in 1 .. Len(q) - 1 : r[i] = q[i + 1]
  BY TailAt
<1> HIDE DEF r
<1>1. ASSUME NEW i \in 1 .. Len(r), NEW j \in 1 .. Len(r), NEW k \in Nat, NEW l \in Nat,
             i < j, r[i] = F[k], r[j] = F[l]
      PROVE  k < l
  <2>1. i + 1 \in 1 .. Len(q) /\ j + 1 \in 1 .. Len(q) /\ i + 1 < j + 1
    BY <1>0, <1>1, SMTT(60)
  <2>2. q[i + 1] = F[k] /\ q[j + 1] = F[l]
    BY <1>0, <1>1, SMTT(60)
  <2> QED  BY <2>1, <2>2, ZenonT(30) DEF Numbered
<1>2. ASSUME NEW k \in Nat, Head(q) = F[k]
      PROVE  k = lo + 1 /\ Numbered(r, F, lo + 1, hi)
  <2>1. lo < k /\ k <= hi /\ 1 \in 1 .. Len(q) /\ q[1] = F[k]
    BY <1>0, <1>2, SMTT(60) DEF Numbered
  <2>2. PICK i \in 1 .. Len(q) : q[i] = F[lo + 1]
    BY <2>1, SMTT(60) DEF Numbered
  <2>3. i = 1
    BY <2>1, <2>2, SMTT(60) DEF Numbered
  <2>4. k = lo + 1
    BY <2>1, <2>2, <2>3, SMTT(60) DEF Counts
  <2>5. \A j \in 1 .. Len(r), l \in Nat : r[j] = F[l] => lo + 1 < l /\ l <= hi
    BY <1>0, <2>1, <2>4, SMTT(60) DEF Numbered
  <2>6. ASSUME NEW l \in (lo + 1) + 1 .. hi PROVE \E j \in 1 .. Len(r) : r[j] = F[l]
    <3>1. PICK j \in 1 .. Len(q) : q[j] = F[l]
      BY SMTT(60) DEF Numbered
    <3>2. j # 1
      BY <2>1, <2>4, <3>1, SMTT(60) DEF Counts
    <3>3. j - 1 \in 1 .. Len(r) /\ r[j - 1] = F[l]
      BY <1>0, <3>1, <3>2, SMTT(60)
    <3> QED  BY <3>3
  <2> QED  BY <1>1, <2>1, <2>4, <2>5, <2>6 DEF Numbered
<1>3. ASSUME \A k \in Nat : Head(q) # F[k] PROVE Numbered(r, F, lo, hi)
  <2>1. \A j \in 1 .. Len(r), l \in Nat : r[j] = F[l] => lo < l /\ l <= hi
    BY <1>0, SMTT(60) DEF Numbered
  <2>2. ASSUME NEW l \in lo + 1 .. hi PROVE \E j \in 1 .. Len(r) : r[j] = F[l]
    <3>1. PICK j \in 1 .. Len(q) : q[j] = F[l]
      BY DEF Numbered
    <3>2. j # 1
      BY <1>0, <1>3, <3>1, SMTT(60)
    <3>3. j - 1 \in 1 .. Len(r) /\ r[j - 1] = F[l]
      BY <1>0, <3>1, <3>2, SMTT(60)
    <3> QED  BY <3>3
  <2> QED  BY <1>1, <2>1, <2>2 DEF Numbered
<1> QED  BY <1>2, <1>3 DEF r

\* Numbered elements of a queue that is cut: the first ones are left.
LEMMA NumberedCut ==
  ASSUME NEW T, NEW q \in Seq(T), NEW F, Counts(F, T), NEW lo \in Nat, NEW hi \in Nat,
         NEW p \in Prefix(q), Numbered(q, F, lo, hi)
  PROVE  \E h \in Nat : Numbered(p, F, lo, h)
<1>0. /\ Len(p) \in 0 .. Len(q) /\ Len(q) \in Nat
      /\ \A i \in 1 .. Len(p) : p[i] = q[i]
  BY PrefixAt
<1> DEFINE Lost(k) == \A i \in 1 .. Len(p) : p[i] # F[k]
           K == {k \in lo + 1 .. hi : Lost(k)}
<1>1. \A i \in 1 .. Len(p), k \in Nat : p[i] = F[k] => lo < k /\ k <= hi
  BY <1>0, SMTT(60) DEF Numbered
<1>2. \A i, j \in 1 .. Len(p), k, l \in Nat : i < j /\ p[i] = F[k] /\ p[j] = F[l] => k < l
  BY <1>0, SMTT(60) DEF Numbered
<1>3. CASE K = {}
  <2>1. \A k \in lo + 1 .. hi : \E i \in 1 .. Len(p) : p[i] = F[k]
    BY <1>3
  <2> QED  BY <1>1, <1>2, <2>1, Zenon DEF Numbered
<1>4. CASE K # {}
  <2>1. PICK m \in K : \A k \in K : m <= k
    <3>1. K \in SUBSET Nat /\ K # {}
      BY <1>4, SMTT(60)
    <3> HIDE DEF K
    <3> QED  BY <3>1, SmallestNat
  <2>2. m \in lo + 1 .. hi /\ Lost(m)
    BY <2>1
  <2>3. PICK j \in 1 .. Len(q) : q[j] = F[m]
    BY <2>2 DEF Numbered
  <2>4. Len(p) < j
    BY <1>0, <2>2, <2>3
  <2>5. ASSUME NEW i \in 1 .. Len(p), NEW k \in Nat, p[i] = F[k] PROVE k <= m - 1
    <3>1. i \in 1 .. Len(q) /\ q[i] = F[k] /\ i < j
      BY <1>0, <2>4, <2>5
    <3>2. k < m
      BY <2>2, <2>3, <3>1, SMTT(60) DEF Numbered
    <3> QED  BY <2>2, <3>2
  <2>6. ASSUME NEW k \in lo + 1 .. m - 1 PROVE \E i \in 1 .. Len(p) : p[i] = F[k]
    <3>1. k \notin K
      BY <2>1, <2>2, SMTT(60)
    <3> QED  BY <2>2, <3>1, SMTT(60)
  <2>7. m - 1 \in Nat /\ lo <= m - 1
    BY <2>2
  <2>8. Numbered(p, F, lo, m - 1)
    <3> HIDE DEF K, Lost
    <3> QED  BY <1>1, <1>2, <2>5, <2>6, <2>7 DEF Numbered
  <2> QED  BY <2>7, <2>8
<1> QED  BY <1>3, <1>4

\* None of them is lost when the rest of the queue holds none.
LEMMA NumberedKept ==
  ASSUME NEW T, NEW q \in Seq(T), NEW F, NEW lo \in Nat, NEW hi \in Nat,
         NEW p \in Prefix(q), Numbered(q, F, lo, hi),
         \A j \in 1 .. Len(q), k \in Nat : q[j] = F[k] => j \in 1 .. Len(p)
  PROVE  Numbered(p, F, lo, hi)
<1>0. /\ Len(p) \in 0 .. Len(q) /\ Len(q) \in Nat
      /\ \A i \in 1 .. Len(p) : p[i] = q[i]
  BY PrefixAt
<1>1. \A i \in 1 .. Len(p), k \in Nat : p[i] = F[k] => lo < k /\ k <= hi
  BY <1>0, SMTT(60) DEF Numbered
<1>2. \A i, j \in 1 .. Len(p), k, l \in Nat : i < j /\ p[i] = F[k] /\ p[j] = F[l] => k < l
  BY <1>0, SMTT(60) DEF Numbered
<1>3. ASSUME NEW k \in lo + 1 .. hi PROVE \E i \in 1 .. Len(p) : p[i] = F[k]
  <2>1. PICK j \in 1 .. Len(q) : q[j] = F[k]
    BY DEF Numbered
  <2> QED  BY <1>0, <2>1, SMTT(60)
<1> QED  BY <1>1, <1>2, <1>3 DEF Numbered

\* A queue without numbered elements.
LEMMA NumberedNone ==
  ASSUME NEW T, NEW q \in Seq(T), NEW F, NEW lo \in Nat, NEW hi \in Nat,
         \A i \in 1 .. Len(q), k \in Nat : q[i] # F[k]
  PROVE  Numbered(q, F, lo, hi) <=> lo = hi
  BY SMTT(60) DEF Numbered

\* Before the n-th numbered element come all those from the first on.
LEMMA NumberedBefore ==
  ASSUME NEW T, NEW q \in Seq(T), NEW F, Counts(F, T), NEW lo \in Nat, NEW hi \in Nat,
         Numbered(q, F, lo, hi), NEW i \in 1 .. Len(q), NEW n \in Nat, q[i] = F[n]
  PROVE  /\ lo < n
         /\ \A k \in Nat : (\E j \in 1 .. i - 1 : q[j] = F[k]) <=> k \in lo + 1 .. n - 1
<1>1. lo < n /\ n <= hi
  BY DEF Numbered
<1>2. ASSUME NEW k \in Nat, NEW j \in 1 .. i - 1, q[j] = F[k] PROVE k \in lo + 1 .. n - 1
  <2>1. j \in 1 .. Len(q) /\ j < i
    OBVIOUS
  <2>2. lo < k /\ k < n
    BY <1>2, <2>1 DEF Numbered
  <2> QED  BY <2>2
<1>3. ASSUME NEW k \in lo + 1 .. n - 1 PROVE \E j \in 1 .. i - 1 : q[j] = F[k]
  <2>1. k \in lo + 1 .. hi /\ k \in Nat /\ k < n
    BY <1>1
  <2>2. PICK j \in 1 .. Len(q) : q[j] = F[k]
    BY <2>1 DEF Numbered
  <2>3. j # i /\ ~(i < j)
    <3>1. ~(i < j)
      <4>1. i < j => n < k
        BY <2>1, <2>2 DEF Numbered
      <4> QED  BY <2>1, <4>1, SMTT(60)
    <3>2. ASSUME j = i PROVE FALSE
      <4>1. F[n] = F[k]
        BY <2>2, <3>2
      <4> QED  BY <2>1, <4>1, SMTT(60) DEF Counts
    <3> QED  BY <3>1, <3>2
  <2>4. j \in 1 .. i - 1
    BY <2>3
  <2> QED  BY <2>2, <2>4
<1> QED  BY <1>1, <1>2, <1>3

-----------------------------------------------------------------------------
(* Messages *)

\* What the builders of src/messages.c return is a message.
LEMMA Builders ==
  /\ \A type \in {"ACK", "EXIT", "TICK"} : nrm_msg_fill(type) \in Message
  /\ \A a \in Actuator : nrm_msg_set_add("ACTUATOR", a) \in Message
  /\ \A target \in PlainTargets, u \in Uuids : nrm_msg_set_add(target, u) \in Message
  /\ \A target \in Targets : nrm_msg_set_list(target, NULL) \in Message
  /\ \A target \in Targets, us \in SUBSET Uuids : nrm_msg_set_list(target, us) \in Message
  /\ \A target \in Targets, u \in Uuids : nrm_msg_set_remove(target, u) \in Message
  /\ \A u \in Uuids, v \in Int : nrm_msg_set_actuate(u, v) \in Message
  /\ \A e \in Event : nrm_msg_set_events(e) \in Message
<1>1. \A type \in {"ACK", "EXIT", "TICK"} : nrm_msg_fill(type) \in Message
  BY DEF Message, nrm_msg_fill
<1>2. \A a \in Actuator : nrm_msg_set_add("ACTUATOR", a) \in Message
  BY DEF Message, nrm_msg_set_add
<1>3. \A target \in PlainTargets, u \in Uuids : nrm_msg_set_add(target, u) \in Message
  BY DEF Message, nrm_msg_set_add
<1>4. \A target \in Targets : nrm_msg_set_list(target, NULL) \in Message
  BY DEF Message, nrm_msg_set_list
<1>5. \A target \in Targets, us \in SUBSET Uuids : nrm_msg_set_list(target, us) \in Message
  BY DEF Message, nrm_msg_set_list
<1>6. \A target \in Targets, u \in Uuids : nrm_msg_set_remove(target, u) \in Message
  BY DEF Message, nrm_msg_set_remove
<1>7. \A u \in Uuids, v \in Int : nrm_msg_set_actuate(u, v) \in Message
  BY DEF Message, nrm_msg_set_actuate
<1>8. \A e \in Event : nrm_msg_set_events(e) \in Message
  BY DEF Message, nrm_msg_set_events
<1> QED  BY <1>1, <1>2, <1>3, <1>4, <1>5, <1>6, <1>7, <1>8

\* The argument a message of each type carries.
LEMMA Arguments ==
  ASSUME NEW m \in Message
  PROVE  /\ m.type = "ACTUATE" => m.arg[1] \in Uuids /\ m.arg[2] \in Int
         /\ m.type = "EVENTS" => m.arg \in Event
         /\ m.type = "ADD" /\ m.target = "ACTUATOR" => m.arg \in Actuator
         /\ m.type = "ADD" /\ m.target # "ACTUATOR" => m.target \in PlainTargets /\ m.arg \in Uuids
         /\ m.type \in {"ADD", "LIST", "REMOVE"} => m.target \in Targets
  BY DEF Message, Targets, PlainTargets

\* The replies and commands of the daemon.
LEMMA Outgoing ==
  /\ Ack \in ToClient
  /\ \A target \in Targets, us \in SUBSET Uuids : nrm_msg_set_list(target, us) \in ToClient
  /\ \A u \in Uuids, v \in Int : nrm_msg_set_actuate(u, v) \in ToClient
  /\ \A m \in Message : m.type = "ADD" => m \in ToClient
  /\ \A e \in Event : nrm_msg_set_events(e) \in ToListeners
  BY Builders DEF ToClient, ToListeners, Ack, nrm_msg_fill, nrm_msg_set_list,
                  nrm_msg_set_actuate, nrm_msg_set_events

\* Control messages, taken apart and put together.
LEMMA Control ==
  /\ \A h \in ToClientBroker : /\ h.ctrl = "SEND" => h.arg \in Message
                               /\ h.ctrl = "SUB" => h.arg \in Topics
  /\ \A m \in Message : [ctrl |-> "SEND", arg |-> m] \in ToClientBroker
  /\ \A topic \in Topics : [ctrl |-> "SUB", arg |-> topic] \in ToClientBroker
  /\ [ctrl |-> "TERM", arg |-> NULL] \in ToClientBroker
  /\ \A h \in ToControllerBroker :
       /\ h.ctrl = "SEND" => h.to \in Clients /\ h.msg \in ToClient
       /\ h.ctrl = "PUB" => h.to \in Topics /\ h.msg \in ToListeners
  /\ \A c \in Clients, m \in ToClient : Send(c, m) \in ToControllerBroker
  /\ \A topic \in Topics, m \in ToListeners : Pub(topic, m) \in ToControllerBroker
  /\ Term \in ToControllerBroker
  BY DEF ToClientBroker, ToControllerBroker, Send, Pub, Term

-----------------------------------------------------------------------------
(* What calls and handlers send *)

\* The calls that expect an answer send messages.
LEMMA AskTypes ==
  ASSUME TypeOK, NEW t \in Threads,
         \/ \E a \in Objects, v \in RequestValues : nrm_client_actuate(t, a, v)
         \/ \E a \in Objects : nrm_client_add_actuator(t, a)
         \/ \E target \in RequestTargets \cap PlainTargets, u \in Uuids : nrm_client_add(t, target, u)
         \/ \E target \in RequestTargets : nrm_client_list(t, target)
         \/ \E target \in RequestTargets : nrm_client_find(t, target)
         \/ \E target \in RequestTargets, u \in Uuids : nrm_client_remove(t, target, u)
         \/ nrm_client_send_tick(t)
  PROVE  \E m \in Message, call \in Calls : /\ m.type \notin {"EVENTS", "EXIT"}
                                           /\ Request(t, call, m)
<1>1. ASSUME NEW a \in Objects, NEW v \in RequestValues, nrm_client_actuate(t, a, v)
      PROVE  /\ nrm_msg_set_actuate(a.uuid, v) \in Message
             /\ Request(t, "actuate", nrm_msg_set_actuate(a.uuid, v))
  <2>1. a.uuid \in Uuids /\ v \in Int
    BY ClientAssumption DEF Actuator, ContinuousActuator, DiscreteActuator
  <2> QED  BY <1>1, <2>1, Builders DEF nrm_client_actuate
<1>2. ASSUME NEW a \in Objects
      PROVE  nrm_msg_set_add("ACTUATOR", a) \in Message
  BY ClientAssumption, Builders
<1>3. ASSUME NEW target \in RequestTargets
      PROVE  /\ nrm_msg_set_list(target, NULL) \in Message
             /\ \A u \in Uuids : nrm_msg_set_remove(target, u) \in Message
  BY ClientAssumption, Builders
<1>4. \A target \in RequestTargets \cap PlainTargets, u \in Uuids :
        nrm_msg_set_add(target, u) \in Message
  BY Builders
<1>5. nrm_msg_fill("TICK") \in Message
  BY Builders
<1>6. \A x, y : /\ nrm_msg_set_actuate(x, y).type = "ACTUATE"
               /\ nrm_msg_set_add(x, y).type = "ADD"
               /\ nrm_msg_set_list(x, y).type = "LIST"
               /\ nrm_msg_set_remove(x, y).type = "REMOVE"
               /\ nrm_msg_fill(x).type = x
  BY DEF nrm_msg_set_actuate, nrm_msg_set_add, nrm_msg_set_list, nrm_msg_set_remove, nrm_msg_fill
<1> QED
  BY <1>1, <1>2, <1>3, <1>4, <1>5, <1>6 DEF nrm_client_add_actuator, nrm_client_add,
     nrm_client_list, nrm_client_find, nrm_client_remove, nrm_client_send_tick, Calls

\* A message the server's callback takes from the pipe.
LEMMA ReceivedTypes ==
  ASSUME ServerTypeOK, NEW type, nrm_server_role_callback(type)
  PROVE  /\ From \in Clients /\ Received \in Message /\ Received.type = type
         /\ ctlRecv' \in Seq(FromControllerBroker)
         /\ daemon = "running" /\ loop = NULL
<1>1. /\ ctlRecv # <<>> /\ Head(ctlRecv).msg.type = type /\ ctlRecv' = Tail(ctlRecv)
      /\ daemon = "running" /\ loop = NULL
  BY DEF nrm_server_role_callback
<1>2. Head(ctlRecv) \in FromControllerBroker /\ Tail(ctlRecv) \in Seq(FromControllerBroker)
  BY <1>1, QueueTypes DEF ServerTypeOK
<1> QED  BY <1>1, <1>2 DEF FromControllerBroker, From, Received

\* Setting a registered actuator's value, and the command it gives rise to.
LEMMA SetValueTypes ==
  ASSUME ServerTypeOK, NEW u \in Uuids, NEW v \in Int, actuators[u] # NULL, SetValue(u, v)
  PROVE  /\ actuators' \in [Uuids -> Registered \cup {NULL}]
         /\ Command(u, v) \in ToControllerBroker
<1>1. actuators[u] \in Registered
  BY DEF ServerTypeOK
<1> DEFINE w == nrm_actuator_corrected_value(actuators[u].obj, v)
<1>2. w \in Int
  BY <1>1, CorrectedType DEF Registered
<1>3. actuators' = [actuators EXCEPT ![u].value = w]
  BY DEF SetValue
<1>4. Command(u, v) = Send(actuators[u].owner, nrm_msg_set_actuate(u, w))
  BY DEF Command
<1> HIDE DEF w
<1>5. [actuators[u] EXCEPT !.value = w] \in Registered
  BY <1>1, <1>2 DEF Registered
<1>6. actuators' \in [Uuids -> Registered \cup {NULL}]
  BY <1>3, <1>5 DEF ServerTypeOK
<1>7. actuators[u].owner \in Clients
  BY <1>1 DEF Registered
<1> QED  BY <1>2, <1>4, <1>6, <1>7, Outgoing, Control

\* What the registry lists are uuids.
LEMMA ListTypes ==
  ASSUME ServerTypeOK, NEW target \in Targets
  PROVE  nrm_state_list(target) \in SUBSET Uuids
  BY DEF ServerTypeOK, nrm_state_list, Targets

\* The first output exists when there is one.
LEMMA StartTypes ==
  ASSUME Outputs # <<>>, NEW from \in Clients \cup {NULL}, StartControl(from)
  PROVE  loop' \in ControlLoop
<1>1. 1 \in DOMAIN Outputs
  BY ServerAssumption
<1> QED  BY <1>1 DEF StartControl, ControlLoop

-----------------------------------------------------------------------------
(* The place of a request and of its answer *)

\* Without a request it does not matter whose answer is expected.
LEMMA NowhereAny ==
  ASSUME NEW c, NEW r, NEW x, At(c, r, "nowhere")
  PROVE  At(c, x, "nowhere")
  BY DEF At, Holds

\* A step that touches nothing on the way leaves the request where it is.
LEMMA AtFrame ==
  ASSUME NEW c, NEW r, NEW s, At(c, r, s),
         toBroker'[c] = toBroker[c], up'[c] = up[c], ctlRecv' = ctlRecv, loop' = loop,
         ctlSend' = ctlSend, down'[c] = down[c], fromBroker'[c] = fromBroker[c]
  PROVE  At(c, r, s)'
  BY DEF At, Ticking

\* The kinds of messages: what is looked for is of the kind counted.
LEMMA Kinds ==
  ASSUME NEW c \in Clients, NEW r \in Asking
  PROVE  /\ Sent(r) \in SUBSET AskingOnPipe
         /\ {r} \in SUBSET Asking
         /\ Got(c, r) \in SUBSET AskingFrom(c)
         /\ AnswersTo(c, RepliesFor(r)) \in SUBSET AnswersTo(c, Replies)
         /\ RepliesFor(r) \in SUBSET Replies
         /\ RepliesFor(r) \in SUBSET Message
<1>1. r \in Message
  BY DEF Asking
<1>2. [ctrl |-> "SEND", arg |-> r] \in AskingOnPipe
  BY <1>1, Control DEF AskingOnPipe
<1>3. [from |-> c, msg |-> r] \in AskingFrom(c)
  BY <1>1 DEF AskingFrom, FromControllerBroker
<1> QED  BY <1>2, <1>3 DEF AnswersTo, RepliesFor, Replies, Sent, Got

\* Request r of client c moves along its way, or stays, or is lost.
Moves(c, r, s) ==
  \E z \in Stages : At(c, r, z)' /\ (s = "nowhere" => z = "nowhere")

-----------------------------------------------------------------------------
(* Types: the steps of the clients *)

\* Every call that sends keeps the types when what it sends is a message.
LEMMA SendTypes ==
  ASSUME ClientTypeOK, NEW t \in Threads, NEW m \in Message, nrm_role_client_send(t, m)
  PROVE  /\ toBroker' \in [Clients -> Seq(ToClientBroker)]
         /\ UNCHANGED <<status, lock, fromBroker, cmdcb, subcb, added, brokerVars, netVars>>
<1>1. ClientOf[t] \in Clients
  BY ClientAssumption
<1>2. Append(toBroker[ClientOf[t]], [ctrl |-> "SEND", arg |-> m]) \in Seq(ToClientBroker)
  BY <1>1, Control, QueueTypes DEF ClientTypeOK
<1> QED
  BY <1>1, <1>2 DEF nrm_role_client_send, nrm_ctrlmsg_send, ClientTypeOK

\* A call that sends a request keeps the types of the client.
LEMMA RequestTypes ==
  ASSUME ClientTypeOK, NEW t \in Threads, NEW call, NEW m \in Message, Request(t, call, m)
  PROVE  ClientTypeOK' /\ UNCHANGED netVars
<1>1. calls' \in [Threads -> 0..MaxCalls]
  BY ClientAssumption, SMTT(60) DEF Request, CanCall, ClientTypeOK
<1>2. /\ toBroker' \in [Clients -> Seq(ToClientBroker)]
      /\ UNCHANGED <<status, lock, fromBroker, cmdcb, subcb, added, brokerVars, netVars>>
  BY SendTypes DEF Request
<1> QED
  BY <1>1, <1>2 DEF Request, ClientTypeOK, brokerVars

\* A step that leaves the sockets alone keeps their types.
LEMMA NetStutterTypes ==
  ASSUME NetTypeOK, UNCHANGED netVars
  PROVE  NetTypeOK'
  BY DEF NetTypeOK, netVars

\* The count of calls stays within its bound.
LEMMA CallsTypes ==
  ASSUME ClientTypeOK, NEW t \in Threads, NEW call, CanCall(t, call)
  PROVE  calls' \in [Threads -> 0..MaxCalls]
  BY ClientAssumption, SMTT(60) DEF CanCall, ClientTypeOK

\* nrm_client_send_event sends an event, numbered with the count of its client.
LEMMA EventTypes ==
  ASSUME TypeOK, NEW t \in Threads, nrm_client_send_event(t)
  PROVE  ClientTypeOK' /\ UNCHANGED netVars
<1> DEFINE c == ClientOf[t]
           m == nrm_msg_set_events([from |-> c, n |-> sent[c] + 1])
<1>1. c \in Clients /\ ClientTypeOK
  BY ClientAssumption DEF TypeOK
<1>2. [from |-> c, n |-> sent[c] + 1] \in Event
  BY <1>1, SMTT(60) DEF Event, ClientTypeOK
<1>3. m \in Message
  BY <1>2, Builders
<1>4. sent' \in [Clients -> Nat] /\ UNCHANGED <<pc, req, exitSent>>
  BY <1>1, SMTT(60) DEF nrm_client_send_event, ClientTypeOK
<1>5. CanCall(t, "event") /\ nrm_role_client_send(t, m)
  BY DEF nrm_client_send_event
<1> HIDE DEF m
<1>6. /\ toBroker' \in [Clients -> Seq(ToClientBroker)]
      /\ UNCHANGED <<status, lock, fromBroker, cmdcb, subcb, added, brokerVars, netVars>>
  BY <1>1, <1>3, <1>5, SendTypes
<1>7. calls' \in [Threads -> 0..MaxCalls]
  BY <1>1, <1>5, CallsTypes
<1> QED
  BY <1>1, <1>4, <1>6, <1>7 DEF ClientTypeOK, brokerVars

\* nrm_client_send_exit sends a message without argument.
LEMMA ExitTypes ==
  ASSUME TypeOK, NEW t \in Threads, nrm_client_send_exit(t)
  PROVE  ClientTypeOK' /\ UNCHANGED netVars
<1>1. ClientOf[t] \in Clients /\ ClientTypeOK
  BY ClientAssumption DEF TypeOK
<1>2. CanCall(t, "exit") /\ nrm_role_client_send(t, nrm_msg_fill("EXIT"))
  BY DEF nrm_client_send_exit
<1>3. /\ toBroker' \in [Clients -> Seq(ToClientBroker)]
      /\ UNCHANGED <<status, lock, fromBroker, cmdcb, subcb, added, brokerVars, netVars>>
  BY <1>1, <1>2, Builders, SendTypes
<1>4. calls' \in [Threads -> 0..MaxCalls]
  BY <1>1, <1>2, CallsTypes
<1> QED
  BY <1>1, <1>3, <1>4 DEF nrm_client_send_exit, ClientTypeOK, brokerVars

\* A closed client's sockets keep their types.
LEMMA CloseTypes ==
  ASSUME NetTypeOK, NEW c \in Clients, CloseClientSockets(c)
  PROVE  NetTypeOK'
<1>1. Prefix(up[c]) \subseteq Seq(Message)
  BY QueueTypes DEF NetTypeOK
<1> QED  BY <1>1, SMTT(60) DEF CloseClientSockets, NetTypeOK

\* A reply a thread takes from the pipe is a message of the daemon, and what it
\* adds to the client's record is a target and a uuid.
LEMMA RecvTypes ==
  ASSUME TypeOK, NEW t \in Threads, nrm_role_client_recv(t)
  PROVE  ClientTypeOK' /\ NetTypeOK'
<1> DEFINE c == ClientOf[t]
           m == Head(fromBroker[c])
           x == <<m.target, UuidOf(m)>>
           TU == Targets \X Uuids
<1>0. c \in Clients /\ ClientTypeOK /\ NetTypeOK
  BY ClientAssumption DEF TypeOK
<1>1. m \in ToClient /\ Tail(fromBroker[c]) \in Seq(ToClient)
  BY <1>0, QueueTypes DEF ClientTypeOK, nrm_role_client_recv
<1>2. m.type = "ADD" => x \in TU
  <2>1. m \in Message
    BY <1>1 DEF ToClient
  <2>2. \A a \in Actuator : a.uuid \in Uuids
    BY DEF Actuator, ContinuousActuator, DiscreteActuator
  <2> HIDE DEF m
  <2> QED  BY <2>1, <2>2, Arguments DEF UuidOf
<1>3. /\ \/ added' = added
         \/ m.type = "ADD" /\ added' = [added EXCEPT ![c] = @ \cup {x}]
      /\ \/ status' = status /\ UNCHANGED netVars
         \/ status' = [status EXCEPT ![c] = "aborted"] /\ CloseClientSockets(c)
  BY Zenon DEF nrm_role_client_recv
<1>4. /\ fromBroker' = [fromBroker EXCEPT ![c] = Tail(@)]
      /\ lock' = [lock EXCEPT ![c] = NULL]
      /\ pc' = [pc EXCEPT ![t] = "idle"]
      /\ req' = [req EXCEPT ![t] = NULL]
      /\ UNCHANGED <<toBroker, cmdcb, subcb, calls, sent, exitSent, brokerVars>>
  BY DEF nrm_role_client_recv
<1>5. added \in [Clients -> SUBSET TU]
  BY <1>0 DEF ClientTypeOK
<1> HIDE DEF m, x, TU
<1>6. added' \in [Clients -> SUBSET TU]
  BY <1>0, <1>2, <1>3, <1>5, SMTT(60)
<1>7. status' \in [Clients -> {"open", "closing", "closed", "aborted", "segv"}]
  BY <1>0, <1>3 DEF ClientTypeOK
<1>8. NetTypeOK'
  BY <1>0, <1>3, CloseTypes, NetStutterTypes
<1>9. fromBroker' \in [Clients -> Seq(ToClient)]
  BY <1>0, <1>1, <1>4 DEF ClientTypeOK
<1> QED
  BY <1>0, <1>4, <1>6, <1>7, <1>8, <1>9 DEF ClientTypeOK, brokerVars, TU

\* Registering a callback touches the client only.
LEMMA ListenTypes ==
  ASSUME TypeOK, NEW t \in Threads,
         \/ nrm_role_client_register_cmd_cb(t) \/ register_cmd_cb_arg(t)
         \/ nrm_role_client_register_sub_cb(t)
  PROVE  ClientTypeOK' /\ UNCHANGED netVars
<1>0. ClientOf[t] \in Clients /\ ClientTypeOK
  BY ClientAssumption DEF TypeOK
<1>1. CASE nrm_role_client_register_cmd_cb(t)
  <2>1. calls' \in [Threads -> 0..MaxCalls]
    BY <1>0, <1>1, CallsTypes DEF nrm_role_client_register_cmd_cb
  <2> QED
    BY <1>0, <1>1, <2>1 DEF nrm_role_client_register_cmd_cb, ClientTypeOK, brokerVars
<1>2. CASE register_cmd_cb_arg(t)
  BY <1>0, <1>2 DEF register_cmd_cb_arg, ClientTypeOK, brokerVars
<1>3. CASE nrm_role_client_register_sub_cb(t)
  <2>1. calls' \in [Threads -> 0..MaxCalls]
    BY <1>0, <1>3, CallsTypes DEF nrm_role_client_register_sub_cb
  <2> QED
    BY <1>0, <1>3, <2>1 DEF nrm_role_client_register_sub_cb, ClientTypeOK, brokerVars
<1> QED  BY <1>1, <1>2, <1>3

\* A subscription puts a topic on the pipe to the broker.
LEMMA SubTypes ==
  ASSUME TypeOK, NEW t \in Threads, NEW topic \in Topics, nrm_role_client_sub(t, topic)
  PROVE  ClientTypeOK' /\ UNCHANGED netVars
<1>0. ClientOf[t] \in Clients /\ ClientTypeOK
  BY ClientAssumption DEF TypeOK
<1>1. Append(toBroker[ClientOf[t]], [ctrl |-> "SUB", arg |-> topic]) \in Seq(ToClientBroker)
  BY <1>0, Control, QueueTypes DEF ClientTypeOK
<1> QED
  BY <1>0, <1>1 DEF nrm_role_client_sub, nrm_ctrlmsg_send, ClientTypeOK, brokerVars

\* nrm_client_destroy puts TERM on the pipe to the broker.
LEMMA DestroyTypes ==
  ASSUME TypeOK, NEW t \in Threads, nrm_client_destroy(t)
  PROVE  ClientTypeOK' /\ UNCHANGED netVars
<1>0. ClientOf[t] \in Clients /\ ClientTypeOK
  BY ClientAssumption DEF TypeOK
<1>1. Append(toBroker[ClientOf[t]], [ctrl |-> "TERM", arg |-> NULL]) \in Seq(ToClientBroker)
  BY <1>0, Control, QueueTypes DEF ClientTypeOK
<1>2. calls' \in [Threads -> 0..MaxCalls]
  BY <1>0, CallsTypes DEF nrm_client_destroy
<1> QED
  BY <1>0, <1>1, <1>2 DEF nrm_client_destroy, nrm_ctrlmsg_send, ClientTypeOK, brokerVars

\* Every step of a thread keeps the types of the client and of the sockets.
LEMMA ThreadTypes ==
  ASSUME TypeOK, NEW t \in Threads, ThreadNext(t)
  PROVE  ClientTypeOK' /\ NetTypeOK'
<1>0. ClientTypeOK /\ NetTypeOK
  BY DEF TypeOK
<1>1. CASE \E m \in Message, call \in Calls : Request(t, call, m)
  BY <1>0, <1>1, RequestTypes, NetStutterTypes
<1>2. CASE nrm_client_send_event(t) \/ nrm_client_send_exit(t)
  BY <1>0, <1>2, EventTypes, ExitTypes, NetStutterTypes
<1>3. CASE LockForReply(t)
  <2>1. ClientOf[t] \in Clients
    BY ClientAssumption
  <2>2. ClientTypeOK' /\ UNCHANGED netVars
    BY <1>0, <1>3, <2>1 DEF LockForReply, ClientTypeOK, brokerVars
  <2> QED  BY <1>0, <2>2, NetStutterTypes
<1>4. CASE nrm_role_client_recv(t)
  BY <1>4, RecvTypes
<1>5. CASE \/ nrm_role_client_register_cmd_cb(t) \/ register_cmd_cb_arg(t)
           \/ nrm_role_client_register_sub_cb(t) \/ nrm_client_destroy(t)
  BY <1>0, <1>5, ListenTypes, DestroyTypes, NetStutterTypes
<1>6. CASE \E topic \in Topics : nrm_role_client_sub(t, topic)
  BY <1>0, <1>6, SubTypes, NetStutterTypes
<1> QED
  BY <1>1, <1>2, <1>3, <1>4, <1>5, <1>6, AskTypes DEF ThreadNext

\* The client's broker sends messages, sets topics, or closes its sockets.
LEMMA ClientPipeTypes ==
  ASSUME TypeOK, NEW c \in Clients, nrm_client_broker_pipe_handler(c)
  PROVE  ClientTypeOK' /\ NetTypeOK'
<1> DEFINE h == Head(toBroker[c])
<1>0. ClientTypeOK /\ NetTypeOK
  BY DEF TypeOK
<1>1. h \in ToClientBroker /\ Tail(toBroker[c]) \in Seq(ToClientBroker)
  BY <1>0, QueueTypes DEF ClientTypeOK, nrm_client_broker_pipe_handler
<1>2. status' \in [Clients -> {"open", "closing", "closed", "aborted", "segv"}]
  BY <1>0 DEF ClientTypeOK, nrm_client_broker_pipe_handler
<1>3. /\ toBroker' = [toBroker EXCEPT ![c] = Tail(@)]
      /\ UNCHANGED <<threadVars, fromBroker, cmdcb, subcb, brokerVars>>
      /\ \/ /\ h.ctrl = "SEND" /\ nrm_msg_send(c, h.arg)
            /\ UNCHANGED <<down, pubs, wanted, topics, connected, serving>>
         \/ /\ h.ctrl = "SUB" /\ nrm_net_sub_set_topic(c, h.arg)
            /\ UNCHANGED <<up, down, pubs, topics, connected, serving>>
         \/ CloseClientSockets(c)
  BY DEF nrm_client_broker_pipe_handler
<1>4. ClientTypeOK'
  BY <1>0, <1>1, <1>2, <1>3 DEF ClientTypeOK, threadVars, brokerVars
<1> HIDE DEF h
<1>5. h.ctrl = "SEND" => Append(up[c], h.arg) \in Seq(Message)
  BY <1>0, <1>1, Control, QueueTypes DEF NetTypeOK
<1>6. h.ctrl = "SUB" => h.arg \in Topics
  BY <1>1, Control
<1>7. NetTypeOK'
  <2>1. CASE /\ h.ctrl = "SEND" /\ nrm_msg_send(c, h.arg)
             /\ UNCHANGED <<down, pubs, wanted, topics, connected, serving>>
    BY <1>0, <1>5, <2>1 DEF NetTypeOK, nrm_msg_send
  <2>2. CASE /\ h.ctrl = "SUB" /\ nrm_net_sub_set_topic(c, h.arg)
             /\ UNCHANGED <<up, down, pubs, topics, connected, serving>>
    BY <1>0, <1>6, <2>2 DEF NetTypeOK, nrm_net_sub_set_topic
  <2> QED  BY <1>0, <1>3, <2>1, <2>2, CloseTypes
<1> QED  BY <1>4, <1>7

\* Replies and commands are what a connection carries to a client.
LEMMA ClientRpcTypes ==
  ASSUME TypeOK, NEW c \in Clients, nrm_client_broker_rpc_handler(c)
  PROVE  ClientTypeOK' /\ NetTypeOK'
<1> DEFINE m == Head(down[c])
<1>0. ClientTypeOK /\ NetTypeOK
  BY DEF TypeOK
<1>1. m \in ToClient /\ Tail(down[c]) \in Seq(ToClient)
  BY <1>0, QueueTypes DEF NetTypeOK, nrm_client_broker_rpc_handler
<1>2. /\ UNCHANGED <<threadVars, toBroker, cmdcb, subcb, heard>>
      /\ \/ /\ down' = [down EXCEPT ![c] = Tail(@)]
            /\ fromBroker' = [fromBroker EXCEPT ![c] = Append(@, m)]
            /\ UNCHANGED <<status, applied, missed, up, pubs, wanted, topics, connected, serving>>
         \/ /\ ~nrm_msg_is_reply(m)
            /\ CommandCallback(c, m.arg[1], m.arg[2])
            /\ UNCHANGED fromBroker
  BY DEF nrm_client_broker_rpc_handler
<1>3. Append(fromBroker[c], m) \in Seq(ToClient)
  BY <1>0, <1>1, QueueTypes DEF ClientTypeOK
<1>4. ~nrm_msg_is_reply(m) => m.arg[1] \in Uuids /\ m.arg[2] \in Int
  BY <1>1, Arguments DEF ToClient, nrm_msg_is_reply
<1> HIDE DEF m
<1>5. CASE /\ down' = [down EXCEPT ![c] = Tail(@)]
           /\ fromBroker' = [fromBroker EXCEPT ![c] = Append(@, m)]
           /\ UNCHANGED <<status, applied, missed, up, pubs, wanted, topics, connected, serving>>
  BY <1>0, <1>1, <1>2, <1>3, <1>5 DEF ClientTypeOK, NetTypeOK, threadVars
<1>6. ASSUME ~nrm_msg_is_reply(m), CommandCallback(c, m.arg[1], m.arg[2]), UNCHANGED fromBroker
      PROVE  ClientTypeOK' /\ NetTypeOK'
  <2>1. PICK u \in Uuids, v \in Int : CommandCallback(c, u, v)
    BY <1>4, <1>6
  <2>2. CASE /\ down' = [down EXCEPT ![c] = Tail(@)]
             /\ missed' = [missed EXCEPT ![c] = @ \cup {u}]
             /\ UNCHANGED <<status, applied, up, pubs, wanted, topics, connected, serving>>
    BY <1>0, <1>1, <1>2, <1>6, <2>2 DEF ClientTypeOK, NetTypeOK, threadVars
  <2>3. CASE /\ status' = [status EXCEPT ![c] = "segv"]
             /\ CloseClientSockets(c)
             /\ UNCHANGED <<missed, applied>>
    <3>1. ClientTypeOK'
      BY <1>0, <1>2, <1>6, <2>3 DEF ClientTypeOK, threadVars
    <3> QED  BY <1>0, <2>3, <3>1, CloseTypes
  <2>4. CASE /\ down' = [down EXCEPT ![c] = Tail(@)]
             /\ applied' = [applied EXCEPT ![c][u] = v]
             /\ missed' = [missed EXCEPT ![c] = @ \ {u}]
             /\ UNCHANGED <<status, up, pubs, wanted, topics, connected, serving>>
    <3>1. [applied[c] EXCEPT ![u] = v] \in [Uuids -> Int \cup {NULL}]
      BY <1>0 DEF ClientTypeOK
    <3>2. applied' \in [Clients -> [Uuids -> Int \cup {NULL}]]
      BY <1>0, <2>4, <3>1 DEF ClientTypeOK
    <3> QED
      BY <1>0, <1>1, <1>2, <1>6, <2>4, <3>2 DEF ClientTypeOK, NetTypeOK, threadVars
  <2> QED  BY <2>1, <2>2, <2>3, <2>4 DEF CommandCallback
<1> QED  BY <1>2, <1>5, <1>6

\* A listener is given events only.
LEMMA ClientSubTypes ==
  ASSUME TypeOK, NEW c \in Clients, nrm_client_broker_sub_handler(c)
  PROVE  ClientTypeOK' /\ NetTypeOK'
<1> DEFINE m == Head(pubs[c])
<1>0. ClientTypeOK /\ NetTypeOK
  BY DEF TypeOK
<1>1. m \in ToListeners /\ Tail(pubs[c]) \in Seq(ToListeners)
  BY <1>0, QueueTypes DEF NetTypeOK, nrm_client_broker_sub_handler
<1>2. Append(heard[c], m.arg) \in Seq(Event)
  BY <1>0, <1>1, Arguments, QueueTypes DEF ToListeners, ClientTypeOK
<1>3. /\ UNCHANGED <<threadVars, toBroker, fromBroker, cmdcb, subcb, applied, missed>>
      /\ \/ /\ status' = [status EXCEPT ![c] = "segv"]
            /\ CloseClientSockets(c)
            /\ UNCHANGED heard
         \/ /\ heard' = heard \/ heard' = [heard EXCEPT ![c] = Append(@, m.arg)]
            /\ pubs' = [pubs EXCEPT ![c] = Tail(@)]
            /\ UNCHANGED <<status, up, down, wanted, topics, connected, serving>>
  BY Zenon DEF nrm_client_broker_sub_handler
<1> HIDE DEF m
<1>4. CASE /\ status' = [status EXCEPT ![c] = "segv"]
           /\ CloseClientSockets(c)
           /\ UNCHANGED heard
  <2>1. ClientTypeOK'
    BY <1>0, <1>3, <1>4 DEF ClientTypeOK, threadVars
  <2> QED  BY <1>0, <1>4, <2>1, CloseTypes
<1>5. CASE /\ heard' = heard \/ heard' = [heard EXCEPT ![c] = Append(@, m.arg)]
           /\ pubs' = [pubs EXCEPT ![c] = Tail(@)]
           /\ UNCHANGED <<status, up, down, wanted, topics, connected, serving>>
  <2>1. heard' \in [Clients -> Seq(Event)]
    <3>1. CASE heard' = heard
      BY <1>0, <3>1 DEF ClientTypeOK
    <3>2. CASE heard' = [heard EXCEPT ![c] = Append(@, m.arg)]
      BY <1>0, <1>2, <3>2 DEF ClientTypeOK
    <3> QED  BY <1>5, <3>1, <3>2
  <2>2. ClientTypeOK'
    BY <1>0, <1>3, <1>5, <2>1 DEF ClientTypeOK, threadVars
  <2>3. NetTypeOK'
    BY <1>0, <1>1, <1>5 DEF NetTypeOK
  <2> QED  BY <2>2, <2>3
<1> QED  BY <1>3, <1>4, <1>5

-----------------------------------------------------------------------------
(* Types: the steps of the daemon *)

\* What a handler adds to the pipe to the broker.
LEMMA PushTypes ==
  ASSUME NEW q \in Seq(ToControllerBroker)
  PROVE  /\ \A c \in Clients, m \in ToClient : Append(q, Send(c, m)) \in Seq(ToControllerBroker)
         /\ \A topic \in Topics, m \in ToListeners : Append(q, Pub(topic, m)) \in Seq(ToControllerBroker)
         /\ Append(q, Term) \in Seq(ToControllerBroker)
  BY Control, QueueTypes

\* ACTUATE: the registry keeps an actuator with a corrected value, and the pipe
\* gets a command and an ACK.
LEMMA ActuateCallbackTypes ==
  ASSUME ServerTypeOK, nrm_server_actuate_callback
  PROVE  ServerTypeOK' /\ UNCHANGED netVars
<1> DEFINE u == Received.arg[1]
           v == Received.arg[2]
<1>1. /\ From \in Clients /\ Received \in Message /\ Received.type = "ACTUATE"
      /\ ctlRecv' \in Seq(FromControllerBroker)
  BY ReceivedTypes DEF nrm_server_actuate_callback
<1>2. u \in Uuids /\ v \in Int
  BY <1>1, Arguments
<1>3. UNCHANGED <<daemon, objects, loop, events, timer, netVars>>
  BY DEF nrm_server_actuate_callback
<1>4. CASE /\ actuators[u] # NULL
           /\ SetValue(u, v)
           /\ ctlSend' = Append(Append(ctlSend, Command(u, v)), Send(From, Ack))
  <2>1. /\ actuators' \in [Uuids -> Registered \cup {NULL}]
        /\ Command(u, v) \in ToControllerBroker
    BY <1>2, <1>4, SetValueTypes
  <2>2. Append(ctlSend, Command(u, v)) \in Seq(ToControllerBroker)
    BY <2>1, QueueTypes DEF ServerTypeOK
  <2>3. ctlSend' \in Seq(ToControllerBroker)
    BY <1>1, <1>4, <2>2, PushTypes, Outgoing
  <2> QED  BY <1>1, <1>3, <2>1, <2>3 DEF ServerTypeOK
<1>5. CASE /\ ctlSend' = Append(ctlSend, Send(From, Ack))
           /\ UNCHANGED actuators
  <2>1. ctlSend' \in Seq(ToControllerBroker)
    BY <1>1, <1>5, PushTypes, Outgoing DEF ServerTypeOK
  <2> QED  BY <1>1, <1>3, <1>5, <2>1 DEF ServerTypeOK
<1> QED  BY <1>4, <1>5 DEF nrm_server_actuate_callback

\* ADD: the registry gets an object of the kind the message says.
LEMMA AddCallbackTypes ==
  ASSUME ServerTypeOK, nrm_server_add_callback
  PROVE  ServerTypeOK' /\ UNCHANGED netVars
<1> DEFINE x == [obj |-> Received.arg, owner |-> From, value |-> Received.arg.value]
<1>1. /\ From \in Clients /\ Received \in Message /\ Received.type = "ADD"
      /\ ctlRecv' \in Seq(FromControllerBroker)
  BY ReceivedTypes DEF nrm_server_add_callback
<1>2. /\ ctlSend' = Append(ctlSend, Send(From, Received))
      /\ UNCHANGED <<daemon, loop, events, timer, netVars>>
  BY DEF nrm_server_add_callback
<1>3. ctlSend' \in Seq(ToControllerBroker)
  BY <1>1, <1>2, PushTypes, Outgoing DEF ServerTypeOK
<1>4. CASE /\ Received.target = "ACTUATOR"
           /\ nrm_state_add_actuator(Received.arg.uuid, x)
           /\ UNCHANGED objects
  <2>1. Received.arg \in Actuator
    BY <1>1, <1>4, Arguments
  <2>2. Received.arg.uuid \in Uuids /\ Received.arg.value \in Int
    BY <2>1 DEF Actuator, ContinuousActuator, DiscreteActuator
  <2>3. x \in Registered
    BY <1>1, <2>1, <2>2 DEF Registered
  <2> HIDE DEF x
  <2>4. actuators' \in [Uuids -> Registered \cup {NULL}]
    BY <1>4, <2>2, <2>3 DEF nrm_state_add_actuator, ServerTypeOK
  <2> QED  BY <1>1, <1>2, <1>3, <1>4, <2>4 DEF ServerTypeOK
<1>5. CASE /\ Received.target # "ACTUATOR"
           /\ nrm_state_add(Received.target, Received.arg)
           /\ UNCHANGED actuators
  <2>1. Received.target \in PlainTargets /\ Received.arg \in Uuids
    BY <1>1, <1>5, Arguments
  <2>2. objects' \in [PlainTargets -> SUBSET Uuids]
    BY <1>5, <2>1 DEF nrm_state_add, ServerTypeOK
  <2> QED  BY <1>1, <1>2, <1>3, <1>5, <2>2 DEF ServerTypeOK
<1> QED  BY <1>4, <1>5 DEF nrm_server_add_callback

\* EVENTS: the event is stored and published.
LEMMA EventsCallbackTypes ==
  ASSUME ServerTypeOK, nrm_server_events_callback
  PROVE  ServerTypeOK' /\ UNCHANGED netVars
<1>1. /\ Received \in Message /\ Received.type = "EVENTS"
      /\ ctlRecv' \in Seq(FromControllerBroker)
  BY ReceivedTypes DEF nrm_server_events_callback
<1>2. Received \in ToListeners /\ Received.arg \in Event
  BY <1>1, Arguments DEF ToListeners
<1>3. events' \in Seq(Event)
  BY <1>2, QueueTypes DEF nrm_server_events_callback, ServerTypeOK
<1>4. ctlSend' \in Seq(ToControllerBroker)
  BY <1>2, PushTypes DEF nrm_server_events_callback, ServerTypeOK, Topics
<1> QED  BY <1>1, <1>3, <1>4 DEF nrm_server_events_callback, ServerTypeOK, stateVars

\* LIST: the answer is a set of uuids.
LEMMA ListCallbackTypes ==
  ASSUME ServerTypeOK, nrm_server_list_callback
  PROVE  ServerTypeOK' /\ UNCHANGED netVars
<1> DEFINE m == nrm_msg_set_list(Received.target, nrm_state_list(Received.target))
<1>1. /\ From \in Clients /\ Received \in Message /\ Received.type = "LIST"
      /\ ctlRecv' \in Seq(FromControllerBroker)
  BY ReceivedTypes DEF nrm_server_list_callback
<1>2. Received.target \in Targets
  BY <1>1, Arguments
<1>3. m \in ToClient
  BY <1>2, ListTypes, Outgoing
<1>4. ctlSend' = Append(ctlSend, Send(From, m))
  BY DEF nrm_server_list_callback
<1> HIDE DEF m
<1>5. ctlSend' \in Seq(ToControllerBroker)
  BY <1>1, <1>3, <1>4, PushTypes DEF ServerTypeOK
<1> QED  BY <1>1, <1>5 DEF nrm_server_list_callback, ServerTypeOK, stateVars

\* The sockets of the daemon close.
LEMMA CloseServerTypes ==
  ASSUME NetTypeOK, CloseServerSockets
  PROVE  NetTypeOK'
<1>1. ASSUME NEW T, NEW q \in [Clients -> Seq(T)], NEW r \in LeftOf(q)
      PROVE  r \in [Clients -> Seq(T)]
  <2>1. r \in [Clients -> UNION {Prefix(q[c]) : c \in Clients}]
    BY DEF LeftOf
  <2>2. \A c \in Clients : r[c] \in Prefix(q[c])
    BY DEF LeftOf
  <2>3. \A c \in Clients : Prefix(q[c]) \subseteq Seq(T)
    BY QueueTypes
  <2> QED  BY <2>1, <2>2, <2>3
<1>2. down' \in [Clients -> Seq(ToClient)] /\ pubs' \in [Clients -> Seq(ToListeners)]
  BY <1>1 DEF CloseServerSockets, NetTypeOK
<1>3. up' \in [Clients -> Seq(Message)] /\ serving' \in BOOLEAN
  <2>1. up' = [c \in Clients |-> <<>>] /\ serving' = FALSE
    BY DEF CloseServerSockets
  <2>2. <<>> \in Seq(Message)
    OBVIOUS
  <2> QED  BY <2>1, <2>2
<1>4. UNCHANGED <<wanted, topics, connected>>
  BY DEF CloseServerSockets
<1> QED  BY <1>2, <1>3, <1>4 DEF NetTypeOK

\* REMOVE: an ACK, or the crash of the daemon.
LEMMA RemoveCallbackTypes ==
  ASSUME ServerTypeOK, NetTypeOK, nrm_server_remove_callback
  PROVE  ServerTypeOK' /\ NetTypeOK'
<1>1. From \in Clients /\ ctlRecv' \in Seq(FromControllerBroker)
  BY ReceivedTypes DEF nrm_server_remove_callback
<1>2. UNCHANGED <<stateVars, loop, events, timer>>
  BY DEF nrm_server_remove_callback
<1>3. CASE Crash
  <2>1. ServerTypeOK'
    BY <1>1, <1>2, <1>3, SMTT(60) DEF Crash, ServerTypeOK, stateVars
  <2> QED  BY <1>3, <2>1, CloseServerTypes DEF Crash
<1>4. CASE ctlSend' = Append(ctlSend, Send(From, Ack)) /\ UNCHANGED <<daemon, netVars>>
  <2>1. ctlSend' \in Seq(ToControllerBroker)
    BY <1>1, <1>4, PushTypes, Outgoing DEF ServerTypeOK
  <2>2. ServerTypeOK'
    BY <1>1, <1>2, <1>4, <2>1 DEF ServerTypeOK, stateVars
  <2> QED  BY <1>4, <2>2, NetStutterTypes
<1> QED  BY <1>3, <1>4 DEF nrm_server_remove_callback

\* EXIT: an ACK.
LEMMA ExitCallbackTypes ==
  ASSUME ServerTypeOK, nrm_server_exit_callback
  PROVE  ServerTypeOK' /\ UNCHANGED netVars
<1>1. From \in Clients /\ ctlRecv' \in Seq(FromControllerBroker)
  BY ReceivedTypes DEF nrm_server_exit_callback
<1>2. ctlSend' \in Seq(ToControllerBroker)
  BY <1>1, PushTypes, Outgoing DEF nrm_server_exit_callback, ServerTypeOK
<1> QED  BY <1>1, <1>2 DEF nrm_server_exit_callback, ServerTypeOK, stateVars

\* TICK: an ACK, or the start of the control loop.
LEMMA TickCallbackTypes ==
  ASSUME ServerTypeOK, nrm_server_tick_callback
  PROVE  ServerTypeOK' /\ UNCHANGED netVars
<1>1. From \in Clients /\ ctlRecv' \in Seq(FromControllerBroker)
  BY ReceivedTypes DEF nrm_server_tick_callback
<1>2. UNCHANGED <<daemon, stateVars, events, timer, netVars>>
  BY DEF nrm_server_tick_callback
<1>3. CASE Outputs # <<>> /\ StartControl(From) /\ UNCHANGED ctlSend
  <2>1. loop' \in ControlLoop
    BY <1>1, <1>3, StartTypes
  <2> QED  BY <1>1, <1>2, <1>3, <2>1 DEF ServerTypeOK, stateVars
<1>4. CASE ctlSend' = Append(ctlSend, Send(From, Ack)) /\ UNCHANGED loop
  <2>1. ctlSend' \in Seq(ToControllerBroker)
    BY <1>1, <1>4, PushTypes, Outgoing DEF ServerTypeOK
  <2> QED  BY <1>1, <1>2, <1>4, <2>1 DEF ServerTypeOK, stateVars
<1> QED  BY <1>3, <1>4 DEF nrm_server_tick_callback

\* The timer publishes a tick within its bound.
LEMMA TimerCallbackTypes ==
  ASSUME ServerTypeOK, nrm_server_timer_callback
  PROVE  ServerTypeOK' /\ UNCHANGED netVars
<1> DEFINE e == [from |-> NULL, n |-> timer + 1]
<1>1. timer + 1 \in 0 .. MaxTimer /\ timer' = timer + 1
  BY ServerAssumption, SMTT(60) DEF nrm_server_timer_callback, ServerTypeOK
<1>2. e \in Event
  BY <1>1 DEF Event
<1>3. ctlSend' = Append(ctlSend, Pub("daemon", nrm_msg_set_events(e)))
  BY DEF nrm_server_timer_callback
<1> HIDE DEF e
<1>4. ctlSend' \in Seq(ToControllerBroker)
  BY <1>2, <1>3, PushTypes, Outgoing DEF ServerTypeOK, Topics
<1>5. loop' \in ControlLoop \cup {NULL}
  BY StartTypes DEF nrm_server_timer_callback, ServerTypeOK
<1> QED  BY <1>1, <1>4, <1>5 DEF nrm_server_timer_callback, ServerTypeOK, stateVars

\* The ACK of a tick goes to the client that asked for it.
LEMMA AckTickTypes ==
  ASSUME ServerTypeOK, loop # NULL, NEW q \in Seq(ToControllerBroker)
  PROVE  AckTick(q) \in Seq(ToControllerBroker)
<1>1. loop.from # NULL => loop.from \in Clients
  BY DEF ServerTypeOK, ControlLoop
<1> QED  BY <1>1, PushTypes, Outgoing DEF AckTick

\* One iteration of the control loop stays within its outputs.
LEMMA ActuateTypes ==
  ASSUME ServerTypeOK, nrm_server_actuate
  PROVE  ServerTypeOK' /\ UNCHANGED netVars
<1> DEFINE u == Outputs[loop.k]
<1>1. /\ loop # NULL /\ loop' = IF LastOutput THEN NULL ELSE [loop EXCEPT !.k = @ + 1]
      /\ UNCHANGED <<daemon, objects, ctlRecv, events, timer, netVars>>
  BY DEF nrm_server_actuate
<1>2. loop \in ControlLoop
  BY <1>1 DEF ServerTypeOK
<1>3. loop.k \in 1 .. Len(Outputs) /\ u \in Uuids /\ Len(Outputs) \in Nat
  BY <1>2, ServerAssumption, SMTT(60) DEF ControlLoop
<1>4. loop' \in ControlLoop \cup {NULL}
  <2>1. CASE LastOutput
    BY <1>1, <2>1
  <2>2. CASE ~LastOutput
    <3>1. loop.k + 1 \in DOMAIN Outputs
      BY <1>3, <2>2, ServerAssumption DEF LastOutput
    <3>2. [loop EXCEPT !.k = @ + 1] \in ControlLoop
      BY <1>2, <3>1 DEF ControlLoop
    <3> QED  BY <1>1, <2>2, <3>2
  <2> QED  BY <2>1, <2>2
<1>5. ASSUME actuators[u] # NULL, NEW v \in NewValues(loop.k), SetValue(u, v),
             ctlSend' = AckTick(Append(ctlSend, Command(u, v)))
      PROVE  ServerTypeOK'
  <2>1. actuators[u] \in Registered
    BY <1>3, <1>5 DEF ServerTypeOK
  <2>2. v \in Int
    BY <1>3, <2>1, ServerAssumption DEF NewValues, Registered
  <2>3. /\ actuators' \in [Uuids -> Registered \cup {NULL}]
        /\ Command(u, v) \in ToControllerBroker
    BY <1>3, <1>5, <2>2, SetValueTypes
  <2>4. Append(ctlSend, Command(u, v)) \in Seq(ToControllerBroker)
    BY <2>3, QueueTypes DEF ServerTypeOK
  <2>5. ctlSend' \in Seq(ToControllerBroker)
    BY <1>1, <1>5, <2>4, AckTickTypes
  <2> QED  BY <1>1, <1>4, <2>3, <2>5 DEF ServerTypeOK
<1>6. CASE ctlSend' = AckTick(ctlSend) /\ UNCHANGED actuators
  <2>1. ctlSend' \in Seq(ToControllerBroker)
    BY <1>1, <1>6, AckTickTypes DEF ServerTypeOK
  <2> QED  BY <1>1, <1>4, <1>6, <2>1 DEF ServerTypeOK
<1> QED  BY <1>1, <1>5, <1>6 DEF nrm_server_actuate

\* Leaving the loop, and the end of main.
LEMMA EndTypes ==
  ASSUME ServerTypeOK, nrm_server_signal_callback \/ nrm_server_destroy
  PROVE  ServerTypeOK' /\ UNCHANGED netVars
<1>1. CASE nrm_server_signal_callback
  BY <1>1 DEF nrm_server_signal_callback, ServerTypeOK, stateVars
<1>2. CASE nrm_server_destroy
  <2>1. ctlSend' \in Seq(ToControllerBroker)
    BY <1>2, PushTypes DEF nrm_server_destroy, ServerTypeOK
  <2> QED  BY <1>2, <2>1, SMTT(60) DEF nrm_server_destroy, ServerTypeOK
<1> QED  BY <1>1, <1>2

\* The daemon's broker passes on messages with their sender.
LEMMA ControllerRpcTypes ==
  ASSUME ServerTypeOK, NetTypeOK, NEW c \in Clients, nrm_controller_broker_rpc_handler(c)
  PROVE  ServerTypeOK' /\ NetTypeOK'
<1>1. Head(up[c]) \in Message /\ Tail(up[c]) \in Seq(Message)
  BY QueueTypes DEF nrm_controller_broker_rpc_handler, NetTypeOK
<1>2. [from |-> c, msg |-> Head(up[c])] \in FromControllerBroker
  BY <1>1 DEF FromControllerBroker
<1>3. ctlRecv' \in Seq(FromControllerBroker)
  BY <1>2, QueueTypes DEF nrm_controller_broker_rpc_handler, ServerTypeOK
<1>4. ServerTypeOK'
  BY <1>3 DEF nrm_controller_broker_rpc_handler, ServerTypeOK, stateVars
<1>5. NetTypeOK'
  BY <1>1 DEF nrm_controller_broker_rpc_handler, NetTypeOK
<1> QED  BY <1>4, <1>5

\* The daemon's broker sends replies and commands to clients, publishes events,
\* or closes its sockets.
LEMMA ControllerPipeTypes ==
  ASSUME ServerTypeOK, NetTypeOK, nrm_controller_broker_pipe_handler
  PROVE  ServerTypeOK' /\ NetTypeOK'
<1> DEFINE h == Head(ctlSend)
<1>1. h \in ToControllerBroker /\ Tail(ctlSend) \in Seq(ToControllerBroker)
  BY QueueTypes DEF nrm_controller_broker_pipe_handler, ServerTypeOK
<1>2. /\ ctlSend' = Tail(ctlSend) /\ UNCHANGED <<stateVars, loop, ctlRecv, events, timer>>
      /\ \/ /\ h.ctrl = "SEND" /\ nrm_msg_sendto(h.to, h.msg)
            /\ UNCHANGED <<daemon, up, pubs, wanted, topics, connected, serving>>
         \/ /\ h.ctrl = "PUB" /\ nrm_msg_pub(h.to, h.msg)
            /\ UNCHANGED <<daemon, up, down, wanted, topics, connected, serving>>
         \/ daemon' = "stopped" /\ CloseServerSockets
  BY DEF nrm_controller_broker_pipe_handler
<1> HIDE DEF h
<1>3. CASE /\ h.ctrl = "SEND" /\ nrm_msg_sendto(h.to, h.msg)
           /\ UNCHANGED <<daemon, up, pubs, wanted, topics, connected, serving>>
  <2>1. h.to \in Clients /\ Append(down[h.to], h.msg) \in Seq(ToClient)
    BY <1>1, <1>3, Control, QueueTypes DEF NetTypeOK
  <2>2. down' \in [Clients -> Seq(ToClient)]
    BY <1>3, <2>1 DEF nrm_msg_sendto, NetTypeOK
  <2> QED  BY <1>1, <1>2, <1>3, <2>2 DEF ServerTypeOK, NetTypeOK, stateVars
<1>4. CASE /\ h.ctrl = "PUB" /\ nrm_msg_pub(h.to, h.msg)
           /\ UNCHANGED <<daemon, up, down, wanted, topics, connected, serving>>
  <2>1. \A c \in Clients : Append(pubs[c], h.msg) \in Seq(ToListeners)
    BY <1>1, <1>4, Control, QueueTypes DEF NetTypeOK
  <2>2. pubs' \in [Clients -> Seq(ToListeners)]
    BY <1>4, <2>1 DEF nrm_msg_pub, NetTypeOK
  <2> QED  BY <1>1, <1>2, <1>4, <2>2 DEF ServerTypeOK, NetTypeOK, stateVars
<1>5. CASE daemon' = "stopped" /\ CloseServerSockets
  <2>1. ServerTypeOK'
    BY <1>1, <1>2, <1>5 DEF ServerTypeOK, stateVars
  <2> QED  BY <1>5, <2>1, CloseServerTypes
<1> QED  BY <1>2, <1>3, <1>4, <1>5

\* Every step of the daemon keeps its types and those of the sockets.
LEMMA ServerTypes ==
  ASSUME ServerTypeOK, NetTypeOK, ServerNext
  PROVE  ServerTypeOK' /\ NetTypeOK'
<1>1. CASE Handler
  BY ZenonT(30), <1>1, ActuateCallbackTypes, EventsCallbackTypes, AddCallbackTypes, ListCallbackTypes,
     RemoveCallbackTypes, ExitCallbackTypes, TickCallbackTypes, ActuateTypes, EndTypes,
     NetStutterTypes DEF Handler
<1>2. CASE nrm_server_timer_callback \/ nrm_server_signal_callback
  BY <1>2, TimerCallbackTypes, EndTypes, NetStutterTypes
<1>3. CASE \E c \in Clients : nrm_controller_broker_rpc_handler(c)
  BY <1>3, ControllerRpcTypes
<1>4. CASE nrm_controller_broker_pipe_handler
  BY <1>4, ControllerPipeTypes
<1> QED  BY <1>1, <1>2, <1>3, <1>4 DEF ServerNext

-----------------------------------------------------------------------------
(* Types: the system *)

\* The initial state is well typed.
LEMMA InitTypes == Init => TypeOK
<1> SUFFICES ASSUME Init PROVE TypeOK
  OBVIOUS
<1>1. ClientTypeOK
  BY ClientAssumption, SMTT(60) DEF Init, ClientInit, ClientTypeOK
<1>2. ServerTypeOK
  BY ServerAssumption DEF Init, ServerInit, ServerTypeOK
<1>3. NetTypeOK
  BY DEF Init, NetInit, NetTypeOK
<1> QED  BY <1>1, <1>2, <1>3 DEF TypeOK

\* Every step of the system keeps the types.
LEMMA NextTypes == TypeOK /\ [Next]_vars => TypeOK'
<1> SUFFICES ASSUME TypeOK, [Next]_vars PROVE TypeOK'
  OBVIOUS
<1>0. ClientTypeOK /\ ServerTypeOK /\ NetTypeOK
  BY DEF TypeOK
<1>s. ASSUME UNCHANGED serverVars PROVE ServerTypeOK'
  BY <1>0, <1>s DEF serverVars, ServerTypeOK
<1>c. ASSUME UNCHANGED clientVars PROVE ClientTypeOK'
  BY <1>0, <1>c DEF clientVars, ClientTypeOK
<1>1. CASE ClientNext /\ UNCHANGED serverVars
  <2>1. ClientTypeOK' /\ NetTypeOK'
    BY <1>1, ThreadTypes, ClientPipeTypes, ClientRpcTypes, ClientSubTypes DEF ClientNext, BrokerNext
  <2> QED  BY <1>1, <1>s, <2>1 DEF TypeOK
<1>2. CASE ServerNext /\ UNCHANGED clientVars
  BY <1>0, <1>2, <1>c, ServerTypes DEF TypeOK
<1>3. ASSUME NEW c \in Clients, SubscriptionArrives(c), UNCHANGED <<clientVars, serverVars>>
      PROVE  TypeOK'
  <2>1. NetTypeOK'
    BY <1>0, <1>3 DEF SubscriptionArrives, NetTypeOK
  <2> QED  BY <1>3, <1>c, <1>s, <2>1 DEF TypeOK
<1>4. CASE UNCHANGED vars
  <2>1. UNCHANGED clientVars /\ UNCHANGED serverVars /\ UNCHANGED netVars
    BY <1>4 DEF vars
  <2> QED  BY <1>0, <1>c, <1>s, <2>1, NetStutterTypes DEF TypeOK
<1> QED  BY <1>1, <1>2, <1>3, <1>4 DEF Next

\* Every reachable state of the system is well typed: whatever the clients do,
\* the pipes and connections carry the messages their readers expect (a client
\* is sent replies and commands only, a listener events only), the values in
\* the registry and in the commands are numbers, and the loop over the outputs
\* of the control loop stays within them.
THEOREM TypeCorrect == Spec => []TypeOK
  BY InitTypes, NextTypes, PTL DEF Spec

-----------------------------------------------------------------------------
(* The steps of a client, as its own variables show them *)

\* What client c has on the network, on its pipes, and keeps does not change.
NetIdle(c) ==
  /\ up'[c] = up[c] /\ down'[c] = down[c] /\ pubs'[c] = pubs[c]
  /\ wanted'[c] = wanted[c] /\ topics'[c] = topics[c] /\ connected'[c] = connected[c]

PipesIdle(c) == toBroker'[c] = toBroker[c] /\ fromBroker'[c] = fromBroker[c]

KeptIdle(c) == applied'[c] = applied[c] /\ missed'[c] = missed[c] /\ heard'[c] = heard[c]

CallsIdle(c) ==
  added'[c] = added[c] /\ sent'[c] = sent[c] /\ exitSent'[c] = exitSent[c] /\ subcb'[c] = subcb[c]

\* Nothing of client c changes.
Idle(c) ==
  /\ NetIdle(c) /\ PipesIdle(c) /\ KeptIdle(c) /\ CallsIdle(c)
  /\ status'[c] = status[c] /\ cmdcb'[c] = cmdcb[c]

\* A call pushes h on the pipe to the broker: a request, an event, the exit, a
\* topic or the end.
IsSend(h, type) == h.ctrl = "SEND" /\ h.arg.type = type

Pushes(t, c, h) ==
  /\ NetIdle(c) /\ KeptIdle(c) /\ fromBroker'[c] = fromBroker[c] /\ added'[c] = added[c]
  /\ h \in ToClientBroker /\ toBroker'[c] = Append(toBroker[c], h)
  /\ status[c] = "open" /\ pc[t] \in {"idle", "sub_arg"}
  /\ IF IsSend(h, "EVENTS")
     THEN sent'[c] = sent[c] + 1 /\ h.arg = nrm_msg_set_events([from |-> c, n |-> sent[c] + 1])
     ELSE sent'[c] = sent[c]
  /\ exitSent'[c] <=> exitSent[c] \/ IsSend(h, "EXIT")
  /\ subcb'[c] = IF h.ctrl = "SUB" THEN "set" ELSE subcb[c]
  /\ status'[c] = IF h.ctrl = "TERM" THEN "closing" ELSE "open"

\* A call takes the reply m it accepts.
Takes(t, c, m) ==
  /\ NetIdle(c) /\ KeptIdle(c) /\ toBroker'[c] = toBroker[c] /\ pc[t] = "recv"
  /\ fromBroker[c] # <<>> /\ m = Head(fromBroker[c]) /\ fromBroker'[c] = Tail(fromBroker[c])
  /\ added'[c] = IF m.type = "ADD" THEN added[c] \cup {<<m.target, UuidOf(m)>>} ELSE added[c]
  /\ status[c] = "open" /\ status'[c] = "open"
  /\ sent'[c] = sent[c] /\ exitSent'[c] = exitSent[c] /\ subcb'[c] = subcb[c]

\* A call touches the callbacks, which stay as they are once set, or takes the
\* lock.
Waits(c) ==
  /\ NetIdle(c) /\ PipesIdle(c) /\ KeptIdle(c) /\ added'[c] = added[c]
  /\ sent'[c] = sent[c] /\ exitSent'[c] = exitSent[c]
  /\ status[c] = "open" /\ status'[c] = "open"
  /\ subcb'[c] = subcb[c] \/ (subcb[c] # "set" /\ subcb'[c] # "set")

\* The broker of client c closes its sockets, at its end or with its process.
Gone(c) ==
  /\ KeptIdle(c) /\ CallsIdle(c)
  /\ BrokerRuns(c) /\ status'[c] \in {"closed", "aborted", "segv"}
  /\ connected'[c] = FALSE /\ up'[c] \in Prefix(up[c])
  /\ down'[c] = <<>> /\ pubs'[c] = <<>> /\ wanted'[c] = {} /\ topics'[c] = {}
  /\ toBroker'[c] = toBroker[c] \/ (toBroker[c] # <<>> /\ toBroker'[c] = Tail(toBroker[c]))
  /\ fromBroker'[c] = fromBroker[c] \/ (fromBroker[c] # <<>> /\ fromBroker'[c] = Tail(fromBroker[c]))

\* The broker sends the message h.arg, or subscribes to the topic h.arg.
Transmits(c, h) ==
  /\ KeptIdle(c) /\ CallsIdle(c) /\ BrokerRuns(c) /\ status'[c] = status[c]
  /\ toBroker[c] # <<>> /\ h = Head(toBroker[c]) /\ h.ctrl \in {"SEND", "SUB"}
  /\ toBroker'[c] = Tail(toBroker[c]) /\ fromBroker'[c] = fromBroker[c]
  /\ up'[c] = IF h.ctrl = "SEND" /\ serving THEN Append(up[c], h.arg) ELSE up[c]
  /\ wanted'[c] = IF h.ctrl = "SUB" THEN wanted[c] \cup {h.arg} ELSE wanted[c]
  /\ down'[c] = down[c] /\ pubs'[c] = pubs[c] /\ topics'[c] = topics[c] /\ connected'[c] = connected[c]

\* The broker passes a reply m on to the threads, or runs the command m.
Receives(c, m) ==
  /\ CallsIdle(c) /\ BrokerRuns(c) /\ status'[c] = status[c]
  /\ toBroker'[c] = toBroker[c] /\ heard'[c] = heard[c]
  /\ down[c] # <<>> /\ m = Head(down[c]) /\ down'[c] = Tail(down[c])
  /\ up'[c] = up[c] /\ pubs'[c] = pubs[c]
  /\ wanted'[c] = wanted[c] /\ topics'[c] = topics[c] /\ connected'[c] = connected[c]
  /\ \/ /\ nrm_msg_is_reply(m) /\ fromBroker'[c] = Append(fromBroker[c], m)
        /\ applied'[c] = applied[c] /\ missed'[c] = missed[c]
     \/ /\ ~nrm_msg_is_reply(m) /\ fromBroker'[c] = fromBroker[c]
        /\ \/ /\ missed'[c] = missed[c] \cup {m.arg[1]} /\ applied'[c] = applied[c]
           \/ /\ missed'[c] = missed[c] \ {m.arg[1]}
              /\ applied'[c] = [applied[c] EXCEPT ![m.arg[1]] = m.arg[2]]

\* The broker gives a published message m to the listener, or drops it.
Hears(c, m) ==
  /\ CallsIdle(c) /\ PipesIdle(c) /\ BrokerRuns(c) /\ status'[c] = status[c]
  /\ pubs[c] # <<>> /\ m = Head(pubs[c]) /\ pubs'[c] = Tail(pubs[c])
  /\ heard'[c] = IF subcb[c] = "set" THEN Append(heard[c], m.arg) ELSE heard[c]
  /\ applied'[c] = applied[c] /\ missed'[c] = missed[c]
  /\ up'[c] = up[c] /\ down'[c] = down[c]
  /\ wanted'[c] = wanted[c] /\ topics'[c] = topics[c] /\ connected'[c] = connected[c]

\* A thread or the broker of client c makes a step.
ClientStep(c) ==
  \/ Waits(c) \/ Gone(c)
  \/ \E t \in Threads : /\ ClientOf[t] = c
                        /\ \/ \E h \in ToClientBroker : Pushes(t, c, h)
                           \/ \E m \in ToClient : Takes(t, c, m)
  \/ \E h \in ToClientBroker : Transmits(c, h)
  \/ \E m \in ToClient : Receives(c, m)
  \/ \E m \in ToListeners : Hears(c, m)

\* The sockets of client c close, those of the others do not.
LEMMA CloseViews ==
  ASSUME NetTypeOK, NEW d \in Clients, CloseClientSockets(d), NEW c \in Clients
  PROVE  /\ c # d => NetIdle(c)
         /\ connected'[d] = FALSE /\ up'[d] \in Prefix(up[d])
         /\ down'[d] = <<>> /\ pubs'[d] = <<>> /\ wanted'[d] = {} /\ topics'[d] = {}
         /\ serving' = serving
<1>1. PICK left \in Prefix(up[d]) : up' = [up EXCEPT ![d] = left]
  BY Zenon DEF CloseClientSockets
<1>2. up'[d] = left /\ (c # d => up'[c] = up[c])
  BY <1>1 DEF NetTypeOK
<1> QED  BY <1>2, Zenon DEF CloseClientSockets, NetTypeOK, NetIdle

\* Calls that only send.
LEMMA PushViews ==
  ASSUME TypeOK, NEW t \in Threads, NEW c \in Clients,
         \/ \E m \in Message, call \in Calls : /\ m.type \notin {"EVENTS", "EXIT"}
                                              /\ Request(t, call, m)
         \/ nrm_client_send_event(t) \/ nrm_client_send_exit(t)
         \/ \E topic \in Topics : nrm_role_client_sub(t, topic)
         \/ nrm_client_destroy(t)
  PROVE  /\ serving' = serving
         /\ IF ClientOf[t] = c THEN \E h \in ToClientBroker : Pushes(t, c, h) ELSE Idle(c)
<1>0. ClientTypeOK /\ ClientOf[t] \in Clients
  BY ClientAssumption DEF TypeOK
<1> DEFINE d == ClientOf[t]
<1>1. ASSUME NEW m \in Message, NEW call, m.type \notin {"EVENTS", "EXIT"}, Request(t, call, m)
      PROVE  /\ serving' = serving
             /\ IF d = c THEN \E h \in ToClientBroker : Pushes(t, c, h) ELSE Idle(c)
  <2> DEFINE h == [ctrl |-> "SEND", arg |-> m]
  <2>1. /\ toBroker' = [toBroker EXCEPT ![d] = Append(@, h)] /\ status[d] = "open" /\ pc[t] = "idle"
        /\ UNCHANGED <<status, fromBroker, cmdcb, subcb, added, brokerVars, netVars, sent, exitSent>>
    BY <1>1, Zenon DEF Request, CanCall, nrm_role_client_send, nrm_ctrlmsg_send
  <2>2. h \in ToClientBroker /\ h.ctrl = "SEND" /\ h.arg = m
    BY Control
  <2> HIDE DEF h
  <2> QED
    BY <1>0, <1>1, <2>1, <2>2, Zenon DEF Pushes, Idle, NetIdle, PipesIdle, KeptIdle, CallsIdle, IsSend,
       brokerVars, netVars, ClientTypeOK
<1>2. CASE nrm_client_send_event(t)
  <2> DEFINE m == nrm_msg_set_events([from |-> d, n |-> sent[d] + 1])
             h == [ctrl |-> "SEND", arg |-> m]
  <2>1. /\ toBroker' = [toBroker EXCEPT ![d] = Append(@, h)] /\ status[d] = "open" /\ pc[t] = "idle"
        /\ sent' = [sent EXCEPT ![d] = @ + 1]
        /\ UNCHANGED <<status, fromBroker, cmdcb, subcb, added, brokerVars, netVars, exitSent>>
    BY <1>2, Zenon DEF nrm_client_send_event, CanCall, nrm_role_client_send, nrm_ctrlmsg_send
  <2>2. [from |-> d, n |-> sent[d] + 1] \in Event
    BY <1>0, SMTT(60) DEF Event, ClientTypeOK
  <2>3. m \in Message /\ m.type = "EVENTS"
    BY <2>2, Builders DEF nrm_msg_set_events
  <2>4. h \in ToClientBroker /\ h.ctrl = "SEND" /\ h.arg = m
    BY <2>3, Control
  <2> HIDE DEF h
  <2> QED
    BY <1>0, <2>1, <2>3, <2>4, Zenon DEF Pushes, Idle, NetIdle, PipesIdle, KeptIdle, CallsIdle, IsSend,
       brokerVars, netVars, ClientTypeOK
<1>3. CASE nrm_client_send_exit(t)
  <2> DEFINE m == nrm_msg_fill("EXIT")
             h == [ctrl |-> "SEND", arg |-> m]
  <2>1. /\ toBroker' = [toBroker EXCEPT ![d] = Append(@, h)] /\ status[d] = "open" /\ pc[t] = "idle"
        /\ exitSent' = [exitSent EXCEPT ![d] = TRUE]
        /\ UNCHANGED <<status, fromBroker, cmdcb, subcb, added, brokerVars, netVars, sent>>
    BY <1>3 DEF nrm_client_send_exit, CanCall, nrm_role_client_send, nrm_ctrlmsg_send
  <2>2. m \in Message /\ m.type = "EXIT"
    BY Builders DEF nrm_msg_fill
  <2>3. h \in ToClientBroker /\ h.ctrl = "SEND" /\ h.arg = m
    BY <2>2, Control
  <2> HIDE DEF h, m
  <2> QED
    BY <1>0, <2>1, <2>2, <2>3, Zenon DEF Pushes, Idle, NetIdle, PipesIdle, KeptIdle, CallsIdle, IsSend,
       brokerVars, netVars, ClientTypeOK
<1>4. ASSUME NEW topic \in Topics, nrm_role_client_sub(t, topic)
      PROVE  /\ serving' = serving
             /\ IF d = c THEN \E h \in ToClientBroker : Pushes(t, c, h) ELSE Idle(c)
  <2> DEFINE h == [ctrl |-> "SUB", arg |-> topic]
  <2>1. /\ toBroker' = [toBroker EXCEPT ![d] = Append(@, h)] /\ status[d] = "open" /\ pc[t] = "sub_arg"
        /\ subcb' = [subcb EXCEPT ![d] = "set"]
        /\ UNCHANGED <<status, fromBroker, cmdcb, added, brokerVars, netVars, sent, exitSent>>
    BY <1>4, Zenon DEF nrm_role_client_sub, nrm_ctrlmsg_send
  <2>2. h \in ToClientBroker /\ h.ctrl = "SUB"
    BY Control
  <2> HIDE DEF h
  <2> QED
    BY <1>0, <2>1, <2>2, Zenon DEF Pushes, Idle, NetIdle, PipesIdle, KeptIdle, CallsIdle, IsSend,
       brokerVars, netVars, ClientTypeOK
<1>5. CASE nrm_client_destroy(t)
  <2> DEFINE h == [ctrl |-> "TERM", arg |-> NULL]
  <2>1. /\ toBroker' = [toBroker EXCEPT ![d] = Append(@, h)] /\ status[d] = "open" /\ pc[t] = "idle"
        /\ status' = [status EXCEPT ![d] = "closing"]
        /\ UNCHANGED <<fromBroker, cmdcb, subcb, added, brokerVars, netVars, sent, exitSent>>
    BY <1>5 DEF nrm_client_destroy, CanCall, nrm_ctrlmsg_send
  <2>2. h \in ToClientBroker /\ h.ctrl = "TERM"
    BY Control
  <2> HIDE DEF h
  <2> QED
    BY <1>0, <2>1, <2>2, Zenon DEF Pushes, Idle, NetIdle, PipesIdle, KeptIdle, CallsIdle, IsSend,
       brokerVars, netVars, ClientTypeOK
<1> QED  BY <1>1, <1>2, <1>3, <1>4, <1>5, ZenonT(30)

\* Calls that receive, and those that do not touch the pipe.
LEMMA WaitViews ==
  ASSUME TypeOK, NEW t \in Threads, NEW c \in Clients,
         \/ LockForReply(t) \/ nrm_role_client_recv(t)
         \/ nrm_role_client_register_cmd_cb(t) \/ register_cmd_cb_arg(t)
         \/ nrm_role_client_register_sub_cb(t)
  PROVE  /\ serving' = serving
         /\ IF ClientOf[t] = c
            THEN Waits(c) \/ Gone(c) \/ \E m \in ToClient : Takes(t, c, m)
            ELSE Idle(c)
<1> DEFINE d == ClientOf[t]
<1>0. ClientTypeOK /\ NetTypeOK /\ d \in Clients
  BY ClientAssumption DEF TypeOK
<1>1. CASE nrm_role_client_recv(t)
  <2> DEFINE m == Head(fromBroker[d])
  <2>1. /\ fromBroker[d] # <<>> /\ status[d] = "open" /\ pc[t] = "recv"
        /\ fromBroker' = [fromBroker EXCEPT ![d] = Tail(@)]
        /\ UNCHANGED <<toBroker, cmdcb, subcb, sent, exitSent, brokerVars>>
    BY <1>1, Zenon DEF nrm_role_client_recv
  <2>2. m \in ToClient
    BY <1>0, <2>1, QueueTypes DEF ClientTypeOK
  <2>3. CASE ReplyAccepted(req[t], m)
    <3>1. /\ UNCHANGED <<status, netVars>>
          /\ added' = IF m.type = "ADD"
                      THEN [added EXCEPT ![d] = @ \cup {<<m.target, UuidOf(m)>>}] ELSE added
      BY <1>1, <2>3, Zenon DEF nrm_role_client_recv
    <3>2. /\ added'[d] = IF m.type = "ADD" THEN added[d] \cup {<<m.target, UuidOf(m)>>} ELSE added[d]
          /\ d # c => added'[c] = added[c]
      BY <1>0, <3>1, Zenon DEF ClientTypeOK
    <3>3. m = Head(fromBroker[d])
      OBVIOUS
    <3> HIDE DEF m
    <3> QED
      BY <1>0, <2>1, <2>2, <3>1, <3>2, <3>3, Zenon DEF Takes, Idle, NetIdle, PipesIdle, KeptIdle, CallsIdle,
         brokerVars, netVars, ClientTypeOK
  <2>4. CASE ~ReplyAccepted(req[t], m)
    <3>1. /\ status' = [status EXCEPT ![d] = "aborted"] /\ added' = added
          /\ CloseClientSockets(d)
      BY <1>1, <2>4, Zenon DEF nrm_role_client_recv
    <3>2. /\ c # d => NetIdle(c)
          /\ connected'[d] = FALSE /\ up'[d] \in Prefix(up[d])
          /\ down'[d] = <<>> /\ pubs'[d] = <<>> /\ wanted'[d] = {} /\ topics'[d] = {}
          /\ serving' = serving
      BY <1>0, <3>1, CloseViews, Zenon
    <3> QED
      BY <1>0, <2>1, <3>1, <3>2, Zenon DEF Gone, Idle, PipesIdle, KeptIdle, CallsIdle, BrokerRuns,
         brokerVars, ClientTypeOK
  <2> QED  BY <2>3, <2>4
<1>2. CASE LockForReply(t)
  <2>1. /\ status[d] = "open"
        /\ UNCHANGED <<status, toBroker, fromBroker, cmdcb, subcb, added, sent, exitSent,
                       brokerVars, netVars>>
    BY <1>2 DEF LockForReply
  <2> QED
    BY <2>1 DEF Waits, Idle, NetIdle, PipesIdle, KeptIdle, CallsIdle, brokerVars, netVars
<1>3. CASE nrm_role_client_register_cmd_cb(t) \/ register_cmd_cb_arg(t)
  <2>1. /\ status[d] = "open"
        /\ \E x \in {"fn", "set"} : cmdcb' = [cmdcb EXCEPT ![d] = x]
        /\ UNCHANGED <<status, toBroker, fromBroker, subcb, added, sent, exitSent,
                       brokerVars, netVars>>
    BY <1>3, Zenon DEF nrm_role_client_register_cmd_cb, register_cmd_cb_arg, CanCall
  <2>2. d # c => cmdcb'[c] = cmdcb[c]
    BY <1>0, <2>1 DEF ClientTypeOK
  <2> QED
    BY <2>1, <2>2, Zenon DEF Waits, Idle, NetIdle, PipesIdle, KeptIdle, CallsIdle, brokerVars, netVars
<1>4. CASE nrm_role_client_register_sub_cb(t)
  <2>1. /\ status[d] = "open"
        /\ subcb' = [subcb EXCEPT ![d] = IF @ = "set" THEN "set" ELSE "fn"]
        /\ UNCHANGED <<status, toBroker, fromBroker, cmdcb, added, sent, exitSent,
                       brokerVars, netVars>>
    BY <1>4, Zenon DEF nrm_role_client_register_sub_cb, CanCall
  <2>2. /\ d # c => subcb'[c] = subcb[c]
        /\ subcb'[d] = subcb[d] \/ (subcb[d] # "set" /\ subcb'[d] # "set")
    BY <1>0, <2>1 DEF ClientTypeOK
  <2> QED
    BY <2>1, <2>2 DEF Waits, Idle, NetIdle, PipesIdle, KeptIdle, CallsIdle, brokerVars, netVars
<1> QED  BY <1>1, <1>2, <1>3, <1>4

\* The pipe handler sends, subscribes or ends.
LEMMA PipeViews ==
  ASSUME TypeOK, NEW d \in Clients, nrm_client_broker_pipe_handler(d), NEW c \in Clients
  PROVE  /\ serving' = serving
         /\ IF c = d THEN Gone(c) \/ \E h \in ToClientBroker : Transmits(c, h) ELSE Idle(c)
<1> DEFINE h == Head(toBroker[d])
<1>0. ClientTypeOK /\ NetTypeOK
  BY DEF TypeOK
<1>1. /\ BrokerRuns(d) /\ toBroker[d] # <<>>
      /\ toBroker' = [toBroker EXCEPT ![d] = Tail(@)]
      /\ UNCHANGED <<threadVars, fromBroker, cmdcb, subcb, brokerVars>>
  BY DEF nrm_client_broker_pipe_handler
<1>2. h \in ToClientBroker /\ h = Head(toBroker[d])
  BY <1>0, <1>1, QueueTypes, ZenonT(30) DEF ClientTypeOK
<1>3. CASE /\ h.ctrl = "SEND" /\ nrm_msg_send(d, h.arg)
           /\ UNCHANGED <<status, down, pubs, wanted, topics, connected, serving>>
  <2> HIDE DEF h
  <2>1. /\ up'[d] = IF serving THEN Append(up[d], h.arg) ELSE up[d]
        /\ c # d => up'[c] = up[c]
    BY <1>0, <1>3 DEF nrm_msg_send, NetTypeOK
  <2> QED
    BY <1>0, <1>1, <1>2, <1>3, <2>1, Zenon DEF Transmits, Idle, NetIdle, PipesIdle, KeptIdle, CallsIdle,
       threadVars, brokerVars, ClientTypeOK
<1>4. CASE /\ h.ctrl = "SUB" /\ nrm_net_sub_set_topic(d, h.arg)
           /\ UNCHANGED <<status, up, down, pubs, topics, connected, serving>>
  <2> HIDE DEF h
  <2>1. /\ wanted'[d] = wanted[d] \cup {h.arg}
        /\ c # d => wanted'[c] = wanted[c]
    BY <1>0, <1>4 DEF nrm_net_sub_set_topic, NetTypeOK
  <2> QED
    BY <1>0, <1>1, <1>2, <1>4, <2>1, Zenon DEF Transmits, Idle, NetIdle, PipesIdle, KeptIdle, CallsIdle,
       threadVars, brokerVars, ClientTypeOK
<1>5. CASE status' = [status EXCEPT ![d] = "closed"] /\ CloseClientSockets(d)
  <2>1. /\ c # d => NetIdle(c)
        /\ connected'[d] = FALSE /\ up'[d] \in Prefix(up[d])
        /\ down'[d] = <<>> /\ pubs'[d] = <<>> /\ wanted'[d] = {} /\ topics'[d] = {}
        /\ serving' = serving
    BY <1>0, <1>5, CloseViews, Zenon
  <2> QED
    BY <1>0, <1>1, <1>5, <2>1, ZenonT(30) DEF Gone, Idle, PipesIdle, KeptIdle, CallsIdle,
       threadVars, brokerVars, ClientTypeOK
<1> QED  BY <1>3, <1>4, <1>5 DEF nrm_client_broker_pipe_handler

\* The rpc handler passes a reply on, runs a command, or crashes.
LEMMA RpcViews ==
  ASSUME TypeOK, NEW d \in Clients, nrm_client_broker_rpc_handler(d), NEW c \in Clients
  PROVE  /\ serving' = serving
         /\ IF c = d THEN Gone(c) \/ \E m \in ToClient : Receives(c, m) ELSE Idle(c)
<1> DEFINE m == Head(down[d])
           u == m.arg[1]
           v == m.arg[2]
<1>0. ClientTypeOK /\ NetTypeOK
  BY DEF TypeOK
<1>1. /\ BrokerRuns(d) /\ down[d] # <<>>
      /\ UNCHANGED <<threadVars, toBroker, cmdcb, subcb, heard>>
  BY Zenon DEF nrm_client_broker_rpc_handler
<1>2. m \in ToClient /\ m = Head(down[d]) /\ u = m.arg[1] /\ v = m.arg[2]
  BY <1>0, <1>1, QueueTypes DEF NetTypeOK
<1>3. CASE nrm_msg_is_reply(m)
  <2>1. /\ down' = [down EXCEPT ![d] = Tail(@)]
        /\ fromBroker' = [fromBroker EXCEPT ![d] = Append(@, m)]
        /\ UNCHANGED <<status, applied, missed, up, pubs, wanted, topics, connected, serving>>
    BY <1>3, Zenon DEF nrm_client_broker_rpc_handler
  <2> HIDE DEF m, u, v
  <2> QED
    BY <1>0, <1>1, <1>2, <1>3, <2>1, ZenonT(30) DEF Receives, Idle, NetIdle, PipesIdle, KeptIdle, CallsIdle,
       threadVars, ClientTypeOK, NetTypeOK
<1>4. CASE ~nrm_msg_is_reply(m)
  <2>1. CommandCallback(d, u, v) /\ fromBroker' = fromBroker
    BY <1>4, Zenon DEF nrm_client_broker_rpc_handler
  <2> HIDE DEF m
  <2>2. u \in Uuids
    <3>1. m \in Message /\ m.type = "ACTUATE"
      BY <1>2, <1>4 DEF ToClient, nrm_msg_is_reply
    <3> QED  BY <3>1, Arguments
  <2>3. CASE /\ missed' = [missed EXCEPT ![d] = @ \cup {u}]
             /\ down' = [down EXCEPT ![d] = Tail(@)]
             /\ UNCHANGED <<status, applied, up, pubs, wanted, topics, connected, serving>>
    <3> HIDE DEF u, v
    <3>1. down'[d] = Tail(down[d]) /\ (c # d => down'[c] = down[c])
      BY <1>0, <2>3 DEF NetTypeOK
    <3>2. missed'[d] = missed[d] \cup {u} /\ (c # d => missed'[c] = missed[c])
      BY <1>0, <2>3 DEF ClientTypeOK
    <3> QED
      BY <1>1, <1>2, <1>4, <2>1, <2>3, <3>1, <3>2, Zenon DEF Receives, Idle, NetIdle, PipesIdle, KeptIdle,
         CallsIdle, threadVars
  <2>4. CASE /\ status' = [status EXCEPT ![d] = "segv"] /\ CloseClientSockets(d)
             /\ UNCHANGED <<missed, applied>>
    <3>1. /\ c # d => NetIdle(c)
          /\ connected'[d] = FALSE /\ up'[d] \in Prefix(up[d])
          /\ down'[d] = <<>> /\ pubs'[d] = <<>> /\ wanted'[d] = {} /\ topics'[d] = {}
          /\ serving' = serving
      BY <1>0, <2>4, CloseViews, Zenon
    <3> QED
      BY <1>0, <1>1, <2>1, <2>4, <3>1, Zenon DEF Gone, Idle, PipesIdle, KeptIdle, CallsIdle,
         threadVars, ClientTypeOK
  <2>5. CASE /\ applied' = [applied EXCEPT ![d][u] = v]
             /\ missed' = [missed EXCEPT ![d] = @ \ {u}]
             /\ down' = [down EXCEPT ![d] = Tail(@)]
             /\ UNCHANGED <<status, up, pubs, wanted, topics, connected, serving>>
    <3> HIDE DEF u, v
    <3>1. down'[d] = Tail(down[d]) /\ (c # d => down'[c] = down[c])
      BY <1>0, <2>5 DEF NetTypeOK
    <3>2. missed'[d] = missed[d] \ {u} /\ (c # d => missed'[c] = missed[c])
      BY <1>0, <2>5 DEF ClientTypeOK
    <3>3. applied'[d] = [applied[d] EXCEPT ![u] = v] /\ (c # d => applied'[c] = applied[c])
      BY <1>0, <2>5 DEF ClientTypeOK
    <3>4. CASE c = d
      <4>1. Receives(d, m)
        BY <1>1, <1>2, <1>4, <2>1, <2>5, <3>1, <3>2, <3>3, Zenon DEF Receives, CallsIdle, threadVars
      <4> QED  BY <1>2, <2>5, <3>4, <4>1, Zenon
    <3>5. CASE c # d
      BY <1>1, <2>1, <2>5, <3>1, <3>2, <3>3, <3>5, Zenon DEF Idle, NetIdle, PipesIdle, KeptIdle,
         CallsIdle, threadVars
    <3> QED  BY <2>5, <3>4, <3>5
  <2> QED  BY <2>1, <2>3, <2>4, <2>5, Zenon DEF CommandCallback
<1> QED  BY <1>3, <1>4

\* The sub handler gives a message to the listener, drops it, or crashes.
LEMMA SubViews ==
  ASSUME TypeOK, NEW d \in Clients, nrm_client_broker_sub_handler(d), NEW c \in Clients
  PROVE  /\ serving' = serving
         /\ IF c = d THEN Gone(c) \/ \E m \in ToListeners : Hears(c, m) ELSE Idle(c)
<1> DEFINE m == Head(pubs[d])
<1>0. ClientTypeOK /\ NetTypeOK
  BY DEF TypeOK
<1>1. /\ BrokerRuns(d) /\ pubs[d] # <<>>
      /\ UNCHANGED <<threadVars, toBroker, fromBroker, cmdcb, subcb, applied, missed>>
  BY Zenon DEF nrm_client_broker_sub_handler
<1>2. m \in ToListeners /\ m = Head(pubs[d])
  BY <1>0, <1>1, QueueTypes DEF NetTypeOK
<1>3. CASE subcb[d] = "fn"
  <2>1. status' = [status EXCEPT ![d] = "segv"] /\ CloseClientSockets(d) /\ heard' = heard
    BY <1>3, Zenon DEF nrm_client_broker_sub_handler
  <2>2. /\ c # d => NetIdle(c)
        /\ connected'[d] = FALSE /\ up'[d] \in Prefix(up[d])
        /\ down'[d] = <<>> /\ pubs'[d] = <<>> /\ wanted'[d] = {} /\ topics'[d] = {}
        /\ serving' = serving
    BY <1>0, <2>1, CloseViews, Zenon
  <2> QED
    BY <1>0, <1>1, <2>1, <2>2, ZenonT(30) DEF Gone, Idle, PipesIdle, KeptIdle, CallsIdle,
       threadVars, ClientTypeOK
<1>4. CASE subcb[d] # "fn"
  <2>1. /\ heard' = IF subcb[d] = "set" THEN [heard EXCEPT ![d] = Append(@, m.arg)] ELSE heard
        /\ pubs' = [pubs EXCEPT ![d] = Tail(@)]
        /\ UNCHANGED <<status, up, down, wanted, topics, connected, serving>>
    BY <1>4, Zenon DEF nrm_client_broker_sub_handler
  <2> HIDE DEF m
  <2>2. /\ heard'[d] = IF subcb[d] = "set" THEN Append(heard[d], m.arg) ELSE heard[d]
        /\ c # d => heard'[c] = heard[c]
    BY <1>0, <2>1 DEF ClientTypeOK
  <2>3. pubs'[d] = Tail(pubs[d]) /\ (c # d => pubs'[c] = pubs[c])
    BY <1>0, <2>1 DEF NetTypeOK
  <2> QED
    BY <1>1, <1>2, <2>1, <2>2, <2>3, Zenon DEF Hears, Idle, NetIdle, PipesIdle, KeptIdle,
       CallsIdle, threadVars
<1> QED  BY <1>3, <1>4

\* Whatever the clients do, client c stands still or makes a step of its own.
LEMMA ClientViews ==
  ASSUME TypeOK, NEW c \in Clients, ClientNext
  PROVE  serving' = serving /\ (Idle(c) \/ ClientStep(c))
<1>1. ASSUME NEW t \in Threads, ThreadNext(t)
      PROVE  serving' = serving /\ (Idle(c) \/ ClientStep(c))
  <2>1. CASE \/ \E a \in Objects, v \in RequestValues : nrm_client_actuate(t, a, v)
             \/ \E a \in Objects : nrm_client_add_actuator(t, a)
             \/ \E target \in RequestTargets \cap PlainTargets, u \in Uuids : nrm_client_add(t, target, u)
             \/ \E target \in RequestTargets : nrm_client_list(t, target)
             \/ \E target \in RequestTargets : nrm_client_find(t, target)
             \/ \E target \in RequestTargets, u \in Uuids : nrm_client_remove(t, target, u)
             \/ nrm_client_send_tick(t)
    BY <2>1, AskTypes, PushViews, Zenon DEF ClientStep
  <2>2. CASE \/ nrm_client_send_event(t) \/ nrm_client_send_exit(t)
             \/ \E topic \in Topics : nrm_role_client_sub(t, topic)
             \/ nrm_client_destroy(t)
    BY <2>2, PushViews, Zenon DEF ClientStep
  <2>3. CASE \/ LockForReply(t) \/ nrm_role_client_recv(t)
             \/ nrm_role_client_register_cmd_cb(t) \/ register_cmd_cb_arg(t)
             \/ nrm_role_client_register_sub_cb(t)
    BY <2>3, WaitViews, Zenon DEF ClientStep
  <2> QED  BY <1>1, <2>1, <2>2, <2>3, Zenon DEF ThreadNext
<1>2. ASSUME NEW d \in Clients, BrokerNext(d)
      PROVE  serving' = serving /\ (Idle(c) \/ ClientStep(c))
  BY <1>2, PipeViews, RpcViews, SubViews, Zenon DEF BrokerNext, ClientStep
<1> QED  BY <1>1, <1>2 DEF ClientNext

-----------------------------------------------------------------------------
(* The steps of the daemon that answer a request *)

Orders == {h \in ToControllerBroker : h.ctrl = "SEND" /\ h.msg.type = "ACTUATE"}

\* The pipe to the controller's broker, maybe with one more command.
Ordered(p) == p = ctlSend \/ \E o \in Orders : p = Append(ctlSend, o)

\* Reply m to request r tells what the registry holds when it is sent.
Truthful(m, r) ==
  /\ m \in Replies \cap ToClient
  /\ m.type = "ADD" => /\ r.type = "ADD" /\ m = r
                       /\ \A target \in Targets : m.target = target => UuidOf(m) \in nrm_state_list(target)'
  /\ m.type = "LIST" => r.type = "LIST" /\ m.target \in Targets /\ m.arg = nrm_state_list(m.target)

\* The server takes request h from the pipe and answers it, or enters the
\* control loop for it.
Answers(h) ==
  /\ daemon = "running" /\ loop = NULL
  /\ ctlRecv # <<>> /\ h = Head(ctlRecv) /\ h.msg \in Asking /\ ctlRecv' = Tail(ctlRecv)
  /\ daemon' = IF h.msg.type = "EXIT" THEN "exiting" ELSE "running"
  /\ UNCHANGED <<events, timer, netVars>>
  /\ \A target \in Targets : nrm_state_list(target) \subseteq nrm_state_list(target)'
  /\ \/ /\ h.msg.type = "TICK" /\ loop' = [k |-> 1, from |-> h.from] /\ ctlSend' = ctlSend
     \/ /\ loop' = NULL
        /\ \E p \in Seq(ToControllerBroker), m \in Replies :
             Ordered(p) /\ ctlSend' = Append(p, Send(h.from, m)) /\ Truthful(m, h.msg)

\* The control loop updates an actuator, and ends with the ACK of a TICK.
Controls ==
  /\ daemon = "running" /\ loop # NULL
  /\ UNCHANGED <<daemon, ctlRecv, events, timer, netVars>>
  /\ \A target \in Targets : nrm_state_list(target)' = nrm_state_list(target)
  /\ \E p \in Seq(ToControllerBroker) :
       /\ Ordered(p)
       /\ \/ loop' # NULL /\ loop'.from = loop.from /\ ctlSend' = p
          \/ loop' = NULL /\ loop.from = NULL /\ ctlSend' = p
          \/ loop' = NULL /\ loop.from # NULL /\ ctlSend' = Append(p, Send(loop.from, Ack))

Crashes ==
  /\ nrm_server_role_callback("REMOVE") /\ Crash
  /\ UNCHANGED <<stateVars, loop, events, timer>>

ServerStep ==
  \/ \E h \in FromControllerBroker : Answers(h)
  \/ Controls
  \/ Crashes
  \/ nrm_server_events_callback
  \/ nrm_server_destroy
  \/ nrm_server_timer_callback
  \/ nrm_server_signal_callback
  \/ \E c \in Clients : nrm_controller_broker_rpc_handler(c)
  \/ nrm_controller_broker_pipe_handler

\* Setting the value of a registered actuator registers and removes nothing.
LEMMA SetValueLists ==
  ASSUME ServerTypeOK, NEW u \in Uuids, NEW v \in Int, actuators[u] # NULL, SetValue(u, v),
         objects' = objects, NEW target \in Targets
  PROVE  nrm_state_list(target)' = nrm_state_list(target)
<1> DEFINE w == nrm_actuator_corrected_value(actuators[u].obj, v)
<1>1. actuators[u] \in Registered
  BY DEF ServerTypeOK
<1>2. actuators' = [actuators EXCEPT ![u].value = w] /\ w \in Int
  BY <1>1, CorrectedType DEF SetValue, Registered
<1> HIDE DEF w
<1>3. NULL \notin Registered
  BY ServerAssumption
<1>4. \A x : actuators'[x] # NULL <=> actuators[x] # NULL
  <2>1. [actuators[u] EXCEPT !.value = w] # NULL
    BY <1>1, <1>2, <1>3 DEF Registered
  <2> QED  BY <1>2, <2>1, SMTT(60) DEF ServerTypeOK
<1> QED  BY <1>4 DEF nrm_state_list

\* A command of the server is an order.
LEMMA CommandOrders ==
  ASSUME ServerTypeOK, NEW u \in Uuids, NEW v \in Int, actuators[u] # NULL, SetValue(u, v)
  PROVE  Command(u, v) \in Orders /\ Append(ctlSend, Command(u, v)) \in Seq(ToControllerBroker)
<1>1. Command(u, v) \in ToControllerBroker
  BY SetValueTypes
<1>2. Command(u, v).ctrl = "SEND" /\ Command(u, v).msg.type = "ACTUATE"
  BY DEF Command, Send, nrm_msg_set_actuate
<1> HIDE DEF SetValue
<1> QED  BY <1>1, <1>2, QueueTypes DEF Orders, ServerTypeOK

\* The callbacks of the server answer.
LEMMA AnswerViews ==
  ASSUME TypeOK,
         \/ nrm_server_actuate_callback \/ nrm_server_add_callback \/ nrm_server_list_callback
         \/ nrm_server_remove_callback \/ nrm_server_exit_callback \/ nrm_server_tick_callback
  PROVE  Crashes \/ \E h \in FromControllerBroker : Answers(h)
<1> DEFINE h == Head(ctlRecv)
<1>0. ServerTypeOK /\ ctlSend \in Seq(ToControllerBroker)
  BY DEF TypeOK, ServerTypeOK
<1>1. ASSUME NEW type \in {"ACTUATE", "ADD", "LIST", "REMOVE", "EXIT", "TICK"},
             nrm_server_role_callback(type)
      PROVE  /\ h \in FromControllerBroker /\ h.from = From /\ h.msg = Received /\ h.msg \in Asking
             /\ From \in Clients /\ Received \in Message /\ Received.type = type
             /\ daemon = "running" /\ loop = NULL /\ ctlRecv # <<>> /\ ctlRecv' = Tail(ctlRecv)
  <2>1. /\ From \in Clients /\ Received \in Message /\ Received.type = type
        /\ daemon = "running" /\ loop = NULL
    BY <1>0, <1>1, ReceivedTypes
  <2>2. ctlRecv # <<>> /\ ctlRecv' = Tail(ctlRecv)
    BY <1>1 DEF nrm_server_role_callback
  <2>3. h \in FromControllerBroker
    BY <1>0, <2>2, QueueTypes, ZenonT(30) DEF ServerTypeOK
  <2> QED  BY <2>1, <2>2, <2>3 DEF From, Received, Asking
<1> DEFINE Frame == /\ daemon' = IF h.msg.type = "EXIT" THEN "exiting" ELSE "running"
                    /\ UNCHANGED <<events, timer, netVars>>
                    /\ \A target \in Targets : nrm_state_list(target) \subseteq nrm_state_list(target)'
           Reply(m) == /\ Truthful(m, h.msg) /\ loop' = NULL
                       /\ \E p \in Seq(ToControllerBroker) :
                            Ordered(p) /\ ctlSend' = Append(p, Send(h.from, m))
<1>2. /\ Ordered(ctlSend)
      /\ \A o \in Orders : Ordered(Append(ctlSend, o))
  BY DEF Ordered
<1>3. Ack \in Replies /\ Ack \in ToClient /\ Ack.type = "ACK" /\ \A r : Truthful(Ack, r)
  <2>1. Ack.type = "ACK"
    BY DEF Ack, nrm_msg_fill
  <2>2. Ack \in ToClient
    BY Outgoing
  <2>3. Ack \in Replies
    BY <2>1, <2>2 DEF Replies, ToClient, nrm_msg_is_reply
  <2> QED  BY <2>1, <2>2, <2>3 DEF Truthful
<1>4. UNCHANGED stateVars => \A target \in Targets : nrm_state_list(target) \subseteq nrm_state_list(target)'
  BY DEF stateVars, nrm_state_list
<1>5. ASSUME NEW type \in {"ACTUATE", "ADD", "LIST", "REMOVE", "EXIT", "TICK"},
             nrm_server_role_callback(type), Frame, NEW m, Reply(m)
      PROVE  \E g \in FromControllerBroker : Answers(g)
  <2>1. m \in Replies
    BY <1>5, Zenon DEF Truthful
  <2>2. h = Head(ctlRecv)
    OBVIOUS
  <2>3. Answers(h)
    BY <1>1, <1>5, <2>1, <2>2, Zenon DEF Answers
  <2> QED  BY <1>1, <1>5, <2>3
<1>6. CASE nrm_server_actuate_callback
  <2> DEFINE u == Received.arg[1]
             v == Received.arg[2]
  <2>1. nrm_server_role_callback("ACTUATE") /\ UNCHANGED <<daemon, objects, loop, events, timer, netVars>>
    BY <1>6, Zenon DEF nrm_server_actuate_callback
  <2>2. /\ From \in Clients /\ Received \in Message /\ Received.type = "ACTUATE"
        /\ h.from = From /\ h.msg = Received /\ daemon = "running" /\ loop = NULL
    BY <1>1, <2>1
  <2>3. u \in Uuids /\ v \in Int
    BY <2>2, Arguments
  <2>4. CASE /\ actuators[u] # NULL /\ SetValue(u, v)
             /\ ctlSend' = Append(Append(ctlSend, Command(u, v)), Send(From, Ack))
    <3>1. Command(u, v) \in Orders /\ Append(ctlSend, Command(u, v)) \in Seq(ToControllerBroker)
      BY <1>0, <2>3, <2>4, CommandOrders
    <3>2. \A target \in Targets : nrm_state_list(target)' = nrm_state_list(target)
      BY <1>0, <2>1, <2>3, <2>4, SetValueLists, ZenonT(30)
    <3>3. Frame
      BY <2>1, <2>2, <3>2
    <3>4. Reply(Ack)
      BY <1>2, <1>3, <2>1, <2>2, <2>4, <3>1, Zenon
    <3> QED  BY <1>5, <2>1, <3>3, <3>4
  <2>5. CASE ctlSend' = Append(ctlSend, Send(From, Ack)) /\ UNCHANGED actuators
    <3>1. Frame
      BY <1>4, <2>1, <2>2, <2>5 DEF stateVars
    <3>2. Reply(Ack)
      BY <1>0, <1>2, <1>3, <2>1, <2>2, <2>5, ZenonT(30)
    <3> QED  BY <1>5, <2>1, <3>1, <3>2
  <2> QED  BY <1>6, <2>4, <2>5, Zenon DEF nrm_server_actuate_callback
<1>7. CASE nrm_server_add_callback
  <2>1. /\ nrm_server_role_callback("ADD") /\ UNCHANGED <<daemon, loop, events, timer, netVars>>
        /\ ctlSend' = Append(ctlSend, Send(From, Received))
    BY <1>7, Zenon DEF nrm_server_add_callback
  <2>2. /\ From \in Clients /\ Received \in Message /\ Received.type = "ADD"
        /\ h.from = From /\ h.msg = Received /\ daemon = "running" /\ loop = NULL
    BY <1>1, <2>1
  <2>3. Received \in Replies /\ Received \in ToClient
    BY <2>2 DEF Replies, ToClient, nrm_msg_is_reply
  <2>4. /\ \A target \in Targets : nrm_state_list(target) \subseteq nrm_state_list(target)'
        /\ \A target \in Targets : Received.target = target => UuidOf(Received) \in nrm_state_list(target)'
    <3> DEFINE x == [obj |-> Received.arg, owner |-> From, value |-> Received.arg.value]
    <3>1. CASE /\ Received.target = "ACTUATOR" /\ nrm_state_add_actuator(Received.arg.uuid, x)
               /\ UNCHANGED objects
      <4>1. Received.arg \in Actuator
        BY <2>2, <3>1, Arguments
      <4>2. Received.arg.uuid \in Uuids /\ Received.arg.value \in Int
        BY <4>1 DEF Actuator, ContinuousActuator, DiscreteActuator
      <4>3. x \in Registered
        BY <2>2, <4>1, <4>2 DEF Registered
      <4>4. x # NULL
        BY <4>3, ServerAssumption
      <4> HIDE DEF x
      <4>5. /\ actuators'[Received.arg.uuid] # NULL
            /\ \A y \in Uuids : actuators[y] # NULL => actuators'[y] # NULL
        BY <1>0, <3>1, <4>2, <4>4, ZenonT(30) DEF nrm_state_add_actuator, ServerTypeOK
      <4>6. UuidOf(Received) = Received.arg.uuid
        BY <3>1 DEF UuidOf
      <4> QED  BY <3>1, <4>2, <4>5, <4>6 DEF nrm_state_list
    <3>2. CASE /\ Received.target # "ACTUATOR" /\ nrm_state_add(Received.target, Received.arg)
               /\ UNCHANGED actuators
      <4>1. Received.target \in PlainTargets
        BY <2>2, <3>2, Arguments
      <4>2. /\ Received.arg \in objects'[Received.target]
            /\ \A target \in PlainTargets : objects[target] \subseteq objects'[target]
        BY <1>0, <3>2, <4>1 DEF nrm_state_add, ServerTypeOK
      <4>3. UuidOf(Received) = Received.arg
        BY <3>2 DEF UuidOf
      <4> QED
        BY <1>0, <3>2, <4>1, <4>2, <4>3, ZenonT(30) DEF nrm_state_list, Targets
    <3> QED  BY <1>7, <3>1, <3>2, Zenon DEF nrm_server_add_callback
  <2>5. Frame
    BY <2>1, <2>2, <2>4
  <2>6. Reply(Received)
    <3>1. Truthful(Received, Received)
      BY <2>2, <2>3, <2>4 DEF Truthful
    <3> QED  BY <1>0, <1>2, <2>1, <2>2, <3>1, ZenonT(30)
  <2> QED  BY <1>5, <2>1, <2>5, <2>6
<1>8. CASE nrm_server_list_callback
  <2> DEFINE m == nrm_msg_set_list(Received.target, nrm_state_list(Received.target))
  <2>1. /\ nrm_server_role_callback("LIST") /\ UNCHANGED <<daemon, stateVars, loop, events, timer, netVars>>
        /\ ctlSend' = Append(ctlSend, Send(From, m))
    BY <1>8, Zenon DEF nrm_server_list_callback
  <2>2. /\ From \in Clients /\ Received \in Message /\ Received.type = "LIST"
        /\ h.from = From /\ h.msg = Received /\ daemon = "running" /\ loop = NULL
    BY <1>1, <2>1
  <2>3. Received.target \in Targets
    BY <2>2, Arguments
  <2>4. m \in ToClient
    BY <1>0, <2>3, ListTypes, Outgoing
  <2>5. m.type = "LIST" /\ m.target = Received.target /\ m.arg = nrm_state_list(Received.target)
    BY DEF nrm_msg_set_list
  <2>6. Frame
    BY <1>4, <2>1, <2>2
  <2> HIDE DEF m
  <2>7. Reply(m)
    <3>1. Truthful(m, Received)
      BY <2>2, <2>3, <2>4, <2>5 DEF Truthful, Replies, ToClient, nrm_msg_is_reply
    <3> QED  BY <1>0, <1>2, <2>1, <2>2, <3>1
  <2> QED  BY <1>5, <2>1, <2>6, <2>7
<1>9. CASE nrm_server_remove_callback \/ nrm_server_exit_callback \/ nrm_server_tick_callback
  <2>1. CASE Crashes
    BY <2>1
  <2>2. ASSUME NEW type \in {"REMOVE", "EXIT", "TICK"}, nrm_server_role_callback(type),
               ctlSend' = Append(ctlSend, Send(From, Ack)), loop' = loop,
               daemon' = IF type = "EXIT" THEN "exiting" ELSE daemon,
               UNCHANGED <<stateVars, events, timer, netVars>>
        PROVE  \E g \in FromControllerBroker : Answers(g)
    <3>1. /\ From \in Clients /\ Received \in Message /\ Received.type = type
          /\ h.from = From /\ h.msg = Received /\ daemon = "running" /\ loop = NULL
      BY <1>1, <2>2, Zenon
    <3>2. Frame
      BY <1>4, <2>2, <3>1, Zenon
    <3>3. Reply(Ack)
      BY <1>0, <1>2, <1>3, <2>2, <3>1
    <3> QED  BY <1>5, <2>2, <3>2, <3>3, Zenon
  <2>3. CASE /\ nrm_server_role_callback("TICK") /\ StartControl(From) /\ UNCHANGED ctlSend
             /\ UNCHANGED <<daemon, stateVars, events, timer, netVars>>
    <3>1. /\ From \in Clients /\ Received \in Message /\ Received.type = "TICK"
          /\ h \in FromControllerBroker /\ h.msg \in Asking
          /\ ctlRecv # <<>> /\ ctlRecv' = Tail(ctlRecv)
          /\ h.from = From /\ h.msg = Received /\ daemon = "running" /\ loop = NULL
      BY <1>1, <2>3
    <3>2. Frame
      BY <1>4, <2>3, <3>1
    <3>3. h = Head(ctlRecv)
      OBVIOUS
    <3>4. Answers(h)
      BY <2>3, <3>1, <3>2, <3>3, Zenon DEF Answers, StartControl
    <3> QED  BY <3>1, <3>4
  <2>4. CASE nrm_server_remove_callback
    BY <2>1, <2>2, <2>4 DEF nrm_server_remove_callback, Crashes
  <2>5. CASE nrm_server_exit_callback
    BY <2>2, <2>5 DEF nrm_server_exit_callback
  <2>6. CASE nrm_server_tick_callback
    BY <2>2, <2>3, <2>6 DEF nrm_server_tick_callback
  <2> QED  BY <1>9, <2>4, <2>5, <2>6
<1> QED  BY <1>6, <1>7, <1>8, <1>9

\* An iteration of the control loop.
LEMMA ControlViews ==
  ASSUME TypeOK, nrm_server_actuate
  PROVE  Controls
<1> DEFINE u == Outputs[loop.k]
<1>0. ServerTypeOK /\ ctlSend \in Seq(ToControllerBroker)
  BY DEF TypeOK, ServerTypeOK
<1>1. /\ daemon = "running" /\ loop # NULL
      /\ loop' = IF LastOutput THEN NULL ELSE [loop EXCEPT !.k = @ + 1]
      /\ UNCHANGED <<daemon, objects, ctlRecv, events, timer, netVars>>
  BY Zenon DEF nrm_server_actuate
<1>2. loop \in ControlLoop /\ u \in Uuids
  BY <1>0, <1>1, ServerAssumption, SMTT(60) DEF ServerTypeOK, ControlLoop
<1>3. ASSUME NEW p \in Seq(ToControllerBroker), Ordered(p), ctlSend' = AckTick(p),
             \A target \in Targets : nrm_state_list(target)' = nrm_state_list(target)
      PROVE  Controls
  <2>1. CASE LastOutput
    BY <1>1, <1>3, <2>1 DEF Controls, AckTick
  <2>2. CASE ~LastOutput
    <3>1. loop' = [loop EXCEPT !.k = @ + 1] /\ ctlSend' = p
      BY <1>1, <1>3, <2>2 DEF AckTick
    <3>2. loop'.from = loop.from
      BY <1>2, <3>1 DEF ControlLoop
    <3>3. loop' # NULL
      <4>1. loop.k + 1 \in DOMAIN Outputs
        BY <1>2, <2>2, ServerAssumption, SMTT(60) DEF ControlLoop, LastOutput
      <4>2. loop' \in ControlLoop
        BY <1>2, <3>1, <4>1 DEF ControlLoop
      <4> QED  BY <4>2, ServerAssumption
    <3> QED  BY <1>1, <1>3, <3>1, <3>2, <3>3 DEF Controls
  <2> QED  BY <2>1, <2>2
<1>4. ASSUME actuators[u] # NULL, NEW v \in NewValues(loop.k), SetValue(u, v),
             ctlSend' = AckTick(Append(ctlSend, Command(u, v)))
      PROVE  Controls
  <2>1. v \in Int
    BY <1>0, <1>2, <1>4, ServerAssumption DEF NewValues, ServerTypeOK, Registered
  <2>2. Command(u, v) \in Orders /\ Append(ctlSend, Command(u, v)) \in Seq(ToControllerBroker)
    BY <1>0, <1>2, <1>4, <2>1, CommandOrders, ZenonT(30)
  <2>3. \A target \in Targets : nrm_state_list(target)' = nrm_state_list(target)
    BY <1>0, <1>1, <1>2, <1>4, <2>1, SetValueLists, ZenonT(30)
  <2>4. Ordered(Append(ctlSend, Command(u, v)))
    BY <2>2 DEF Ordered
  <2> QED  BY <1>3, <1>4, <2>2, <2>3, <2>4, Zenon
<1>5. CASE ctlSend' = AckTick(ctlSend) /\ UNCHANGED actuators
  <2>1. \A target \in Targets : nrm_state_list(target)' = nrm_state_list(target)
    BY <1>1, <1>5 DEF nrm_state_list
  <2>2. Ordered(ctlSend)
    BY DEF Ordered
  <2> QED  BY <1>0, <1>3, <1>5, <2>1, <2>2
<1> QED  BY <1>4, <1>5, Zenon DEF nrm_server_actuate

\* The steps of the daemon.
LEMMA ServerViews ==
  ASSUME TypeOK, ServerNext
  PROVE  ServerStep
  BY AnswerViews, ControlViews, Zenon DEF ServerNext, Handler, ServerStep

-----------------------------------------------------------------------------
(* What is pushed on the pipe to the controller's broker *)

Sends == {h \in ToControllerBroker : h.ctrl = "SEND"}

\* The daemon's answers and commands are pushed behind what is there.
LEMMA Pushed ==
  ASSUME TypeOK, Controls \/ \E h \in FromControllerBroker : Answers(h)
  PROVE  \/ ctlSend' = ctlSend
         \/ \E a \in Sends : ctlSend' = Append(ctlSend, a)
         \/ \E a, b \in Sends : ctlSend' = Append(Append(ctlSend, a), b)
<1>0. loop \in ControlLoop \cup {NULL}
  BY DEF TypeOK, ServerTypeOK
<1>1. ASSUME NEW p, Ordered(p)
      PROVE  p = ctlSend \/ \E a \in Sends : p = Append(ctlSend, a)
  BY <1>1 DEF Ordered, Orders, Sends
<1>2. ASSUME NEW c \in Clients, NEW m \in ToClient
      PROVE  Send(c, m) \in Sends
  BY Control DEF Sends, Send
<1>3. ASSUME NEW p, Ordered(p), NEW b \in Sends, ctlSend' = p \/ ctlSend' = Append(p, b)
      PROVE  \/ ctlSend' = ctlSend
             \/ \E a \in Sends : ctlSend' = Append(ctlSend, a)
             \/ \E a, d \in Sends : ctlSend' = Append(Append(ctlSend, a), d)
  <2>1. CASE p = ctlSend
    BY <1>3, <2>1
  <2>2. ASSUME NEW a \in Sends, p = Append(ctlSend, a)
        PROVE  (\E d \in Sends : ctlSend' = Append(ctlSend, d))
               \/ ctlSend' = Append(Append(ctlSend, a), b)
    BY <1>3, <2>2
  <2> QED  BY <1>1, <1>3, <2>1, <2>2, ZenonT(30)
<1>4. CASE Controls
  <2>1. PICK p \in Seq(ToControllerBroker) :
          Ordered(p) /\ (ctlSend' = p \/ (loop # NULL /\ loop.from # NULL /\ ctlSend' = Append(p, Send(loop.from, Ack))))
    BY <1>4 DEF Controls
  <2>2. CASE ctlSend' = p
    BY <1>1, <2>1, <2>2
  <2>3. CASE loop # NULL /\ loop.from # NULL /\ ctlSend' = Append(p, Send(loop.from, Ack))
    <3>1. loop.from \in Clients
      BY <1>0, <2>3 DEF ControlLoop
    <3>2. Send(loop.from, Ack) \in Sends
      BY <1>2, <3>1, Outgoing
    <3> QED  BY <1>3, <2>1, <2>3, <3>2
  <2> QED  BY <2>1, <2>2, <2>3
<1>5. ASSUME NEW h \in FromControllerBroker, Answers(h)
      PROVE  \/ ctlSend' = ctlSend
             \/ \E a \in Sends : ctlSend' = Append(ctlSend, a)
             \/ \E a, d \in Sends : ctlSend' = Append(Append(ctlSend, a), d)
  <2>1. h.from \in Clients
    BY DEF FromControllerBroker
  <2>2. CASE ctlSend' = ctlSend
    BY <2>2
  <2>3. ASSUME NEW p \in Seq(ToControllerBroker), NEW m \in Replies, Ordered(p),
               ctlSend' = Append(p, Send(h.from, m)), Truthful(m, h.msg)
        PROVE  \/ ctlSend' = ctlSend
               \/ \E a \in Sends : ctlSend' = Append(ctlSend, a)
               \/ \E a, d \in Sends : ctlSend' = Append(Append(ctlSend, a), d)
    <3>1. m \in ToClient
      BY <2>3 DEF Truthful
    <3>2. Send(h.from, m) \in Sends
      BY <1>2, <2>1, <3>1
    <3> QED  BY <1>3, <2>3, <3>2
  <2> QED  BY <1>5, <2>2, <2>3 DEF Answers
<1> QED  BY <1>4, <1>5

\* What is not a message to one client is as before.
LEMMA PushedOther ==
  ASSUME TypeOK, Controls \/ \E h \in FromControllerBroker : Answers(h),
         NEW S, \A a \in Sends : a \notin S, NoneIn(ctlSend, S)
  PROVE  NoneIn(ctlSend', S)
<1>0. ctlSend \in Seq(ToControllerBroker) /\ \A a \in Sends : a \in ToControllerBroker
  BY DEF TypeOK, ServerTypeOK, Sends
<1>1. ASSUME NEW q \in Seq(ToControllerBroker), NoneIn(q, S), NEW a \in Sends
      PROVE  NoneIn(Append(q, a), S) /\ Append(q, a) \in Seq(ToControllerBroker)
  BY <1>0, <1>1, QueueAppend, QueueTypes
<1> QED  BY <1>0, <1>1, Pushed, Zenon

-----------------------------------------------------------------------------
(* Processes and their sockets *)

\* A client whose broker runs has its sockets open, the controller's broker has
\* the daemon's open, and the daemon tells it to end only when it has left its
\* loop.
Lives ==
  /\ \A c \in Clients : BrokerRuns(c) => connected[c]
  /\ ControllerRuns => serving
  /\ daemon \in {"running", "exiting"} => NoneIn(ctlSend, {Term})

\* All run at the start.
LEMMA LivesInit ==
  ASSUME Init PROVE Lives
<1>1. NoneIn(<<>>, {Term})
  BY QueueEmpty
<1> QED  BY <1>1 DEF Init, ClientInit, NetInit, ServerInit, Lives, BrokerRuns

\* A step of a client.
LEMMA LivesClient ==
  ASSUME TypeOK, Lives, ClientNext, UNCHANGED serverVars
  PROVE  Lives'
<1>1. ASSUME NEW c \in Clients
      PROVE  serving' = serving /\ (BrokerRuns(c) => connected[c])' 
  <2>1. serving' = serving /\ (Idle(c) \/ ClientStep(c))
    BY ClientViews
  <2>2. BrokerRuns(c) => connected[c]
    BY DEF Lives
  <2> QED
    BY <2>1, <2>2, Zenon DEF Idle, ClientStep, Waits, Gone, Pushes, Takes, Transmits, Receives, Hears,
       NetIdle, BrokerRuns
<1>2. UNCHANGED <<daemon, ctlSend>>
  BY DEF serverVars
<1>3. serving' = serving
  <2>1. \E c \in Clients : TRUE
    BY ClientAssumption DEF ClientNext
  <2> QED  BY <1>1, <2>1
<1> QED  BY <1>1, <1>2, <1>3, Zenon DEF Lives, ControllerRuns

\* A step of the daemon.
LEMMA LivesServer ==
  ASSUME TypeOK, Lives, ServerNext, UNCHANGED clientVars
  PROVE  Lives'
<1>0. ServerTypeOK /\ ctlSend \in Seq(ToControllerBroker)
  BY DEF TypeOK, ServerTypeOK
<1>1. connected' = connected
  BY ServerViews, Zenon DEF ServerStep, Answers, Controls, Crashes, Crash, CloseServerSockets,
     nrm_server_events_callback, nrm_server_destroy, nrm_server_timer_callback,
     nrm_server_signal_callback, nrm_controller_broker_rpc_handler,
     nrm_controller_broker_pipe_handler, netVars
<1>2. \A c \in Clients : (BrokerRuns(c) => connected[c])'
  BY <1>1 DEF Lives, BrokerRuns, clientVars
<1>3. ASSUME NEW e \in ToControllerBroker, e # Term, ctlSend' = Append(ctlSend, e),
             NoneIn(ctlSend, {Term})
      PROVE  NoneIn(ctlSend', {Term})
  BY <1>0, <1>3, QueueAppend, Zenon
<1>4. CASE Controls \/ \E h \in FromControllerBroker : Answers(h)
  <2>1. \A a \in Sends : a \notin {Term}
    BY DEF Sends, Term
  <2>2. NoneIn(ctlSend', {Term})
    <3>1. NoneIn(ctlSend, {Term})
      BY <1>4 DEF Lives, Controls, Answers
    <3> QED  BY <1>4, <2>1, <3>1, PushedOther
  <2> QED  BY <1>2, <1>4, <2>2, Zenon DEF Lives, Controls, Answers, ControllerRuns, netVars
<1>5. CASE Crashes
  BY <1>2, <1>5, Zenon DEF Crashes, Crash, Lives, ControllerRuns
<1>6. CASE nrm_server_events_callback
  <2>1. Received \in ToListeners
    BY <1>0, <1>6, ReceivedTypes DEF nrm_server_events_callback, ToListeners
  <2>2. /\ Pub("daemon.events.raw", Received) \in ToControllerBroker
        /\ Pub("daemon.events.raw", Received) # Term
    BY <2>1, Control DEF Pub, Term, Topics
  <2> QED
    BY <1>2, <1>3, <1>6, <2>2, Zenon DEF nrm_server_events_callback, nrm_server_role_callback, Lives,
       ControllerRuns, netVars
<1>7. CASE nrm_server_destroy
  BY <1>2, <1>7 DEF nrm_server_destroy, Lives, ControllerRuns, netVars
<1>8. CASE nrm_server_timer_callback
  <2> DEFINE m == nrm_msg_set_events([from |-> NULL, n |-> timer + 1])
  <2>1. m \in ToListeners
    <3>1. [from |-> NULL, n |-> timer + 1] \in Event
      BY <1>0, SMTT(60) DEF ServerTypeOK, Event
    <3> QED  BY <3>1, Outgoing
  <2> HIDE DEF m
  <2>2. Pub("daemon", m) \in ToControllerBroker /\ Pub("daemon", m) # Term
    BY <2>1, Control DEF Pub, Term, Topics
  <2>3. ctlSend' = Append(ctlSend, Pub("daemon", m))
    BY <1>8, Zenon DEF nrm_server_timer_callback, m
  <2> QED
    BY <1>2, <1>3, <1>8, <2>2, <2>3, Zenon DEF nrm_server_timer_callback, Lives, ControllerRuns, netVars
<1>9. CASE nrm_server_signal_callback \/ \E c \in Clients : nrm_controller_broker_rpc_handler(c)
  BY <1>2, <1>9, Zenon DEF nrm_server_signal_callback, nrm_controller_broker_rpc_handler, Lives,
     ControllerRuns, netVars
<1>10. CASE nrm_controller_broker_pipe_handler
  <2>1. ControllerRuns /\ ctlSend # <<>> /\ ctlSend' = Tail(ctlSend)
    BY <1>10 DEF nrm_controller_broker_pipe_handler
  <2>2. NoneIn(ctlSend, {Term}) => NoneIn(ctlSend', {Term})
    BY <1>0, <2>1, QueueNone
  <2> QED
    BY <1>2, <1>10, <2>2 DEF nrm_controller_broker_pipe_handler, Lives, ControllerRuns
<1> QED
  BY <1>4, <1>5, <1>6, <1>7, <1>8, <1>9, <1>10, ServerViews, ZenonT(30) DEF ServerStep

\* The processes end in order, at every step.
LEMMA LivesStep ==
  ASSUME TypeOK, Lives, [Next]_vars
  PROVE  Lives'
<1>1. ASSUME NEW c \in Clients, SubscriptionArrives(c), UNCHANGED <<clientVars, serverVars>>
      PROVE  Lives'
  BY <1>1 DEF SubscriptionArrives, Lives, BrokerRuns, ControllerRuns, clientVars, serverVars
<1>2. CASE UNCHANGED vars
  BY <1>2 DEF Lives, BrokerRuns, ControllerRuns, vars, clientVars, serverVars, netVars
<1> QED  BY <1>1, <1>2, LivesClient, LivesServer DEF Next

-----------------------------------------------------------------------------
(* Subscriptions *)

SubsOnPipe == {h \in ToClientBroker : h.ctrl = "SUB"}

\* Until sub_cb has both its fields, client c has asked for no topic, so that
\* the publisher sends it nothing.
SubsOf(c) ==
  /\ subcb[c] # "set" => /\ pubs[c] = <<>> /\ topics[c] = {} /\ wanted[c] = {}
                         /\ NoneIn(toBroker[c], SubsOnPipe)
  /\ topics[c] \subseteq wanted[c]

Subs == \A c \in Clients : SubsOf(c)

\* Nobody has asked for a topic at the start.
LEMMA SubsInit ==
  ASSUME Init PROVE Subs
<1>1. NoneIn(<<>>, SubsOnPipe)
  BY QueueEmpty
<1> QED  BY <1>1 DEF Init, ClientInit, NetInit, Subs, SubsOf

\* A step of a client.
LEMMA SubsClient ==
  ASSUME TypeOK, NEW c \in Clients, SubsOf(c), ClientNext
  PROVE  SubsOf(c)'
<1>0. toBroker[c] \in Seq(ToClientBroker)
  BY DEF TypeOK, ClientTypeOK
<1>1. CASE Idle(c) \/ Waits(c) \/ \E t \in Threads, m \in ToClient : Takes(t, c, m)
  BY <1>1, Zenon DEF SubsOf, Idle, Waits, Takes, NetIdle, PipesIdle, CallsIdle
<1>2. CASE Gone(c)
  <2>1. /\ subcb'[c] = subcb[c] /\ pubs'[c] = <<>> /\ wanted'[c] = {} /\ topics'[c] = {}
        /\ toBroker'[c] = toBroker[c] \/ (toBroker[c] # <<>> /\ toBroker'[c] = Tail(toBroker[c]))
    BY <1>2, Zenon DEF Gone, CallsIdle
  <2>2. NoneIn(toBroker[c], SubsOnPipe) => NoneIn(toBroker'[c], SubsOnPipe)
    BY <1>0, <2>1, QueueNone
  <2> QED  BY <2>1, <2>2 DEF SubsOf
<1>3. ASSUME NEW t \in Threads, NEW h \in ToClientBroker, Pushes(t, c, h)
      PROVE  SubsOf(c)'
  <2>1. /\ toBroker'[c] = Append(toBroker[c], h) /\ NetIdle(c)
        /\ subcb'[c] = IF h.ctrl = "SUB" THEN "set" ELSE subcb[c]
    BY <1>3, Zenon DEF Pushes
  <2>2. h \notin SubsOnPipe /\ NoneIn(toBroker[c], SubsOnPipe) => NoneIn(toBroker'[c], SubsOnPipe)
    BY <1>0, <2>1, QueueAppend, Zenon
  <2>3. h.ctrl # "SUB" => h \notin SubsOnPipe
    BY DEF SubsOnPipe
  <2> QED  BY <2>1, <2>2, <2>3, Zenon DEF SubsOf, NetIdle
<1>4. ASSUME NEW h \in ToClientBroker, Transmits(c, h)
      PROVE  SubsOf(c)'
  <2>1. /\ toBroker[c] # <<>> /\ h = Head(toBroker[c]) /\ toBroker'[c] = Tail(toBroker[c])
        /\ wanted'[c] = IF h.ctrl = "SUB" THEN wanted[c] \cup {h.arg} ELSE wanted[c]
        /\ pubs'[c] = pubs[c] /\ topics'[c] = topics[c] /\ subcb'[c] = subcb[c]
    BY <1>4, Zenon DEF Transmits, CallsIdle
  <2>2. NoneIn(toBroker[c], SubsOnPipe) => h \notin SubsOnPipe /\ NoneIn(toBroker'[c], SubsOnPipe)
    BY <1>0, <2>1, QueueNone
  <2>3. h \notin SubsOnPipe => h.ctrl # "SUB"
    BY DEF SubsOnPipe
  <2> QED  BY <2>1, <2>2, <2>3, Zenon DEF SubsOf
<1>5. ASSUME NEW m, Receives(c, m) \/ Hears(c, m)
      PROVE  SubsOf(c)'
  BY <1>5, Zenon DEF SubsOf, Receives, Hears, CallsIdle, PipesIdle
<1> QED  BY <1>1, <1>2, <1>3, <1>4, <1>5, ClientViews, ZenonT(30) DEF ClientStep

\* What the daemon does to the subscriptions and to the published messages.
LEMMA PublishViews ==
  ASSUME TypeOK, ServerNext, NEW c \in Clients
  PROVE  /\ connected' = connected /\ wanted' = wanted /\ topics' = topics
         /\ \/ pubs'[c] \in Prefix(pubs[c])
            \/ topics[c] # {} /\ \E m \in ToListeners : pubs'[c] = Append(pubs[c], m)
<1>0. NetTypeOK /\ ServerTypeOK
  BY DEF TypeOK
<1>1. pubs[c] \in Prefix(pubs[c])
  <2>1. Len(pubs[c]) \in Nat /\ SubSeq(pubs[c], 1, Len(pubs[c])) = pubs[c]
    BY <1>0 DEF NetTypeOK
  <2> QED  BY <2>1, SMTT(60) DEF Prefix
<1>2. CASE UNCHANGED <<pubs, wanted, topics, connected>>
  BY <1>1, <1>2
<1>3. CASE CloseServerSockets
  BY <1>3 DEF CloseServerSockets, LeftOf
<1>4. CASE nrm_controller_broker_pipe_handler
  <2> DEFINE h == Head(ctlSend)
  <2>1. ctlSend # <<>> /\ h \in ToControllerBroker
    BY <1>0, <1>4, QueueTypes DEF nrm_controller_broker_pipe_handler, ServerTypeOK
  <2> HIDE DEF h
  <2>2. CASE h.ctrl = "PUB" /\ nrm_msg_pub(h.to, h.msg) /\ UNCHANGED <<wanted, topics, connected>>
    <3>1. h.msg \in ToListeners
      BY <2>1, <2>2, Control
    <3>2. pubs'[c] = pubs[c] \/ (topics[c] # {} /\ pubs'[c] = Append(pubs[c], h.msg))
      BY <2>2 DEF nrm_msg_pub
    <3> QED  BY <1>1, <2>2, <3>1, <3>2, Zenon
  <2> QED  BY <1>2, <1>3, <1>4, <2>2, Zenon DEF nrm_controller_broker_pipe_handler, h
<1> QED
  BY <1>2, <1>3, <1>4, ServerViews, Zenon DEF ServerStep, Answers, Controls, Crashes, Crash,
     nrm_server_events_callback, nrm_server_destroy, nrm_server_timer_callback,
     nrm_server_signal_callback, nrm_controller_broker_rpc_handler, netVars

\* Subscriptions stay in order, at every step.
LEMMA SubsStep ==
  ASSUME TypeOK, Subs, [Next]_vars
  PROVE  Subs'
<1> SUFFICES ASSUME NEW c \in Clients PROVE SubsOf(c)'
  BY DEF Subs
<1>0. SubsOf(c)
  BY DEF Subs
<1>1. CASE ServerNext /\ UNCHANGED clientVars
  <2>1. /\ wanted' = wanted /\ topics' = topics /\ UNCHANGED <<subcb, toBroker>>
        /\ pubs'[c] \in Prefix(pubs[c]) \/ topics[c] # {}
    BY <1>1, PublishViews DEF clientVars
  <2>2. ASSUME pubs[c] = <<>>, pubs'[c] \in Prefix(pubs[c])
        PROVE  pubs'[c] = <<>>
    BY <2>2, SMTT(60) DEF Prefix
  <2> QED  BY <1>0, <2>1, <2>2, Zenon DEF SubsOf
<1>2. ASSUME NEW d \in Clients, SubscriptionArrives(d), UNCHANGED <<clientVars, serverVars>>
      PROVE  SubsOf(c)'
  <2>1. topics'[c] = topics[c] \/ topics'[c] = wanted[c]
    BY <1>2 DEF SubscriptionArrives, TypeOK, NetTypeOK
  <2> QED  BY <1>0, <1>2, <2>1 DEF SubsOf, SubscriptionArrives, clientVars
<1>3. CASE UNCHANGED vars
  BY <1>0, <1>3 DEF SubsOf, vars, clientVars, netVars
<1> QED  BY <1>0, <1>1, <1>2, <1>3, SubsClient, ZenonT(30) DEF Next

-----------------------------------------------------------------------------
(* The steps, as the events and the requests of a client see them *)

\* The daemon has its eventbase.
Serves == daemon \in {"running", "exiting"}

\* What a step of client c does to its messages.
LEMMA SendViews ==
  ASSUME TypeOK, NEW c \in Clients, ClientNext
  PROVE  \/ UNCHANGED <<toBroker[c], up[c], sent[c], connected[c], exitSent[c]>>
         \/ \E t \in Threads, h \in ToClientBroker : ClientOf[t] = c /\ Pushes(t, c, h)
         \/ Gone(c)
         \/ \E h \in ToClientBroker : Transmits(c, h)
<1>1. CASE Idle(c) \/ Waits(c) \/ \E m \in ToListeners : Hears(c, m)
  BY <1>1, Zenon DEF Idle, Waits, Hears, NetIdle, PipesIdle, CallsIdle
<1>2. CASE \E t \in Threads, m \in ToClient : Takes(t, c, m)
  BY <1>2, Zenon DEF Takes, NetIdle
<1>3. CASE \E m \in ToClient : Receives(c, m)
  BY <1>3, Zenon DEF Receives, CallsIdle
<1> QED  BY <1>1, <1>2, <1>3, ClientViews, Zenon DEF ClientStep

\* What the daemon does to the events it gets.
LEMMA RecordViews ==
  ASSUME TypeOK, ServerNext
  PROVE  \/ ~Serves' /\ UNCHANGED ctlRecv /\ (events' = events \/ events' = <<>>)
            /\ (up' = up \/ up' = [c \in Clients |-> <<>>])
         \/ Crashes
         \/ UNCHANGED <<events, ctlRecv, up>> /\ (Serves' => Serves)
         \/ \E h \in FromControllerBroker : Answers(h)
         \/ nrm_server_events_callback
         \/ \E c \in Clients : nrm_controller_broker_rpc_handler(c)
<1>1. CASE Controls \/ nrm_server_timer_callback \/ nrm_server_signal_callback
  BY <1>1, Zenon DEF Controls, nrm_server_timer_callback, nrm_server_signal_callback, Serves, netVars
<1>2. CASE nrm_server_destroy
  BY <1>2, Zenon DEF nrm_server_destroy, Serves, netVars
<1>3. CASE nrm_controller_broker_pipe_handler
  BY <1>3, Zenon DEF nrm_controller_broker_pipe_handler, Serves, CloseServerSockets
<1> QED  BY <1>1, <1>2, <1>3, ServerViews, Zenon DEF ServerStep

\* The daemon takes a message from its pipe.
LEMMA EventReceived ==
  ASSUME TypeOK, nrm_server_events_callback
  PROVE  /\ ctlRecv \in Seq(FromControllerBroker) /\ events \in Seq(Event)
         /\ Head(ctlRecv) \in FromControllerBroker /\ Received.arg \in Event /\ Received.type = "EVENTS"
         /\ From = Head(ctlRecv).from /\ Received = Head(ctlRecv).msg
         /\ From \in Clients /\ Received \in Message /\ Received \in ToListeners
         /\ ctlRecv # <<>> /\ ctlRecv' = Tail(ctlRecv) /\ events' = Append(events, Received.arg)
         /\ ctlSend' = Append(ctlSend, Pub("daemon.events.raw", Received))
         /\ daemon = "running" /\ UNCHANGED <<daemon, loop, timer, netVars>>
<1>0. ServerTypeOK /\ ctlRecv \in Seq(FromControllerBroker) /\ events \in Seq(Event)
  BY DEF TypeOK, ServerTypeOK
<1>1. /\ nrm_server_role_callback("EVENTS") /\ UNCHANGED <<daemon, loop, timer, netVars>>
      /\ events' = Append(events, Received.arg)
      /\ ctlSend' = Append(ctlSend, Pub("daemon.events.raw", Received))
  BY DEF nrm_server_events_callback
<1>2. From \in Clients /\ Received \in Message /\ Received.type = "EVENTS"
  BY <1>0, <1>1, ReceivedTypes
<1>3. ctlRecv # <<>> /\ ctlRecv' = Tail(ctlRecv) /\ daemon = "running"
  BY <1>1 DEF nrm_server_role_callback
<1>4. Head(ctlRecv) \in FromControllerBroker
  BY <1>0, <1>3, QueueTypes
<1>5. Received.arg \in Event /\ Received \in ToListeners
  BY <1>2, Arguments DEF ToListeners
<1>6. From = Head(ctlRecv).from /\ Received = Head(ctlRecv).msg
  BY DEF From, Received
<1> QED  BY <1>0, <1>1, <1>2, <1>3, <1>4, <1>5, <1>6, ZenonT(30)

\* The controller's broker passes a message of client d to the daemon.
LEMMA Passed ==
  ASSUME TypeOK, NEW d \in Clients, nrm_controller_broker_rpc_handler(d), NEW c \in Clients
  PROVE  /\ up[c] \in Seq(Message) /\ up[d] # <<>> /\ Head(up[d]) \in Message
         /\ ctlRecv \in Seq(FromControllerBroker)
         /\ [from |-> d, msg |-> Head(up[d])] \in FromControllerBroker
         /\ ctlRecv' = Append(ctlRecv, [from |-> d, msg |-> Head(up[d])])
         /\ up'[c] = IF c = d THEN Tail(up[c]) ELSE up[c]
         /\ UNCHANGED <<daemon, objects, actuators, loop, ctlSend, events, timer,
                        down, pubs, wanted, topics, connected, serving>>
<1>1. /\ up \in [Clients -> Seq(Message)] /\ ctlRecv \in Seq(FromControllerBroker)
  BY DEF TypeOK, NetTypeOK, ServerTypeOK
<1>2. /\ up[d] # <<>> /\ up' = [up EXCEPT ![d] = Tail(@)]
      /\ ctlRecv' = Append(ctlRecv, [from |-> d, msg |-> Head(up[d])])
      /\ UNCHANGED <<daemon, objects, actuators, loop, ctlSend, events, timer,
                     down, pubs, wanted, topics, connected, serving>>
  BY DEF nrm_controller_broker_rpc_handler, stateVars
<1>3. Head(up[d]) \in Message
  BY <1>1, <1>2, QueueTypes
<1>4. [from |-> d, msg |-> Head(up[d])] \in FromControllerBroker
  BY <1>3 DEF FromControllerBroker
<1>5. up'[c] = IF c = d THEN Tail(up[c]) ELSE up[c]
  BY <1>1, <1>2
<1> QED  BY <1>1, <1>2, <1>3, <1>4, <1>5, ZenonT(30)

-----------------------------------------------------------------------------
(* Theorems *)

\* The sockets of a client's broker and of the controller's broker are open as
\* long as the broker runs, and TERM is queued at the end of main only.
THEOREM SocketsOpen == Spec => []Lives
<1>1. Init => Lives
  BY LivesInit
<1>2. TypeOK /\ Lives /\ [Next]_vars => Lives'
  BY LivesStep
<1> QED  BY <1>1, <1>2, TypeCorrect, PTL DEF Spec

\* No published message reaches a client's broker before sub_cb.fn and
\* sub_cb.arg are both stored, although they are stored without a lock.
THEOREM ListenerReady == Spec => []SubCallbackReady
<1>1. Init => Subs
  BY SubsInit
<1>2. TypeOK /\ Subs /\ [Next]_vars => Subs'
  BY SubsStep
<1>3. Subs => SubCallbackReady
  BY DEF Subs, SubsOf, SubCallbackReady
<1> QED  BY <1>1, <1>2, <1>3, TypeCorrect, PTL DEF Spec
=============================================================================
