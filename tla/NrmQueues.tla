----------------------------- MODULE NrmQueues -----------------------------
(***************************************************************************)
(* The queues of the system, pipes and connections: what may be left of    *)
(* one, and what the properties and the proofs say of its contents.        *)
(***************************************************************************)
EXTENDS Integers, Sequences

\* What may be left of a queue whose sender closes its socket.
Prefix(q) == {SubSeq(q, 1, n) : n \in 0 .. Len(q)}

\* No element, and exactly one element, of queue q is in S; that one is in M.
NoneIn(q, S) == \A i \in 1 .. Len(q) : q[i] \notin S

OneIn(q, S, M) ==
  \E i \in 1 .. Len(q) : /\ q[i] \in M
                         /\ \A j \in 1 .. Len(q) : j # i => q[j] \notin S

\* The first, and the last, of the elements of q in S is there and is in M.
FirstIn(q, S, M) ==
  \E i \in 1 .. Len(q) : q[i] \in M /\ \A j \in 1 .. i - 1 : q[j] \notin S

LastIn(q, S, M) ==
  \E i \in 1 .. Len(q) : q[i] \in M /\ \A j \in i + 1 .. Len(q) : q[j] \notin S

\* No element of q in E is behind one in A.
NoneBehind(q, A, E) == \A i, j \in 1 .. Len(q) : i < j /\ q[i] \in A => q[j] \notin E

\* Of the elements F[0], F[1], ... queue q holds F[lo + 1] to F[hi], each once
\* and in this order.
Numbered(q, F, lo, hi) ==
  /\ lo <= hi
  /\ \A i \in 1 .. Len(q), k \in Nat : q[i] = F[k] => lo < k /\ k <= hi
  /\ \A i, j \in 1 .. Len(q), k, l \in Nat : i < j /\ q[i] = F[k] /\ q[j] = F[l] => k < l
  /\ \A k \in lo + 1 .. hi : \E i \in 1 .. Len(q) : q[i] = F[k]
=============================================================================
