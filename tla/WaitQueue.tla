---- MODULE WaitQueue ----
(***************************************************************************)
(* A queue of waiters as the sequence of what it holds, for the modules in *)
(* which its ring (WaitRing.tla) does not matter.                          *)
(***************************************************************************)
EXTENDS Integers, Sequences

\* remove_process_from_queue; a process is in a queue once at most.
Without(q, p) ==
    IF \E i \in DOMAIN q : q[i] = p
    THEN LET k == CHOOSE k \in DOMAIN q : q[k] = p
         IN  [i \in 1 .. Len(q) - 1 |-> IF i < k THEN q[i] ELSE q[i + 1]]
    ELSE q
====
