---- MODULE FifoSemaphores ----
(***************************************************************************)
(* What the named semaphores promise: a post goes to the process that has  *)
(* waited longest, a token is only kept when nobody waits for it, a death  *)
(* takes one process out of every queue and leaves the others in order.    *)
(***************************************************************************)
EXTENDS Naturals, Sequences

CONSTANTS
    Pid, Name,
    Initial    \* the value each name is created with

VARIABLES
    value,     \* the tokens of each name that has a semaphore
    waiters    \* the pids that wait, in order

Existing == DOMAIN value

FifoInit == value = [n \in {} |-> 0] /\ waiters = [n \in {} |-> <<>>]

Without(f, n) == [m \in DOMAIN f \ {n} |-> f[m]]
With(f, n, e) == [m \in DOMAIN f \cup {n} |-> IF m = n THEN e ELSE f[m]]

Create(n) ==
    /\ n \notin Existing
    /\ value' = With(value, n, Initial[n])
    /\ waiters' = With(waiters, n, <<>>)
Destroy(n) ==
    /\ n \in Existing /\ waiters[n] = <<>>
    /\ value' = Without(value, n)
    /\ waiters' = Without(waiters, n)

Take(n) ==
    /\ n \in Existing /\ value[n] > 0
    /\ value' = [value EXCEPT ![n] = @ - 1] /\ UNCHANGED waiters
Enqueue(n, p) ==
    /\ n \in Existing /\ value[n] = 0
    /\ \A m \in Existing : \A i \in DOMAIN waiters[m] : waiters[m][i] # p
    /\ waiters' = [waiters EXCEPT ![n] = Append(@, p)] /\ UNCHANGED value

Give(n) ==
    /\ n \in Existing
    /\ IF waiters[n] = <<>>
       THEN value' = [value EXCEPT ![n] = @ + 1] /\ UNCHANGED waiters
       ELSE waiters' = [waiters EXCEPT ![n] = Tail(@)] /\ UNCHANGED value

\* A queue without p, which is in it once at most.
Dropped(queue, p) ==
    IF \A i \in DOMAIN queue : queue[i] # p THEN queue
    ELSE LET k == CHOOSE k \in DOMAIN queue : queue[k] = p
         IN  [i \in 1 .. Len(queue) - 1 |-> IF i < k THEN queue[i] ELSE queue[i + 1]]
Leave(p) ==
    /\ waiters' = [n \in Existing |-> Dropped(waiters[n], p)]
    /\ UNCHANGED value

FifoNext ==
    \/ \E n \in Name : \/ Create(n) \/ Destroy(n) \/ Take(n) \/ Give(n)
                       \/ \E p \in Pid : Enqueue(n, p)
    \/ \E p \in Pid : Leave(p)

FifoSpec == FifoInit /\ [][FifoNext]_<<value, waiters>>
====
