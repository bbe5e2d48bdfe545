---- MODULE TestSync ----
(***************************************************************************)
(* 5_tests/testSynchro.c: tsem starts processes that add 1 to a shared     *)
(* number and as many that take 1 away, each n times, each by reading it,  *)
(* giving the CPU away and writing it back; with use_sem, between semWait  *)
(* and semPost of a semaphore of initial value 1.                          *)
(*                                                                         *)
(* The semaphore is what Semaphores.tla shows of one that all its users    *)
(* have opened: a value, a count of users and a first-in-first-out queue.  *)
(* It goes with its last user, and another one may be made of its name.    *)
(***************************************************************************)
EXTENDS Integers, Sequences, FiniteSets

CONSTANTS
    Adders,        \* the processes with inc = 1; TOTAL_PAIR_PROCESSES of them
    Takers,        \* those with inc = -1, as many
    Repeats        \* the n of the command

ASSUME PairsAssumption ==
    /\ IsFiniteSet(Adders) /\ IsFiniteSet(Takers) /\ Adders \cap Takers = {}
    /\ Cardinality(Adders) = Cardinality(Takers)
    /\ Repeats \in Nat \ {0}

VARIABLES
    use_sem,
    global,
    aux,         \* of slowInc, in each process
    round,       \* the i of my_process_inc
    step,        \* where each process is
    value, users, queue   \* the semaphore "tsem"; users = 0 when there is none

syncVars == <<use_sem, global, aux, round, step, value, users, queue>>
semaphore == <<value, users, queue>>

Workers == Adders \cup Takers
Inc(p) == IF p \in Adders THEN 1 ELSE -1

\* test_sync, up to its waits.
SyncInit ==
    /\ use_sem \in BOOLEAN
    /\ global = 0
    /\ aux = [p \in Workers |-> 0] /\ round = [p \in Workers |-> 0]
    /\ step = [p \in Workers |-> "start"]
    /\ value = 0 /\ users = 0 /\ queue = <<>>

Steps(p, from, to) == step[p] = from /\ step' = [step EXCEPT ![p] = to]

Open(p) ==
    /\ Steps(p, "start", "wait")
    /\ IF ~use_sem THEN UNCHANGED semaphore
       ELSE users' = users + 1 /\ value' = (IF users = 0 THEN 1 ELSE value) /\ UNCHANGED queue
    /\ UNCHANGED <<use_sem, global, aux, round>>

Wait(p) ==
    /\ \/ (~use_sem \/ value > 0) /\ Steps(p, "wait", "read")
          /\ value' = (IF use_sem THEN value - 1 ELSE value) /\ UNCHANGED queue
       \/ use_sem /\ value <= 0 /\ Steps(p, "wait", "asleep")
          /\ queue' = Append(queue, p) /\ UNCHANGED value
    /\ UNCHANGED <<use_sem, global, aux, round, users>>

\* slowInc: what is read before the yield is written after it.
Read(p) ==
    /\ Steps(p, "read", "write")
    /\ aux' = [aux EXCEPT ![p] = global]
    /\ UNCHANGED <<use_sem, global, round, semaphore>>
Write(p) ==
    /\ Steps(p, "write", "post")
    /\ global' = aux[p] + Inc(p)
    /\ aux' = [aux EXCEPT ![p] = 0]   \* what it holds is not used again
    /\ UNCHANGED <<use_sem, round, semaphore>>

AfterPost(p) == IF round[p] + 1 < Repeats THEN "wait" ELSE "close"
\* Variant with a bug: a post that wakes somebody also leaves a token.
PostTwice ==
    /\ value' = value + 1 /\ queue' = (IF queue = <<>> THEN queue ELSE Tail(queue))
PostToken ==
    IF queue = <<>> THEN value' = value + 1 /\ UNCHANGED queue
    ELSE queue' = Tail(queue) /\ UNCHANGED value
Post(p) ==
    /\ step[p] = "post"
    /\ step' = [q \in Workers |->
           IF q = p THEN AfterPost(p)
           ELSE IF use_sem /\ queue # <<>> /\ q = Head(queue) THEN "read" ELSE step[q]]
    /\ IF use_sem THEN PostToken ELSE UNCHANGED <<value, queue>>
    /\ round' = [round EXCEPT ![p] = @ + 1]
    /\ UNCHANGED <<use_sem, global, aux, users>>

Close(p) ==
    /\ Steps(p, "close", "done")
    /\ users' = IF use_sem THEN users - 1 ELSE users
    /\ value' = IF users' = 0 THEN 0 ELSE value
    /\ UNCHANGED <<use_sem, global, aux, round, queue>>

SyncNext ==
    \E p \in Workers : Open(p) \/ Wait(p) \/ Read(p) \/ Write(p) \/ Post(p) \/ Close(p)

SyncSpec == SyncInit /\ [][SyncNext]_syncVars

----------------------------------------------------------------------------
\* Properties

\* What the test is for: with the semaphore no update is lost, and "FINAL = 0" is printed when
\* all have been waited for, although processes come, close and so destroy the semaphore while
\* others have not opened it yet.
FinalIsZero ==
    (use_sem /\ \A p \in Workers : step[p] = "done") => global = 0
====
