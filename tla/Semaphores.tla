---- MODULE Semaphores ----
(***************************************************************************)
(* 3_Kernel/2_libraries/synchro.c with the processes that use it.  Every   *)
(* system call is atomic, so a semaphore's spinlock is free whenever one   *)
(* starts and is left out.  Of the scheduler only the status of a process  *)
(* is kept: any READY process may be the next to run.                      *)
(*                                                                         *)
(* The clients are those of 5_tests/testSynchro.c: they open a semaphore   *)
(* before they use it, close it when they neither hold it nor wait, and    *)
(* ignore what semWait returns.  A mutex is posted by its holder, a signal *)
(* (the semaphores of the keyboard, the pipes and the philosophers) by     *)
(* anybody.                                                                *)
(***************************************************************************)
EXTENDS WaitRing, FiniteSets

CONSTANTS
    Mutexes, Signals,   \* the names of semaphores
    Uses,               \* the sets of names that programs use together
    MAX_SEMAPHORES,     \* 256 in synchro.h
    MaxValue, MaxUsing, \* bounds of the model: no post of a signal beyond this value, no
                        \* open of a name that has more users counted than this
    BlocksWaiters       \* TRUE if the block command is used on processes in semWait

ASSUME NamesAssumption == Mutexes \cap Signals = {} /\ NULL \notin Mutexes \cup Signals
                          /\ Uses \subseteq SUBSET (Mutexes \cup Signals)
ASSUME LimitsAssumption == MAX_SEMAPHORES \in Nat /\ MaxValue \in Nat \ {0} /\ MaxUsing \in Nat \ {0}
                           /\ BlocksWaiters \in BOOLEAN

Names == Mutexes \cup Signals
Semaphore == [value : Nat, using : Nat, queue : Ring]
ASSUME NullIsNoSemaphore == NULL \notin Semaphore

InitialValue(n) == IF n \in Mutexes THEN 1 ELSE 0

VARIABLES
    used,        \* the names the programs of this behaviour use
    semaphores,  \* semaphoreManager->semaphores by name, NULL if there is none
    status,      \* "ABSENT" if the slot of the process table is empty
    waits,       \* the name a process is inside semWait for, or NULL
    opened,      \* the names a process has opened and not closed
    holds,       \* the mutexes a process has waited for and not posted
    lost         \* history: the mutexes whose token a killed process took with it

vars == <<used, semaphores, status, waits, opened, holds, lost>>
client == <<waits, opened, holds, lost>>

Exists(n) == semaphores[n] # NULL

\* The assignments to the fields of a semaphore.
AddUsers(s, d) == [s EXCEPT !.using = @ + d]
AddTokens(s, d) == [s EXCEPT !.value = @ + d]
WithQueue(s, q) == [s EXCEPT !.queue = q]

Init ==
    /\ used \in Uses
    /\ semaphores = [n \in Names |-> NULL]
    /\ status = [p \in Pid |-> "ABSENT"]
    /\ waits = [p \in Pid |-> NULL]
    /\ opened = [p \in Pid |-> {}]
    /\ holds = [p \in Pid |-> {}]
    /\ lost = {}

\* The process executes its own code, or the end of semWait.
Runs(p) == status[p] = "READY"
RunsUserCode(p) == Runs(p) /\ waits[p] = NULL

----------------------------------------------------------------------------
\* semOpen and semClose

\* Variant with a bug: the users of an existing semaphore are not counted.
OpenUncounted(p, n) ==
    /\ RunsUserCode(p) /\ n \notin opened[p]
    /\ Cardinality({m \in Names : Exists(m)}) < MAX_SEMAPHORES
    /\ Exists(n) => semaphores[n].using < MaxUsing
    /\ semaphores' = [semaphores EXCEPT ![n] =
           IF @ = NULL THEN [value |-> InitialValue(n), using |-> 1, queue |-> EmptyRing]
           ELSE @]
    /\ opened' = [opened EXCEPT ![p] = @ \cup {n}]
    /\ UNCHANGED <<status, waits, holds, lost>>

\* A full table refuses even the name of a semaphore it holds.
Open(p, n) ==
    /\ RunsUserCode(p) /\ n \notin opened[p]
    /\ Cardinality({m \in Names : Exists(m)}) < MAX_SEMAPHORES
    /\ Exists(n) => semaphores[n].using < MaxUsing
    /\ semaphores' = [semaphores EXCEPT ![n] =
           IF @ = NULL THEN [value |-> InitialValue(n), using |-> 1, queue |-> EmptyRing]
           ELSE AddUsers(@, 1)]
    /\ opened' = [opened EXCEPT ![p] = @ \cup {n}]
    /\ UNCHANGED <<status, waits, holds, lost>>

\* The last user frees the semaphore, without a look at its queue.
Close(p, n) ==
    /\ RunsUserCode(p) /\ n \in opened[p] \ holds[p] /\ Exists(n)
    /\ semaphores' = [semaphores EXCEPT ![n] =
           IF @.using > 1 THEN AddUsers(@, -1) ELSE NULL]
    /\ opened' = [opened EXCEPT ![p] = @ \ {n}]
    /\ lost' = IF semaphores'[n] = NULL THEN lost \ {n} ELSE lost
    /\ UNCHANGED <<status, waits, holds>>

----------------------------------------------------------------------------
\* semWait and semPost

Enters(p, n) == holds' = [holds EXCEPT ![p] = IF n \in Mutexes THEN @ \cup {n} ELSE @]

\* semWait that returns at once: with a token, or with an error the clients ignore.
WaitReturnsAtOnce(p, n) ==
    /\ RunsUserCode(p) /\ n \in opened[p] \ holds[p]
    /\ (Exists(n) /\ semaphores[n].value <= 0) => IsFull(semaphores[n].queue)
    /\ semaphores' = [semaphores EXCEPT ![n] =
           IF @ = NULL \/ @.value <= 0 THEN @ ELSE AddTokens(@, -1)]
    /\ Enters(p, n)
    /\ UNCHANGED <<status, waits, opened, lost>>

WaitBlocks(p, n) ==
    /\ RunsUserCode(p) /\ n \in opened[p] \ holds[p]
    /\ Exists(n) /\ semaphores[n].value <= 0 /\ ~IsFull(semaphores[n].queue)
    /\ semaphores' = [semaphores EXCEPT ![n] = WithQueue(@, Added(@.queue, p))]
    /\ status' = [status EXCEPT ![p] = "BLOCKED"]
    /\ waits' = [waits EXCEPT ![p] = n]
    /\ UNCHANGED <<opened, holds, lost>>

\* semWait returns when its caller runs again, whoever made it READY.
WaitResumes(p) ==
    /\ Runs(p) /\ waits[p] # NULL
    /\ Enters(p, waits[p])
    /\ waits' = [waits EXCEPT ![p] = NULL]
    /\ UNCHANGED <<semaphores, status, opened, lost>>

\* unblockProcess.
Woken(p) == [status EXCEPT ![p] = IF @ = "BLOCKED" THEN "READY" ELSE @]

\* Variant with a bug: a token is kept although a waiter gets it.
SemPostTwice(n) ==
    LET q == semaphores[n].queue
    IN  IF q.size > 0
        THEN /\ semaphores' = [semaphores EXCEPT ![n] = AddTokens(WithQueue(@, Popped(q)), 1)]
             /\ status' = Woken(First(q))
        ELSE semaphores' = [semaphores EXCEPT ![n] = AddTokens(@, 1)] /\ UNCHANGED status

\* Variant with a bug: the waiter at the head is taken out but not woken.
SemPostSleeps(n) ==
    LET q == semaphores[n].queue
    IN  /\ semaphores' = [semaphores EXCEPT
               ![n] = IF q.size > 0 THEN WithQueue(@, Popped(q)) ELSE AddTokens(@, 1)]
        /\ UNCHANGED status

SemPost(n) ==
    LET q == semaphores[n].queue
    IN  IF q.size > 0
        THEN /\ semaphores' = [semaphores EXCEPT ![n] = WithQueue(@, Popped(q))]
             /\ status' = Woken(First(q))
        ELSE semaphores' = [semaphores EXCEPT ![n] = AddTokens(@, 1)] /\ UNCHANGED status

Release(p, n) ==
    /\ RunsUserCode(p) /\ n \in holds[p]
    /\ IF Exists(n) THEN SemPost(n) ELSE UNCHANGED <<semaphores, status>>
    /\ holds' = [holds EXCEPT ![p] = @ \ {n}]
    /\ UNCHANGED <<waits, opened, lost>>

Signal(p, n) ==
    /\ RunsUserCode(p) /\ n \in Signals \cap opened[p]
    /\ Exists(n) /\ semaphores[n].value < MaxValue
    /\ SemPost(n)
    /\ UNCHANGED client

----------------------------------------------------------------------------
\* What happens to processes from outside

Created(p) ==
    /\ status[p] = "ABSENT"
    /\ status' = [status EXCEPT ![p] = "READY"]
    /\ UNCHANGED <<semaphores, client>>

Gone(p) ==
    /\ status' = [status EXCEPT ![p] = "ABSENT"]
    /\ waits' = [waits EXCEPT ![p] = NULL]
    /\ opened' = [opened EXCEPT ![p] = {}]
    /\ holds' = [holds EXCEPT ![p] = {}]

Carries(p, n) == n \in holds[p] \/ (Runs(p) /\ waits[p] = n)
Loses(p) == lost' = lost \cup {n \in Mutexes : Carries(p, n)}

\* killProcess: remove_process_from_all_semaphore_queues.  What it held or had opened
\* stays as it is.
Killed(p) ==
    /\ status[p] # "ABSENT"
    /\ semaphores' = [n \in Names |-> IF Exists(n)
                          THEN WithQueue(semaphores[n], Without(semaphores[n].queue, p)) ELSE NULL]
    /\ Loses(p) /\ Gone(p)

\* myExit does not look at the queues: a process that runs should be in none.
Exits(p) == RunsUserCode(p) /\ holds[p] = {} /\ Gone(p) /\ UNCHANGED <<semaphores, lost>>

\* The shell's block command, on a READY and on a BLOCKED process.
Targets == {p \in Pid : BlocksWaiters \/ waits[p] = NULL}
Blocked(p) ==
    /\ Runs(p) /\ status' = [status EXCEPT ![p] = "BLOCKED"]
    /\ UNCHANGED <<semaphores, client>>
Unblocked(p) ==
    /\ status[p] = "BLOCKED" /\ status' = Woken(p)
    /\ UNCHANGED <<semaphores, client>>

Call ==
    \/ \E p \in Pid, n \in used :
          \/ Open(p, n) \/ Close(p, n)
          \/ WaitReturnsAtOnce(p, n) \/ WaitBlocks(p, n)
          \/ Release(p, n) \/ Signal(p, n)
    \/ \E p \in Pid : WaitResumes(p) \/ Created(p) \/ Killed(p) \/ Exits(p)
    \/ \E p \in Targets : Blocked(p) \/ Unblocked(p)
Next == Call /\ UNCHANGED used

Spec == Init /\ [][Next]_vars

\* Every process that is READY runs in the end (NoStarvation of Scheduler), and a process
\* that holds a mutex and runs posts it in the end.
Fairness ==
    /\ \A p \in Pid : WF_vars(WaitResumes(p) /\ UNCHANGED used)
    /\ \A p \in Pid, n \in Mutexes : WF_vars(Release(p, n) /\ UNCHANGED used)
FairSpec == Spec /\ Fairness

----------------------------------------------------------------------------
\* Properties

\* A semaphore opened with 1 lets one process at a time past semWait, through kills of its
\* holder and its waiters, reused pids, and closes and reopens (synchro.c, test_sync).
MutualExclusion ==
    \A n \in Mutexes : \A p, q \in Pid : n \in holds[p] /\ n \in holds[q] => p = q

\* A semaphore lives as long as a process that has opened it, whoever closes it in between.
OpenersKeepIt ==
    \A n \in Names :
        LET openers == {p \in Pid : n \in opened[p]}
        IN  openers # {} => Exists(n) /\ semaphores[n].using >= Cardinality(openers)

\* The mapping to FifoSemaphores: a ring stands for its contents.
Existing == {n \in Names : Exists(n)}
Tokens == [n \in Existing |-> semaphores[n].value]
Queues == [n \in Existing |-> Contents(semaphores[n].queue)]
Fifo ==
    INSTANCE FifoSemaphores
        WITH Name <- Names, Initial <- [n \in Names |-> InitialValue(n)],
             value <- Tokens, waiters <- Queues

\* The semaphores, with their rings, are FIFO semaphores: tokens are neither made nor lost
\* inside the kernel, a post wakes the longest waiter, a kill in the middle of a ring keeps
\* the order of the rest (semPost, remove_process_from_queue).
ImplementsFifo == Fifo!FifoSpec

\* Nobody waits for a mutex for ever: a post wakes a waiter, or leaves a token the next
\* semWait finds, whatever is killed in the queue (semPost, semWait).  The exceptions are
\* a token that died with a process, and a holder that is itself blocked from outside.
WaitersGetIn ==
    \A p \in Pid, n \in Mutexes :
        LET waiting == status[p] = "BLOCKED" /\ waits[p] = n
        IN  waiting ~> \/ ~waiting
                       \/ n \in lost
                       \/ \E q \in Pid : status[q] = "BLOCKED" /\ n \in holds[q]
====
