---- MODULE ProcessTable ----
(***************************************************************************)
(* The process table of the kernel (3_Kernel/2_libraries/scheduler.c and   *)
(* process.c) as values: a table maps every slot to NULL or to a process   *)
(* record.  Each operator is the effect of one C helper on a table; the    *)
(* modules that own the state combine them into handlers.                  *)
(*                                                                         *)
(* Slot index and pid are one thing: addProcess stores the process whose   *)
(* pid is i in processes[i], and nothing ever moves it.                    *)
(***************************************************************************)
EXTENDS Integers, FiniteSets

CONSTANTS
    MAX_PROCESSES,   \* 64 in processInc.h
    MAX_PRIORITY,    \* 4 in processInc.h
    NULL             \* an empty slot

ASSUME MaxProcessesAssumption == MAX_PROCESSES \in Nat /\ 2 <= MAX_PROCESSES
                                 /\ MAX_PROCESSES <= 254
ASSUME MaxPriorityAssumption == MAX_PRIORITY \in Nat \ {0}

MIN_PRIORITY == 1
NO_PID == -1
INIT_PID == 0
SHELL_PID == 1

Pid == 0 .. MAX_PROCESSES - 1
Priorities == MIN_PRIORITY .. MAX_PRIORITY
Statuses == {"READY", "BLOCKED", "RUNNING", "TERMINATED"}

(***************************************************************************)
(* What a saved stack pointer stands for: where the process will continue. *)
(* "arg" is the one local variable that is live there (the pid a waitPid   *)
(* waits for, the slot about to be removed or emptied, the loaded value of *)
(* scheduler->size), 0 elsewhere.                                          *)
(***************************************************************************)
Labels == {"boot", "start", "countLoad", "countStore", "prio", "idle", "reapRemove",
           "user", "waitPid",
           "exitWake", "exitRemove", "exitYield",
           "emptySlot", "sizeLoad", "sizeStore"}
Context == [at : Labels, arg : 0 .. 255]
At(label) == [at |-> label, arg |-> 0]
AtWith(label, x) == [at |-> label, arg |-> x]

Process == [parent_pid : Pid \cup {NO_PID},
            status : Statuses,
            priority : Priorities,
            remaining_quantum : 0 .. MAX_PRIORITY,
            unkillable : BOOLEAN,
            waiting_for_pid : Pid \cup {NO_PID},
            stack_pointer : Context]

ASSUME NullAssumption == NULL \notin Process

Table == [Pid -> Process \cup {NULL}]

Live(t) == {p \in Pid : t[p] # NULL}
HasStatus(t, p, s) == t[p] # NULL /\ t[p].status = s

(***************************************************************************)
(* createProcess.  waiting_for_pid starts as 0, not as the NO_PID that     *)
(* addProcess passes: the constructor ignores the argument.                *)
(***************************************************************************)
NewProcess(parent, unkillable, entry) ==
    [parent_pid |-> parent, status |-> "READY", priority |-> MIN_PRIORITY,
     remaining_quantum |-> MIN_PRIORITY, unkillable |-> unkillable,
     waiting_for_pid |-> 0, stack_pointer |-> At(entry)]

\* The slot addProcess takes: the lowest empty one, as a set with at most one member.
FirstFree(t) == {p \in Pid : t[p] = NULL /\ \A q \in 0 .. p - 1 : t[q] # NULL}

\* adoptChildren(pid): the children of pid become children of init.
Adopted(t, pid) ==
    [q \in Pid |-> IF t[q] # NULL /\ t[q].parent_pid = pid
                   THEN [t[q] EXCEPT !.parent_pid = INIT_PID] ELSE t[q]]

\* unblockProcess(pid): only a BLOCKED process changes.
Unblocked(t, pid) ==
    IF HasStatus(t, pid, "BLOCKED") THEN [t EXCEPT ![pid].status = "READY"] ELSE t

\* Variants with a bug: a terminated process can be blocked; init can.
MayBlockTerminated(t, pid) == pid # INIT_PID /\ t[pid] # NULL
MayBlockInit(t, pid) == t[pid] # NULL /\ t[pid].status # "TERMINATED"

\* The guard of sleepBlock: init and terminated processes are never blocked.
MayBlock(t, pid) ==
    pid # INIT_PID /\ t[pid] # NULL /\ t[pid].status # "TERMINATED"

\* The wake-up killProcess and myExit give to a parent that is in waitPid for pid.
\* Only init has parent NO_PID, and init neither exits nor can be killed.
ParentWoken(t, pid) ==
    LET parent == t[pid].parent_pid
    IN  IF parent \in Pid /\ t[parent] # NULL /\ t[parent].waiting_for_pid = pid
        THEN Unblocked(t, parent) ELSE t

\* removeProcess without its size--: the record is freed, the slot is empty.
Removed(t, pid) == [q \in Pid |-> IF q = pid THEN NULL ELSE t[q]]

\* scheduler->size is a uint8_t.
Dec8(n) == (n + 255) % 256
Inc8(n) == (n + 1) % 256
====
