---- MODULE Scheduler ----
(***************************************************************************)
(* 3_Kernel/2_libraries/scheduler.c on its single CPU.  System calls run   *)
(* through an interrupt gate, so with interrupts off: each is one action,  *)
(* which includes the context switch of the yield() it may end with.  What *)
(* the kernel runs with interrupts on is cut into steps between which a    *)
(* timer tick or a Ctrl-C can arrive: initMain, and myExit when a process  *)
(* gets to it by returning from its main function (processCaller) instead  *)
(* of through sys_exit.  The cuts are where the shared variables are read  *)
(* and written: in addProcess the store to the slot and the load and the   *)
(* store of size++, then setPriority; in myExit the status, the wake-up of *)
(* the parent and the removal; in a removal its test of the slot, the      *)
(* store of NULL, and the load and the store of size--.  Within a step,    *)
(* the wake-up's and the reaper's tests of one slot are taken together,    *)
(* and so are setPriority's two stores.                                    *)
(*                                                                         *)
(* Two races of this code do harm, which "harm" records:                   *)
(*   lost     a store to size has overwritten an update made since the     *)
(*            load; the model goes on with the wrong count;                *)
(*   crossed  between the test of a slot and the store of NULL the slot    *)
(*            names a record that destroyProcess frees.  If meanwhile the  *)
(*            slot is removed a second time, or some my_malloc takes the   *)
(*            freed memory, what happens next is up to the heap: behaviours*)
(*            are followed up to that step and no further.                 *)
(***************************************************************************)
EXTENDS ProcessTable

CONSTANTS
    Program,  \* for each slot, the system calls the program in it makes
    CtrlC     \* TRUE if the user may press Ctrl-C

Calls == {"new_process", "sys_exit", "return", "kill", "block", "unblock",
          "nice", "yield", "waitpid"}

\* init makes no system call (initMain); the shell never leaves its main loop.
ASSUME ProgramAssumption ==
    /\ Program \in [Pid -> SUBSET Calls]
    /\ Program[INIT_PID] = {}
    /\ "sys_exit" \notin Program[SHELL_PID] /\ "return" \notin Program[SHELL_PID]
ASSUME SwitchAssumption == CtrlC \in BOOLEAN

VARIABLES
    processes,         \* scheduler->processes
    current,           \* scheduler->current
    size,              \* scheduler->size
    force_reschedule,  \* set by yield(), cleared by getNextProcess()
    cpu,               \* where the CPU executes: the context on the live stack
    harm               \* history: what a race has done, "none" if nothing yet

vars == <<processes, current, size, force_reschedule, cpu, harm>>

Init ==
    /\ processes = [p \in Pid |-> IF p = INIT_PID
                                  THEN NewProcess(NO_PID, TRUE, "start") ELSE NULL]
    /\ current = NO_PID
    /\ size = 1
    /\ force_reschedule = FALSE
    /\ cpu = At("boot")
    /\ harm = "none"

----------------------------------------------------------------------------
\* schedule() and getNextProcess()

\* Variant with a bug: RUNNING is not turned into READY.
SuspendedStillRunning(t, saved) ==
    IF current = NO_PID \/ t[current] = NULL THEN t
    ELSE [t EXCEPT ![current].stack_pointer = saved]

\* The first half of schedule(): the stack pointer is saved, RUNNING becomes READY.
\* After a process has removed itself the writes go through a null pointer, not to a slot.
Suspended(t, saved) ==
    IF current = NO_PID \/ t[current] = NULL THEN t
    ELSE [t EXCEPT ![current].stack_pointer = saved,
                   ![current].status = IF @ = "RUNNING" THEN "READY" ELSE @]

\* Variant with a bug: the quantum never runs out.
KeepsCpuForever(t, forced) ==
    /\ current # NO_PID /\ t[current] # NULL
    /\ t[current].status \in {"READY", "RUNNING"}
    /\ ~forced

\* The current process keeps the CPU while it is able to run and has quantum left.
KeepsCpu(t, forced) ==
    /\ current # NO_PID /\ t[current] # NULL
    /\ t[current].status \in {"READY", "RUNNING"}
    /\ t[current].remaining_quantum > 0
    /\ ~forced

\* Variant with a bug: every scan starts at slot 0.
DistanceFromInit(p) == p

\* Distance of slot p in the circular scan, which starts after the current slot.
Distance(p) == (p + MAX_PROCESSES - (current + 1)) % MAX_PROCESSES

\* The first READY slot of the scan, as a set with at most one member.
NextReady(t) ==
    {p \in Pid : /\ HasStatus(t, p, "READY")
                 /\ \A q \in Pid : HasStatus(t, q, "READY") => Distance(p) <= Distance(q)}

Dispatch(t, p, quantum) ==
    /\ processes' = [t EXCEPT ![p].status = "RUNNING", ![p].remaining_quantum = quantum]
    /\ current' = p
    /\ cpu' = t[p].stack_pointer

\* An interrupt saves the context "saved"; with table t and n processes, schedule() picks
\* who goes on.  When nobody is READY the interrupted context itself goes on.
Schedule(t, n, saved, forced) ==
    LET s == Suspended(t, saved)
    IN  IF n = 0
        THEN /\ processes' = t /\ cpu' = saved
             /\ force_reschedule' = forced /\ UNCHANGED current
        ELSE /\ force_reschedule' = IF KeepsCpu(s, forced) THEN forced ELSE FALSE
             /\ \/ /\ KeepsCpu(s, forced)
                   /\ Dispatch(s, current, s[current].remaining_quantum - 1)
                \/ /\ ~KeepsCpu(s, forced)
                   /\ \E p \in NextReady(s) : Dispatch(s, p, s[p].priority)
                \/ /\ ~KeepsCpu(s, forced) /\ NextReady(s) = {}
                   /\ processes' = s /\ cpu' = saved /\ UNCHANGED current

\* yield(): force_reschedule = 1, then int 20h.
YieldWith(t, n, saved) == Schedule(t, n, saved, TRUE)

\* A handler that changes the table to t and the count to n and returns to its caller.
Return(t, n) ==
    processes' = t /\ size' = n /\ UNCHANGED <<current, force_reschedule, cpu>>

\* The CPU is at the label, in a behaviour that is still followed.
Executing(label) == harm # "crossed" /\ cpu.at = label

\* Interrupts are on everywhere but inside a system call that gave up the CPU.
InterruptsOn == harm # "crossed" /\ cpu.at # "waitPid"

TimerTick ==
    /\ InterruptsOn
    /\ Schedule(processes, size, cpu, force_reschedule)
    /\ UNCHANGED <<size, harm>>

----------------------------------------------------------------------------
\* Removals that cross

\* The removal of pid is under way: it has passed its test and not yet stored NULL, on the
\* CPU or on the stack of a process that was preempted there.
BeingRemoved(pid) ==
    \/ cpu = AtWith("emptySlot", pid)
    \/ \E p \in Live(processes) \ {current} :
           processes[p].stack_pointer = AtWith("emptySlot", pid)

\* A removal of pid begins: its record is freed a second time if another is under way.
Removes(pid) == harm' = IF BeingRemoved(pid) THEN "crossed" ELSE harm

\* The my_malloc of some system call takes memory freed by a removal under way.
MemoryTaken ==
    /\ Executing("user")
    /\ \E pid \in Pid : BeingRemoved(pid)
    /\ harm' = "crossed"
    /\ UNCHANGED <<processes, current, size, force_reschedule, cpu>>

----------------------------------------------------------------------------
\* System calls of the current process

Calling(call) ==
    /\ Executing("user") /\ current \in Pid /\ processes[current] # NULL
    /\ call \in Program[current]

\* sys_new_process: every caller in 4_Userland passes unkillable = 0.
AddProcess ==
    /\ Calling("new_process")
    /\ size < MAX_PROCESSES
    /\ \E p \in FirstFree(processes) :
          Return([processes EXCEPT ![p] = NewProcess(current, FALSE, "user")], size + 1)
    /\ UNCHANGED harm

\* killProcess(pid): in the caller's context, or in that of the interrupted process.
Kill(pid) ==
    /\ processes[pid] # NULL /\ ~processes[pid].unkillable
    /\ LET t == Removed(ParentWoken(Adopted(processes, pid), pid), pid)
       IN  IF processes[pid].status = "RUNNING"
           THEN YieldWith(t, Dec8(size), cpu) /\ size' = Dec8(size)
           ELSE Return(t, Dec8(size))
    /\ Removes(pid)

KillProcess(pid) == Calling("kill") /\ Kill(pid)

\* Ctrl-C in the keyboard interrupt: kills the process the shell's field names,
\* whatever code was interrupted.
KillForegroundProcess ==
    /\ CtrlC /\ InterruptsOn
    /\ processes[SHELL_PID] # NULL
    /\ processes[SHELL_PID].waiting_for_pid \in Pid
    /\ Kill(processes[SHELL_PID].waiting_for_pid)

BlockProcess(pid) ==
    /\ Calling("block")
    /\ MayBlock(processes, pid)
    /\ LET t == [processes EXCEPT ![pid].status = "BLOCKED"]
       IN  IF pid = current THEN YieldWith(t, size, cpu) /\ UNCHANGED size
           ELSE Return(t, size)
    /\ UNCHANGED harm

UnblockProcess(pid) ==
    /\ Calling("unblock")
    /\ HasStatus(processes, pid, "BLOCKED")
    /\ Return(Unblocked(processes, pid), size)
    /\ UNCHANGED harm

SetPriority(pid, newPriority) ==
    /\ Calling("nice")
    /\ processes[pid] # NULL
    /\ Return([processes EXCEPT ![pid].priority = newPriority,
                                ![pid].remaining_quantum = newPriority], size)
    /\ UNCHANGED harm

Yield ==
    /\ Calling("yield")
    /\ YieldWith(processes, size, cpu)
    /\ UNCHANGED <<size, harm>>

\* Variant with a bug: counts a removal even if the slot was empty.
FinishWaitAlwaysCounts(pid) ==
    /\ processes' = Removed([processes EXCEPT ![current].waiting_for_pid = NO_PID], pid)
    /\ size' = Dec8(size)
    /\ cpu' = At("user")
    /\ UNCHANGED <<current, force_reschedule>>
    /\ Removes(pid)

\* The tail of waitPid: the slot is emptied whoever is in it by now.
\* (The return value is read from the slot too: a null pointer if it is empty.)
FinishWait(pid) ==
    LET t == [processes EXCEPT ![current].waiting_for_pid = NO_PID]
    IN  /\ processes' = Removed(t, pid)
        /\ size' = IF processes[pid] = NULL THEN size ELSE Dec8(size)
        /\ cpu' = At("user")
        /\ UNCHANGED <<current, force_reschedule>>
        /\ Removes(pid)

\* Variant with a bug: waits for processes that are not its children.
WaitPidOfAnybody(pid) ==
    /\ Calling("waitpid")
    /\ processes[pid] # NULL
    /\ LET t == [processes EXCEPT ![current].waiting_for_pid = pid,
                                  ![current].status = "BLOCKED"]
       IN  YieldWith(t, size, AtWith("waitPid", pid)) /\ UNCHANGED <<size, harm>>

WaitPid(pid) ==
    /\ Calling("waitpid")
    /\ processes[pid] # NULL /\ processes[pid].parent_pid = current
    /\ IF processes[pid].status = "TERMINATED" THEN FinishWait(pid)
       ELSE LET t == [processes EXCEPT ![current].waiting_for_pid = pid,
                                       ![current].status = "BLOCKED"]
            IN  YieldWith(t, size, AtWith("waitPid", pid)) /\ UNCHANGED <<size, harm>>

\* Somebody made the caller READY again and it got the CPU: still inside the system call.
WaitPidResume ==
    /\ Executing("waitPid") /\ current \in Pid /\ processes[current] # NULL
    /\ FinishWait(cpu.arg)

\* Variant with a bug: the waiting parent is forgotten.
SysExitUnnoticed ==
    /\ Calling("sys_exit")
    /\ YieldWith(Removed(processes, current), Dec8(size), cpu)
    /\ size' = Dec8(size)
    /\ Removes(current)

\* myExit through sys_exit: TERMINATED, wake the parent, remove, yield, all in one go.
\* The children keep their parent_pid.
SysExit ==
    /\ Calling("sys_exit")
    /\ YieldWith(Removed(ParentWoken(processes, current), current), Dec8(size), cpu)
    /\ size' = Dec8(size)
    /\ Removes(current)

----------------------------------------------------------------------------
\* Kernel code that runs with interrupts on

Goto(c) == cpu' = c /\ UNCHANGED <<current, force_reschedule>>

\* At -O0 size++ and size-- load size, compute and store: what the store writes comes from
\* the value loaded, and an update made in between is lost.
Stored(loaded, n) ==
    /\ size' = n
    /\ harm' = IF size = loaded THEN harm ELSE "lost"

\* removeProcess(pid), first half: its test, and destroyProcess begins to free the record.
RemoveBegins(pid, next) ==
    IF processes[pid] = NULL THEN Goto(next) /\ UNCHANGED <<processes, size, harm>>
    ELSE Goto(AtWith("emptySlot", pid)) /\ Removes(pid) /\ UNCHANGED <<processes, size>>

\* ... the record is freed, and the slot set to NULL, whatever it holds by then ...
EmptySlot ==
    /\ Executing("emptySlot")
    /\ processes' = Removed(processes, cpu.arg)
    /\ Goto(At("sizeLoad")) /\ UNCHANGED <<size, harm>>

\* ... size-- loads size ...
LoadSize ==
    /\ Executing("sizeLoad")
    /\ Goto(AtWith("sizeStore", size)) /\ UNCHANGED <<processes, size, harm>>

\* ... and stores it; then myExit goes on to its yield, the reaper to the next slot.
StoreSize ==
    /\ Executing("sizeStore")
    /\ Stored(cpu.arg, Dec8(cpu.arg))
    /\ Goto(At(IF current = INIT_PID THEN "idle" ELSE "exitYield"))
    /\ UNCHANGED processes

\* processCaller -> myExit, in the context of a process that returned from main.
ReturnFromMain ==
    /\ Calling("return")
    /\ processes' = [processes EXCEPT ![current].status = "TERMINATED"]
    /\ Goto(At("exitWake")) /\ UNCHANGED <<size, harm>>

\* The record may have been freed by a Ctrl-C since: the parent is already awake then.
ExitWakeParent ==
    /\ Executing("exitWake") /\ current \in Pid
    /\ processes' = IF processes[current] = NULL THEN processes
                    ELSE ParentWoken(processes, current)
    /\ Goto(At("exitRemove")) /\ UNCHANGED <<size, harm>>

ExitRemove ==
    /\ Executing("exitRemove") /\ current \in Pid
    /\ RemoveBegins(current, At("exitYield"))

ExitYield ==
    /\ Executing("exitYield")
    /\ YieldWith(processes, size, cpu)
    /\ UNCHANGED <<size, harm>>

\* initMain: addProcess stores the shell in the first slot free, which is SHELL_PID ...
InitMain ==
    /\ Executing("start") /\ size < MAX_PROCESSES
    /\ \E p \in FirstFree(processes) :
          processes' = [processes EXCEPT ![p] = NewProcess(current, TRUE, "user")]
    /\ Goto(At("countLoad")) /\ UNCHANGED <<size, harm>>

\* ... size++, in its two halves ...
LoadCount ==
    /\ Executing("countLoad")
    /\ Goto(AtWith("countStore", size)) /\ UNCHANGED <<processes, size, harm>>

StoreCount ==
    /\ Executing("countStore")
    /\ Stored(cpu.arg, Inc8(cpu.arg))
    /\ Goto(At("prio")) /\ UNCHANGED processes

\* ... and setPriority(shellPid, MAX_PRIORITY).
InitSetPriority ==
    /\ Executing("prio")
    /\ processes' = IF processes[SHELL_PID] = NULL THEN processes
                    ELSE [processes EXCEPT ![SHELL_PID].priority = MAX_PRIORITY,
                                           ![SHELL_PID].remaining_quantum = MAX_PRIORITY]
    /\ Goto(At("idle")) /\ UNCHANGED <<size, harm>>

\* cleanupTerminatedOrphans, in initMain's loop: the test on one slot ...
ReapFind(pid) ==
    /\ Executing("idle")
    /\ HasStatus(processes, pid, "TERMINATED")
    /\ processes[pid].parent_pid = INIT_PID
    /\ Goto(AtWith("reapRemove", pid)) /\ UNCHANGED <<processes, size, harm>>

\* ... and its removal, which does not look at the slot again.
ReapRemove ==
    /\ Executing("reapRemove")
    /\ RemoveBegins(cpu.arg, At("idle"))

----------------------------------------------------------------------------
SystemCall ==
    \/ AddProcess \/ Yield \/ SysExit \/ ReturnFromMain
    \/ \E pid \in Pid : \/ KillProcess(pid) \/ BlockProcess(pid)
                        \/ UnblockProcess(pid) \/ WaitPid(pid)
                        \/ \E n \in Priorities : SetPriority(pid, n)

KernelStep ==
    \/ InitMain \/ LoadCount \/ StoreCount \/ InitSetPriority
    \/ WaitPidResume \/ ExitWakeParent \/ ExitRemove \/ ExitYield
    \/ EmptySlot \/ LoadSize \/ StoreSize
    \/ ReapRemove \/ \E pid \in Pid : ReapFind(pid)

\* After a crossing there is nothing more to say.
NotFollowed == harm = "crossed" /\ UNCHANGED vars

Next ==
    \/ TimerTick \/ KillForegroundProcess \/ SystemCall \/ KernelStep
    \/ MemoryTaken \/ NotFollowed

Spec == Init /\ [][Next]_vars

\* The timer interrupts for ever, and the CPU executes the kernel code it is in.
Fairness == WF_vars(TimerTick) /\ WF_vars(KernelStep)
FairSpec == Spec /\ Fairness

\* The programs of the children do terminate: a child that is given the CPU again and again
\* calls sys_exit in the end.
ProgramsExit == \A p \in Pid : SF_vars(SysExit /\ current = p)
LiveSpec == FairSpec /\ ProgramsExit

----------------------------------------------------------------------------
\* Properties

\* The variables have their types; the process the CPU belongs to is a slot from the
\* first tick on.
TypeOK ==
    /\ processes \in Table
    /\ current \in Pid \cup {NO_PID}
    /\ size \in 0 .. 255
    /\ force_reschedule \in BOOLEAN
    /\ cpu \in Context
    /\ harm \in {"none", "lost", "crossed"}
    /\ current = NO_PID <=> cpu.at = "boot"

\* Until a race does harm, the CPU executes a process only while that process is RUNNING:
\* no schedule() falls through to a blocked, finished or removed process.  The one
\* exception is the tail of myExit, on the stack of a process no longer schedulable.
CpuRunsItsProcess ==
    harm = "none" =>
        /\ cpu.at \in {"start", "countLoad", "countStore", "prio", "idle", "reapRemove",
                        "user", "waitPid"} => HasStatus(processes, current, "RUNNING")
        /\ cpu.at \in {"emptySlot", "sizeLoad", "sizeStore"} /\ current = INIT_PID =>
              HasStatus(processes, current, "RUNNING")
        /\ cpu.at \in {"exitWake", "exitRemove"} =>
              processes[current] = NULL \/ HasStatus(processes, current, "TERMINATED")
        /\ cpu.at = "emptySlot" /\ current # INIT_PID =>
              HasStatus(processes, current, "TERMINATED")
        /\ cpu.at \in {"sizeLoad", "sizeStore", "exitYield"} /\ current # INIT_PID =>
              processes[current] = NULL
        /\ \A p \in Pid : HasStatus(processes, p, "RUNNING") => p = current

\* The shell is in its slot and initMain has not yet counted it.
InitAt == IF current = INIT_PID THEN cpu.at ELSE processes[INIT_PID].stack_pointer.at
Uncounted == IF InitAt \in {"countLoad", "countStore"} THEN 1 ELSE 0

\* Until a race does harm, scheduler->size, which schedule() tests for zero and addProcess()
\* for fullness, misses no process of the table but a shell that initMain is still to
\* count; it may count more after a process was preempted inside removeProcess().
SizeCoversTable ==
    harm = "none" => Cardinality(Live(processes)) <= size + Uncounted

\* waitPid, initMain and myExit remove slots without looking at unkillable, and waitPid
\* may even hit a reused slot; still init and the shell never lose theirs.
UnkillableStay ==
    [][\A p \in Pid : processes[p] # NULL /\ processes[p].unkillable
                        => processes'[p] # NULL /\ processes'[p].unkillable]_vars

\* Nothing brings a finished process back: it keeps its status until its slot is emptied,
\* although block, unblock, kill and nice still find it in the table.
TerminatedIsFinal ==
    [][\A p \in Pid : HasStatus(processes, p, "TERMINATED")
                        => processes'[p] = NULL \/ HasStatus(processes', p, "TERMINATED")]_vars

\* The mapping to ProcessLife: a slot's status, or ABSENT.
LifeState == [p \in Pid |-> IF processes[p] = NULL THEN "ABSENT" ELSE processes[p].status]
Life == INSTANCE ProcessLife WITH First <- INIT_PID, state <- LifeState

\* Until a race does harm, the table goes through the life ProcessLife promises, one step or
\* a stutter at a time.
ImplementsLife == Life!LifeInit /\ [][harm' = "none" => Life!LifeNext]_LifeState

\* Round robin starves nobody: a READY process runs, or is blocked or killed first, unless
\* a race does harm.
NoStarvation ==
    \A p \in Pid :
        HasStatus(processes, p, "READY") ~> ~HasStatus(processes, p, "READY") \/ harm # "none"

\* Whoever waits for a child gets back from waitPid, when children leave through sys_exit
\* and only the shell creates processes.
WaitReturns ==
    \A p \in Pid :
        HasStatus(processes, p, "BLOCKED") /\ processes[p].stack_pointer.at = "waitPid"
            ~> \/ ~(HasStatus(processes, p, "BLOCKED")
                       /\ processes[p].stack_pointer.at = "waitPid")
               \/ harm # "none"

\* waitPid comes back when the process it waited for has finished (syscalls.h, sys_waitpid),
\* so what it then removes is not a live process.
ReapsOnlyTheDead ==
    cpu.at = "waitPid" =>
        processes[cpu.arg] = NULL \/ HasStatus(processes, cpu.arg, "TERMINATED")

====
