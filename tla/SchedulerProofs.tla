---- MODULE SchedulerProofs ----
(***************************************************************************)
(* Theorems about Scheduler, for every number of slots, every priority     *)
(* range and every program: what always holds, what no step does, what     *)
(* holds until a race does harm, and that the kernel implements            *)
(* ProcessLife until then.                                                 *)
(***************************************************************************)
EXTENDS Scheduler, TLAPS, FiniteSetTheorems, NaturalsInduction, WellFoundedInduction

----------------------------------------------------------------------------
(***************************************************************************)
(* The inductive invariant.  It is stated of a table t, a current pid cur  *)
(* and a context c rather than of the variables, because a handler builds  *)
(* a table and a context first and then hands both to schedule().          *)
(***************************************************************************)
Reserved == {INIT_PID, SHELL_PID}
InitLabels == {"start", "countLoad", "countStore", "prio", "idle", "reapRemove"}
ExitLabels == {"exitWake", "exitRemove", "exitYield"}
Taking == {"sizeLoad", "sizeStore"}

\* What may be found on the stack of process o: initMain's code only on init's, myExit's
\* on neither init's nor the shell's, no removal that names one of those two, and outside
\* init none but of the process itself.
GoodContext(o, c) ==
    /\ c.at # "boot"
    /\ c.at \in InitLabels => o = INIT_PID
    /\ c.at \in ExitLabels => o \notin Reserved
    /\ c.at \in Taking \cup {"emptySlot"} => o # SHELL_PID
    /\ c.at \in {"waitPid", "reapRemove", "emptySlot"} => c.arg \in Pid \ Reserved
    /\ c.at = "emptySlot" /\ o # INIT_PID => c.arg = o

GoodProcess(p, r) ==
    /\ r.unkillable <=> p \in Reserved
    /\ p = INIT_PID => r.parent_pid = NO_PID /\ r.status \in {"READY", "RUNNING"}
    /\ p = SHELL_PID => r.parent_pid = INIT_PID /\ r.status # "TERMINATED"
    /\ GoodContext(p, r.stack_pointer)

\* Until initMain has run there is nobody but init; afterwards there is a shell, and
\* nobody will run initMain's entry again.
Booting(t, cur, c) ==
    /\ \A p \in Pid : p # INIT_PID => t[p] = NULL
    /\ c.at \in {"boot", "start"} /\ cur \in {NO_PID, INIT_PID}
    /\ t[INIT_PID].stack_pointer.at = "start"
Booted(t, cur, c) ==
    /\ t[SHELL_PID] # NULL
    /\ c.at \notin {"boot", "start"}
    /\ \A p \in Pid : p # cur /\ t[p] # NULL => t[p].stack_pointer.at # "start"

GoodState(t, cur, c) ==
    /\ t \in Table /\ cur \in Pid \cup {NO_PID} /\ c \in Context
    /\ cur = NO_PID <=> c.at = "boot"
    /\ cur # NO_PID => GoodContext(cur, c)
    /\ t[INIT_PID] # NULL
    /\ \A p \in Pid : t[p] # NULL => GoodProcess(p, t[p])
    /\ Booting(t, cur, c) \/ Booted(t, cur, c)

IInv ==
    /\ GoodState(processes, current, cpu)
    /\ size \in 0 .. 255 /\ force_reschedule \in BOOLEAN

----------------------------------------------------------------------------
\* Facts about the table

\* init (0) and the shell (1) are two different slots, NO_PID is none.
LEMMA PidFacts ==
    /\ INIT_PID \in Pid /\ SHELL_PID \in Pid /\ NO_PID \notin Pid
    /\ INIT_PID # SHELL_PID /\ Pid \subseteq Int
    BY MaxProcessesAssumption DEF Pid, INIT_PID, SHELL_PID, NO_PID

\* A record of the table is never the empty slot.
LEMMA ProcessNotNull == ASSUME NEW r \in Process PROVE r # NULL
    BY NullAssumption

\* createProcess fills a record of the table's type.
LEMMA NewProcessType ==
    ASSUME NEW parent \in Pid \cup {NO_PID}, NEW u \in BOOLEAN, NEW entry \in Labels
    PROVE  NewProcess(parent, u, entry) \in Process
    BY MaxProcessesAssumption, MaxPriorityAssumption
       DEF NewProcess, Process, Statuses, Priorities, Context, At, Pid, MIN_PRIORITY

\* What the wake-ups, the adoption and a removal leave of a slot.
Woken(r, q) ==
    /\ r # NULL /\ q # NULL /\ r.status = "BLOCKED" /\ q.status = "READY"
    /\ q.parent_pid = r.parent_pid /\ q.unkillable = r.unkillable
    /\ q.stack_pointer = r.stack_pointer
OrphanOf(r, q, pid) ==
    /\ r # NULL /\ q # NULL /\ r.parent_pid = pid /\ q.parent_pid = INIT_PID
    /\ q.status = r.status /\ q.unkillable = r.unkillable
    /\ q.stack_pointer = r.stack_pointer

\* unblockProcess changes no process but one it takes from BLOCKED to READY.
LEMMA UnblockedEffect ==
    ASSUME NEW t \in Table, NEW w \in Pid
    PROVE  /\ Unblocked(t, w) \in Table
           /\ \A p \in Pid : Unblocked(t, w)[p] = t[p] \/ Woken(t[p], Unblocked(t, w)[p])
<1>1. CASE ~HasStatus(t, w, "BLOCKED")
    BY <1>1 DEF Unblocked
<1>2. CASE HasStatus(t, w, "BLOCKED")
    <2> DEFINE r == [t[w] EXCEPT !.status = "READY"]
    <2>1. t[w] \in Process /\ t[w] # NULL /\ t[w].status = "BLOCKED"
        BY <1>2 DEF HasStatus, Table
    <2>2. r \in Process /\ Unblocked(t, w) = [t EXCEPT ![w] = r]
        BY <1>2, <2>1 DEF Unblocked, Process, Statuses
    <2>3. Woken(t[w], r)
        BY <2>1, <2>2, ProcessNotNull DEF Woken, Process
    <2> HIDE DEF r
    <2>4. QED
        BY <2>2, <2>3 DEF Table
<1>3. QED
    BY <1>1, <1>2

\* The wake-up of a parent (myExit, killProcess) is an unblockProcess or nothing.
LEMMA ParentWokenEffect ==
    ASSUME NEW t \in Table, NEW w \in Pid
    PROVE  /\ ParentWoken(t, w) \in Table
           /\ \A p \in Pid : \/ ParentWoken(t, w)[p] = t[p]
                             \/ Woken(t[p], ParentWoken(t, w)[p])
<1> DEFINE parent == t[w].parent_pid
<1>1. CASE parent \in Pid /\ t[parent] # NULL /\ t[parent].waiting_for_pid = w
    <2>1. ParentWoken(t, w) = Unblocked(t, parent)
        BY <1>1 DEF ParentWoken
    <2>2. QED
        BY <1>1, <2>1, UnblockedEffect
<1>2. CASE ~(parent \in Pid /\ t[parent] # NULL /\ t[parent].waiting_for_pid = w)
    <2>1. ParentWoken(t, w) = t
        BY <1>2 DEF ParentWoken
    <2>2. QED
        BY <2>1
<1>3. QED
    BY <1>1, <1>2

\* adoptChildren gives children of pid to init and changes nothing else.
LEMMA AdoptedEffect ==
    ASSUME NEW t \in Table, NEW w \in Pid
    PROVE  /\ Adopted(t, w) \in Table
           /\ \A p \in Pid : \/ Adopted(t, w)[p] = t[p]
                             \/ OrphanOf(t[p], Adopted(t, w)[p], w)
<1>1. ASSUME NEW p \in Pid
      PROVE  /\ Adopted(t, w)[p] \in Process \cup {NULL}
             /\ Adopted(t, w)[p] = t[p] \/ OrphanOf(t[p], Adopted(t, w)[p], w)
    <2>1. CASE ~(t[p] # NULL /\ t[p].parent_pid = w)
        BY <2>1 DEF Adopted, Table
    <2>2. CASE t[p] # NULL /\ t[p].parent_pid = w
        <3> DEFINE r == [t[p] EXCEPT !.parent_pid = INIT_PID]
        <3>1. t[p] \in Process /\ Adopted(t, w)[p] = r
            BY <2>2 DEF Adopted, Table
        <3>2. r \in Process
            BY <3>1, PidFacts DEF Process
        <3>3. OrphanOf(t[p], r, w)
            BY <2>2, <3>1, <3>2, ProcessNotNull DEF OrphanOf, Process
        <3>4. QED
            BY <3>1, <3>2, <3>3
    <2>3. QED
        BY <2>1, <2>2
<1>2. Adopted(t, w) \in Table
    BY <1>1 DEF Adopted, Table
<1>3. QED
    BY <1>1, <1>2

\* removeProcess empties one slot.
LEMMA RemovedEffect ==
    ASSUME NEW t \in Table, NEW w
    PROVE  /\ Removed(t, w) \in Table
           /\ \A p \in Pid : Removed(t, w)[p] = IF p = w THEN NULL ELSE t[p]
    BY DEF Removed, Table

----------------------------------------------------------------------------
\* schedule()

\* What schedule() does to one process: parent and unkillable stay, READY and RUNNING
\* become one another, and no other status changes.
SameProcess(r, q) ==
    /\ q.parent_pid = r.parent_pid /\ q.unkillable = r.unkillable
    /\ q.waiting_for_pid = r.waiting_for_pid
    /\ r.status \in {"READY", "RUNNING"} => q.status \in {"READY", "RUNNING"}
    /\ r.status \notin {"READY", "RUNNING"} => q.status = r.status

\* The first half of schedule() changes only the process it suspends.
LEMMA SuspendedEffect ==
    ASSUME NEW t \in Table, NEW saved \in Context, current \in Pid \cup {NO_PID}
    PROVE  /\ Suspended(t, saved) \in Table
           /\ \A p \in Pid : (p # current \/ t[p] = NULL) => Suspended(t, saved)[p] = t[p]
           /\ current \in Pid /\ t[current] # NULL =>
                 /\ Suspended(t, saved)[current] # NULL
                 /\ Suspended(t, saved)[current].stack_pointer = saved
                 /\ Suspended(t, saved)[current].status =
                       IF t[current].status = "RUNNING" THEN "READY" ELSE t[current].status
                 /\ SameProcess(t[current], Suspended(t, saved)[current])
<1>1. CASE current = NO_PID \/ t[current] = NULL
    BY <1>1, PidFacts DEF Suspended
<1>2. CASE current # NO_PID /\ t[current] # NULL
    <2>1. current \in Pid /\ t[current] \in Process
        BY <1>2 DEF Table
    <2> DEFINE r == [t[current] EXCEPT !.stack_pointer = saved,
                                       !.status = IF t[current].status = "RUNNING"
                                                  THEN "READY" ELSE t[current].status]
    <2>2. Suspended(t, saved) = [t EXCEPT ![current] = r]
        BY <1>2, <2>1 DEF Suspended, Table, Process
    <2>3. r \in Process
        BY <2>1 DEF Process, Statuses
    <2>4. /\ r.stack_pointer = saved
          /\ r.status = IF t[current].status = "RUNNING" THEN "READY" ELSE t[current].status
          /\ SameProcess(t[current], r)
        BY <2>1 DEF SameProcess, Process, Statuses
    <2> HIDE DEF r
    <2>5. QED
        BY <1>2, <2>1, <2>2, <2>3, <2>4, ProcessNotNull DEF Table
<1>3. QED
    BY <1>1, <1>2

\* Suspending a process leaves its identity, and saves its context if it is current.
LEMMA SuspendedSame ==
    ASSUME NEW t \in Table, NEW saved \in Context, current \in Pid \cup {NO_PID}, NEW p \in Pid
    PROVE  /\ Suspended(t, saved)[p] = NULL <=> t[p] = NULL
           /\ t[p] # NULL =>
                 /\ SameProcess(t[p], Suspended(t, saved)[p])
                 /\ Suspended(t, saved)[p].stack_pointer =
                       IF p = current THEN saved ELSE t[p].stack_pointer
<1>1. CASE p # current \/ t[p] = NULL
    BY <1>1, SuspendedEffect DEF SameProcess
<1>2. CASE p = current /\ t[p] # NULL
    BY <1>2, SuspendedEffect
<1>3. QED
    BY <1>1, <1>2

\* schedule() dispatches a process of the table: it becomes current and RUNNING, the others stay.
LEMMA DispatchEffect ==
    ASSUME NEW s \in Table, NEW p \in Pid, s[p] # NULL, s[p].status \in {"READY", "RUNNING"},
           NEW quantum \in 0 .. MAX_PRIORITY, Dispatch(s, p, quantum)
    PROVE  /\ processes' \in Table /\ current' = p
           /\ cpu' = s[p].stack_pointer /\ cpu' \in Context
           /\ processes'[p] # NULL /\ processes'[p].status = "RUNNING"
           /\ \A q \in Pid : q # p => processes'[q] = s[q]
           /\ \A q \in Pid : /\ processes'[q] = NULL <=> s[q] = NULL
                             /\ s[q] # NULL =>
                                   /\ SameProcess(s[q], processes'[q])
                                   /\ processes'[q].stack_pointer = s[q].stack_pointer
<1>1. s[p] \in Process
    BY DEF Table
<1> DEFINE r == [s[p] EXCEPT !.status = "RUNNING", !.remaining_quantum = quantum]
<1>2. r \in Process
    BY <1>1 DEF Process, Statuses
<1>3. processes' = [s EXCEPT ![p] = r]
    BY <1>1 DEF Dispatch, Table, Process
<1>4. r.status = "RUNNING" /\ r.stack_pointer = s[p].stack_pointer /\ SameProcess(s[p], r)
    BY <1>1 DEF SameProcess, Process
<1>5. current' = p /\ cpu' = s[p].stack_pointer /\ cpu' \in Context
    BY <1>1 DEF Dispatch, Process
<1> HIDE DEF r
<1>6. processes'[p] = r /\ \A q \in Pid : q # p => processes'[q] = s[q]
    BY <1>3 DEF Table
<1>7. \A q \in Pid : SameProcess(s[q], s[q])
    BY DEF SameProcess
<1>8. QED
    BY <1>2, <1>3, <1>4, <1>5, <1>6, <1>7, ProcessNotNull DEF Table

\* What schedule() leaves of the table: no slot is emptied or filled, no process but the
\* suspended one and the dispatched one changes.
LEMMA ScheduleEffect ==
    ASSUME NEW t \in Table, NEW n, NEW saved \in Context, NEW forced \in BOOLEAN,
           current \in Pid \cup {NO_PID}, Schedule(t, n, saved, forced)
    PROVE  /\ processes' \in Table /\ force_reschedule' \in BOOLEAN
           /\ current' \in Pid \cup {NO_PID} /\ cpu' \in Context
           /\ \A p \in Pid : t[p] = NULL <=> processes'[p] = NULL
           /\ \A p \in Pid : t[p] # NULL =>
                 /\ SameProcess(t[p], processes'[p])
                 /\ p # current =>
                       processes'[p].stack_pointer = t[p].stack_pointer
                 /\ p = current =>
                       processes'[p].stack_pointer \in {saved, t[p].stack_pointer}
           /\ \/ current' = current /\ cpu' = saved
              \/ /\ current' \in Pid /\ current' # current /\ t[current'] # NULL
                 /\ cpu' = t[current'].stack_pointer
                 /\ current # NO_PID /\ t[current] # NULL =>
                       processes'[current].stack_pointer = saved
<1> DEFINE s == Suspended(t, saved)
<1>t. s \in Table
    BY SuspendedEffect
<1>0. s \in Table /\ \A p \in Pid : s[p] # NULL => s[p] \in Process
    BY <1>t DEF Table
<1>s. ASSUME NEW p \in Pid
      PROVE  /\ s[p] = NULL <=> t[p] = NULL
             /\ t[p] # NULL => /\ SameProcess(t[p], s[p])
                               /\ s[p].stack_pointer = IF p = current THEN saved
                                                       ELSE t[p].stack_pointer
    BY SuspendedSame
<1> HIDE DEF s
<1>1. CASE n = 0
    <2>1. processes' = t /\ cpu' = saved /\ force_reschedule' = forced /\ current' = current
        BY <1>1 DEF Schedule
    <2>2. \A p \in Pid : t[p] # NULL => SameProcess(t[p], t[p])
        BY DEF SameProcess
    <2>3. QED
        BY <2>1, <2>2
<1>2. CASE n # 0 /\ KeepsCpu(s, forced)
    <2>1. /\ current \in Pid /\ s[current] # NULL /\ s[current] \in Process
          /\ s[current].status \in {"READY", "RUNNING"}
        BY <1>0, <1>2 DEF KeepsCpu
    <2>2. s[current].remaining_quantum - 1 \in 0 .. MAX_PRIORITY
        BY <1>2, <2>1, MaxPriorityAssumption DEF KeepsCpu, Process
    <2>3. Dispatch(s, current, s[current].remaining_quantum - 1)
        BY <1>2 DEF Schedule, s
    <2>4. force_reschedule' = forced
        BY <1>2 DEF Schedule, s
    <2>5. /\ processes' \in Table /\ current' = current
          /\ cpu' = s[current].stack_pointer /\ cpu' \in Context
        BY <1>0, <2>1, <2>2, <2>3, DispatchEffect
    <2>6. \A p \in Pid : /\ processes'[p] = NULL <=> s[p] = NULL
                         /\ s[p] # NULL =>
                               /\ SameProcess(s[p], processes'[p])
                               /\ processes'[p].stack_pointer = s[p].stack_pointer
        BY <1>0, <2>1, <2>2, <2>3, DispatchEffect
    <2>7. \A p \in Pid : t[p] # NULL => SameProcess(t[p], processes'[p])
        BY <1>s, <2>6 DEF SameProcess
    <2>8. QED
        BY <1>s, <2>1, <2>4, <2>5, <2>6, <2>7
<1>3. CASE n # 0 /\ ~KeepsCpu(s, forced) /\ NextReady(s) # {}
    <2>1. PICK p \in NextReady(s) : Dispatch(s, p, s[p].priority)
        BY <1>3 DEF Schedule, s
    <2>2. p \in Pid /\ s[p] # NULL /\ s[p] \in Process /\ s[p].status = "READY"
        BY <1>0, <2>1 DEF NextReady, HasStatus
    <2>3. s[p].priority \in 0 .. MAX_PRIORITY
        BY <2>2, MaxPriorityAssumption DEF Process, Priorities, MIN_PRIORITY
    <2>4. force_reschedule' = FALSE
        BY <1>3 DEF Schedule, s
    <2>5. /\ processes' \in Table /\ current' = p
          /\ cpu' = s[p].stack_pointer /\ cpu' \in Context
        BY <1>0, <2>1, <2>2, <2>3, DispatchEffect
    <2>6. \A q \in Pid : /\ processes'[q] = NULL <=> s[q] = NULL
                         /\ s[q] # NULL =>
                               /\ SameProcess(s[q], processes'[q])
                               /\ processes'[q].stack_pointer = s[q].stack_pointer
        BY <1>0, <2>1, <2>2, <2>3, DispatchEffect
    <2>7. \A q \in Pid : t[q] # NULL => SameProcess(t[q], processes'[q])
        BY <1>s, <2>6 DEF SameProcess
    <2>8. \/ p = current /\ cpu' = saved
          \/ p # current /\ cpu' = t[p].stack_pointer /\ t[p] # NULL
        BY <1>s, <2>2, <2>5
    <2>9. QED
        BY <1>s, <2>2, <2>4, <2>5, <2>6, <2>7, <2>8, PidFacts
<1>4. CASE n # 0 /\ ~KeepsCpu(s, forced) /\ NextReady(s) = {}
    <2>1. processes' = s /\ cpu' = saved /\ current' = current /\ force_reschedule' = FALSE
        BY <1>4 DEF Schedule, s
    <2>2. QED
        BY <1>0, <1>s, <2>1
<1>5. QED
    BY <1>1, <1>2, <1>3, <1>4

\* schedule() preserves GoodState, whatever table and context the handler gives it.
LEMMA ScheduleGood ==
    ASSUME NEW t, NEW n, NEW saved, NEW forced \in BOOLEAN,
           GoodState(t, current, saved), Schedule(t, n, saved, forced)
    PROVE  GoodState(processes', current', cpu') /\ force_reschedule' \in BOOLEAN
<1>0. /\ t \in Table /\ saved \in Context /\ current \in Pid \cup {NO_PID}
      /\ current = NO_PID <=> saved.at = "boot"
      /\ \A p \in Pid : t[p] # NULL => GoodProcess(p, t[p])
      /\ current # NO_PID => GoodContext(current, saved)
    BY DEF GoodState
<1>1. /\ processes' \in Table /\ force_reschedule' \in BOOLEAN
      /\ current' \in Pid \cup {NO_PID} /\ cpu' \in Context
      /\ \A p \in Pid : t[p] = NULL <=> processes'[p] = NULL
      /\ \A p \in Pid : t[p] # NULL =>
            /\ SameProcess(t[p], processes'[p])
            /\ p # current => processes'[p].stack_pointer = t[p].stack_pointer
            /\ p = current => processes'[p].stack_pointer \in {saved, t[p].stack_pointer}
    BY <1>0, ScheduleEffect
<1>2. \/ current' = current /\ cpu' = saved
      \/ /\ current' \in Pid /\ current' # current /\ t[current'] # NULL
         /\ cpu' = t[current'].stack_pointer
         /\ current # NO_PID /\ t[current] # NULL =>
               processes'[current].stack_pointer = saved
    BY <1>0, ScheduleEffect
<1>b. \A p \in Pid : t[p] # NULL => t[p].stack_pointer.at # "boot"
    <2>1. ASSUME NEW p \in Pid, t[p] # NULL PROVE t[p].stack_pointer.at # "boot"
        <3>1. GoodContext(p, t[p].stack_pointer)
            BY <1>0, <2>1 DEF GoodProcess
        <3>2. QED
            BY <3>1 DEF GoodContext
    <2>2. QED
        BY <2>1
<1>3. current' = NO_PID <=> cpu'.at = "boot"
    BY <1>0, <1>2, <1>b, PidFacts
<1>4. current' # NO_PID => GoodContext(current', cpu')
    BY <1>0, <1>2 DEF GoodProcess
<1>5. ASSUME NEW p \in Pid, processes'[p] # NULL
      PROVE  GoodProcess(p, processes'[p])
    <2>1. t[p] # NULL /\ GoodProcess(p, t[p]) /\ SameProcess(t[p], processes'[p])
        BY <1>0, <1>1, <1>5
    <2>2. GoodContext(p, processes'[p].stack_pointer)
        BY <1>0, <1>1, <1>5, <2>1, PidFacts DEF GoodProcess
    <2>3. processes'[p].status # "TERMINATED" \/ t[p].status = "TERMINATED"
        BY <2>1 DEF SameProcess
    <2>4. QED
        BY <2>1, <2>2, <2>3 DEF GoodProcess, SameProcess
<1>6. processes'[INIT_PID] # NULL
    BY <1>1, PidFacts DEF GoodState
<1>7. CASE Booting(t, current, saved)
    <2>1. current' \in {NO_PID, INIT_PID} /\ cpu'.at \in {"boot", "start"}
        BY <1>2, <1>7 DEF Booting
    <2>2. processes'[INIT_PID].stack_pointer.at = "start"
        <3>1. saved.at = "start" \/ current # INIT_PID
            BY <1>0, <1>7, PidFacts DEF Booting
        <3>2. QED
            BY <1>0, <1>1, <1>7, <3>1, PidFacts DEF Booting, GoodState
    <2>3. QED
        BY <1>1, <1>3, <1>4, <1>5, <1>6, <1>7, <2>1, <2>2 DEF GoodState, Booting
<1>8. CASE Booted(t, current, saved)
    <2>1. processes'[SHELL_PID] # NULL
        BY <1>1, <1>8, PidFacts DEF Booted
    <2>2. cpu'.at \notin {"boot", "start"}
        BY <1>0, <1>2, <1>b, <1>8 DEF Booted
    <2>3. ASSUME NEW p \in Pid, p # current', processes'[p] # NULL
          PROVE  processes'[p].stack_pointer.at # "start"
        BY <1>1, <1>2, <1>8, <2>3, PidFacts DEF Booted
    <2>4. QED
        BY <1>1, <1>3, <1>4, <1>5, <1>6, <2>1, <2>2, <2>3 DEF GoodState, Booted
<1>9. QED
    BY <1>1, <1>7, <1>8 DEF GoodState

\* A handler may empty slots that are not reserved, move orphans to init, wake and block
\* processes other than init, and finish processes that are not reserved.
Milder(r, p, q) ==
    \/ q = r
    \/ (q = NULL /\ p \notin Reserved)
    \/ /\ r # NULL /\ q # NULL
       /\ q.unkillable = r.unkillable /\ q.stack_pointer = r.stack_pointer
       /\ q.parent_pid = r.parent_pid \/ (q.parent_pid = INIT_PID /\ p # INIT_PID)
       /\ \/ q.status = r.status
          \/ q.status \in {"READY", "RUNNING"}
          \/ p # INIT_PID /\ q.status = "BLOCKED"
          \/ p \notin Reserved

\* GoodState survives any change of the table that is no worse, for each slot, than Milder.
LEMMA MilderGood ==
    ASSUME NEW t, NEW u, NEW cur, NEW c, NEW d,
           GoodState(t, cur, c), u \in Table,
           \A p \in Pid : Milder(t[p], p, u[p]),
           d \in Context, cur # NO_PID => GoodContext(cur, d),
           d.at \in {"boot", "start"} \/ c.at \in {"boot", "start"} => d.at = c.at
    PROVE  GoodState(u, cur, d)
<1>1. \A p \in Pid : u[p] # NULL => t[p] # NULL
    BY DEF Milder
<1>2. ASSUME NEW p \in Pid, u[p] # NULL PROVE GoodProcess(p, u[p])
    <2>1. GoodProcess(p, t[p])
        BY <1>1, <1>2 DEF GoodState
    <2>2. QED
        BY <1>2, <2>1, PidFacts DEF Milder, GoodProcess, Reserved
<1>3. \A p \in Pid : u[p] # NULL => u[p].stack_pointer = t[p].stack_pointer
    BY DEF Milder
<1>4. u[INIT_PID] # NULL /\ (t[SHELL_PID] # NULL => u[SHELL_PID] # NULL)
    BY PidFacts DEF Milder, Reserved, GoodState
<1>5. Booting(t, cur, c) => Booting(u, cur, d)
    BY <1>1, <1>3, <1>4, PidFacts DEF Booting
<1>6. Booted(t, cur, c) => Booted(u, cur, d)
    BY <1>1, <1>3, <1>4, PidFacts DEF Booted
<1>7. QED
    BY <1>2, <1>4, <1>5, <1>6 DEF GoodState

----------------------------------------------------------------------------
\* The actions

\* A decrement or an increment of a uint8_t stays in a uint8_t.
LEMMA Dec8Type == ASSUME NEW n \in 0 .. 255 PROVE Dec8(n) \in 0 .. 255 /\ Inc8(n) \in 0 .. 255
    BY DEF Dec8, Inc8

\* A handler that ends in schedule(), and one that just returns.
LEMMA YieldGood ==
    ASSUME NEW t, NEW n \in 0 .. 255, NEW saved, NEW forced \in BOOLEAN,
           GoodState(t, current, saved), Schedule(t, n, saved, forced), size' = n
    PROVE  IInv'
    BY ScheduleGood DEF IInv

\* A handler that returns to its caller preserves the invariant if its table is good.
LEMMA ReturnGood ==
    ASSUME NEW t, NEW n \in 0 .. 255, IInv, GoodState(t, current, cpu), Return(t, n)
    PROVE  IInv'
    BY DEF IInv, Return

\* Emptying a slot that is not reserved.
LEMMA RemovedGood ==
    ASSUME NEW t, NEW cur, NEW c, NEW pid, GoodState(t, cur, c), pid \notin Reserved
    PROVE  GoodState(Removed(t, pid), cur, c)
<1>1. t \in Table
    BY DEF GoodState
<1>2. Removed(t, pid) \in Table /\ \A p \in Pid : Milder(t[p], p, Removed(t, pid)[p])
    BY <1>1, RemovedEffect DEF Milder
<1>3. QED
    BY <1>2, MilderGood DEF GoodState

\* Waking a parent preserves GoodState.
LEMMA ParentWokenGood ==
    ASSUME NEW t, NEW cur, NEW c, NEW pid \in Pid, GoodState(t, cur, c)
    PROVE  GoodState(ParentWoken(t, pid), cur, c)
<1>1. t \in Table
    BY DEF GoodState
<1>2. ASSUME NEW p \in Pid PROVE Milder(t[p], p, ParentWoken(t, pid)[p])
    BY <1>1, ParentWokenEffect DEF Milder, Woken
<1>3. QED
    BY <1>1, <1>2, ParentWokenEffect, MilderGood DEF GoodState

\* Adopting the children of a process preserves GoodState.
LEMMA AdoptedGood ==
    ASSUME NEW t, NEW cur, NEW c, NEW pid \in Pid, GoodState(t, cur, c)
    PROVE  GoodState(Adopted(t, pid), cur, c)
<1>1. t \in Table /\ t[INIT_PID] # NULL /\ GoodProcess(INIT_PID, t[INIT_PID])
    BY PidFacts DEF GoodState
<1>2. ASSUME NEW p \in Pid PROVE Milder(t[p], p, Adopted(t, pid)[p])
    <2>1. ~OrphanOf(t[INIT_PID], Adopted(t, pid)[INIT_PID], pid)
        BY <1>1, PidFacts DEF GoodProcess, OrphanOf
    <2>2. QED
        BY <1>1, <2>1, AdoptedEffect DEF Milder, OrphanOf
<1>3. QED
    BY <1>1, <1>2, AdoptedEffect, MilderGood DEF GoodState

\* killProcess preserves the invariant.
LEMMA KillGood ==
    ASSUME IInv, NEW pid \in Pid, Kill(pid)
    PROVE  IInv'
<1> DEFINE t == Removed(ParentWoken(Adopted(processes, pid), pid), pid)
<1>1. pid \notin Reserved
    BY DEF Kill, IInv, GoodState, GoodProcess
<1>2. GoodState(t, current, cpu)
    BY SMTT(40), <1>1, AdoptedGood, ParentWokenGood, RemovedGood DEF IInv
<1>3. Dec8(size) \in 0 .. 255
    BY Dec8Type DEF IInv
<1>4. CASE processes[pid].status = "RUNNING"
    <2>1. Schedule(t, Dec8(size), cpu, TRUE) /\ size' = Dec8(size)
        BY <1>4 DEF Kill, YieldWith
    <2>2. QED
        BY <1>2, <1>3, <2>1, YieldGood
<1>5. CASE processes[pid].status # "RUNNING"
    <2>1. Return(t, Dec8(size))
        BY <1>5 DEF Kill
    <2>2. QED
        BY <1>2, <1>3, <2>1, ReturnGood
<1>6. QED
    BY <1>4, <1>5

\* The caller of a system call is a process of the table, and not init.
LEMMA CallerFacts ==
    ASSUME IInv, NEW call, Calling(call)
    PROVE  /\ current \in Pid /\ processes[current] \in Process
           /\ current # INIT_PID
           /\ call \in {"sys_exit", "return"} => current \notin Reserved
           /\ Booted(processes, current, cpu) /\ cpu.at = "user"
    BY ProgramAssumption DEF Calling, Executing, IInv, GoodState, Table, Booting, Reserved

\* The tail of waitPid, with nothing to assume of the slot but its number.
LEMMA FinishWaitGood ==
    ASSUME IInv, NEW pid, pid \notin Reserved, cpu.at \notin {"boot", "start"},
           processes[current] \in Process, current \in Pid, FinishWait(pid)
    PROVE  IInv'
<1> DEFINE r == [processes[current] EXCEPT !.waiting_for_pid = NO_PID]
           t == [processes EXCEPT ![current].waiting_for_pid = NO_PID]
<1>1. r \in Process /\ t = [processes EXCEPT ![current] = r]
    BY DEF Process
<1>2. t \in Table /\ \A p \in Pid : Milder(processes[p], p, t[p])
    <2>1. Milder(processes[current], current, r)
        <3>1. /\ r.unkillable = processes[current].unkillable
              /\ r.stack_pointer = processes[current].stack_pointer
              /\ r.parent_pid = processes[current].parent_pid
              /\ r.status = processes[current].status
            BY DEF Process
        <3>2. QED
            BY <1>1, <3>1, ProcessNotNull DEF Milder
    <2> HIDE DEF r
    <2>2. QED
        BY <1>1, <2>1 DEF IInv, GoodState, Table, Milder
<1>3. At("user") \in Context /\ GoodContext(current, At("user"))
    BY DEF At, Context, Labels, GoodContext, InitLabels, ExitLabels, Taking
<1> HIDE DEF t
<1>4. GoodState(t, current, At("user"))
    BY <1>2, <1>3, MilderGood DEF IInv, At
<1>5. GoodState(Removed(t, pid), current, At("user"))
    BY SMTT(40), <1>4, RemovedGood
<1>6. size' \in 0 .. 255
    BY Dec8Type DEF FinishWait, IInv
<1>7. QED
    BY <1>5, <1>6 DEF FinishWait, IInv, t

\* A handler that leaves the table to the caller's status change: current blocks or ends.
LEMMA StatusGood ==
    ASSUME NEW t \in Table, NEW pid \in Pid, NEW st \in Statuses, NEW cur, NEW c,
           GoodState(t, cur, c), t[pid] # NULL,
           \/ pid \notin Reserved
           \/ pid # INIT_PID /\ st = "BLOCKED"
           \/ st = "READY"
    PROVE  GoodState([t EXCEPT ![pid].status = st], cur, c)
<1> DEFINE r == [t[pid] EXCEPT !.status = st]
           u == [t EXCEPT ![pid].status = st]
<1>1. t[pid] \in Process /\ r \in Process /\ u = [t EXCEPT ![pid] = r]
    BY DEF Process, Table
<1>2. Milder(t[pid], pid, r)
    <2>1. /\ r.unkillable = t[pid].unkillable /\ r.stack_pointer = t[pid].stack_pointer
          /\ r.parent_pid = t[pid].parent_pid /\ r.status = st
        BY <1>1 DEF Process
    <2>2. QED
        BY <1>1, <2>1, ProcessNotNull DEF Milder
<1> HIDE DEF r
<1>3. u \in Table /\ \A p \in Pid : Milder(t[p], p, u[p])
    BY <1>1, <1>2 DEF Table, Milder
<1> HIDE DEF u
<1>4. GoodState(u, cur, c)
    BY <1>3, MilderGood DEF GoodState
<1>5. QED
    BY <1>4 DEF u

\* initScheduler establishes the invariant.
LEMMA InitGood == Init => IInv
<1> SUFFICES ASSUME Init PROVE IInv
    OBVIOUS
<1> DEFINE r == NewProcess(NO_PID, TRUE, "start")
<1>1. r \in Process
    BY NewProcessType DEF Labels
<1>2. At("boot") \in Context
    BY DEF At, Context, Labels
<1>3. /\ processes \in Table
      /\ processes[INIT_PID] = r
      /\ \A p \in Pid : p # INIT_PID => processes[p] = NULL
    BY <1>1, PidFacts DEF Init, Table
<1>4. GoodProcess(INIT_PID, r)
    BY PidFacts DEF GoodProcess, GoodContext, NewProcess, At, Reserved, InitLabels, ExitLabels, Taking
<1>5. r.stack_pointer.at = "start" /\ cpu.at = "boot" /\ current = NO_PID
    BY DEF NewProcess, At, Init
<1> HIDE DEF r
<1>6. GoodState(processes, current, cpu)
    BY <1>1, <1>2, <1>3, <1>4, <1>5, ProcessNotNull, PidFacts
       DEF GoodState, Booting, Init
<1>7. size \in 0 .. 255
    BY DEF Init
<1>8. force_reschedule \in BOOLEAN
    <2>1. force_reschedule = FALSE
        BY DEF Init
    <2>2. QED
        BY <2>1
<1>9. QED
    BY <1>6, <1>7, <1>8 DEF IInv

\* Every system call preserves the invariant.
LEMMA SystemCallGood == IInv /\ SystemCall => IInv'
<1> SUFFICES ASSUME IInv, SystemCall PROVE IInv'
    OBVIOUS
<1>0. /\ GoodState(processes, current, cpu) /\ processes \in Table /\ cpu \in Context
      /\ size \in 0 .. 255 /\ force_reschedule \in BOOLEAN
    BY DEF IInv, GoodState
<1>1. CASE AddProcess
    <2>1. PICK p \in FirstFree(processes) :
             Return([processes EXCEPT ![p] = NewProcess(current, FALSE, "user")], size + 1)
        BY <1>1 DEF AddProcess
    <2> DEFINE r == NewProcess(current, FALSE, "user")
               t == [processes EXCEPT ![p] = r]
    <2>2. /\ current \in Pid /\ current # INIT_PID /\ cpu.at = "user"
          /\ Booted(processes, current, cpu)
        BY <1>1, CallerFacts DEF AddProcess
    <2>3. p \in Pid /\ p \notin Reserved
        BY <1>0, <2>1, <2>2 DEF FirstFree, Reserved, GoodState, Booted
    <2>4. r \in Process
        BY <2>2, NewProcessType DEF Labels
    <2>5. GoodProcess(p, r) /\ r.stack_pointer.at # "start"
        BY <2>3 DEF GoodProcess, GoodContext, NewProcess, At, InitLabels, ExitLabels, Taking, Reserved
    <2> HIDE DEF r
    <2>6. GoodState(t, current, cpu)
        BY <1>0, <2>2, <2>3, <2>4, <2>5, ProcessNotNull, PidFacts
           DEF GoodState, Booted, Table, Reserved
    <2>7. size + 1 \in 0 .. 255
        BY <1>0, <1>1, MaxProcessesAssumption DEF AddProcess
    <2>8. QED
        BY <2>1, <2>6, <2>7, ReturnGood DEF r
<1>2. CASE Yield
    <2>1. Schedule(processes, size, cpu, TRUE) /\ size' = size
        BY <1>2 DEF Yield, YieldWith
    <2>2. QED
        BY <1>0, <2>1, YieldGood
<1>3. CASE SysExit
    <2> DEFINE t == Removed(ParentWoken(processes, current), current)
    <2>1. current \in Pid /\ current \notin Reserved
        BY <1>3, CallerFacts DEF SysExit
    <2>2. GoodState(t, current, cpu)
        BY <1>0, <2>1, ParentWokenGood, RemovedGood
    <2>3. Schedule(t, Dec8(size), cpu, TRUE) /\ size' = Dec8(size)
        BY <1>3 DEF SysExit, YieldWith
    <2>4. QED
        BY <1>0, <2>2, <2>3, YieldGood, Dec8Type
<1>4. CASE ReturnFromMain
    <2> DEFINE t == [processes EXCEPT ![current].status = "TERMINATED"]
    <2>1. /\ current \in Pid /\ current \notin Reserved /\ processes[current] # NULL
          /\ cpu.at = "user"
        BY <1>4, CallerFacts DEF ReturnFromMain, Calling
    <2>2. GoodState(t, current, cpu)
        BY <1>0, <2>1, StatusGood DEF Statuses
    <2>3. At("exitWake") \in Context /\ GoodContext(current, At("exitWake"))
        BY <2>1 DEF At, Context, Labels, GoodContext, InitLabels, ExitLabels, Taking
    <2> HIDE DEF t
    <2>4. GoodState(t, current, At("exitWake"))
        BY <2>1, <2>2, <2>3, MilderGood DEF GoodState, Milder, At
    <2>5. QED
        BY <1>0, <1>4, <2>4 DEF ReturnFromMain, Goto, IInv, t
<1>5. ASSUME NEW pid \in Pid, KillProcess(pid) PROVE IInv'
    BY <1>5, KillGood DEF KillProcess
<1>6. ASSUME NEW pid \in Pid, BlockProcess(pid) PROVE IInv'
    <2> DEFINE t == [processes EXCEPT ![pid].status = "BLOCKED"]
    <2>1. GoodState(t, current, cpu)
        BY <1>0, <1>6, StatusGood DEF BlockProcess, MayBlock, Statuses
    <2>2. CASE pid = current
        <3>1. Schedule(t, size, cpu, TRUE) /\ size' = size
            BY <1>6, <2>2 DEF BlockProcess, YieldWith
        <3>2. QED
            BY <1>0, <2>1, <3>1, YieldGood
    <2>3. CASE pid # current
        <3>1. Return(t, size)
            BY <1>6, <2>3 DEF BlockProcess
        <3>2. QED
            BY <1>0, <2>1, <3>1, ReturnGood
    <2>4. QED
        BY <2>2, <2>3
<1>7. ASSUME NEW pid \in Pid, UnblockProcess(pid) PROVE IInv'
    <2>1. GoodState([processes EXCEPT ![pid].status = "READY"], current, cpu)
        BY <1>0, <1>7, StatusGood DEF UnblockProcess, HasStatus, Statuses
    <2>2. Return([processes EXCEPT ![pid].status = "READY"], size)
        BY <1>7 DEF UnblockProcess, Unblocked
    <2>3. QED
        BY <1>0, <2>1, <2>2, ReturnGood
<1>8. ASSUME NEW pid \in Pid, WaitPid(pid) PROVE IInv'
    <2>1. /\ current \in Pid /\ current # INIT_PID /\ processes[current] \in Process
          /\ cpu.at = "user"
        BY <1>8, CallerFacts DEF WaitPid
    <2>2. pid \notin Reserved
        BY <1>0, <1>8, <2>1, PidFacts DEF WaitPid, GoodState, GoodProcess, Reserved
    <2>3. CASE processes[pid].status = "TERMINATED"
        BY <1>8, <2>1, <2>2, <2>3, FinishWaitGood DEF WaitPid
    <2>4. CASE processes[pid].status # "TERMINATED"
        <3> DEFINE r == [processes[current] EXCEPT !.waiting_for_pid = pid,
                                                   !.status = "BLOCKED"]
                   t == [processes EXCEPT ![current].waiting_for_pid = pid,
                                          ![current].status = "BLOCKED"]
                   c == AtWith("waitPid", pid)
        <3>1. r \in Process /\ t = [processes EXCEPT ![current] = r]
            BY <1>0, <2>1 DEF Process, Statuses, Table
        <3>2. /\ r.unkillable = processes[current].unkillable
              /\ r.stack_pointer = processes[current].stack_pointer
              /\ r.parent_pid = processes[current].parent_pid /\ r.status = "BLOCKED"
            BY <2>1 DEF Process
        <3>3. Schedule(t, size, c, TRUE) /\ size' = size
            BY <1>8, <2>4 DEF WaitPid, YieldWith
        <3>4. c \in Context /\ GoodContext(current, c)
            BY <2>2, MaxProcessesAssumption
               DEF AtWith, Context, Labels, GoodContext, InitLabels, ExitLabels, Taking, Pid
        <3>5. c.at = "waitPid"
            BY DEF AtWith
        <3> HIDE DEF r, c
        <3>6. t \in Table /\ \A p \in Pid : Milder(processes[p], p, t[p])
            BY <1>0, <2>1, <3>1, <3>2, ProcessNotNull DEF Table, Milder
        <3> HIDE DEF t
        <3>7. GoodState(t, current, c)
            BY <1>0, <2>1, <3>4, <3>5, <3>6, MilderGood
        <3>8. QED
            BY <1>0, <3>3, <3>7, YieldGood
    <2>5. QED
        BY <2>3, <2>4
<1>9. ASSUME NEW pid \in Pid, NEW n \in Priorities, SetPriority(pid, n) PROVE IInv'
    <2> DEFINE r == [processes[pid] EXCEPT !.priority = n, !.remaining_quantum = n]
               t == [processes EXCEPT ![pid].priority = n, ![pid].remaining_quantum = n]
    <2>1. processes[pid] \in Process /\ Return(t, size)
        BY <1>0, <1>9 DEF SetPriority, Table
    <2>2. r \in Process
        <3>1. n \in 0 .. MAX_PRIORITY
            BY MaxPriorityAssumption DEF Priorities, MIN_PRIORITY
        <3>2. QED
            BY <2>1, <3>1 DEF Process
    <2>t. t = [processes EXCEPT ![pid] = r]
        BY <1>0, <2>1 DEF Process, Table
    <2>3. /\ r.unkillable = processes[pid].unkillable
          /\ r.stack_pointer = processes[pid].stack_pointer
          /\ r.parent_pid = processes[pid].parent_pid
          /\ r.status = processes[pid].status
        BY <2>1 DEF Process
    <2> HIDE DEF r
    <2>4. t \in Table /\ \A p \in Pid : Milder(processes[p], p, t[p])
        BY <1>0, <2>1, <2>2, <2>t, <2>3, ProcessNotNull DEF Table, Milder
    <2> HIDE DEF t
    <2>5. GoodState(t, current, cpu)
        BY <1>0, <2>4, MilderGood DEF GoodState
    <2>6. QED
        BY <1>0, <2>1, <2>5, ReturnGood
<1>10. QED
    BY <1>1, <1>2, <1>3, <1>4, <1>5, <1>6, <1>7, <1>8, <1>9 DEF SystemCall

\* The start of a removal with interrupts on preserves the invariant, if the process is
\* neither init nor the shell.
LEMMA RemoveBeginsGood ==
    ASSUME IInv, NEW pid \in Pid, pid \notin Reserved, NEW next \in Context,
           cpu.at \notin {"boot", "start"}, next.at \notin {"boot", "start"},
           current # SHELL_PID, current # INIT_PID => pid = current,
           GoodContext(current, next), RemoveBegins(pid, next)
    PROVE  IInv'
<1> DEFINE c == AtWith("emptySlot", pid)
<1>1. /\ GoodState(processes, current, cpu) /\ size \in 0 .. 255
      /\ force_reschedule \in BOOLEAN
    BY DEF IInv
<1>2. c \in Context /\ c.at = "emptySlot" /\ GoodContext(current, c)
    BY MaxProcessesAssumption
       DEF AtWith, Context, Labels, GoodContext, InitLabels, ExitLabels, Taking, Pid
<1>3. cpu' \in {next, c} /\ UNCHANGED <<processes, current, force_reschedule, size>>
    BY DEF RemoveBegins, Goto
<1> HIDE DEF c
<1>4. ASSUME NEW d \in {next, c} PROVE GoodState(processes, current, d)
    BY <1>1, <1>2, MilderGood DEF Milder, GoodState
<1>5. QED
    BY <1>1, <1>3, <1>4 DEF IInv

\* Every step of the kernel code that runs with interrupts on preserves the invariant.
LEMMA KernelStepGood == IInv /\ KernelStep => IInv'
<1> SUFFICES ASSUME IInv, KernelStep PROVE IInv'
    OBVIOUS
<1>0. /\ GoodState(processes, current, cpu) /\ processes \in Table /\ cpu \in Context
      /\ size \in 0 .. 255 /\ force_reschedule \in BOOLEAN
      /\ current \in Pid \cup {NO_PID}
      /\ current # NO_PID => GoodContext(current, cpu)
      /\ current = NO_PID <=> cpu.at = "boot"
    BY DEF IInv, GoodState
<1>c. ASSUME NEW d \in Context, d.at \notin {"boot", "start"}, GoodContext(current, d),
             cpu.at \notin {"boot", "start"}
      PROVE  GoodState(processes, current, d)
    BY <1>0, <1>c, MilderGood DEF Milder
<1>1. CASE InitMain
    <2> DEFINE r == NewProcess(current, TRUE, "user")
    <2>1. current = INIT_PID /\ Booting(processes, current, cpu)
        BY <1>0, <1>1 DEF InitMain, Executing, GoodState, Booting, Booted
    <2>2. PICK p \in FirstFree(processes) : processes' = [processes EXCEPT ![p] = r]
        BY <1>1 DEF InitMain
    <2>3. p = SHELL_PID
        <3>1. processes[SHELL_PID] = NULL /\ processes[INIT_PID] # NULL
            BY <1>0, <2>1, PidFacts DEF Booting, GoodState
        <3>2. p \in Pid /\ p # INIT_PID /\ ~(SHELL_PID \in 0 .. p - 1)
            BY <2>2, <3>1 DEF FirstFree
        <3>3. QED
            BY <3>2 DEF Pid, SHELL_PID, INIT_PID
    <2>5. r \in Process
        BY <1>0, NewProcessType DEF Labels
    <2>6. GoodProcess(SHELL_PID, r) /\ r.stack_pointer.at = "user"
        BY <2>1, PidFacts
           DEF GoodProcess, GoodContext, NewProcess, At, InitLabels, ExitLabels, Taking, Reserved
    <2> HIDE DEF r
    <2>7. /\ At("countLoad") \in Context /\ GoodContext(INIT_PID, At("countLoad"))
          /\ At("countLoad").at = "countLoad"
        BY PidFacts DEF At, Context, Labels, GoodContext, InitLabels, ExitLabels, Taking
    <2>8. /\ current' = current /\ cpu' = At("countLoad") /\ size' = size
          /\ force_reschedule' = force_reschedule
        BY <1>1 DEF InitMain, Goto
    <2>9. GoodState(processes', current', cpu')
        BY <1>0, <2>1, <2>2, <2>3, <2>5, <2>6, <2>7, <2>8, ProcessNotNull, PidFacts
           DEF GoodState, Booting, Booted, Table
    <2>10. QED
        BY <1>0, <2>8, <2>9 DEF IInv
<1>2. CASE WaitPidResume
    <2>1. current \in Pid /\ processes[current] \in Process /\ cpu.at = "waitPid"
        BY <1>0, <1>2 DEF WaitPidResume, Executing, Table
    <2>2. cpu.arg \notin Reserved
        BY <1>0, <2>1, PidFacts DEF GoodContext
    <2>3. QED
        BY <1>2, <2>1, <2>2, FinishWaitGood DEF WaitPidResume
<1>3. CASE ExitWakeParent
    <2> DEFINE c == At("exitRemove")
    <2>1. current \in Pid /\ current \notin Reserved
        BY <1>0, <1>3, PidFacts DEF ExitWakeParent, Executing, GoodContext, ExitLabels
    <2>2. c \in Context /\ GoodContext(current, c) /\ c.at = "exitRemove"
        BY <2>1 DEF At, Context, Labels, GoodContext, InitLabels, ExitLabels, Taking
    <2> HIDE DEF c
    <2>3. GoodState(processes, current, c)
        BY <1>3, <1>c, <2>2 DEF ExitWakeParent, Executing
    <2>4. GoodState(ParentWoken(processes, current), current, c)
        BY <2>1, <2>3, ParentWokenGood
    <2>5. QED
        BY <1>0, <1>3, <2>3, <2>4 DEF ExitWakeParent, Goto, IInv, c
<1>4. CASE ExitRemove
    <2>1. current \in Pid /\ current \notin Reserved /\ cpu.at = "exitRemove"
        BY <1>0, <1>4, PidFacts DEF ExitRemove, Executing, GoodContext, ExitLabels
    <2>2. /\ At("exitYield") \in Context /\ GoodContext(current, At("exitYield"))
          /\ At("exitYield").at = "exitYield"
        BY <2>1 DEF At, Context, Labels, GoodContext, InitLabels, ExitLabels, Taking
    <2>3. QED
        BY <1>4, <2>1, <2>2, RemoveBeginsGood DEF ExitRemove, Reserved
<1>10. CASE EmptySlot
    <2> DEFINE c == At("sizeLoad")
    <2>1. /\ cpu.at = "emptySlot" /\ cpu' = c /\ processes' = Removed(processes, cpu.arg)
          /\ UNCHANGED <<size, current, force_reschedule>>
        BY <1>10 DEF EmptySlot, Executing, Goto
    <2>2. cpu.arg \notin Reserved /\ current # SHELL_PID
        BY <1>0, <2>1 DEF GoodContext
    <2>3. c \in Context /\ GoodContext(current, c) /\ c.at = "sizeLoad"
        BY <2>2 DEF At, Context, Labels, GoodContext, InitLabels, ExitLabels
    <2> HIDE DEF c
    <2>4. GoodState(processes, current, c)
        BY <1>c, <2>1, <2>3
    <2>5. GoodState(Removed(processes, cpu.arg), current, c)
        BY <2>2, <2>4, RemovedGood
    <2>6. QED
        BY <1>0, <2>1, <2>5 DEF IInv
<1>11. CASE LoadSize
    <2> DEFINE c == AtWith("sizeStore", size)
    <2>1. /\ cpu.at = "sizeLoad" /\ cpu' = c
          /\ UNCHANGED <<processes, size, current, force_reschedule>>
        BY <1>11 DEF LoadSize, Executing, Goto
    <2>2. current # SHELL_PID
        BY <1>0, <2>1 DEF GoodContext, Taking
    <2>3. c \in Context /\ GoodContext(current, c) /\ c.at = "sizeStore"
        BY <1>0, <2>2 DEF AtWith, Context, Labels, GoodContext, InitLabels, ExitLabels
    <2> HIDE DEF c
    <2>4. QED
        BY <1>0, <1>c, <2>1, <2>3 DEF IInv
<1>5. CASE StoreSize
    <2> DEFINE c == At(IF current = INIT_PID THEN "idle" ELSE "exitYield")
    <2>1. cpu.at = "sizeStore" /\ cpu' = c /\ UNCHANGED <<processes, current, force_reschedule>>
        BY SMTT(40), <1>5 DEF StoreSize, Executing, Goto
    <2>2. size' \in 0 .. 255
        <3>1. size' = Dec8(cpu.arg) /\ cpu.arg \in 0 .. 255
            BY <1>0, <1>5 DEF StoreSize, Stored, Context
        <3>2. QED
            BY <3>1, Dec8Type
    <2>3. c \in Context /\ GoodContext(current, c) /\ c.at \notin {"boot", "start"}
        <3>1. current # SHELL_PID
            BY <1>0, <2>1, PidFacts DEF GoodContext, Taking
        <3>2. CASE current = INIT_PID
            <4>1. c = At("idle")
                BY <3>2
            <4>2. QED
                BY <3>1, <3>2, <4>1
                   DEF At, Context, Labels, GoodContext, InitLabels, ExitLabels, Taking
        <3>3. CASE current # INIT_PID
            <4>1. c = At("exitYield")
                BY <3>3
            <4>2. QED
                BY <3>1, <3>3, <4>1
                   DEF At, Context, Labels, GoodContext, InitLabels, ExitLabels, Taking,
                       Reserved
        <3>4. QED
            BY <3>2, <3>3
    <2>4. QED
        BY <1>0, <1>c, <2>1, <2>2, <2>3 DEF IInv
<1>12. CASE LoadCount
    <2> DEFINE c == AtWith("countStore", size)
    <2>1. /\ cpu.at = "countLoad" /\ cpu' = c
          /\ UNCHANGED <<processes, size, current, force_reschedule>>
        BY <1>12 DEF LoadCount, Executing, Goto
    <2>2. current = INIT_PID
        BY <1>0, <2>1 DEF GoodContext, InitLabels
    <2>3. c \in Context /\ GoodContext(current, c) /\ c.at = "countStore"
        BY <1>0, <2>2 DEF AtWith, Context, Labels, GoodContext, ExitLabels, Taking
    <2> HIDE DEF c
    <2>4. QED
        BY <1>0, <1>c, <2>1, <2>3 DEF IInv
<1>13. CASE StoreCount
    <2> DEFINE c == At("prio")
    <2>1. cpu.at = "countStore" /\ cpu' = c /\ UNCHANGED <<processes, current, force_reschedule>>
        BY SMTT(40), <1>13 DEF StoreCount, Executing, Goto
    <2>2. size' \in 0 .. 255
        <3>1. size' = Inc8(cpu.arg) /\ cpu.arg \in 0 .. 255
            BY <1>0, <1>13 DEF StoreCount, Stored, Context
        <3>2. QED
            BY <3>1, Dec8Type
    <2>3. current = INIT_PID
        BY <1>0, <2>1 DEF GoodContext, InitLabels
    <2>4. c \in Context /\ GoodContext(current, c) /\ c.at = "prio"
        BY <1>0, <2>3 DEF At, Context, Labels, GoodContext, ExitLabels, Taking
    <2> HIDE DEF c
    <2>5. QED
        BY <1>0, <1>c, <2>1, <2>2, <2>4 DEF IInv
<1>14. CASE InitSetPriority
    <2> DEFINE c == At("idle")
               r == [processes[SHELL_PID] EXCEPT !.priority = MAX_PRIORITY,
                                                 !.remaining_quantum = MAX_PRIORITY]
    <2>1. /\ cpu.at = "prio" /\ cpu' = c
          /\ UNCHANGED <<size, current, force_reschedule>>
        BY <1>14 DEF InitSetPriority, Executing, Goto
    <2>2. current = INIT_PID
        BY <1>0, <2>1 DEF GoodContext, InitLabels
    <2>3. c \in Context /\ GoodContext(current, c) /\ c.at = "idle"
        BY <1>0, <2>2 DEF At, Context, Labels, GoodContext, ExitLabels, Taking
    <2> HIDE DEF c
    <2>4. processes' \in Table /\ \A p \in Pid : Milder(processes[p], p, processes'[p])
        <3>1. CASE processes[SHELL_PID] = NULL
            BY <1>0, <1>14, <3>1 DEF InitSetPriority, Milder
        <3>2. CASE processes[SHELL_PID] # NULL
            <4>1. processes[SHELL_PID] \in Process
                BY <1>0, <3>2, PidFacts DEF Table
            <4>2. MAX_PRIORITY \in Priorities /\ MAX_PRIORITY \in 0 .. MAX_PRIORITY
                BY MaxPriorityAssumption DEF Priorities, MIN_PRIORITY
            <4>3. r \in Process /\ r.unkillable = processes[SHELL_PID].unkillable
                  /\ r.stack_pointer = processes[SHELL_PID].stack_pointer
                  /\ r.parent_pid = processes[SHELL_PID].parent_pid
                  /\ r.status = processes[SHELL_PID].status
                BY <4>1, <4>2 DEF Process
            <4>4. processes' = [processes EXCEPT ![SHELL_PID] = r]
                BY <1>0, <1>14, <3>2, <4>1, PidFacts DEF InitSetPriority, Table, Process
            <4> HIDE DEF r
            <4>5. QED
                BY <1>0, <3>2, <4>3, <4>4, ProcessNotNull DEF Table, Milder
        <3>3. QED
            BY <3>1, <3>2
    <2>5. GoodState(processes', current, c)
        BY <1>0, <2>1, <2>3, <2>4, MilderGood
    <2>6. QED
        BY <1>0, <2>1, <2>5 DEF IInv
<1>6. CASE ExitYield
    <2>1. Schedule(processes, size, cpu, TRUE) /\ size' = size
        BY <1>6 DEF ExitYield, YieldWith
    <2>2. QED
        BY <1>0, <2>1, YieldGood
<1>7. CASE ReapRemove
    <2>1. /\ cpu.arg \in Pid \ Reserved /\ current = INIT_PID /\ cpu.at = "reapRemove"
        BY <1>0, <1>7, PidFacts DEF ReapRemove, Executing, GoodContext, InitLabels
    <2>2. /\ At("idle") \in Context /\ GoodContext(current, At("idle"))
          /\ At("idle").at = "idle"
        BY <2>1 DEF At, Context, Labels, GoodContext, InitLabels, ExitLabels, Taking
    <2>3. QED
        BY <1>7, <2>1, <2>2, RemoveBeginsGood, PidFacts DEF ReapRemove
<1>8. ASSUME NEW pid \in Pid, ReapFind(pid) PROVE IInv'
    <2> DEFINE c == AtWith("reapRemove", pid)
    <2>1. current = INIT_PID /\ cpu.at = "idle"
        BY <1>0, <1>8, PidFacts DEF ReapFind, Executing, GoodContext, InitLabels
    <2>2. pid \notin Reserved
        BY <1>0, <1>8 DEF ReapFind, HasStatus, GoodState, GoodProcess, Reserved
    <2>3. c \in Context /\ GoodContext(current, c) /\ c.at = "reapRemove"
        BY <2>1, <2>2, MaxProcessesAssumption
           DEF AtWith, Context, Labels, GoodContext, InitLabels, ExitLabels, Taking, Pid
    <2> HIDE DEF c
    <2>4. GoodState(processes, current, c)
        BY <1>c, <2>1, <2>3
    <2>5. QED
        BY <1>0, <1>8, <2>4 DEF ReapFind, Goto, IInv, c
<1>9. QED
    BY <1>1, <1>2, <1>3, <1>4, <1>5, <1>6, <1>7, <1>8, <1>10, <1>11, <1>12, <1>13, <1>14
       DEF KernelStep

\* Every step preserves the invariant.
LEMMA StepGood == IInv /\ [Next]_vars => IInv'
<1> SUFFICES ASSUME IInv, [Next]_vars PROVE IInv'
    BY SMTT(40)
<1>1. CASE TimerTick
    <2>1. Schedule(processes, size, cpu, force_reschedule) /\ size' = size
        BY <1>1 DEF TimerTick
    <2>2. QED
        BY <2>1, YieldGood DEF IInv
<1>2. CASE KillForegroundProcess
    BY <1>2, KillGood DEF KillForegroundProcess
<1>3. CASE SystemCall
    BY <1>3, SystemCallGood
<1>4. CASE KernelStep
    BY <1>4, KernelStepGood
<1>5. CASE UNCHANGED vars \/ MemoryTaken
    BY <1>5 DEF MemoryTaken, vars, IInv, GoodState, Booting, Booted
<1>6. QED
    BY <1>1, <1>2, <1>3, <1>4, <1>5 DEF Next, NotFollowed

\* What no handler does to "harm": it is never undone, and nothing but a race sets it.
LEMMA HarmOnly == [Next]_vars => harm' \in {harm, "lost", "crossed"}
<1> SUFFICES ASSUME [Next]_vars PROVE harm' \in {harm, "lost", "crossed"}
    OBVIOUS
<1>1. ASSUME NEW pid, Kill(pid) \/ FinishWait(pid) PROVE harm' \in {harm, "crossed"}
    <2>1. Removes(pid)
        BY <1>1 DEF Kill, FinishWait
    <2>2. QED
        BY <2>1 DEF Removes
<1>2. CASE TimerTick \/ MemoryTaken \/ NotFollowed \/ UNCHANGED vars
    BY <1>2 DEF TimerTick, MemoryTaken, NotFollowed, vars
<1>3. CASE KillForegroundProcess
    BY <1>1, <1>3 DEF KillForegroundProcess
<1>4. CASE SystemCall
    <2>1. ASSUME NEW pid \in Pid, KillProcess(pid) PROVE harm' \in {harm, "crossed"}
        BY <1>1, <2>1 DEF KillProcess
    <2>2. ASSUME NEW pid \in Pid, WaitPid(pid) PROVE harm' \in {harm, "crossed"}
        <3>1. CASE processes[pid].status = "TERMINATED"
            BY <1>1, <2>2, <3>1 DEF WaitPid
        <3>2. CASE processes[pid].status # "TERMINATED"
            BY <2>2, <3>2 DEF WaitPid
        <3>3. QED
            BY <3>1, <3>2
    <2>3. CASE SysExit
        BY <2>3 DEF SysExit, Removes
    <2>4. CASE AddProcess \/ Yield \/ ReturnFromMain
        BY <2>4 DEF AddProcess, Yield, ReturnFromMain
    <2>5. ASSUME NEW pid \in Pid,
                 \/ BlockProcess(pid) \/ UnblockProcess(pid)
                 \/ \E n \in Priorities : SetPriority(pid, n)
          PROVE  harm' = harm
        BY <2>5 DEF BlockProcess, UnblockProcess, SetPriority
    <2>6. QED
        BY <1>4, <2>1, <2>2, <2>3, <2>4, <2>5 DEF SystemCall
<1>5. CASE KernelStep
    <2>1. CASE WaitPidResume
        BY <1>1, <2>1 DEF WaitPidResume
    <2>2. CASE ExitRemove \/ ReapRemove
        <3>1. PICK pid, next : RemoveBegins(pid, next)
            BY <2>2 DEF ExitRemove, ReapRemove
        <3>2. QED
            BY <3>1 DEF RemoveBegins, Removes
    <2>3. CASE StoreSize \/ StoreCount
        BY <2>3 DEF StoreSize, StoreCount, Stored
    <2>4. CASE InitMain \/ LoadCount \/ InitSetPriority \/ ExitWakeParent \/ ExitYield
        BY <2>4 DEF InitMain, LoadCount, InitSetPriority, ExitWakeParent, ExitYield
    <2>5. CASE EmptySlot \/ LoadSize \/ \E pid \in Pid : ReapFind(pid)
        BY <2>5 DEF EmptySlot, LoadSize, ReapFind
    <2>6. QED
        BY <1>5, <2>1, <2>2, <2>3, <2>4, <2>5 DEF KernelStep
<1>6. QED
    BY <1>2, <1>3, <1>4, <1>5 DEF Next

\* The inductive invariant holds in every state the kernel reaches: init and the shell keep
\* their slots and no removal under way names them.
THEOREM Invariance == Spec => []IInv
    BY InitGood, StepGood, PTL DEF Spec

\* The variables keep their types, and from the first tick on the CPU belongs to a slot
\* (scheduler_t, schedule()).
THEOREM TypeCorrect == Spec => []TypeOK
<1> DEFINE Typed == harm \in {"none", "lost", "crossed"}
<1>1. IInv /\ Typed => TypeOK
    BY DEF IInv, GoodState, TypeOK
<1>2. Init => Typed
    BY DEF Init
<1>3. Typed /\ [Next]_vars => Typed'
    BY HarmOnly
<1>4. QED
    BY <1>1, <1>2, <1>3, Invariance, PTL DEF Spec

----------------------------------------------------------------------------
(***************************************************************************)
(* WaitPid writes BLOCKED over the status of its caller, so TerminatedIs-  *)
(* Final needs to know that a process that makes system calls has not      *)
(* terminated.  Hence the invariant: a process of the table is TERMINATED  *)
(* exactly while it executes, or is to continue with, myExit's code before *)
(* its slot is emptied, and no process of the table is beyond that.        *)
(***************************************************************************)
Where(t, p, cur, c) == IF p = cur THEN c ELSE t[p].stack_pointer
Finishing(p, at) == at \in {"exitWake", "exitRemove"} \/ (at = "emptySlot" /\ p # INIT_PID)
Matches(p, st, at) ==
    /\ Finishing(p, at) <=> st = "TERMINATED"
    /\ at # "exitYield"
    /\ at \in Taking => p = INIT_PID
Matched(t, cur, c) ==
    \A p \in Pid : t[p] # NULL => Matches(p, t[p].status, Where(t, p, cur, c).at)

\* What every step does to one process of the table ...
Kept(r, p, q) ==
    \/ q = NULL /\ p \notin Reserved
    \/ /\ q # NULL /\ q.unkillable = r.unkillable
       /\ r.status = "TERMINATED" => q.status = "TERMINATED"
StepKeeps == \A p \in Pid : processes[p] # NULL => Kept(processes[p], p, processes'[p])

\* ... and what the helpers that neither start, finish nor schedule a process do to a slot.
Still(r, p, q) ==
    \/ q = r
    \/ q = NULL /\ p \notin Reserved
    \/ /\ r # NULL /\ q # NULL /\ q.unkillable = r.unkillable
       /\ q.stack_pointer = r.stack_pointer
       /\ q.status = "TERMINATED" <=> r.status = "TERMINATED"
StillTable(t, u) == \A p \in Pid : Still(t[p], p, u[p])

FInv == IInv /\ Matched(processes, current, cpu)

----------------------------------------------------------------------------
\* The helpers on tables

\* A pid fits the argument of a context.
LEMMA PidInContext == \A p \in Pid : p \in 0 .. 255
    BY MaxProcessesAssumption DEF Pid

\* Two changes of the table that keep a slot Still do so together.
LEMMA StillTransitive ==
    ASSUME NEW t, NEW u, NEW v, StillTable(t, u), StillTable(u, v)
    PROVE  StillTable(t, v)
    BY DEF StillTable, Still

\* No change is Still.
LEMMA StillSame == ASSUME NEW t PROVE StillTable(t, t)
    BY DEF StillTable, Still

\* adoptChildren keeps every slot Still.
LEMMA StillAdopted ==
    ASSUME NEW t \in Table, NEW w \in Pid PROVE StillTable(t, Adopted(t, w))
    BY AdoptedEffect DEF StillTable, Still, OrphanOf

\* Waking a parent keeps every slot Still.
LEMMA StillParentWoken ==
    ASSUME NEW t \in Table, NEW w \in Pid PROVE StillTable(t, ParentWoken(t, w))
    BY ParentWokenEffect DEF StillTable, Still, Woken

\* Removing a process that is not init or the shell keeps every slot Still.
LEMMA StillRemoved ==
    ASSUME NEW t \in Table, NEW w, w \notin Reserved PROVE StillTable(t, Removed(t, w))
    BY RemovedEffect DEF StillTable, Still

\* A handler that writes fields of one process which no property of this module reads.
LEMMA StillUpdated ==
    ASSUME NEW t \in Table, NEW pid \in Pid, NEW r \in Process, t[pid] # NULL,
           r.unkillable = t[pid].unkillable, r.stack_pointer = t[pid].stack_pointer,
           r.status = "TERMINATED" <=> t[pid].status = "TERMINATED"
    PROVE  StillTable(t, [t EXCEPT ![pid] = r])
    BY ProcessNotNull DEF StillTable, Still, Table

\* A table whose slots are Still matches the same contexts.
LEMMA StillMatched ==
    ASSUME NEW t, NEW u, NEW cur, NEW c, StillTable(t, u), Matched(t, cur, c)
    PROVE  Matched(u, cur, c)
<1> SUFFICES ASSUME NEW p \in Pid, u[p] # NULL
             PROVE  Matches(p, u[p].status, Where(u, p, cur, c).at)
    BY DEF Matched
<1>1. Still(t[p], p, u[p]) /\ t[p] # NULL
    BY DEF StillTable, Still
<1>2. Matches(p, t[p].status, Where(t, p, cur, c).at)
    BY <1>1 DEF Matched
<1>3. Where(u, p, cur, c) = Where(t, p, cur, c)
    BY <1>1 DEF Still, Where
<1>4. QED
    BY <1>1, <1>2, <1>3 DEF Still, Matches

\* The current process goes on at a place that is not in myExit.
LEMMA MovedMatched ==
    ASSUME NEW t, NEW cur, NEW c, NEW d, Matched(t, cur, c),
           \/ /\ ~Finishing(cur, c.at) /\ ~Finishing(cur, d.at) /\ d.at # "exitYield"
              /\ d.at \in Taking => cur = INIT_PID
           \/ Finishing(cur, c.at) /\ Finishing(cur, d.at)
           \/ t[cur] = NULL
    PROVE  Matched(t, cur, d)
    BY DEF Matched, Matches, Finishing, Taking, Where

\* A step whose tables are Still is one the action properties allow.
LEMMA StepFromStill ==
    ASSUME StillTable(processes, processes') PROVE StepKeeps
    BY DEF StepKeeps, Kept, StillTable, Still

----------------------------------------------------------------------------
\* Handlers that return, and handlers that end in schedule()

\* A handler that returns to its caller may do what keeps the table Still.
LEMMA ReturnKeeps ==
    ASSUME NEW t, NEW n, StillTable(processes, t), Matched(processes, current, cpu),
           Return(t, n)
    PROVE  StepKeeps /\ Matched(processes', current', cpu')
    BY StillMatched, StepFromStill DEF Return

\* schedule() moves contexts between the CPU and the saved stacks and keeps them matched.
LEMMA ScheduleMatched ==
    ASSUME NEW t \in Table, NEW n, NEW saved \in Context, NEW forced \in BOOLEAN,
           current \in Pid \cup {NO_PID}, Matched(t, current, saved),
           Schedule(t, n, saved, forced)
    PROVE  Matched(processes', current', cpu')
<1>1. /\ \A p \in Pid : t[p] = NULL <=> processes'[p] = NULL
      /\ \A p \in Pid : t[p] # NULL =>
            /\ SameProcess(t[p], processes'[p])
            /\ p # current => processes'[p].stack_pointer = t[p].stack_pointer
    BY ScheduleEffect
<1>2. \/ current' = current /\ cpu' = saved
      \/ /\ current' \in Pid /\ current' # current /\ t[current'] # NULL
         /\ cpu' = t[current'].stack_pointer
         /\ current # NO_PID /\ t[current] # NULL =>
               processes'[current].stack_pointer = saved
    BY ScheduleEffect
<1> SUFFICES ASSUME NEW p \in Pid, processes'[p] # NULL
             PROVE  Matches(p, processes'[p].status, Where(processes', p, current', cpu').at)
    BY DEF Matched
<1>3. t[p] # NULL /\ SameProcess(t[p], processes'[p])
    BY <1>1
<1>4. Matches(p, t[p].status, Where(t, p, current, saved).at)
    BY <1>3 DEF Matched
<1>5. Where(processes', p, current', cpu') = Where(t, p, current, saved)
    BY <1>1, <1>2, <1>3, PidFacts DEF Where
<1>6. t[p].status = "TERMINATED" <=> processes'[p].status = "TERMINATED"
    BY <1>3 DEF SameProcess
<1>7. QED
    BY <1>4, <1>5, <1>6 DEF Matches

\* schedule() neither frees a slot nor ends or revives a process.
LEMMA ScheduleKeeps ==
    ASSUME NEW t \in Table, NEW n, NEW saved \in Context, NEW forced \in BOOLEAN,
           current \in Pid \cup {NO_PID}, StillTable(processes, t),
           Schedule(t, n, saved, forced)
    PROVE  StepKeeps
<1>1. \A p \in Pid : /\ t[p] = NULL <=> processes'[p] = NULL
                     /\ t[p] # NULL => SameProcess(t[p], processes'[p])
    BY ScheduleEffect
<1> SUFFICES ASSUME NEW p \in Pid, processes[p] # NULL
             PROVE  Kept(processes[p], p, processes'[p])
    BY DEF StepKeeps
<1>2. Still(processes[p], p, t[p])
    BY DEF StillTable
<1>3. CASE t[p] = NULL
    BY <1>1, <1>2, <1>3 DEF Still, Kept
<1>4. CASE t[p] # NULL
    <2>1. /\ t[p].unkillable = processes[p].unkillable
          /\ t[p].status = "TERMINATED" <=> processes[p].status = "TERMINATED"
        BY <1>2, <1>4 DEF Still
    <2>2. processes'[p] # NULL /\ SameProcess(t[p], processes'[p])
        BY <1>1, <1>4
    <2>3. QED
        BY <2>1, <2>2 DEF SameProcess, Kept
<1>5. QED
    BY <1>3, <1>4

----------------------------------------------------------------------------
\* The actions

\* initScheduler starts with init outside myExit.
LEMMA InitMatched == Init => Matched(processes, current, cpu)
    BY PidFacts DEF Init, Matched, Matches, Finishing, Taking, Where, NewProcess, At

\* killProcess removes only a killable process, and keeps the contexts matched.
LEMMA KillKeeps ==
    ASSUME FInv, NEW pid \in Pid, Kill(pid)
    PROVE  StepKeeps /\ Matched(processes', current', cpu')
<1> DEFINE a == Adopted(processes, pid)
           w == ParentWoken(a, pid)
           t == Removed(w, pid)
<1>1. pid \notin Reserved
    BY DEF Kill, FInv, IInv, GoodState, GoodProcess
<1>2. /\ processes \in Table /\ cpu \in Context /\ current \in Pid \cup {NO_PID}
      /\ Matched(processes, current, cpu)
    BY DEF FInv, IInv, GoodState
<1>3. a \in Table /\ StillTable(processes, a)
    BY <1>2, AdoptedEffect, StillAdopted
<1> HIDE DEF a
<1>4. w \in Table /\ StillTable(a, w)
    BY <1>3, ParentWokenEffect, StillParentWoken
<1> HIDE DEF w
<1>5. t \in Table /\ StillTable(w, t)
    BY <1>1, <1>4, RemovedEffect, StillRemoved
<1> HIDE DEF t
<1>6. StillTable(processes, t)
    BY <1>3, <1>4, <1>5, StillTransitive
<1>7. CASE processes[pid].status = "RUNNING"
    <2>1. Schedule(t, Dec8(size), cpu, TRUE)
        BY <1>7 DEF Kill, YieldWith, t, w, a
    <2>2. QED
        BY <1>2, <1>5, <1>6, <2>1, StillMatched, ScheduleMatched, ScheduleKeeps
<1>8. CASE processes[pid].status # "RUNNING"
    <2>1. Return(t, Dec8(size))
        BY <1>8 DEF Kill, t, w, a
    <2>2. QED
        BY <1>2, <1>6, <2>1, ReturnKeeps
<1>9. QED
    BY <1>7, <1>8

\* The tail of waitPid removes only a child that is not reserved, and keeps the contexts matched.
LEMMA FinishWaitKeeps ==
    ASSUME FInv, NEW pid, pid \notin Reserved, cpu.at \in {"user", "waitPid"},
           processes[current] \in Process, current \in Pid, FinishWait(pid)
    PROVE  StepKeeps /\ Matched(processes', current', cpu')
<1> DEFINE r == [processes[current] EXCEPT !.waiting_for_pid = NO_PID]
           u == [processes EXCEPT ![current].waiting_for_pid = NO_PID]
           t == Removed(u, pid)
<1>1. processes \in Table /\ Matched(processes, current, cpu) /\ processes[current] # NULL
    BY ProcessNotNull DEF FInv, IInv, GoodState
<1>2. r \in Process /\ u = [processes EXCEPT ![current] = r]
    BY DEF Process
<1>3. /\ r.unkillable = processes[current].unkillable
      /\ r.stack_pointer = processes[current].stack_pointer
      /\ r.status = processes[current].status
    BY DEF Process
<1> HIDE DEF r
<1>4. u \in Table /\ StillTable(processes, u)
    BY <1>1, <1>2, <1>3, StillUpdated DEF Table
<1> HIDE DEF u
<1>5. StillTable(u, t)
    BY <1>4, StillRemoved
<1> HIDE DEF t
<1>6. StillTable(processes, t)
    BY <1>4, <1>5, StillTransitive
<1>7. processes' = t /\ cpu' = At("user") /\ current' = current
    BY DEF FinishWait, t, u
<1>8. Matched(t, current, cpu)
    BY <1>1, <1>6, StillMatched
<1>9. Matched(t, current, At("user"))
    BY <1>8, MovedMatched DEF At, Finishing, Taking
<1>10. QED
    BY <1>6, <1>7, <1>9, StepFromStill

\* The start of a removal with interrupts on keeps the contexts matched: by init's reaper, or
\* by a process of itself.
LEMMA RemoveBeginsKeeps ==
    ASSUME FInv, NEW pid, NEW next,
           \/ current = INIT_PID /\ cpu.at = "reapRemove" /\ next.at = "idle"
           \/ /\ pid = current /\ current \in Pid /\ current # INIT_PID
              /\ cpu.at = "exitRemove",
           RemoveBegins(pid, next)
    PROVE  StepKeeps /\ Matched(processes', current', cpu')
<1>1. processes \in Table /\ Matched(processes, current, cpu)
    BY DEF FInv, IInv, GoodState
<1>2. processes' = processes /\ current' = current
    BY DEF RemoveBegins, Goto
<1>3. CASE processes[pid] = NULL
    <2>1. cpu' = next
        BY <1>3 DEF RemoveBegins, Goto
    <2>2. Matched(processes, current, next)
        BY <1>1, <1>3, MovedMatched DEF Finishing, Taking
    <2>3. QED
        BY <1>2, <2>1, <2>2, StillSame, StepFromStill
<1>4. CASE processes[pid] # NULL
    <2>1. cpu'.at = "emptySlot"
        BY <1>4 DEF RemoveBegins, Goto, AtWith
    <2>2. Matched(processes, current, cpu')
        BY <1>1, <2>1, MovedMatched DEF Finishing, Taking
    <2>3. QED
        BY <1>2, <2>2, StillSame, StepFromStill
<1>5. QED
    BY <1>3, <1>4

\* Every system call does what the action properties allow.
LEMMA SystemCallKeeps ==
    FInv /\ SystemCall => StepKeeps /\ Matched(processes', current', cpu')
<1> SUFFICES ASSUME FInv, SystemCall
             PROVE  StepKeeps /\ Matched(processes', current', cpu')
    OBVIOUS
<1>0. /\ IInv /\ processes \in Table /\ cpu \in Context
      /\ Matched(processes, current, cpu)
    BY DEF FInv, IInv, GoodState
<1>u. ASSUME NEW call, Calling(call)
      PROVE  /\ current \in Pid /\ processes[current] \in Process /\ cpu.at = "user"
             /\ processes[current] # NULL /\ processes[current].status # "TERMINATED"
    <2>1. current \in Pid /\ processes[current] \in Process /\ cpu.at = "user"
        BY <1>0, <1>u, CallerFacts
    <2>2. processes[current] # NULL
        BY <1>u DEF Calling
    <2>3. QED
        BY <1>0, <2>1, <2>2 DEF Matched, Matches, Finishing, Where
<1>1. CASE AddProcess
    <2>1. PICK p \in FirstFree(processes) :
             Return([processes EXCEPT ![p] = NewProcess(current, FALSE, "user")], size + 1)
        BY <1>1 DEF AddProcess
    <2> DEFINE r == NewProcess(current, FALSE, "user")
    <2>2. p \in Pid /\ processes[p] = NULL /\ p # current
        BY <1>1, <1>u, <2>1 DEF FirstFree, AddProcess
    <2>3. /\ processes' = [processes EXCEPT ![p] = r]
          /\ current' = current /\ cpu' = cpu
        BY <2>1 DEF Return
    <2>4. Matches(p, r.status, r.stack_pointer.at)
        BY DEF Matches, Finishing, Taking, NewProcess, At
    <2> HIDE DEF r
    <2>5. processes'[p] = r /\ \A q \in Pid : q # p => processes'[q] = processes[q]
        BY <1>0, <2>2, <2>3 DEF Table
    <2>6. StepKeeps
        BY <2>2, <2>5 DEF StepKeeps, Kept
    <2>7. Matched(processes', current', cpu')
        BY <1>0, <2>2, <2>3, <2>4, <2>5 DEF Matched, Where
    <2>8. QED
        BY <2>6, <2>7
<1>2. CASE Yield
    <2>1. Schedule(processes, size, cpu, TRUE)
        BY <1>2 DEF Yield, YieldWith
    <2>2. current \in Pid
        BY <1>2, <1>u DEF Yield
    <2>3. QED
        BY <1>0, <2>1, <2>2, StillSame, ScheduleMatched, ScheduleKeeps
<1>3. CASE SysExit
    <2> DEFINE w == ParentWoken(processes, current)
               t == Removed(w, current)
    <2>1. current \in Pid /\ current \notin Reserved
        BY <1>0, <1>3, CallerFacts DEF SysExit
    <2>2. w \in Table /\ StillTable(processes, w)
        BY <1>0, <2>1, ParentWokenEffect, StillParentWoken
    <2> HIDE DEF w
    <2>3. t \in Table /\ StillTable(w, t)
        BY <2>1, <2>2, RemovedEffect, StillRemoved
    <2> HIDE DEF t
    <2>4. Schedule(t, Dec8(size), cpu, TRUE)
        BY <1>3 DEF SysExit, YieldWith, t, w
    <2>5. StillTable(processes, t)
        BY <2>2, <2>3, StillTransitive
    <2>6. QED
        BY <1>0, <2>1, <2>3, <2>4, <2>5, StillMatched, ScheduleMatched, ScheduleKeeps
<1>4. CASE ReturnFromMain
    <2> DEFINE r == [processes[current] EXCEPT !.status = "TERMINATED"]
    <2>1. /\ current \in Pid /\ processes[current] \in Process
          /\ processes[current] # NULL
        BY <1>4, <1>u DEF ReturnFromMain
    <2>2. /\ processes' = [processes EXCEPT ![current] = r]
          /\ current' = current /\ cpu'.at = "exitWake"
        BY <1>4 DEF ReturnFromMain, Goto, At
    <2>3. r \in Process /\ r.status = "TERMINATED" /\ r.unkillable = processes[current].unkillable
        BY <2>1 DEF Process, Statuses
    <2> HIDE DEF r
    <2>4. /\ processes'[current] = r
          /\ \A q \in Pid : q # current => processes'[q] = processes[q]
        BY <1>0, <2>1, <2>2 DEF Table
    <2>5. StepKeeps
        BY <2>3, <2>4, ProcessNotNull DEF StepKeeps, Kept
    <2>6. Matched(processes', current', cpu')
        BY <1>0, <2>2, <2>3, <2>4 DEF Matched, Matches, Finishing, Taking, Where
    <2>7. QED
        BY <2>5, <2>6
<1>5. ASSUME NEW pid \in Pid, KillProcess(pid)
      PROVE  StepKeeps /\ Matched(processes', current', cpu')
    BY <1>5, KillKeeps DEF KillProcess
<1>6. ASSUME NEW pid \in Pid, BlockProcess(pid)
      PROVE  StepKeeps /\ Matched(processes', current', cpu')
    <2> DEFINE r == [processes[pid] EXCEPT !.status = "BLOCKED"]
               t == [processes EXCEPT ![pid].status = "BLOCKED"]
    <2>1. /\ processes[pid] \in Process /\ processes[pid] # NULL
          /\ processes[pid].status # "TERMINATED" /\ current \in Pid
        BY <1>0, <1>6, <1>u DEF BlockProcess, MayBlock, Table
    <2>2. r \in Process /\ t = [processes EXCEPT ![pid] = r]
        BY <2>1 DEF Process, Statuses
    <2>3. /\ r.unkillable = processes[pid].unkillable
          /\ r.stack_pointer = processes[pid].stack_pointer
          /\ r.status # "TERMINATED"
        BY <2>1 DEF Process
    <2> HIDE DEF r
    <2>4. t \in Table /\ StillTable(processes, t)
        BY <1>0, <2>1, <2>2, <2>3, StillUpdated DEF Table
    <2>5. CASE pid = current
        <3>1. Schedule(t, size, cpu, TRUE)
            BY <1>6, <2>5 DEF BlockProcess, YieldWith
        <3> HIDE DEF t
        <3>2. QED
            BY <1>0, <2>1, <2>4, <3>1, StillMatched, ScheduleMatched, ScheduleKeeps
    <2>6. CASE pid # current
        <3>1. Return(t, size)
            BY <1>6, <2>6 DEF BlockProcess
        <3>2. QED
            BY <1>0, <2>4, <3>1, ReturnKeeps
    <2>7. QED
        BY <2>5, <2>6
<1>7. ASSUME NEW pid \in Pid, UnblockProcess(pid)
      PROVE  StepKeeps /\ Matched(processes', current', cpu')
    <2> DEFINE t == Unblocked(processes, pid)
    <2>1. StillTable(processes, t)
        BY <1>0, UnblockedEffect DEF StillTable, Still, Woken
    <2>2. Return(t, size)
        BY <1>7 DEF UnblockProcess
    <2>3. QED
        BY <1>0, <2>1, <2>2, ReturnKeeps
<1>8. ASSUME NEW pid \in Pid, WaitPid(pid)
      PROVE  StepKeeps /\ Matched(processes', current', cpu')
    <2>1. /\ current \in Pid /\ processes[current] \in Process /\ cpu.at = "user"
          /\ processes[current] # NULL /\ processes[current].status # "TERMINATED"
        BY <1>8, <1>u DEF WaitPid
    <2>2. current # INIT_PID
        BY <1>0, <1>8, CallerFacts DEF WaitPid
    <2>3. pid \notin Reserved
        BY <1>0, <1>8, <2>1, <2>2, PidFacts
           DEF WaitPid, IInv, GoodState, GoodProcess, Reserved
    <2>4. CASE processes[pid].status = "TERMINATED"
        BY <1>8, <2>1, <2>3, <2>4, FinishWaitKeeps DEF WaitPid
    <2>5. CASE processes[pid].status # "TERMINATED"
        <3> DEFINE r == [processes[current] EXCEPT !.waiting_for_pid = pid,
                                                   !.status = "BLOCKED"]
                   t == [processes EXCEPT ![current].waiting_for_pid = pid,
                                          ![current].status = "BLOCKED"]
                   c == AtWith("waitPid", pid)
        <3>1. r \in Process /\ t = [processes EXCEPT ![current] = r]
            BY <1>0, <2>1 DEF Process, Statuses, Table
        <3>2. /\ r.unkillable = processes[current].unkillable
              /\ r.stack_pointer = processes[current].stack_pointer
              /\ r.status # "TERMINATED"
            BY <2>1 DEF Process
        <3>3. Schedule(t, size, c, TRUE)
            BY <1>8, <2>5 DEF WaitPid, YieldWith
        <3>4. c \in Context /\ c.at = "waitPid"
            BY PidInContext DEF AtWith, Context, Labels
        <3> HIDE DEF r, c, t
        <3>5. t \in Table /\ StillTable(processes, t)
            <4>1. StillTable(processes, t)
                BY <1>0, <2>1, <3>1, <3>2, StillUpdated
            <4>2. t \in Table
                BY <1>0, <2>1, <3>1 DEF Table
            <4>3. QED
                BY <4>1, <4>2
        <3>6. Matched(t, current, cpu)
            BY <1>0, <3>5, StillMatched
        <3>7. Matched(t, current, c)
            BY <2>1, <3>4, <3>6, MovedMatched DEF Finishing, Taking
        <3>8. QED
            BY <2>1, <3>3, <3>4, <3>5, <3>7, ScheduleMatched, ScheduleKeeps
    <2>6. QED
        BY <2>4, <2>5
<1>9. ASSUME NEW pid \in Pid, NEW n \in Priorities, SetPriority(pid, n)
      PROVE  StepKeeps /\ Matched(processes', current', cpu')
    <2> DEFINE r == [processes[pid] EXCEPT !.priority = n, !.remaining_quantum = n]
               t == [processes EXCEPT ![pid].priority = n, ![pid].remaining_quantum = n]
    <2>1. processes[pid] \in Process /\ processes[pid] # NULL /\ Return(t, size)
        BY <1>0, <1>9 DEF SetPriority, Table
    <2>2. r \in Process
        <3>1. n \in 0 .. MAX_PRIORITY
            BY MaxPriorityAssumption DEF Priorities, MIN_PRIORITY
        <3>2. QED
            BY <2>1, <3>1 DEF Process
    <2>3. t = [processes EXCEPT ![pid] = r]
        BY <1>0, <2>1 DEF Process, Table
    <2>4. /\ r.unkillable = processes[pid].unkillable
          /\ r.stack_pointer = processes[pid].stack_pointer
          /\ r.status = processes[pid].status
        BY <2>1 DEF Process
    <2> HIDE DEF r
    <2>5. StillTable(processes, t)
        BY <1>0, <2>1, <2>2, <2>3, <2>4, StillUpdated
    <2> HIDE DEF t
    <2>6. QED
        BY <1>0, <2>1, <2>5, ReturnKeeps
<1>10. QED
    BY <1>1, <1>2, <1>3, <1>4, <1>5, <1>6, <1>7, <1>8, <1>9 DEF SystemCall

\* Every step of the kernel code that runs with interrupts on does what they allow.
LEMMA KernelStepKeeps ==
    FInv /\ KernelStep => StepKeeps /\ Matched(processes', current', cpu')
<1> SUFFICES ASSUME FInv, KernelStep
             PROVE  StepKeeps /\ Matched(processes', current', cpu')
    OBVIOUS
<1>0. /\ IInv /\ processes \in Table /\ cpu \in Context
      /\ Matched(processes, current, cpu) /\ GoodState(processes, current, cpu)
      /\ current \in Pid \cup {NO_PID}
      /\ current # NO_PID => GoodContext(current, cpu)
      /\ current = NO_PID <=> cpu.at = "boot"
    BY DEF FInv, IInv, GoodState
<1>1. CASE InitMain
    <2> DEFINE r == NewProcess(current, TRUE, "user")
    <2>1. PICK p \in FirstFree(processes) : processes' = [processes EXCEPT ![p] = r]
        BY <1>1 DEF InitMain
    <2>2. current = INIT_PID /\ processes[INIT_PID] # NULL
        BY <1>0, <1>1, PidFacts DEF InitMain, Executing, GoodContext, InitLabels, GoodState
    <2>3. p \in Pid /\ processes[p] = NULL /\ p # current
        BY <2>1, <2>2 DEF FirstFree
    <2>4. current' = current /\ cpu' = At("countLoad")
        BY <1>1 DEF InitMain, Goto
    <2>5. Matches(p, r.status, r.stack_pointer.at)
        BY DEF Matches, Finishing, Taking, NewProcess, At
    <2> HIDE DEF r
    <2>6. processes'[p] = r /\ \A q \in Pid : q # p => processes'[q] = processes[q]
        BY <1>0, <2>1, <2>3 DEF Table
    <2>7. StepKeeps
        BY <2>3, <2>6 DEF StepKeeps, Kept
    <2>8. Matched(processes, current, At("countLoad"))
        BY <1>0, <1>1, MovedMatched DEF InitMain, Executing, At, Finishing, Taking
    <2>9. Matched(processes', current', cpu')
        BY <2>3, <2>4, <2>5, <2>6, <2>8 DEF Matched, Where
    <2>10. QED
        BY <2>7, <2>9
<1>2. CASE WaitPidResume
    <2>1. current \in Pid /\ processes[current] \in Process /\ cpu.at = "waitPid"
        BY <1>0, <1>2 DEF WaitPidResume, Executing, Table
    <2>2. cpu.arg \notin Reserved
        BY <1>0, <2>1, PidFacts DEF GoodContext
    <2>3. QED
        BY <1>2, <2>1, <2>2, FinishWaitKeeps DEF WaitPidResume
<1>3. CASE ExitWakeParent
    <2>1. current \in Pid /\ cpu.at = "exitWake" /\ current' = current /\ cpu' = At("exitRemove")
        BY <1>3 DEF ExitWakeParent, Executing, Goto
    <2>2. StillTable(processes, processes')
        BY <1>0, <1>3, <2>1, StillSame, StillParentWoken DEF ExitWakeParent
    <2>3. Matched(processes', current, cpu)
        BY <1>0, <2>2, StillMatched
    <2>4. Matched(processes', current, At("exitRemove"))
        BY <2>1, <2>3, MovedMatched DEF At, Finishing
    <2>5. QED
        BY <2>1, <2>2, <2>4, StepFromStill
<1>4. CASE ExitRemove
    <2>1. current \in Pid /\ current \notin Reserved /\ cpu.at = "exitRemove"
        BY <1>0, <1>4, PidFacts DEF ExitRemove, Executing, GoodContext, ExitLabels
    <2>2. QED
        BY <1>4, <2>1, RemoveBeginsKeeps DEF ExitRemove, Reserved
<1>10. CASE EmptySlot
    <2> DEFINE t == Removed(processes, cpu.arg)
    <2>1. /\ cpu.at = "emptySlot" /\ processes' = t /\ current' = current
          /\ cpu' = At("sizeLoad")
        BY <1>10 DEF EmptySlot, Executing, Goto
    <2>2. /\ cpu.arg \in Pid \ Reserved /\ current \in Pid
          /\ current # INIT_PID => cpu.arg = current
        BY <1>0, <2>1, PidFacts DEF GoodContext
    <2>3. StillTable(processes, t) /\ t[cpu.arg] = NULL
        BY <1>0, <2>2, StillRemoved, RemovedEffect
    <2> HIDE DEF t
    <2>4. Matched(t, current, cpu)
        BY <1>0, <2>3, StillMatched
    <2>5. Matched(t, current, cpu')
        BY <2>1, <2>2, <2>3, <2>4, MovedMatched DEF At, Finishing, Taking
    <2>6. QED
        BY <2>1, <2>3, <2>5, StepFromStill
<1>11. CASE LoadSize
    <2>1. /\ cpu.at = "sizeLoad" /\ processes' = processes /\ current' = current
          /\ cpu'.at = "sizeStore"
        BY <1>11 DEF LoadSize, Executing, Goto, AtWith
    <2>2. current # INIT_PID => processes[current] = NULL
        BY <1>0, <2>1 DEF Matched, Matches, Where, Taking
    <2>3. QED
        BY <1>0, <2>1, <2>2, MovedMatched, StillSame, StepFromStill DEF Finishing, Taking
<1>5. CASE StoreSize
    <2>1. /\ cpu.at = "sizeStore" /\ processes' = processes /\ current' = current
          /\ cpu' = At(IF current = INIT_PID THEN "idle" ELSE "exitYield")
        BY <1>5 DEF StoreSize, Executing, Goto
    <2>2. CASE current = INIT_PID
        <3>1. cpu'.at = "idle"
            BY <2>1, <2>2 DEF At
        <3>2. QED
            BY <1>0, <2>1, <3>1, MovedMatched, StillSame, StepFromStill DEF Finishing, Taking
    <2>3. CASE current # INIT_PID
        <3>1. current \in Pid /\ processes[current] = NULL
            BY <1>0, <2>1, <2>3 DEF Matched, Matches, Where, Taking
        <3>2. QED
            BY <1>0, <2>1, <3>1, MovedMatched, StillSame, StepFromStill
    <2>4. QED
        BY <2>2, <2>3
<1>12. CASE LoadCount \/ StoreCount
    <2>1. /\ cpu.at \in {"countLoad", "countStore"} /\ cpu'.at \in {"countStore", "prio"}
          /\ processes' = processes /\ current' = current
        BY <1>12 DEF LoadCount, StoreCount, Executing, Goto, At, AtWith
    <2>2. QED
        BY <1>0, <2>1, MovedMatched, StillSame, StepFromStill DEF Finishing, Taking
<1>13. CASE InitSetPriority
    <2> DEFINE r == [processes[SHELL_PID] EXCEPT !.priority = MAX_PRIORITY,
                                                 !.remaining_quantum = MAX_PRIORITY]
    <2>1. cpu.at = "prio" /\ cpu'.at = "idle" /\ current' = current
        BY <1>13 DEF InitSetPriority, Executing, Goto, At
    <2>2. StillTable(processes, processes')
        <3>1. CASE processes[SHELL_PID] = NULL
            BY <1>13, <3>1, StillSame DEF InitSetPriority
        <3>2. CASE processes[SHELL_PID] # NULL
            <4>1. processes[SHELL_PID] \in Process
                BY <1>0, <3>2, PidFacts DEF Table
            <4>2. MAX_PRIORITY \in Priorities /\ MAX_PRIORITY \in 0 .. MAX_PRIORITY
                BY MaxPriorityAssumption DEF Priorities, MIN_PRIORITY
            <4>3. r \in Process /\ r.unkillable = processes[SHELL_PID].unkillable
                  /\ r.stack_pointer = processes[SHELL_PID].stack_pointer
                  /\ r.status = processes[SHELL_PID].status
                BY <4>1, <4>2 DEF Process
            <4>4. processes' = [processes EXCEPT ![SHELL_PID] = r]
                BY <1>0, <1>13, <3>2, <4>1, PidFacts DEF InitSetPriority, Table, Process
            <4> HIDE DEF r
            <4>5. QED
                BY <1>0, <3>2, <4>3, <4>4, PidFacts, StillUpdated
        <3>3. QED
            BY <3>1, <3>2
    <2>3. Matched(processes', current, cpu)
        BY <1>0, <2>2, StillMatched
    <2>4. QED
        BY <2>1, <2>2, <2>3, MovedMatched, StepFromStill DEF Finishing, Taking
<1>6. CASE ExitYield
    <2>1. Schedule(processes, size, cpu, TRUE)
        BY <1>6 DEF ExitYield, YieldWith
    <2>2. QED
        BY <1>0, <2>1, StillSame, ScheduleMatched, ScheduleKeeps
<1>7. CASE ReapRemove
    <2>1. current = INIT_PID /\ cpu.at = "reapRemove"
        BY <1>0, <1>7, PidFacts DEF ReapRemove, Executing, GoodContext, InitLabels
    <2>2. At("idle").at = "idle"
        BY DEF At
    <2>3. RemoveBegins(cpu.arg, At("idle"))
        BY <1>7 DEF ReapRemove
    <2>4. QED
        BY <2>1, <2>2, <2>3, RemoveBeginsKeeps
<1>8. ASSUME NEW pid \in Pid, ReapFind(pid)
      PROVE  StepKeeps /\ Matched(processes', current', cpu')
    <2>1. /\ cpu.at = "idle" /\ processes' = processes /\ current' = current
          /\ cpu' = AtWith("reapRemove", pid)
        BY <1>8 DEF ReapFind, Executing, Goto
    <2>2. cpu'.at = "reapRemove"
        BY <2>1 DEF AtWith
    <2>3. QED
        BY <1>0, <2>1, <2>2, MovedMatched, StillSame, StepFromStill DEF Finishing, Taking
<1>9. QED
    BY <1>1, <1>2, <1>3, <1>4, <1>5, <1>6, <1>7, <1>8, <1>10, <1>11, <1>12, <1>13
       DEF KernelStep

\* Every step preserves the invariant of this module and does what the properties allow.
LEMMA NextKeeps == FInv /\ [Next]_vars => FInv' /\ StepKeeps
<1> SUFFICES ASSUME FInv, [Next]_vars PROVE FInv' /\ StepKeeps
    OBVIOUS
<1>0. /\ IInv /\ processes \in Table /\ cpu \in Context /\ current \in Pid \cup {NO_PID}
      /\ Matched(processes, current, cpu) /\ force_reschedule \in BOOLEAN
    BY DEF FInv, IInv, GoodState
<1>1. IInv'
    BY <1>0, StepGood
<1>2. CASE TimerTick
    <2>1. Schedule(processes, size, cpu, force_reschedule)
        BY <1>2 DEF TimerTick
    <2>2. QED
        BY <1>0, <1>1, <2>1, StillSame, ScheduleMatched, ScheduleKeeps DEF FInv
<1>3. CASE KillForegroundProcess
    BY <1>1, <1>3, KillKeeps DEF KillForegroundProcess, FInv
<1>4. CASE SystemCall
    BY <1>1, <1>4, SystemCallKeeps DEF FInv
<1>5. CASE KernelStep
    BY <1>1, <1>5, KernelStepKeeps DEF FInv
<1>6. CASE UNCHANGED vars \/ MemoryTaken
    <2>1. processes' = processes /\ current' = current /\ cpu' = cpu
        BY <1>6 DEF vars, MemoryTaken
    <2>2. QED
        BY <1>0, <1>1, <2>1, StillSame, StepFromStill DEF FInv
<1>7. QED
    BY <1>2, <1>3, <1>4, <1>5, <1>6 DEF Next, NotFollowed

\* A process of the table is TERMINATED exactly while it is inside myExit.
THEOREM FinishInvariance == Spec => []FInv
<1>1. Init => FInv
    BY InitGood, InitMatched DEF FInv
<1>2. QED
    BY <1>1, NextKeeps, PTL DEF Spec

\* init and the shell keep their slots, whoever removes processes and in whatever order.
THEOREM UnkillableKeepTheirSlots == Spec => UnkillableStay
<1> DEFINE A == \A p \in Pid : processes[p] # NULL /\ processes[p].unkillable
                                 => processes'[p] # NULL /\ processes'[p].unkillable
<1>1. FInv /\ StepKeeps => A
    BY DEF FInv, IInv, GoodState, GoodProcess, StepKeeps, Kept
<1>2. FInv /\ [Next]_vars => [A]_vars
    BY <1>1, NextKeeps
<1>3. QED
    BY <1>2, FinishInvariance, PTL DEF Spec, UnkillableStay

\* No system call, tick or wake-up gives a terminated process another status.
THEOREM TerminatedStayTerminated == Spec => TerminatedIsFinal
<1> DEFINE A == \A p \in Pid : HasStatus(processes, p, "TERMINATED")
                          => processes'[p] = NULL \/ HasStatus(processes', p, "TERMINATED")
<1>1. StepKeeps => A
    BY DEF StepKeeps, Kept, HasStatus
<1>2. FInv /\ [Next]_vars => [A]_vars
    BY <1>1, NextKeeps
<1>3. QED
    BY <1>2, FinishInvariance, PTL DEF Spec, TerminatedIsFinal

----------------------------------------------------------------------------
(***************************************************************************)
(* What schedule() relies on until a race does harm, and that the kernel   *)
(* then implements ProcessLife.                                            *)
(*                                                                         *)
(* First scheduler->size against the table it counts.  size is written     *)
(* wherever a slot is filled or emptied, and schedule() and addProcess()   *)
(* believe it.  Between a store to the table and the store to size one of  *)
(* the two is ahead: initMain owes an increment, a removal a decrement.    *)
(***************************************************************************)
Adding == {"countLoad", "countStore"}
One(b) == IF b THEN 1 ELSE 0

\* Where init is, the decrements that somebody who still runs owes, and the increment.
InitPlace(t, cur, c) == Where(t, INIT_PID, cur, c)
Owes(t, cur, c) ==
    One(InitPlace(t, cur, c).at \in Taking) + One(cur # INIT_PID /\ c.at \in Taking)
Owing(t, cur, c) == One(InitPlace(t, cur, c).at \in Adding)

\* A removal under way names a slot in use; init's, one that no other removal names.
Held(t, cur, c) ==
    /\ c.at = "emptySlot" => c.arg \in Pid /\ t[c.arg] # NULL
    /\ LET i == InitPlace(t, cur, c)
       IN  i.at = "emptySlot" => /\ i.arg \in Pid \ {INIT_PID} /\ t[i.arg] # NULL
                                 /\ Where(t, i.arg, cur, c).at # "emptySlot"

Counted(t, n, cur, c) ==
    /\ t \in Table /\ t[INIT_PID] # NULL /\ n \in Nat
    /\ Cardinality(Live(t)) + Owes(t, cur, c) <= n + Owing(t, cur, c)
    /\ n + Owing(t, cur, c) <= MAX_PROCESSES + 1
    /\ InitPlace(t, cur, c).at \in Adding => t[SHELL_PID] # NULL
    /\ Held(t, cur, c)

CountedNow == Counted(processes, size, current, cpu)
CInv == FInv /\ (harm = "none" => CountedNow)

\* The same slots are in use, and their processes continue at the same places.
SameSlots(t, u) ==
    \A p \in Pid : /\ t[p] = NULL <=> u[p] = NULL
                   /\ t[p] # NULL => u[p].stack_pointer = t[p].stack_pointer

\* Every process of t is one of the table, at the place saved there.
Placed(t) ==
    \A p \in Pid : t[p] # NULL =>
        processes[p] # NULL /\ t[p].stack_pointer = processes[p].stack_pointer

\* Neither the CPU nor init is about to empty slot w.
NotHeld(t, cur, c, w) ==
    /\ ~(c.at = "emptySlot" /\ c.arg = w)
    /\ ~(InitPlace(t, cur, c).at = "emptySlot" /\ InitPlace(t, cur, c).arg = w)

----------------------------------------------------------------------------
\* The number of slots in use

\* The slots in use are finitely many.
LEMMA LiveFinite ==
    ASSUME NEW t
    PROVE  /\ IsFiniteSet(Live(t)) /\ Cardinality(Live(t)) \in Nat
           /\ Cardinality(Live(t)) <= MAX_PROCESSES
<1>1. /\ IsFiniteSet(Pid) /\ Cardinality(Pid) = MAX_PROCESSES
    <2>1. 0 \in Int /\ MAX_PROCESSES - 1 \in Int /\ ~(0 > MAX_PROCESSES - 1)
        BY MaxProcessesAssumption
    <2>2. QED
        BY <2>1, FS_Interval, MaxProcessesAssumption DEF Pid
<1>2. Live(t) \in SUBSET Pid
    BY DEF Live
<1>3. IsFiniteSet(Live(t)) /\ Cardinality(Live(t)) <= Cardinality(Pid)
    BY <1>1, <1>2, FS_Subset
<1>4. QED
    BY <1>1, <1>3, FS_CardinalityType

\* What is owed is a number: at most two decrements, at most one increment.
LEMMA OwedTypes ==
    ASSUME NEW t, NEW cur, NEW c
    PROVE  Owes(t, cur, c) \in 0 .. 2 /\ Owing(t, cur, c) \in 0 .. 1
    BY DEF Owes, Owing, One

\* init and, once it is there, the shell are counted: size is never zero.
LEMMA NeverZero ==
    ASSUME NEW t, NEW n, NEW cur, NEW c, Counted(t, n, cur, c)
    PROVE  /\ n \in 1 .. 255
           /\ \A w \in Pid \ Reserved : t[w] # NULL => n \in 2 .. 255
<1> DEFINE S == Live(t)
<1>1. /\ IsFiniteSet(S) /\ Cardinality(S) \in Nat /\ INIT_PID \in S
    BY LiveFinite, PidFacts DEF Live, Counted
<1>2. /\ n \in Nat /\ n + Owing(t, cur, c) <= MAX_PROCESSES + 1
      /\ Cardinality(S) + Owes(t, cur, c) <= n + Owing(t, cur, c)
    BY DEF Counted
<1>3. Owing(t, cur, c) = 1 => SHELL_PID \in S
    BY PidFacts DEF Counted, Owing, One, Live
<1>4. Cardinality(S) >= 1
    BY <1>1, FS_EmptySet
<1>5. ASSUME NEW w \in S, w # INIT_PID PROVE Cardinality(S) >= 2
    <2>1. /\ IsFiniteSet(S \ {INIT_PID}) /\ w \in S \ {INIT_PID}
          /\ Cardinality(S \ {INIT_PID}) = Cardinality(S) - 1
        BY <1>1, <1>5, FS_RemoveElement
    <2>2. Cardinality(S \ {INIT_PID}) # 0
        BY <2>1, FS_EmptySet
    <2>3. QED
        BY <1>1, <2>1, <2>2, FS_CardinalityType
<1>6. ASSUME NEW w \in S, w \notin Reserved, SHELL_PID \in S PROVE Cardinality(S) >= 3
    <2> DEFINE R == S \ {INIT_PID}
    <2>1. IsFiniteSet(R) /\ Cardinality(R) = Cardinality(S) - 1 /\ w \in R /\ SHELL_PID \in R
        BY <1>1, <1>6, PidFacts, FS_RemoveElement DEF Reserved
    <2> HIDE DEF R
    <2>2. /\ IsFiniteSet(R \ {SHELL_PID}) /\ w \in R \ {SHELL_PID}
          /\ Cardinality(R \ {SHELL_PID}) = Cardinality(R) - 1
        BY <1>6, <2>1, FS_RemoveElement DEF Reserved
    <2>3. Cardinality(R \ {SHELL_PID}) # 0
        BY <2>2, FS_EmptySet
    <2>4. QED
        BY <1>1, <2>1, <2>2, <2>3, FS_CardinalityType
<1> HIDE DEF S
<1>7. n \in 1 .. 255
    BY <1>1, <1>2, <1>3, <1>4, <1>5, PidFacts, OwedTypes, MaxProcessesAssumption
<1>8. ASSUME NEW w \in Pid \ Reserved, t[w] # NULL PROVE n \in 2 .. 255
    <2>1. w \in S
        BY <1>8 DEF S, Live
    <2>2. CASE Owing(t, cur, c) = 1
        <3>1. Cardinality(S) >= 3
            BY <1>3, <1>6, <1>8, <2>1, <2>2
        <3>2. QED
            BY <1>1, <1>2, <1>7, <2>2, <3>1, OwedTypes
    <2>3. CASE Owing(t, cur, c) = 0
        <3>1. Cardinality(S) >= 2
            BY <1>5, <1>8, <2>1 DEF Reserved
        <3>2. QED
            BY <1>1, <1>2, <1>7, <2>3, <3>1, OwedTypes
    <2>4. QED
        BY <2>2, <2>3, OwedTypes
<1>9. QED
    BY <1>7, <1>8

\* A change that fills and empties no slot and moves no saved context keeps the count good.
LEMMA SameSlotsCounted ==
    ASSUME NEW t, NEW u \in Table, NEW n, NEW cur, NEW c, Counted(t, n, cur, c),
           SameSlots(t, u)
    PROVE  Counted(u, n, cur, c)
<1>1. Live(u) = Live(t)
    BY DEF Live, SameSlots
<1>2. \A p \in Pid : t[p] # NULL => Where(u, p, cur, c) = Where(t, p, cur, c)
    BY DEF Where, SameSlots
<1>3. InitPlace(u, cur, c) = InitPlace(t, cur, c)
    BY <1>2, PidFacts DEF InitPlace, Counted
<1>4. Owes(u, cur, c) = Owes(t, cur, c) /\ Owing(u, cur, c) = Owing(t, cur, c)
    BY <1>3 DEF Owes, Owing
<1>5. Held(u, cur, c)
    BY <1>2, <1>3 DEF Counted, Held, SameSlots
<1>6. QED
    BY <1>1, <1>3, <1>4, <1>5, PidFacts DEF Counted, SameSlots

\* removeProcess of a process that is there and that nobody else removes empties one slot and
\* takes one from size.
LEMMA RemovedCounted ==
    ASSUME NEW t, NEW n, NEW cur, NEW c, NEW w \in Pid \ Reserved, Counted(t, n, cur, c),
           t[w] # NULL, NotHeld(t, cur, c, w)
    PROVE  Counted(Removed(t, w), Dec8(n), cur, c)
<1> DEFINE u == Removed(t, w)
<1>1. /\ t \in Table /\ u \in Table /\ w # INIT_PID /\ w # SHELL_PID
      /\ \A p \in Pid : u[p] = IF p = w THEN NULL ELSE t[p]
    BY RemovedEffect DEF Counted, Reserved
<1> HIDE DEF u
<1>2. Live(u) = Live(t) \ {w} /\ w \in Live(t)
    BY <1>1 DEF Live
<1>3. Cardinality(Live(u)) = Cardinality(Live(t)) - 1
    BY <1>2, LiveFinite, FS_RemoveElement
<1>4. Dec8(n) = n - 1 /\ n - 1 \in Nat /\ n \in Nat
    <2>1. n \in 2 .. 255
        BY NeverZero
    <2>2. QED
        BY <2>1 DEF Dec8
<1>5. InitPlace(u, cur, c) = InitPlace(t, cur, c)
    BY <1>1, PidFacts DEF InitPlace, Where
<1>6. Owes(u, cur, c) = Owes(t, cur, c) /\ Owing(u, cur, c) = Owing(t, cur, c)
    BY <1>5 DEF Owes, Owing
<1>7. Held(u, cur, c)
    BY <1>1, <1>5 DEF Counted, Held, NotHeld, Where
<1>8. /\ Cardinality(Live(u)) + Owes(u, cur, c) <= Dec8(n) + Owing(u, cur, c)
      /\ Dec8(n) + Owing(u, cur, c) <= MAX_PROCESSES + 1
    BY <1>3, <1>4, <1>6, LiveFinite, OwedTypes, MaxProcessesAssumption DEF Counted
<1>9. QED
    BY <1>1, <1>4, <1>5, <1>7, <1>8, PidFacts DEF Counted, u

\* addProcess fills one slot and adds one to size, below the capacity.
LEMMA AddedCounted ==
    ASSUME NEW t, NEW n, NEW cur \in Pid, NEW c, NEW w \in Pid, NEW r \in Process,
           Counted(t, n, cur, c), t[cur] # NULL, t[w] = NULL, n < MAX_PROCESSES,
           r.stack_pointer.at # "emptySlot"
    PROVE  Counted([t EXCEPT ![w] = r], n + 1, cur, c)
<1> DEFINE u == [t EXCEPT ![w] = r]
<1>1. /\ t \in Table /\ u \in Table /\ w # INIT_PID /\ w # cur /\ n \in Nat
      /\ \A p \in Pid : u[p] = IF p = w THEN r ELSE t[p]
    BY DEF Counted, Table
<1> HIDE DEF u
<1>2. Live(u) = Live(t) \cup {w} /\ w \notin Live(t)
    BY <1>1, ProcessNotNull DEF Live
<1>3. Cardinality(Live(u)) = Cardinality(Live(t)) + 1
    BY <1>2, LiveFinite, FS_AddElement
<1>4. InitPlace(u, cur, c) = InitPlace(t, cur, c)
    BY <1>1, PidFacts DEF InitPlace, Where
<1>5. Owes(u, cur, c) = Owes(t, cur, c) /\ Owing(u, cur, c) = Owing(t, cur, c)
    BY <1>4 DEF Owes, Owing
<1>6. Held(u, cur, c)
    BY <1>1, <1>4, ProcessNotNull DEF Counted, Held, Where
<1>7. /\ Cardinality(Live(u)) + Owes(u, cur, c) <= n + 1 + Owing(u, cur, c)
      /\ n + 1 + Owing(u, cur, c) <= MAX_PROCESSES + 1
    BY <1>1, <1>3, <1>5, LiveFinite, OwedTypes, MaxProcessesAssumption DEF Counted
<1>8. u[INIT_PID] # NULL /\ (t[SHELL_PID] # NULL => u[SHELL_PID] # NULL)
    BY <1>1, PidFacts, ProcessNotNull DEF Counted
<1>9. QED
    BY <1>1, <1>4, <1>6, <1>7, <1>8 DEF Counted, u

\* The current process goes on at a place of the same kind, or leaves what it owes.
LEMMA MovedCounted ==
    ASSUME NEW t, NEW n, NEW cur, NEW c, NEW d, Counted(t, n, cur, c),
           d.at # "emptySlot",
           d.at \in Taking => c.at \in Taking,
           d.at \in Adding <=> c.at \in Adding
    PROVE  Counted(t, n, cur, d)
<1>1. /\ Owing(t, cur, d) = Owing(t, cur, c) /\ Owes(t, cur, d) <= Owes(t, cur, c)
      /\ InitPlace(t, cur, d).at \in Adding => InitPlace(t, cur, c).at \in Adding
    BY DEF Owing, Owes, One, InitPlace, Where
<1>2. Held(t, cur, d)
    BY DEF Counted, Held, InitPlace, Where
<1>3. QED
    BY <1>1, <1>2, LiveFinite, OwedTypes DEF Counted

\* A removal begins: the slot it names is in use and nobody else is about to empty it.
LEMMA HoldCounted ==
    ASSUME NEW t, NEW n, NEW cur, NEW c, NEW w \in Pid \ {INIT_PID}, Counted(t, n, cur, c),
           c.at \notin Taking \cup Adding, t[w] # NULL, NotHeld(t, cur, c, w),
           w # cur => t[w].stack_pointer.at # "emptySlot",
           cur # INIT_PID => w = cur
    PROVE  Counted(t, n, cur, AtWith("emptySlot", w))
<1> DEFINE d == AtWith("emptySlot", w)
<1>1. d.at = "emptySlot" /\ d.arg = w
    BY DEF AtWith
<1> HIDE DEF d
<1>2. /\ Owing(t, cur, d) = Owing(t, cur, c) /\ Owes(t, cur, d) = Owes(t, cur, c)
      /\ InitPlace(t, cur, d).at \in Adding => InitPlace(t, cur, c).at \in Adding
    BY <1>1 DEF Owing, Owes, One, InitPlace, Where, Taking, Adding
<1>3. Held(t, cur, d)
    <2>1. CASE cur = INIT_PID
        BY <1>1, <2>1 DEF Held, InitPlace, Where
    <2>2. CASE cur # INIT_PID
        BY <1>1, <2>2 DEF Counted, Held, InitPlace, Where, NotHeld
    <2>3. QED
        BY <2>1, <2>2
<1>4. QED
    BY <1>2, <1>3 DEF Counted, d

\* A removal empties its slot: one process fewer, one decrement owed.
LEMMA EmptiedCounted ==
    ASSUME NEW t, NEW n, NEW cur, NEW c, Counted(t, n, cur, c), c.at = "emptySlot",
           c.arg \notin Reserved, cur # INIT_PID => c.arg = cur
    PROVE  Counted(Removed(t, c.arg), n, cur, At("sizeLoad"))
<1> DEFINE w == c.arg
           u == Removed(t, w)
           d == At("sizeLoad")
<1>1. /\ w \in Pid /\ t[w] # NULL /\ w # INIT_PID /\ w # SHELL_PID /\ n \in Nat
      /\ t \in Table /\ u \in Table
      /\ \A p \in Pid : u[p] = IF p = w THEN NULL ELSE t[p]
    BY RemovedEffect DEF Counted, Held, Reserved
<1>2. d.at = "sizeLoad"
    BY DEF At
<1> HIDE DEF u, d
<1>3. Live(u) = Live(t) \ {w} /\ w \in Live(t)
    BY <1>1 DEF Live
<1>4. Cardinality(Live(u)) = Cardinality(Live(t)) - 1
    BY <1>3, LiveFinite, FS_RemoveElement
<1>5. /\ Owing(u, cur, d) = Owing(t, cur, c) /\ Owes(u, cur, d) = Owes(t, cur, c) + 1
      /\ InitPlace(u, cur, d).at \in Adding => InitPlace(t, cur, c).at \in Adding
    <2>1. CASE cur = INIT_PID
        BY <1>2, <2>1 DEF Owing, Owes, One, InitPlace, Where, Taking, Adding
    <2>2. CASE cur # INIT_PID
        <3>1. InitPlace(u, cur, d) = InitPlace(t, cur, c)
            BY <1>1, <2>2, PidFacts DEF InitPlace, Where
        <3>2. QED
            BY <1>2, <2>2, <3>1 DEF Owing, Owes, One, Taking
    <2>3. QED
        BY <2>1, <2>2
<1>6. Held(u, cur, d)
    <2>1. CASE cur = INIT_PID
        BY <1>2, <2>1 DEF Held, InitPlace, Where
    <2>2. CASE cur # INIT_PID
        <3>1. InitPlace(u, cur, d) = InitPlace(t, cur, c)
            BY <1>1, <2>2, PidFacts DEF InitPlace, Where
        <3>2. QED
            BY <1>1, <1>2, <2>2, <3>1 DEF Counted, Held, Where
    <2>3. QED
        BY <2>1, <2>2
<1>7. /\ Cardinality(Live(u)) + Owes(u, cur, d) <= n + Owing(u, cur, d)
      /\ n + Owing(u, cur, d) <= MAX_PROCESSES + 1
    BY <1>1, <1>4, <1>5, LiveFinite, OwedTypes DEF Counted
<1>8. u[INIT_PID] # NULL /\ (t[SHELL_PID] # NULL => u[SHELL_PID] # NULL)
    BY <1>1, PidFacts DEF Counted
<1>9. QED
    BY <1>1, <1>5, <1>6, <1>7, <1>8 DEF Counted, u, d

\* schedule() moves contexts and changes no slot, whatever count it was given.
LEMMA ScheduleCounted ==
    ASSUME FInv, NEW t, NEW n, NEW m, NEW saved \in Context, NEW forced \in BOOLEAN,
           Counted(t, n, current, saved), Placed(t), Schedule(t, m, saved, forced)
    PROVE  Counted(processes', n, current', cpu')
<1>1. /\ t \in Table /\ t[INIT_PID] # NULL /\ current \in Pid \cup {NO_PID}
      /\ Matched(processes, current, cpu) /\ n \in Nat
      /\ \A p \in Pid : processes[p] # NULL => GoodProcess(p, processes[p])
    BY DEF Counted, FInv, IInv, GoodState
<1>2. /\ processes' \in Table
      /\ \A p \in Pid : t[p] = NULL <=> processes'[p] = NULL
      /\ \A p \in Pid : t[p] # NULL =>
            (p # current => processes'[p].stack_pointer = t[p].stack_pointer)
    BY <1>1, ScheduleEffect
<1>3. \/ current' = current /\ cpu' = saved
      \/ /\ current' \in Pid /\ current' # current /\ t[current'] # NULL
         /\ cpu' = t[current'].stack_pointer
         /\ current # NO_PID /\ t[current] # NULL =>
               processes'[current].stack_pointer = saved
    BY <1>1, ScheduleEffect
<1>4. Live(processes') = Live(t)
    BY <1>2 DEF Live
<1>5. \A p \in Pid : t[p] # NULL =>
          Where(processes', p, current', cpu') = Where(t, p, current, saved)
    BY <1>1, <1>2, <1>3, PidFacts DEF Where
<1>6. InitPlace(processes', current', cpu') = InitPlace(t, current, saved)
    BY <1>1, <1>5, PidFacts DEF InitPlace
<1>7. current' # current /\ current' # INIT_PID => cpu'.at \notin Taking
    <2> SUFFICES ASSUME current' # current, current' # INIT_PID PROVE cpu'.at \notin Taking
        OBVIOUS
    <2>1. /\ current' \in Pid /\ processes[current'] # NULL
          /\ cpu' = processes[current'].stack_pointer
        BY <1>3 DEF Placed
    <2>2. QED
        BY <1>1, <2>1 DEF Matched, Matches, Where
<1>8. /\ Owing(processes', current', cpu') = Owing(t, current, saved)
      /\ Owes(processes', current', cpu') <= Owes(t, current, saved)
    <2>1. Owing(processes', current', cpu') = Owing(t, current, saved)
        BY <1>6 DEF Owing
    <2> DEFINE a == One(InitPlace(t, current, saved).at \in Taking)
               b == One(current # INIT_PID /\ saved.at \in Taking)
               e == One(current' # INIT_PID /\ cpu'.at \in Taking)
    <2>2. Owes(t, current, saved) = a + b /\ Owes(processes', current', cpu') = a + e
        BY <1>6 DEF Owes
    <2>3. a \in 0 .. 1 /\ b \in 0 .. 1 /\ e \in 0 .. 1
        BY DEF One
    <2>5. e <= b
        <3>1. CASE current' = current
            BY <1>3, <2>3, <3>1
        <3>2. CASE current' # current
            <4>1. e = 0
                BY <1>7, <3>2 DEF One
            <4>2. QED
                BY <2>3, <4>1
        <3>3. QED
            BY <3>1, <3>2
    <2> HIDE DEF a, b, e
    <2>4. QED
        BY <2>1, <2>2, <2>3, <2>5
<1>9. Held(processes', current', cpu')
    <2>1. cpu'.at = "emptySlot" => cpu'.arg \in Pid /\ processes'[cpu'.arg] # NULL
        <3>1. CASE current' = current
            BY <1>2, <1>3, <3>1 DEF Counted, Held
        <3>2. CASE current' = INIT_PID
            BY <1>2, <1>6, <3>2 DEF Counted, Held, InitPlace, Where
        <3>3. CASE current' # current /\ current' # INIT_PID
            <4>1. /\ current' \in Pid /\ t[current'] # NULL /\ processes[current'] # NULL
                  /\ cpu' = processes[current'].stack_pointer
                BY <1>3, <3>3 DEF Placed
            <4>2. GoodContext(current', cpu')
                BY <1>1, <4>1 DEF GoodProcess
            <4>3. QED
                BY <1>2, <3>3, <4>1, <4>2 DEF GoodContext
        <3>4. QED
            BY <3>1, <3>2, <3>3
    <2>2. QED
        BY <1>2, <1>5, <1>6, <2>1 DEF Counted, Held
<1>10. QED
    BY <1>1, <1>2, <1>4, <1>6, <1>8, <1>9, LiveFinite, OwedTypes, PidFacts DEF Counted

\* A handler that returns to its caller with a good table and count.
LEMMA ReturnCounted ==
    ASSUME NEW t, NEW n, Counted(t, n, current, cpu), Return(t, n)
    PROVE  CountedNow'
    BY DEF Return, CountedNow

----------------------------------------------------------------------------
\* The handlers

\* The types the invariant of SchedulerProofs gives.
LEMMA StateTypes ==
    ASSUME IInv
    PROVE  /\ processes \in Table /\ cpu \in Context /\ force_reschedule \in BOOLEAN
           /\ current \in Pid \cup {NO_PID}
    BY DEF IInv, GoodState

\* A slot that no removal under way names is not held.
LEMMA NotBeingRemoved ==
    ASSUME FInv, NEW w \in Pid, ~BeingRemoved(w)
    PROVE  /\ NotHeld(processes, current, cpu, w)
           /\ processes[w] # NULL /\ w # current /\ w # INIT_PID
                => processes[w].stack_pointer.at # "emptySlot"
<1>1. /\ processes \in Table /\ cpu \in Context /\ processes[INIT_PID] # NULL
      /\ \A p \in Pid : processes[p] # NULL => GoodProcess(p, processes[p])
    BY DEF FInv, IInv, GoodState
<1>2. ASSUME NEW c \in Context, c.at = "emptySlot", c.arg = w
      PROVE  c = AtWith("emptySlot", w)
    BY <1>2 DEF Context, AtWith
<1>3. \A p \in Live(processes) : processes[p].stack_pointer \in Context
    BY <1>1 DEF Live, Table, Process
<1>4. ASSUME NEW p \in Live(processes), p # current
      PROVE  ~(/\ processes[p].stack_pointer.at = "emptySlot"
               /\ processes[p].stack_pointer.arg = w)
    BY <1>2, <1>3, <1>4 DEF BeingRemoved
<1>5. ~(cpu.at = "emptySlot" /\ cpu.arg = w)
    BY <1>1, <1>2 DEF BeingRemoved
<1>6. NotHeld(processes, current, cpu, w)
    BY <1>1, <1>4, <1>5, PidFacts DEF NotHeld, InitPlace, Where, Live
<1>7. ASSUME processes[w] # NULL, w # current, w # INIT_PID,
             processes[w].stack_pointer.at = "emptySlot"
      PROVE  FALSE
    <2>1. processes[w].stack_pointer.arg = w
        BY <1>1, <1>7 DEF GoodProcess, GoodContext
    <2>2. QED
        BY <1>4, <1>7, <2>1 DEF Live
<1>8. QED
    BY <1>6, <1>7

\* adoptChildren and the wake-up of a parent keep every slot and its context.
LEMMA HelpersSameSlots ==
    ASSUME NEW t \in Table, NEW w \in Pid
    PROVE  SameSlots(t, Adopted(t, w)) /\ SameSlots(t, ParentWoken(t, w))
    BY AdoptedEffect, ParentWokenEffect DEF SameSlots, OrphanOf, Woken

\* What the tables a handler builds keep of the places.
LEMMA KeepPlaced ==
    ASSUME NEW t \in Table, NEW u \in Table, Placed(t)
    PROVE  /\ Placed(processes)
           /\ SameSlots(t, u) => Placed(u)
           /\ \A w \in Pid : Placed(Removed(t, w))
<1>1. \A w \in Pid, p \in Pid : Removed(t, w)[p] = IF p = w THEN NULL ELSE t[p]
    BY RemovedEffect
<1>2. QED
    BY <1>1 DEF Placed, SameSlots

\* Not being held does not depend on what the same slots hold.
LEMMA KeepNotHeld ==
    ASSUME NEW t, NEW u, NEW cur, NEW c, NEW w, SameSlots(t, u), t[INIT_PID] # NULL,
           NotHeld(t, cur, c, w)
    PROVE  NotHeld(u, cur, c, w)
    BY PidFacts DEF NotHeld, InitPlace, Where, SameSlots

\* The writes of the handlers to one process of the table keep the slots.
LEMMA WritesSameSlots ==
    ASSUME processes \in Table, NEW w \in Pid, processes[w] # NULL
    PROVE  /\ \A st \in Statuses :
                 LET u == [processes EXCEPT ![w].status = st]
                 IN  u \in Table /\ SameSlots(processes, u)
           /\ \A x \in Priorities :
                 LET u == [processes EXCEPT ![w].priority = x, ![w].remaining_quantum = x]
                 IN  u \in Table /\ SameSlots(processes, u)
           /\ \A x \in Pid \cup {NO_PID} :
                 LET u == [processes EXCEPT ![w].waiting_for_pid = x]
                 IN  u \in Table /\ SameSlots(processes, u)
           /\ \A x \in Pid, st \in Statuses :
                 LET u == [processes EXCEPT ![w].waiting_for_pid = x, ![w].status = st]
                 IN  u \in Table /\ SameSlots(processes, u)
<1>1. processes[w] \in Process
    BY DEF Table
<1>u. ASSUME NEW r \in Process, r.stack_pointer = processes[w].stack_pointer
      PROVE  LET u == [processes EXCEPT ![w] = r] IN u \in Table /\ SameSlots(processes, u)
    BY <1>u, ProcessNotNull DEF Table, SameSlots
<1>2. ASSUME NEW st \in Statuses
      PROVE  LET u == [processes EXCEPT ![w].status = st]
             IN  u \in Table /\ SameSlots(processes, u)
    <2> DEFINE r == [processes[w] EXCEPT !.status = st]
    <2>1. r \in Process /\ r.stack_pointer = processes[w].stack_pointer
        BY <1>1 DEF Process
    <2>2. [processes EXCEPT ![w].status = st] = [processes EXCEPT ![w] = r]
        BY <1>1 DEF Table
    <2> HIDE DEF r
    <2>3. QED
        BY <1>u, <2>1, <2>2
<1>3. ASSUME NEW x \in Priorities
      PROVE  LET u == [processes EXCEPT ![w].priority = x, ![w].remaining_quantum = x]
             IN  u \in Table /\ SameSlots(processes, u)
    <2> DEFINE r == [processes[w] EXCEPT !.priority = x, !.remaining_quantum = x]
    <2>1. x \in 0 .. MAX_PRIORITY
        BY MaxPriorityAssumption DEF Priorities, MIN_PRIORITY
    <2>2. r \in Process /\ r.stack_pointer = processes[w].stack_pointer
        BY <1>1, <2>1 DEF Process
    <2>3. [processes EXCEPT ![w].priority = x, ![w].remaining_quantum = x]
             = [processes EXCEPT ![w] = r]
        BY <1>1 DEF Table
    <2> HIDE DEF r
    <2>4. QED
        BY <1>u, <2>2, <2>3
<1>4. ASSUME NEW x \in Pid \cup {NO_PID}
      PROVE  LET u == [processes EXCEPT ![w].waiting_for_pid = x]
             IN  u \in Table /\ SameSlots(processes, u)
    <2> DEFINE r == [processes[w] EXCEPT !.waiting_for_pid = x]
    <2>1. r \in Process /\ r.stack_pointer = processes[w].stack_pointer
        BY <1>1 DEF Process
    <2>2. [processes EXCEPT ![w].waiting_for_pid = x] = [processes EXCEPT ![w] = r]
        BY <1>1 DEF Table
    <2> HIDE DEF r
    <2>3. QED
        BY <1>u, <2>1, <2>2
<1>5. ASSUME NEW x \in Pid, NEW st \in Statuses
      PROVE  LET u == [processes EXCEPT ![w].waiting_for_pid = x, ![w].status = st]
             IN  u \in Table /\ SameSlots(processes, u)
    <2> DEFINE r == [processes[w] EXCEPT !.waiting_for_pid = x, !.status = st]
    <2>1. r \in Process /\ r.stack_pointer = processes[w].stack_pointer
        BY <1>1 DEF Process
    <2>2. [processes EXCEPT ![w].waiting_for_pid = x, ![w].status = st]
             = [processes EXCEPT ![w] = r]
        BY <1>1 DEF Table
    <2> HIDE DEF r
    <2>3. QED
        BY <1>u, <2>1, <2>2
<1>6. QED
    BY <1>2, <1>3, <1>4, <1>5

\* A table that differs in no slot in use counts and is placed like the table.
LEMMA SameCounted ==
    ASSUME NEW u \in Table, NEW c, SameSlots(processes, u),
           Counted(processes, size, current, c)
    PROVE  Counted(u, size, current, c) /\ Placed(u)
<1>1. Placed(processes)
    BY DEF Placed
<1>2. QED
    BY <1>1, SameSlotsCounted, KeepPlaced DEF Counted

\* killProcess: adoption, wake-up and one removal, then schedule() if it killed the caller.
LEMMA KillCounted ==
    ASSUME FInv, CountedNow, NEW pid \in Pid, Kill(pid), harm' = "none"
    PROVE  CountedNow'
<1> DEFINE a == Adopted(processes, pid)
           w == ParentWoken(a, pid)
           t == Removed(w, pid)
<1>0. /\ processes \in Table /\ cpu \in Context /\ current \in Pid \cup {NO_PID}
      /\ Counted(processes, size, current, cpu)
    BY StateTypes DEF FInv, CountedNow
<1>1. pid \notin Reserved /\ ~BeingRemoved(pid)
    BY DEF Kill, Removes, FInv, IInv, GoodState, GoodProcess
<1>2. a \in Table /\ w \in Table
    BY <1>0, AdoptedEffect, ParentWokenEffect
<1>3. SameSlots(processes, w)
    <2>1. SameSlots(processes, a) /\ SameSlots(a, w)
        BY <1>0, <1>2, HelpersSameSlots
    <2> HIDE DEF w, a
    <2>2. QED
        BY <2>1 DEF SameSlots
<1>6. \/ Schedule(t, Dec8(size), cpu, TRUE) /\ size' = Dec8(size)
      \/ Return(t, Dec8(size))
    BY DEF Kill, YieldWith
<1>4. w[pid] # NULL
    BY <1>3 DEF Kill, SameSlots
<1> HIDE DEF w, a
<1>5. Counted(t, Dec8(size), current, cpu) /\ Placed(t)
    <2>1. Counted(w, size, current, cpu) /\ Placed(w)
        BY <1>0, <1>2, <1>3, SameCounted
    <2>2. NotHeld(w, current, cpu, pid)
        BY <1>0, <1>1, <1>3, NotBeingRemoved, KeepNotHeld DEF Counted
    <2>3. QED
        BY <1>1, <1>2, <1>4, <2>1, <2>2, RemovedCounted, KeepPlaced
<1> HIDE DEF t
<1>7. QED
    BY <1>0, <1>5, <1>6, ScheduleCounted, ReturnCounted DEF CountedNow

\* The tail of waitPid counts a removal only if the slot was in use.
LEMMA FinishWaitCounted ==
    ASSUME FInv, CountedNow, cpu.at \in {"user", "waitPid"}, current \in Pid,
           processes[current] # NULL, NEW pid \in Pid \ Reserved, FinishWait(pid),
           harm' = "none"
    PROVE  CountedNow'
<1> DEFINE t == [processes EXCEPT ![current].waiting_for_pid = NO_PID]
           u == Removed(t, pid)
           d == At("user")
<1>0. processes \in Table /\ Counted(processes, size, current, cpu) /\ ~BeingRemoved(pid)
    BY DEF FInv, IInv, GoodState, CountedNow, FinishWait, Removes
<1>1. t \in Table /\ SameSlots(processes, t)
    BY <1>0, WritesSameSlots
<1>2. /\ processes' = u /\ cpu' = d /\ current' = current
      /\ size' = IF processes[pid] = NULL THEN size ELSE Dec8(size)
    BY DEF FinishWait
<1>3. d.at = "user"
    BY DEF At
<1> HIDE DEF t, d
<1>4. Counted(processes, size, current, d)
    BY <1>0, <1>3, MovedCounted DEF Taking, Adding
<1>5. Counted(t, size, current, d)
    BY <1>1, <1>4, SameSlotsCounted
<1>6. t[pid] = NULL <=> processes[pid] = NULL
    BY <1>1 DEF SameSlots
<1>7. CASE t[pid] = NULL
    <2>1. u \in Table /\ \A p \in Pid : u[p] = IF p = pid THEN NULL ELSE t[p]
        BY <1>1, RemovedEffect
    <2>2. SameSlots(t, u)
        BY <1>7, <2>1 DEF SameSlots
    <2>3. Counted(u, size, current, d)
        BY <1>5, <2>1, <2>2, SameSlotsCounted
    <2>4. QED
        BY <1>2, <1>6, <1>7, <2>3 DEF CountedNow
<1>8. CASE t[pid] # NULL
    <2>1. NotHeld(processes, current, cpu, pid)
        BY <1>0, NotBeingRemoved
    <2>2. NotHeld(processes, current, d, pid)
        BY <1>3, <2>1 DEF NotHeld, InitPlace, Where
    <2>3. NotHeld(t, current, d, pid)
        BY <1>0, <1>1, <2>2, KeepNotHeld DEF Counted
    <2>4. Counted(u, Dec8(size), current, d)
        BY <1>5, <1>8, <2>3, RemovedCounted
    <2>5. QED
        BY <1>2, <1>6, <1>8, <2>4 DEF CountedNow
<1>9. QED
    BY <1>7, <1>8

\* A removal with interrupts on begins.
LEMMA RemoveBeginsCounted ==
    ASSUME FInv, CountedNow, NEW pid \in Pid \ Reserved, NEW next,
           cpu.at \in {"exitRemove", "reapRemove"},
           next.at \in {"exitYield", "idle"}, current # INIT_PID => pid = current,
           RemoveBegins(pid, next), harm' = "none"
    PROVE  CountedNow'
<1>0. Counted(processes, size, current, cpu)
    BY DEF CountedNow
<1>1. CASE processes[pid] = NULL
    <2>1. Counted(processes, size, current, next)
        BY <1>0, MovedCounted DEF Taking, Adding
    <2>2. QED
        BY <1>1, <2>1 DEF RemoveBegins, Goto, CountedNow
<1>2. CASE processes[pid] # NULL
    <2>1. ~BeingRemoved(pid) /\ pid # INIT_PID
        BY <1>2 DEF RemoveBegins, Removes, Reserved
    <2>2. /\ NotHeld(processes, current, cpu, pid)
          /\ pid # current => processes[pid].stack_pointer.at # "emptySlot"
        BY <1>2, <2>1, NotBeingRemoved
    <2>3. Counted(processes, size, current, AtWith("emptySlot", pid))
        BY <1>0, <1>2, <2>1, <2>2, HoldCounted DEF Taking, Adding
    <2>4. QED
        BY <1>2, <2>3 DEF RemoveBegins, Goto, CountedNow
<1>3. QED
    BY <1>1, <1>2

----------------------------------------------------------------------------
\* The steps

\* The system calls: each hands schedule(), or leaves, a table that size covers.
LEMMA SystemCallCounted ==
    ASSUME FInv, CountedNow, SystemCall, harm' = "none" PROVE CountedNow'
<1>0. /\ processes \in Table /\ cpu \in Context /\ force_reschedule \in BOOLEAN /\ IInv
      /\ current \in Pid \cup {NO_PID} /\ Counted(processes, size, current, cpu)
    BY StateTypes DEF CountedNow, FInv
<1>c. ASSUME NEW call, Calling(call)
      PROVE  current \in Pid /\ processes[current] # NULL /\ cpu.at = "user"
    BY <1>c DEF Calling, Executing
<1>s. SameSlots(processes, processes)
    BY DEF SameSlots
<1>1. CASE AddProcess
    <2>1. PICK p \in FirstFree(processes) :
             Return([processes EXCEPT ![p] = NewProcess(current, FALSE, "user")], size + 1)
        BY <1>1 DEF AddProcess
    <2> DEFINE r == NewProcess(current, FALSE, "user")
    <2>2. /\ p \in Pid /\ processes[p] = NULL /\ size < MAX_PROCESSES
          /\ current \in Pid /\ processes[current] # NULL
        BY <1>1, <1>c, <2>1 DEF AddProcess, FirstFree
    <2>3. r \in Process
        BY <1>0, NewProcessType DEF Labels
    <2>4. r.stack_pointer.at # "emptySlot"
        BY DEF NewProcess, At
    <2> HIDE DEF r
    <2>5. Counted([processes EXCEPT ![p] = r], size + 1, current, cpu)
        BY <1>0, <2>2, <2>3, <2>4, AddedCounted
    <2>6. QED
        BY <2>1, <2>5, ReturnCounted DEF r
<1>2. CASE Yield
    <2>1. Schedule(processes, size, cpu, TRUE) /\ size' = size
        BY <1>2 DEF Yield, YieldWith
    <2>2. QED
        BY <1>0, <1>s, <2>1, ScheduleCounted, SameCounted DEF CountedNow
<1>3. CASE SysExit
    <2> DEFINE w == ParentWoken(processes, current)
               t == Removed(w, current)
    <2>1. current \in Pid /\ processes[current] # NULL /\ ~BeingRemoved(current)
        BY <1>3, <1>c DEF SysExit, Removes
    <2>r. current \notin Reserved
        BY <1>0, <1>3, CallerFacts DEF SysExit
    <2>2. w \in Table /\ SameSlots(processes, w)
        BY <1>0, <2>1, ParentWokenEffect, HelpersSameSlots
    <2>5. Schedule(t, Dec8(size), cpu, TRUE) /\ size' = Dec8(size)
        BY <1>3 DEF SysExit, YieldWith
    <2> HIDE DEF w
    <2>3. /\ Counted(w, size, current, cpu) /\ Placed(w) /\ w[current] # NULL
          /\ NotHeld(w, current, cpu, current)
        <3>1. NotHeld(processes, current, cpu, current)
            BY <2>1, NotBeingRemoved
        <3>2. QED
            BY <1>0, <2>1, <2>2, <3>1, SameCounted, KeepNotHeld DEF SameSlots, Counted
    <2>4. Counted(t, Dec8(size), current, cpu) /\ Placed(t)
        BY <2>1, <2>r, <2>2, <2>3, RemovedCounted, KeepPlaced
    <2> HIDE DEF t
    <2>6. QED
        BY <1>0, <2>4, <2>5, ScheduleCounted DEF CountedNow
<1>4. CASE ReturnFromMain
    <2> DEFINE u == [processes EXCEPT ![current].status = "TERMINATED"]
               d == At("exitWake")
    <2>1. current \in Pid /\ processes[current] # NULL /\ cpu.at = "user"
        BY <1>4, <1>c DEF ReturnFromMain
    <2>2. processes' = u /\ size' = size /\ cpu' = d /\ current' = current
        BY <1>4 DEF ReturnFromMain, Goto
    <2>3. u \in Table /\ SameSlots(processes, u)
        BY <1>0, <2>1, WritesSameSlots DEF Statuses
    <2>4. d.at = "exitWake"
        BY DEF At
    <2> HIDE DEF u, d
    <2>5. Counted(processes, size, current, d)
        BY <1>0, <2>1, <2>4, MovedCounted DEF Taking, Adding
    <2>6. QED
        BY <2>2, <2>3, <2>5, SameSlotsCounted DEF CountedNow
<1>5. ASSUME NEW pid \in Pid, KillProcess(pid) PROVE CountedNow'
    BY <1>5, KillCounted DEF KillProcess
<1>6. ASSUME NEW pid \in Pid, BlockProcess(pid) PROVE CountedNow'
    <2> DEFINE t == [processes EXCEPT ![pid].status = "BLOCKED"]
    <2>1. processes[pid] # NULL
        BY <1>6 DEF BlockProcess, MayBlock
    <2>2. t \in Table /\ SameSlots(processes, t)
        BY <1>0, <2>1, WritesSameSlots DEF Statuses
    <2>3. \/ Schedule(t, size, cpu, TRUE) /\ size' = size
          \/ Return(t, size)
        BY <1>6 DEF BlockProcess, YieldWith
    <2> HIDE DEF t
    <2>4. Counted(t, size, current, cpu) /\ Placed(t)
        BY <1>0, <2>2, SameCounted
    <2>5. QED
        BY <1>0, <2>3, <2>4, ScheduleCounted, ReturnCounted DEF CountedNow
<1>7. ASSUME NEW pid \in Pid, UnblockProcess(pid) PROVE CountedNow'
    <2>1. processes[pid] # NULL /\ Return(Unblocked(processes, pid), size)
        BY <1>7 DEF UnblockProcess, HasStatus
    <2>2. Unblocked(processes, pid) \in Table /\ SameSlots(processes, Unblocked(processes, pid))
        BY <1>0, UnblockedEffect DEF SameSlots, Woken
    <2>3. QED
        BY <1>0, <2>1, <2>2, SameSlotsCounted, ReturnCounted
<1>8. ASSUME NEW pid \in Pid, WaitPid(pid) PROVE CountedNow'
    <2>1. current \in Pid /\ processes[current] # NULL /\ cpu.at = "user"
        BY <1>8, <1>c DEF WaitPid
    <2>r. pid \notin Reserved
        BY <1>0, <1>8, CallerFacts, PidFacts
           DEF WaitPid, IInv, GoodState, GoodProcess, Reserved
    <2>2. CASE processes[pid].status = "TERMINATED"
        BY <1>8, <2>1, <2>r, <2>2, FinishWaitCounted DEF WaitPid
    <2>3. CASE processes[pid].status # "TERMINATED"
        <3> DEFINE t == [processes EXCEPT ![current].waiting_for_pid = pid,
                                          ![current].status = "BLOCKED"]
                   d == AtWith("waitPid", pid)
        <3>1. d \in Context /\ d.at = "waitPid"
            BY PidInContext DEF AtWith, Context, Labels
        <3>2. Schedule(t, size, d, TRUE) /\ size' = size
            BY <1>8, <2>3 DEF WaitPid, YieldWith
        <3>3. t \in Table /\ SameSlots(processes, t)
            BY <1>0, <2>1, WritesSameSlots DEF Statuses
        <3> HIDE DEF t, d
        <3>4. Counted(processes, size, current, d)
            BY <1>0, <2>1, <3>1, MovedCounted DEF Taking, Adding
        <3>5. Counted(t, size, current, d) /\ Placed(t)
            BY <3>3, <3>4, SameCounted
        <3>6. QED
            BY <1>0, <3>1, <3>2, <3>5, ScheduleCounted DEF CountedNow
    <2>4. QED
        BY <2>2, <2>3
<1>9. ASSUME NEW pid \in Pid, NEW x \in Priorities, SetPriority(pid, x) PROVE CountedNow'
    <2> DEFINE t == [processes EXCEPT ![pid].priority = x, ![pid].remaining_quantum = x]
    <2>1. processes[pid] # NULL /\ Return(t, size)
        BY <1>9 DEF SetPriority
    <2>2. t \in Table /\ SameSlots(processes, t)
        BY <1>0, <2>1, WritesSameSlots
    <2> HIDE DEF t
    <2>3. QED
        BY <1>0, <2>1, <2>2, SameSlotsCounted, ReturnCounted
<1>10. QED
    BY <1>1, <1>2, <1>3, <1>4, <1>5, <1>6, <1>7, <1>8, <1>9 DEF SystemCall

\* The kernel code that runs with interrupts on.
LEMMA KernelStepCounted ==
    ASSUME FInv, CountedNow, KernelStep, harm' = "none" PROVE CountedNow'
<1>0. /\ processes \in Table /\ cpu \in Context /\ force_reschedule \in BOOLEAN /\ IInv
      /\ current \in Pid \cup {NO_PID} /\ Counted(processes, size, current, cpu)
      /\ current # NO_PID => GoodContext(current, cpu)
      /\ current = NO_PID <=> cpu.at = "boot"
    BY StateTypes DEF CountedNow, FInv, IInv, GoodState
<1>1. CASE InitMain
    <2> DEFINE r == NewProcess(current, TRUE, "user")
               d == At("countLoad")
               u == [processes EXCEPT ![SHELL_PID] = r]
    <2>1. current = INIT_PID /\ cpu.at = "start" /\ Booting(processes, current, cpu)
        BY <1>0, <1>1, PidFacts
           DEF InitMain, Executing, IInv, GoodState, GoodContext, InitLabels, Booting, Booted
    <2>2. PICK p \in FirstFree(processes) : processes' = [processes EXCEPT ![p] = r]
        BY <1>1 DEF InitMain
    <2>3. p = SHELL_PID /\ processes[SHELL_PID] = NULL
        <3>1. processes[SHELL_PID] = NULL /\ processes[INIT_PID] # NULL
            BY <1>0, <2>1, PidFacts DEF Booting, Counted
        <3>2. p \in Pid /\ p # INIT_PID /\ ~(SHELL_PID \in 0 .. p - 1)
            BY <2>2, <3>1 DEF FirstFree
        <3>3. QED
            BY <3>1, <3>2 DEF Pid, SHELL_PID, INIT_PID
    <2>4. /\ processes' = u /\ size' = size /\ cpu' = d /\ current' = current
          /\ size < MAX_PROCESSES
        BY <1>1, <2>2, <2>3 DEF InitMain, Goto
    <2>5. r \in Process /\ d.at = "countLoad"
        BY <1>0, NewProcessType DEF Labels, At
    <2> HIDE DEF r, d
    <2>6. /\ u \in Table
          /\ \A q \in Pid : u[q] = IF q = SHELL_PID THEN r ELSE processes[q]
        BY <1>0, <2>5, PidFacts DEF Table
    <2> HIDE DEF u
    <2>7. Live(u) = Live(processes) \cup {SHELL_PID} /\ SHELL_PID \notin Live(processes)
        BY <2>3, <2>5, <2>6, PidFacts, ProcessNotNull DEF Live
    <2>8. Cardinality(Live(u)) = Cardinality(Live(processes)) + 1
        BY <2>7, LiveFinite, FS_AddElement
    <2>9. /\ Owing(processes, current, cpu) = 0 /\ Owes(processes, current, cpu) = 0
          /\ Owing(u, current, d) = 1 /\ Owes(u, current, d) = 0
          /\ Held(u, current, d)
        BY <2>1, <2>5 DEF Owing, Owes, One, InitPlace, Where, Taking, Adding, Held
    <2>10. u[INIT_PID] # NULL /\ u[SHELL_PID] # NULL
        BY <1>0, <2>5, <2>6, PidFacts, ProcessNotNull DEF Counted
    <2>11. Counted(u, size, current, d)
        BY <1>0, <2>4, <2>6, <2>8, <2>9, <2>10, LiveFinite, MaxProcessesAssumption DEF Counted
    <2>12. QED
        BY <2>4, <2>11 DEF CountedNow
<1>2. CASE WaitPidResume
    <2>1. /\ current \in Pid /\ processes[current] # NULL /\ FinishWait(cpu.arg)
          /\ cpu.at = "waitPid"
        BY <1>2 DEF WaitPidResume, Executing
    <2>2. cpu.arg \in Pid \ Reserved
        BY <1>0, <2>1, PidFacts DEF GoodContext
    <2>3. QED
        BY <2>1, <2>2, FinishWaitCounted
<1>3. CASE ExitWakeParent
    <2>1. /\ current \in Pid /\ size' = size /\ cpu' = At("exitRemove") /\ cpu.at = "exitWake"
          /\ processes' = IF processes[current] = NULL THEN processes
                          ELSE ParentWoken(processes, current)
          /\ current' = current
        BY <1>3 DEF ExitWakeParent, Executing, Goto
    <2>2. Counted(processes, size, current, cpu')
        BY <1>0, <2>1, MovedCounted DEF At, Taking, Adding
    <2>3. /\ ParentWoken(processes, current) \in Table
          /\ SameSlots(processes, ParentWoken(processes, current))
        BY <1>0, <2>1, ParentWokenEffect, HelpersSameSlots
    <2>4. Counted(ParentWoken(processes, current), size, current, cpu')
        BY <2>2, <2>3, SameSlotsCounted
    <2>5. QED
        BY <2>1, <2>2, <2>4 DEF CountedNow
<1>4. CASE ExitRemove
    <2>1. /\ current \in Pid \ Reserved /\ cpu.at = "exitRemove"
          /\ RemoveBegins(current, At("exitYield"))
        BY <1>0, <1>4, PidFacts DEF ExitRemove, Executing, GoodContext, ExitLabels
    <2>2. At("exitYield").at = "exitYield"
        BY DEF At
    <2>3. QED
        BY <2>1, <2>2, RemoveBeginsCounted
<1>5. CASE ReapRemove
    <2>1. /\ cpu.arg \in Pid \ Reserved /\ cpu.at = "reapRemove" /\ current = INIT_PID
          /\ RemoveBegins(cpu.arg, At("idle"))
        BY <1>0, <1>5, PidFacts DEF ReapRemove, Executing, GoodContext, InitLabels
    <2>2. At("idle").at = "idle"
        BY DEF At
    <2>3. QED
        BY <2>1, <2>2, RemoveBeginsCounted
<1>6. CASE EmptySlot
    <2>1. /\ cpu.at = "emptySlot" /\ processes' = Removed(processes, cpu.arg)
          /\ cpu' = At("sizeLoad") /\ current' = current /\ size' = size
        BY <1>6 DEF EmptySlot, Executing, Goto
    <2>2. cpu.arg \notin Reserved /\ (current # INIT_PID => cpu.arg = current)
        BY <1>0, <2>1, PidFacts DEF GoodContext
    <2>3. QED
        BY <1>0, <2>1, <2>2, EmptiedCounted DEF CountedNow
<1>7. CASE LoadSize
    <2>1. /\ cpu.at = "sizeLoad" /\ cpu'.at = "sizeStore"
          /\ UNCHANGED <<processes, size, current>>
        BY <1>7 DEF LoadSize, Executing, Goto, AtWith
    <2>2. QED
        BY <1>0, <2>1, MovedCounted DEF Taking, Adding, CountedNow
<1>8. CASE LoadCount
    <2>1. /\ cpu.at = "countLoad" /\ cpu'.at = "countStore"
          /\ UNCHANGED <<processes, size, current>>
        BY <1>8 DEF LoadCount, Executing, Goto, AtWith
    <2>2. QED
        BY <1>0, <2>1, MovedCounted DEF Taking, Adding, CountedNow
<1>9. CASE StoreSize
    <2> DEFINE d == At(IF current = INIT_PID THEN "idle" ELSE "exitYield")
    <2>1. /\ cpu.at = "sizeStore" /\ cpu' = d /\ UNCHANGED <<processes, current>>
          /\ size' = Dec8(cpu.arg) /\ (size = cpu.arg \/ harm' = "lost")
        BY SMTT(40), <1>9 DEF StoreSize, Stored, Executing, Goto
    <2>2. d.at \in {"idle", "exitYield"}
        BY DEF At
    <2> HIDE DEF d
    <2>3. size' = Dec8(size) /\ Dec8(size) = size - 1 /\ size - 1 \in Nat /\ size \in Nat
        <3>1. size \in 1 .. 255
            BY <1>0, NeverZero
        <3>2. size' = Dec8(size)
            BY <2>1
        <3>3. QED
            BY <3>1, <3>2 DEF Dec8
    <2>4. /\ Owes(processes, current, d) = Owes(processes, current, cpu) - 1
          /\ Owing(processes, current, d) = Owing(processes, current, cpu)
          /\ InitPlace(processes, current, d).at \in Adding
                => InitPlace(processes, current, cpu).at \in Adding
        <3>1. CASE current = INIT_PID
            BY <2>1, <2>2, <3>1 DEF Owes, Owing, One, InitPlace, Where, Taking, Adding
        <3>2. CASE current # INIT_PID
            BY <2>1, <2>2, <3>2 DEF Owes, Owing, One, InitPlace, Where, Taking
        <3>3. QED
            BY <3>1, <3>2
    <2>5. Held(processes, current, d)
        BY <1>0, <2>2 DEF Counted, Held, InitPlace, Where
    <2>6. Counted(processes, size', current, d)
        BY <1>0, <2>3, <2>4, <2>5, LiveFinite, OwedTypes, MaxProcessesAssumption DEF Counted
    <2>7. QED
        BY <2>1, <2>6 DEF CountedNow
<1>10. CASE StoreCount
    <2> DEFINE d == At("prio")
    <2>1. /\ cpu.at = "countStore" /\ cpu' = d /\ UNCHANGED <<processes, current>>
          /\ size' = Inc8(cpu.arg) /\ (size = cpu.arg \/ harm' = "lost")
        BY SMTT(40), <1>10 DEF StoreCount, Stored, Executing, Goto
    <2>2. d.at = "prio" /\ current = INIT_PID
        BY <1>0, <2>1, PidFacts DEF At, GoodContext, InitLabels
    <2> HIDE DEF d
    <2>3. /\ Owing(processes, current, cpu) = 1 /\ Owing(processes, current, d) = 0
          /\ Owes(processes, current, cpu) = 0 /\ Owes(processes, current, d) = 0
          /\ InitPlace(processes, current, d).at \notin Adding
          /\ Held(processes, current, d)
        BY <2>1, <2>2 DEF Owing, Owes, One, InitPlace, Where, Taking, Adding, Held
    <2>4. size' = size + 1 /\ size \in Nat
        <3>1. size \in 0 .. 254
            BY <1>0, <2>3, MaxProcessesAssumption DEF Counted
        <3>2. size' = Inc8(size)
            BY <2>1
        <3>3. QED
            BY <3>1, <3>2 DEF Inc8
    <2>5. Counted(processes, size', current, d)
        BY <1>0, <2>3, <2>4, LiveFinite, MaxProcessesAssumption DEF Counted
    <2>6. QED
        BY <2>1, <2>5 DEF CountedNow
<1>11. CASE InitSetPriority
    <2>1. /\ cpu.at = "prio" /\ cpu'.at = "idle" /\ current' = current /\ size' = size
          /\ processes' = IF processes[SHELL_PID] = NULL THEN processes
                          ELSE [processes EXCEPT ![SHELL_PID].priority = MAX_PRIORITY,
                                    ![SHELL_PID].remaining_quantum = MAX_PRIORITY]
        BY <1>11 DEF InitSetPriority, Executing, Goto, At
    <2>2. MAX_PRIORITY \in Priorities
        BY MaxPriorityAssumption DEF Priorities, MIN_PRIORITY
    <2>3. processes' \in Table /\ SameSlots(processes, processes')
        <3>1. CASE processes[SHELL_PID] = NULL
            BY <1>0, <2>1, <3>1 DEF SameSlots
        <3>2. CASE processes[SHELL_PID] # NULL
            <4> DEFINE u == [processes EXCEPT ![SHELL_PID].priority = MAX_PRIORITY,
                                ![SHELL_PID].remaining_quantum = MAX_PRIORITY]
            <4>1. u \in Table /\ SameSlots(processes, u)
                BY <1>0, <2>2, <3>2, WritesSameSlots, PidFacts
            <4>2. QED
                BY <2>1, <3>2, <4>1
        <3>3. QED
            BY <3>1, <3>2
    <2>4. Counted(processes, size, current, cpu')
        BY <1>0, <2>1, MovedCounted DEF Taking, Adding
    <2>5. QED
        BY <2>1, <2>3, <2>4, SameSlotsCounted DEF CountedNow
<1>12. CASE ExitYield
    <2>1. Schedule(processes, size, cpu, TRUE) /\ size' = size
        BY <1>12 DEF ExitYield, YieldWith
    <2>2. Placed(processes)
        BY DEF Placed
    <2>3. QED
        BY <1>0, <2>1, <2>2, ScheduleCounted DEF CountedNow
<1>13. ASSUME NEW pid \in Pid, ReapFind(pid) PROVE CountedNow'
    <2>1. /\ cpu.at = "idle" /\ cpu'.at = "reapRemove"
          /\ UNCHANGED <<processes, size, current>>
        BY <1>13 DEF ReapFind, Executing, Goto, AtWith
    <2>2. QED
        BY <1>0, <2>1, MovedCounted DEF Taking, Adding, CountedNow
<1>14. QED
    BY <1>1, <1>2, <1>3, <1>4, <1>5, <1>6, <1>7, <1>8, <1>9, <1>10, <1>11, <1>12, <1>13
       DEF KernelStep

\* Before the first tick there is init alone, and size says so.
LEMMA InitCounted == ASSUME Init PROVE CountedNow
<1>1. processes \in Table /\ processes[INIT_PID] # NULL
    BY InitGood DEF IInv, GoodState
<1>2. \A p \in Pid : processes[p] # NULL => p = INIT_PID
    BY DEF Init
<1>3. Live(processes) \in SUBSET {INIT_PID}
    BY <1>2 DEF Live
<1>4. Cardinality(Live(processes)) <= 1
    <2>1. IsFiniteSet({INIT_PID}) /\ Cardinality({INIT_PID}) = 1
        BY FS_Singleton
    <2>2. Cardinality(Live(processes)) <= Cardinality({INIT_PID})
        BY <1>3, <2>1, FS_Subset
    <2>3. QED
        BY <2>1, <2>2
<1>5. InitPlace(processes, current, cpu).at = "start" /\ cpu.at = "boot"
    BY PidFacts DEF Init, InitPlace, Where, At, NewProcess
<1>6. /\ Owes(processes, current, cpu) = 0 /\ Owing(processes, current, cpu) = 0
      /\ InitPlace(processes, current, cpu).at \notin Adding /\ Held(processes, current, cpu)
    BY <1>5 DEF Owes, Owing, One, Taking, Adding, Held
<1>7. size = 1
    BY DEF Init
<1>8. QED
    BY <1>1, <1>4, <1>6, <1>7, LiveFinite, MaxProcessesAssumption DEF CountedNow, Counted

\* Every step keeps size above the number of processes, until a race does harm.
LEMMA NextCounted == CInv /\ [Next]_vars => CInv'
<1> SUFFICES ASSUME CInv, [Next]_vars PROVE CInv'
    OBVIOUS
<1>1. FInv /\ FInv' /\ IInv
    BY NextKeeps DEF CInv, FInv
<1>2. ASSUME harm' = "none" PROVE CountedNow'
    <2>0. harm = "none" /\ CountedNow
        BY <1>2, HarmOnly DEF CInv
    <2>1. CASE TimerTick
        <3>1. /\ Schedule(processes, size, cpu, force_reschedule) /\ size' = size
              /\ Counted(processes, size, current, cpu)
            BY <2>0, <2>1 DEF TimerTick, CountedNow
        <3>2. Placed(processes)
            BY DEF Placed
        <3>3. QED
            BY <1>1, <3>1, <3>2, StateTypes, ScheduleCounted DEF CountedNow
    <2>2. CASE KillForegroundProcess
        BY <1>1, <1>2, <2>0, <2>2, KillCounted DEF KillForegroundProcess
    <2>3. CASE SystemCall
        BY <1>1, <1>2, <2>0, <2>3, SystemCallCounted
    <2>4. CASE KernelStep
        BY <1>1, <1>2, <2>0, <2>4, KernelStepCounted
    <2>5. CASE UNCHANGED vars \/ MemoryTaken
        BY <2>0, <2>5 DEF vars, MemoryTaken, CountedNow
    <2>6. QED
        BY <2>1, <2>2, <2>3, <2>4, <2>5 DEF Next, NotFollowed
<1>3. QED
    BY <1>1, <1>2 DEF CInv

\* Until a store to size is lost or a removal crosses another, size misses no process of the
\* table but a shell that initMain is still to count, so schedule() never takes a table with
\* processes for an empty one.
THEOREM SizeAlwaysCovers == Spec => []SizeCoversTable
<1>1. Init => CInv
    BY InitGood, InitMatched, InitCounted DEF CInv, FInv
<1>2. CInv => SizeCoversTable
    <2> SUFFICES ASSUME CInv, harm = "none"
                 PROVE  Cardinality(Live(processes)) <= size + Uncounted
        BY DEF SizeCoversTable
    <2>1. Counted(processes, size, current, cpu)
        BY DEF CInv, CountedNow
    <2>2. Uncounted = Owing(processes, current, cpu)
        BY DEF Uncounted, InitAt, Owing, One, InitPlace, Where, Adding
    <2>3. QED
        BY <2>1, <2>2, LiveFinite, OwedTypes DEF Counted
<1>3. QED
    BY <1>1, <1>2, NextCounted, PTL DEF Spec

----------------------------------------------------------------------------
(***************************************************************************)
(* The CPU and its process.  Outside myExit's code the current process is  *)
(* the one RUNNING process; nobody is his own child or waits for himself,  *)
(* so that the tail of waitPid cannot empty the slot of its own caller.    *)
(***************************************************************************)
Off(cur, c) ==
    \/ c.at \in ExitLabels \cup {"boot"}
    \/ c.at \in Taking \cup {"emptySlot"} /\ cur # INIT_PID
OneCpu(t, cur, c) ==
    /\ \A p \in Pid : HasStatus(t, p, "RUNNING") => p = cur
    /\ ~Off(cur, c) => cur \in Pid /\ HasStatus(t, cur, "RUNNING")
NotOwnChild(p, r, c) == r.parent_pid # p /\ (c.at = "waitPid" => c.arg # p)
NoSelf(t, cur, c) ==
    \A p \in Pid : t[p] # NULL => NotOwnChild(p, t[p], Where(t, p, cur, c))

LInv == FInv /\ CInv /\ (harm = "none" => /\ OneCpu(processes, current, cpu)
                                        /\ NoSelf(processes, current, cpu))

\* What a handler may do to a slot before it calls schedule() or returns: nothing, empty it,
\* wake or orphan its process ...
Slight(r, p, q) ==
    \/ q = r
    \/ q = NULL /\ p # INIT_PID
    \/ /\ r # NULL /\ q # NULL /\ q.stack_pointer = r.stack_pointer
       /\ q.parent_pid = r.parent_pid \/ (q.parent_pid = INIT_PID /\ p # INIT_PID)
       /\ q.status = r.status \/ (r.status = "BLOCKED" /\ q.status = "READY")
SlightTable(t, u) == \A p \in Pid : Slight(t[p], p, u[p])

\* ... or block it.
Changed(r, p, q) ==
    \/ Slight(r, p, q)
    \/ /\ r # NULL /\ q # NULL /\ q.stack_pointer = r.stack_pointer
       /\ q.parent_pid = r.parent_pid /\ p # INIT_PID
       /\ r.status # "TERMINATED" /\ q.status = "BLOCKED"
ChangedTable(t, u) == \A p \in Pid : Changed(t[p], p, u[p])

\* The state of a slot in ProcessLife, the arrows of a whole step, and who has the CPU after it.
LifeOf(t, p) == IF t[p] = NULL THEN "ABSENT" ELSE t[p].status
LifeStep == \A p \in Pid : LifeOf(processes', p) \in Life!Follows[LifeOf(processes, p)]
Handed ==
    \/ current' \in Pid /\ HasStatus(processes', current', "RUNNING")
    \/ current \in Pid /\ HasStatus(processes', current, "TERMINATED")
    \/ \A p \in Pid : ~HasStatus(processes, p, "RUNNING")

\* What a step from the invariant owes.
Outcome == /\ OneCpu(processes', current', cpu') /\ NoSelf(processes', current', cpu')
           /\ LifeStep /\ Handed
Now == LInv /\ harm = "none"

----------------------------------------------------------------------------
\* A set of naturals that is not empty has a least member.
LEMMA Least ==
    ASSUME NEW S \in SUBSET Nat, S # {}
    PROVE  \E m \in S : \A n \in S : m <= n
<1>1. IsWellFoundedOn(OpToRel(<, Nat), Nat)
    BY NatLessThanWellFounded
<1> DEFINE R == OpToRel(<, Nat)
<1>2. \A x, y \in Nat : x < y => <<x, y>> \in R
    BY DEF OpToRel
<1> HIDE DEF R
<1>3. IsWellFoundedOn(R, Nat)
    BY <1>1 DEF R
<1>4. PICK m \in S : \A n \in S : ~(<<n, m>> \in R)
    BY <1>3, WFMin
<1>5. ASSUME NEW n \in S PROVE m <= n
    <2>1. m \in Nat /\ n \in Nat
        OBVIOUS
    <2>2. ~(n < m)
        BY <1>2, <1>4, <2>1
    <2>3. QED
        BY <2>1, <2>2
<1>6. QED
    BY <1>5

\* The circular scan counts from the slot after the current one.
LEMMA DistanceNat ==
    ASSUME current \in Pid \cup {NO_PID}, NEW p \in Pid PROVE Distance(p) \in Nat
    BY MaxProcessesAssumption DEF Distance, Pid, NO_PID

\* If some process is READY, the scan of getNextProcess finds one.
LEMMA SomebodyNext ==
    ASSUME NEW s, NEW p \in Pid, HasStatus(s, p, "READY"), current \in Pid \cup {NO_PID}
    PROVE  NextReady(s) # {}
<1> DEFINE D == {Distance(q) : q \in {x \in Pid : HasStatus(s, x, "READY")}}
<1>1. D \in SUBSET Nat /\ D # {}
    BY DistanceNat
<1>2. PICK m \in D : \A n \in D : m <= n
    BY <1>1, Least
<1>3. PICK q \in Pid : HasStatus(s, q, "READY") /\ m = Distance(q)
    BY <1>2
<1>4. \A x \in Pid : HasStatus(s, x, "READY") => Distance(q) <= Distance(x)
    BY <1>2, <1>3
<1>5. QED
    BY <1>3, <1>4 DEF NextReady

\* The invariant, unfolded.
LEMMA NowFacts ==
    ASSUME Now
    PROVE  /\ IInv /\ FInv /\ CountedNow
           /\ processes \in Table /\ cpu \in Context /\ force_reschedule \in BOOLEAN
           /\ current \in Pid \cup {NO_PID}
           /\ current # NO_PID => GoodContext(current, cpu)
           /\ current = NO_PID <=> cpu.at = "boot"
           /\ Matched(processes, current, cpu) /\ Counted(processes, size, current, cpu)
           /\ OneCpu(processes, current, cpu) /\ NoSelf(processes, current, cpu)
           /\ processes[INIT_PID] # NULL /\ processes[INIT_PID].parent_pid = NO_PID
           /\ processes[INIT_PID].status \in {"READY", "RUNNING"}
<1>1. IInv /\ FInv /\ CountedNow
    BY DEF Now, LInv, FInv, CInv, CountedNow
<1>2. processes[INIT_PID] # NULL /\ GoodProcess(INIT_PID, processes[INIT_PID])
    BY <1>1, PidFacts DEF IInv, GoodState
<1>3. /\ current # NO_PID => GoodContext(current, cpu)
      /\ current = NO_PID <=> cpu.at = "boot"
    BY <1>1 DEF IInv, GoodState
<1>4. Matched(processes, current, cpu) /\ Counted(processes, size, current, cpu)
    BY <1>1 DEF FInv, CountedNow
<1>5. OneCpu(processes, current, cpu) /\ NoSelf(processes, current, cpu)
    BY DEF Now, LInv
<1>6. /\ processes[INIT_PID].parent_pid = NO_PID
      /\ processes[INIT_PID].status \in {"READY", "RUNNING"}
    BY <1>2 DEF GoodProcess
<1>7. QED
    BY <1>1, <1>2, <1>3, <1>4, <1>5, <1>6, StateTypes

\* A process that executes myExit's tail is not RUNNING, and before the first tick nobody is.
LEMMA OffTableNobody ==
    ASSUME Now, Off(current, cpu)
    PROVE  \A p \in Pid : ~HasStatus(processes, p, "RUNNING")
<1> SUFFICES ASSUME NEW p \in Pid, HasStatus(processes, p, "RUNNING") PROVE FALSE
    OBVIOUS
<1>1. p = current /\ processes[p] # NULL /\ processes[p].status = "RUNNING"
    BY NowFacts DEF OneCpu, HasStatus
<1>2. Matches(p, "RUNNING", cpu.at)
    BY <1>1, NowFacts DEF Matched, Where
<1>3. cpu.at # "boot"
    BY <1>1, NowFacts, PidFacts
<1>4. QED
    BY <1>1, <1>2, <1>3 DEF Matches, Finishing, Off, ExitLabels

\* Slight changes compose.
LEMMA SlightTransitive ==
    ASSUME NEW t, NEW u, NEW v, SlightTable(t, u), SlightTable(u, v)
    PROVE  SlightTable(t, v)
    BY DEF SlightTable, Slight

\* A slight change is a change.
LEMMA SlightChanged ==
    ASSUME NEW t, NEW u, SlightTable(t, u) PROVE ChangedTable(t, u)
    BY DEF SlightTable, ChangedTable, Changed

\* The helpers change slots slightly.
LEMMA SlightHelpers ==
    ASSUME NEW t \in Table, NEW w \in Pid
    PROVE  /\ SlightTable(t, t)
           /\ t[INIT_PID] # NULL /\ t[INIT_PID].parent_pid = NO_PID
                => SlightTable(t, Adopted(t, w))
           /\ SlightTable(t, ParentWoken(t, w)) /\ SlightTable(t, Unblocked(t, w))
           /\ w # INIT_PID => SlightTable(t, Removed(t, w))
<1>1. SlightTable(t, t)
    BY DEF SlightTable, Slight
<1>2. ASSUME t[INIT_PID] # NULL, t[INIT_PID].parent_pid = NO_PID
      PROVE  SlightTable(t, Adopted(t, w))
    BY <1>2, AdoptedEffect, PidFacts DEF SlightTable, Slight, OrphanOf
<1>3. SlightTable(t, ParentWoken(t, w))
    BY ParentWokenEffect DEF SlightTable, Slight, Woken
<1>4. SlightTable(t, Unblocked(t, w))
    BY UnblockedEffect DEF SlightTable, Slight, Woken
<1>5. w # INIT_PID => SlightTable(t, Removed(t, w))
    BY RemovedEffect DEF SlightTable, Slight
<1>6. QED
    BY <1>1, <1>2, <1>3, <1>4, <1>5

\* A changed table gives nobody himself as parent or as the child he waits for.
LEMMA ChangedNoSelf ==
    ASSUME NEW t, NEW u, NEW cur, NEW c, NoSelf(t, cur, c), ChangedTable(t, u)
    PROVE  NoSelf(u, cur, c)
<1> SUFFICES ASSUME NEW p \in Pid, u[p] # NULL
             PROVE  NotOwnChild(p, u[p], Where(u, p, cur, c))
    BY DEF NoSelf
<1>1. Changed(t[p], p, u[p])
    BY DEF ChangedTable
<1>2. /\ t[p] # NULL /\ u[p].stack_pointer = t[p].stack_pointer
      /\ u[p].parent_pid = t[p].parent_pid \/ (u[p].parent_pid = INIT_PID /\ p # INIT_PID)
    BY <1>1 DEF Changed, Slight
<1>3. NotOwnChild(p, t[p], Where(t, p, cur, c))
    BY <1>2 DEF NoSelf
<1>4. Where(u, p, cur, c) = Where(t, p, cur, c)
    BY <1>2 DEF Where
<1>5. QED
    BY <1>2, <1>3, <1>4 DEF NotOwnChild

\* The current process goes on somewhere else.
LEMMA MovedNoSelf ==
    ASSUME NEW t, NEW cur, NEW c, NEW d, NoSelf(t, cur, c),
           d.at = "waitPid" => d.arg # cur
    PROVE  NoSelf(t, cur, d)
    BY DEF NoSelf, NotOwnChild, Where

\* While there is a process that is neither init nor the shell, size is not 1.
LEMMA StillCounts ==
    ASSUME Now, NEW w \in Pid \ Reserved, processes[w] # NULL
    PROVE  Dec8(size) # 0
<1>1. size \in 2 .. 255
    BY NowFacts, NeverZero
<1>2. QED
    BY <1>1 DEF Dec8

----------------------------------------------------------------------------
\* schedule()

\* The change a handler makes to a slot, then what schedule() makes of it, is one arrow.
LEMMA Arrows ==
    ASSUME NEW t \in Table, NEW u \in Table, NEW v \in Table, NEW p \in Pid,
           Changed(t[p], p, u[p]), v[p] = NULL <=> u[p] = NULL,
           u[p] # NULL => SameProcess(u[p], v[p])
    PROVE  LifeOf(v, p) \in Life!Follows[LifeOf(t, p)]
<1>1. CASE u[p] = NULL
    <2>1. LifeOf(v, p) = "ABSENT" /\ LifeOf(t, p) \in Statuses \cup {"ABSENT"}
        BY <1>1 DEF LifeOf, Table, Process
    <2>2. QED
        BY <2>1 DEF Life!Follows, Statuses
<1>2. CASE u[p] # NULL
    <2>1. t[p] # NULL /\ v[p] # NULL /\ SameProcess(u[p], v[p])
        BY <1>2 DEF Changed, Slight
    <2>2. /\ t[p].status \in Statuses /\ u[p].status \in Statuses /\ v[p].status \in Statuses
          /\ LifeOf(t, p) = t[p].status /\ LifeOf(v, p) = v[p].status
        BY <1>2, <2>1 DEF Table, Process, LifeOf
    <2>3. \/ u[p].status = t[p].status
          \/ t[p].status = "BLOCKED" /\ u[p].status = "READY"
          \/ t[p].status # "TERMINATED" /\ u[p].status = "BLOCKED"
        BY <1>2, <2>1 DEF Changed, Slight
    <2>4. \/ v[p].status = u[p].status
          \/ u[p].status \in {"READY", "RUNNING"} /\ v[p].status \in {"READY", "RUNNING"}
        BY <2>1 DEF SameProcess
    <2> DEFINE a == t[p].status
               b == v[p].status
    <2>5. a \in Statuses /\ b \in Statuses
          /\ \/ a = b
             \/ a \in {"READY", "RUNNING", "BLOCKED"} /\ b \in {"READY", "RUNNING", "BLOCKED"}
        BY <2>2, <2>3, <2>4 DEF Statuses
    <2> HIDE DEF a, b
    <2>6. b \in Life!Follows[a]
        BY <2>5 DEF Life!Follows, Statuses
    <2>7. QED
        BY <2>2, <2>6 DEF a, b
<1>3. QED
    BY <1>1, <1>2

\* schedule() with init in the table: it dispatches somebody, who is then the only one RUNNING.
LEMMA ScheduleRuns ==
    ASSUME NEW t \in Table, NEW n, n # 0, NEW saved \in Context, NEW forced \in BOOLEAN,
           current \in Pid \cup {NO_PID}, Schedule(t, n, saved, forced),
           t[INIT_PID] # NULL, t[INIT_PID].status \in {"READY", "RUNNING"},
           \A p \in Pid : HasStatus(t, p, "RUNNING") => p = current
    PROVE  /\ current' \in Pid /\ HasStatus(processes', current', "RUNNING")
           /\ \A p \in Pid : HasStatus(processes', p, "RUNNING") => p = current'
<1> DEFINE s == Suspended(t, saved)
<1>1. s \in Table
    BY SuspendedEffect
<1>2. ASSUME NEW p \in Pid PROVE ~HasStatus(s, p, "RUNNING")
    <2>1. CASE p # current \/ t[p] = NULL
        <3>1. s[p] = t[p]
            BY <2>1, SuspendedEffect
        <3>2. QED
            BY <2>1, <3>1 DEF HasStatus
    <2>2. CASE p = current /\ t[p] # NULL
        <3>1. s[p].status = IF t[p].status = "RUNNING" THEN "READY" ELSE t[p].status
            BY <2>2, SuspendedEffect
        <3>2. QED
            BY <3>1 DEF HasStatus
    <2>3. QED
        BY <2>1, <2>2
<1>3. HasStatus(s, INIT_PID, "READY")
    <2>1. s[INIT_PID] # NULL /\ SameProcess(t[INIT_PID], s[INIT_PID])
        BY PidFacts, SuspendedSame
    <2>2. s[INIT_PID].status \in {"READY", "RUNNING"}
        BY <2>1 DEF SameProcess
    <2>3. QED
        BY <1>2, <2>1, <2>2, PidFacts DEF HasStatus
<1>4. NextReady(s) # {}
    BY <1>3, PidFacts, SomebodyNext
<1>5. PICK p \in Pid, quantum \in 0 .. MAX_PRIORITY :
         /\ s[p] # NULL /\ s[p].status \in {"READY", "RUNNING"} /\ Dispatch(s, p, quantum)
    <2>1. CASE KeepsCpu(s, forced)
        <3>1. /\ current \in Pid /\ s[current] # NULL /\ s[current] \in Process
              /\ s[current].status \in {"READY", "RUNNING"}
            BY <1>1, <2>1 DEF KeepsCpu, Table
        <3>2. s[current].remaining_quantum - 1 \in 0 .. MAX_PRIORITY
            BY <2>1, <3>1, MaxPriorityAssumption DEF KeepsCpu, Process
        <3>3. Dispatch(s, current, s[current].remaining_quantum - 1)
            BY <2>1 DEF Schedule
        <3> HIDE DEF s
        <3>4. QED
            BY <3>1, <3>2, <3>3
    <2>2. CASE ~KeepsCpu(s, forced)
        <3>1. PICK p \in NextReady(s) : Dispatch(s, p, s[p].priority)
            BY <1>4, <2>2 DEF Schedule
        <3> HIDE DEF s
        <3>2. p \in Pid /\ s[p] # NULL /\ s[p] \in Process /\ s[p].status = "READY"
            BY <1>1, <3>1 DEF NextReady, HasStatus, Table
        <3>3. s[p].priority \in 0 .. MAX_PRIORITY
            BY <3>2, MaxPriorityAssumption DEF Process, Priorities, MIN_PRIORITY
        <3>4. QED
            BY <3>1, <3>2, <3>3
    <2>3. QED
        BY <2>1, <2>2
<1> HIDE DEF s
<1>6. /\ current' = p /\ processes'[p] # NULL /\ processes'[p].status = "RUNNING"
      /\ \A q \in Pid : q # p => processes'[q] = s[q]
    BY <1>1, <1>5, DispatchEffect
<1>7. QED
    BY <1>2, <1>6 DEF HasStatus

\* schedule() moves contexts, and no parent.
LEMMA ScheduleNoSelf ==
    ASSUME NEW t \in Table, NEW n, NEW saved \in Context, NEW forced \in BOOLEAN,
           current \in Pid \cup {NO_PID}, NoSelf(t, current, saved),
           Schedule(t, n, saved, forced)
    PROVE  NoSelf(processes', current', cpu')
<1>1. /\ \A p \in Pid : t[p] = NULL <=> processes'[p] = NULL
      /\ \A p \in Pid : t[p] # NULL =>
            /\ SameProcess(t[p], processes'[p])
            /\ p # current => processes'[p].stack_pointer = t[p].stack_pointer
    BY ScheduleEffect
<1>2. \/ current' = current /\ cpu' = saved
      \/ /\ current' \in Pid /\ current' # current /\ t[current'] # NULL
         /\ cpu' = t[current'].stack_pointer
         /\ current # NO_PID /\ t[current] # NULL =>
               processes'[current].stack_pointer = saved
    BY ScheduleEffect
<1> SUFFICES ASSUME NEW p \in Pid, processes'[p] # NULL
             PROVE  NotOwnChild(p, processes'[p], Where(processes', p, current', cpu'))
    BY DEF NoSelf
<1>3. t[p] # NULL /\ SameProcess(t[p], processes'[p])
    BY <1>1
<1>4. NotOwnChild(p, t[p], Where(t, p, current, saved))
    BY <1>3 DEF NoSelf
<1>5. Where(processes', p, current', cpu') = Where(t, p, current, saved)
    BY <1>1, <1>2, <1>3, PidFacts DEF Where
<1>6. QED
    BY <1>3, <1>4, <1>5 DEF NotOwnChild, SameProcess

\* A handler that ends in schedule().
LEMMA ScheduleOutcome ==
    ASSUME Now, NEW t \in Table, NEW n, NEW saved \in Context, NEW forced \in BOOLEAN,
           ChangedTable(processes, t), NoSelf(t, current, saved), n # 0,
           Schedule(t, n, saved, forced)
    PROVE  Outcome
<1>1. t[INIT_PID] # NULL /\ t[INIT_PID].status \in {"READY", "RUNNING"}
    <2>1. Changed(processes[INIT_PID], INIT_PID, t[INIT_PID])
        BY PidFacts DEF ChangedTable
    <2>2. processes[INIT_PID] # NULL /\ processes[INIT_PID].status \in {"READY", "RUNNING"}
        BY NowFacts
    <2>3. QED
        BY <2>1, <2>2 DEF Changed, Slight
<1>2. \A p \in Pid : HasStatus(t, p, "RUNNING") => p = current
    <2>1. \A p \in Pid : HasStatus(t, p, "RUNNING") => HasStatus(processes, p, "RUNNING")
        BY DEF ChangedTable, Changed, Slight, HasStatus
    <2>2. QED
        BY <2>1, NowFacts DEF OneCpu
<1>3. current \in Pid \cup {NO_PID}
    BY NowFacts
<1>4. /\ current' \in Pid /\ HasStatus(processes', current', "RUNNING")
      /\ \A p \in Pid : HasStatus(processes', p, "RUNNING") => p = current'
    BY <1>1, <1>2, <1>3, ScheduleRuns
<1>5. NoSelf(processes', current', cpu')
    BY <1>3, ScheduleNoSelf
<1>6. ASSUME NEW p \in Pid
      PROVE  LifeOf(processes', p) \in Life!Follows[LifeOf(processes, p)]
    <2>1. /\ processes' \in Table /\ (processes'[p] = NULL <=> t[p] = NULL)
          /\ t[p] # NULL => SameProcess(t[p], processes'[p])
        BY <1>3, ScheduleEffect
    <2>2. processes \in Table /\ Changed(processes[p], p, t[p])
        BY NowFacts DEF ChangedTable
    <2>3. QED
        BY <2>1, <2>2, Arrows
<1>7. QED
    BY <1>4, <1>5, <1>6 DEF Outcome, OneCpu, LifeStep, Handed

\* A handler after which the current process goes on, here or somewhere else: it still has
\* the CPU, if it had it.
LEMMA GoOnOutcome ==
    ASSUME Now, ChangedTable(processes, processes'), processes' \in Table,
           current' = current,
           cpu' = cpu \/ cpu'.at # "waitPid",
           Off(current, cpu) => Off(current, cpu'),
           current \in Pid /\ HasStatus(processes, current, "RUNNING")
              => HasStatus(processes', current, "RUNNING")
    PROVE  Outcome
<1>1. NoSelf(processes', current', cpu')
    <2>1. NoSelf(processes', current, cpu)
        BY NowFacts, ChangedNoSelf
    <2>2. QED
        BY <2>1, MovedNoSelf
<1>2. \A p \in Pid : HasStatus(processes', p, "RUNNING") => HasStatus(processes, p, "RUNNING")
    BY DEF ChangedTable, Changed, Slight, HasStatus
<1>3. OneCpu(processes', current', cpu')
    BY <1>2, NowFacts DEF OneCpu
<1>4. Handed
    <2>1. CASE Off(current, cpu)
        BY <2>1, OffTableNobody DEF Handed
    <2>2. CASE ~Off(current, cpu)
        BY <2>2, NowFacts DEF OneCpu, Handed
    <2>3. QED
        BY <2>1, <2>2
<1>5. LifeStep
    <2> SUFFICES ASSUME NEW p \in Pid
                 PROVE  LifeOf(processes', p) \in Life!Follows[LifeOf(processes, p)]
        BY DEF LifeStep
    <2>1. Changed(processes[p], p, processes'[p]) /\ SameProcess(processes'[p], processes'[p])
        BY DEF ChangedTable, SameProcess
    <2>2. QED
        BY <2>1, NowFacts, Arrows
<1>6. QED
    BY <1>1, <1>3, <1>4, <1>5 DEF Outcome

\* A handler that fills an empty slot with a READY process.
LEMMA FreshOutcome ==
    ASSUME Now, NEW w \in Pid, processes[w] = NULL, NEW r \in Process,
           r.status = "READY", r.parent_pid = current, r.stack_pointer.at = "user",
           processes' = [processes EXCEPT ![w] = r], current' = current,
           \/ cpu.at = "user" /\ cpu' = cpu
           \/ cpu.at = "start" /\ cpu'.at = "countLoad"
    PROVE  Outcome
<1>1. /\ processes \in Table /\ OneCpu(processes, current, cpu)
      /\ NoSelf(processes, current, cpu)
    BY NowFacts
<1>2. current \in Pid /\ HasStatus(processes, current, "RUNNING") /\ w # current
    BY <1>1 DEF OneCpu, Off, ExitLabels, Taking, HasStatus
<1>3. \A p \in Pid : processes'[p] = IF p = w THEN r ELSE processes[p]
    BY <1>1 DEF Table
<1>4. OneCpu(processes', current', cpu')
    BY <1>1, <1>2, <1>3 DEF OneCpu, HasStatus
<1>5. NoSelf(processes', current', cpu')
    <2>1. NoSelf(processes, current, cpu')
        BY <1>1, MovedNoSelf
    <2>2. NotOwnChild(w, r, r.stack_pointer)
        BY <1>2 DEF NotOwnChild
    <2>3. QED
        BY <1>2, <1>3, <2>1, <2>2 DEF NoSelf, Where
<1>6. LifeStep
    <2> SUFFICES ASSUME NEW p \in Pid
                 PROVE  LifeOf(processes', p) \in Life!Follows[LifeOf(processes, p)]
        BY DEF LifeStep
    <2>1. CASE p = w
        <3>1. LifeOf(processes', p) = "READY" /\ LifeOf(processes, p) = "ABSENT"
            BY <1>3, <2>1, ProcessNotNull DEF LifeOf
        <3>2. QED
            BY <3>1 DEF Life!Follows
    <2>2. CASE p # w
        <3>1. LifeOf(processes', p) = LifeOf(processes, p)
            BY <1>3, <2>2 DEF LifeOf
        <3>2. LifeOf(processes, p) \in Statuses \cup {"ABSENT"}
            BY <1>1 DEF LifeOf, Table, Process
        <3>3. QED
            BY <3>1, <3>2 DEF Life!Follows, Statuses
    <2>3. QED
        BY <2>1, <2>2
<1>7. Handed
    BY <1>2, <1>3 DEF Handed, HasStatus
<1>8. QED
    BY <1>4, <1>5, <1>6, <1>7 DEF Outcome

----------------------------------------------------------------------------
\* The handlers

\* A process that is RUNNING and keeps its slot through a slight change is still RUNNING.
LEMMA SlightRunning ==
    ASSUME NEW t, NEW u, NEW p \in Pid, SlightTable(t, u), u[p] # NULL,
           HasStatus(t, p, "RUNNING")
    PROVE  HasStatus(u, p, "RUNNING")
    BY DEF SlightTable, Slight, HasStatus

\* A handler that changes some slots slightly and returns to its caller, whose slot it keeps.
LEMMA ReturnOutcome ==
    ASSUME Now, NEW t \in Table, NEW n, SlightTable(processes, t), Return(t, n),
           current \in Pid /\ HasStatus(processes, current, "RUNNING") => t[current] # NULL
    PROVE  Outcome
<1>1. processes' = t /\ current' = current /\ cpu' = cpu
    BY DEF Return
<1>2. ChangedTable(processes, t)
    BY SlightChanged
<1>3. HasStatus(processes, current, "RUNNING") /\ current \in Pid
         => HasStatus(t, current, "RUNNING")
    BY SlightRunning DEF HasStatus
<1>4. QED
    BY <1>1, <1>2, <1>3, GoOnOutcome

\* Kill's table: the victim's slot is empty, every other slot keeps its process.
LEMMA KilledTable ==
    ASSUME Now, NEW pid \in Pid, processes[pid] # NULL, pid # INIT_PID,
           NEW t, t = Removed(ParentWoken(Adopted(processes, pid), pid), pid)
    PROVE  /\ t \in Table /\ SlightTable(processes, t)
           /\ \A p \in Pid : p # pid => (t[p] = NULL <=> processes[p] = NULL)
<1> DEFINE a == Adopted(processes, pid)
           w == ParentWoken(a, pid)
<1>1. a \in Table /\ SlightTable(processes, a) /\ SameSlots(processes, a)
    BY NowFacts, AdoptedEffect, SlightHelpers, HelpersSameSlots
<1> HIDE DEF a
<1>2. w \in Table /\ SlightTable(a, w) /\ SameSlots(a, w)
    BY <1>1, ParentWokenEffect, SlightHelpers, HelpersSameSlots
<1>3. t = Removed(w, pid)
    BY DEF a
<1> HIDE DEF w
<1>4. t \in Table /\ SlightTable(w, t) /\ \A p \in Pid : p # pid => t[p] = w[p]
    BY <1>2, <1>3, RemovedEffect, SlightHelpers
<1>5. SlightTable(processes, t)
    BY <1>1, <1>2, <1>4, SlightTransitive
<1>6. QED
    BY <1>1, <1>2, <1>4, <1>5 DEF SameSlots

\* killProcess: a RUNNING victim gives up the CPU, any other does not have it.
LEMMA KillOutcome ==
    ASSUME Now, NEW pid \in Pid, Kill(pid)
    PROVE  Outcome
<1>1. processes[pid] # NULL /\ pid # INIT_PID /\ Dec8(size) # 0
    BY NowFacts, PidFacts, StillCounts DEF Kill, IInv, GoodState, GoodProcess, Reserved
<1> DEFINE t == Removed(ParentWoken(Adopted(processes, pid), pid), pid)
<1>2. /\ t \in Table /\ SlightTable(processes, t)
      /\ \A p \in Pid : p # pid => (t[p] = NULL <=> processes[p] = NULL)
    BY <1>1, KilledTable
<1>3. \/ Schedule(t, Dec8(size), cpu, TRUE)
      \/ processes[pid].status # "RUNNING" /\ Return(t, Dec8(size))
    BY DEF Kill, YieldWith
<1> HIDE DEF t
<1>4. CASE Schedule(t, Dec8(size), cpu, TRUE)
    <2>1. ChangedTable(processes, t) /\ NoSelf(t, current, cpu)
        BY <1>2, SlightChanged, ChangedNoSelf, NowFacts
    <2>2. QED
        BY <1>1, <1>2, <1>4, <2>1, NowFacts, ScheduleOutcome
<1>5. CASE processes[pid].status # "RUNNING" /\ Return(t, Dec8(size))
    <2>1. HasStatus(processes, current, "RUNNING") => pid # current
        BY <1>5 DEF HasStatus
    <2>2. QED
        BY <1>2, <1>5, <2>1, ReturnOutcome DEF HasStatus
<1>6. QED
    BY <1>3, <1>4, <1>5

\* The tail of waitPid empties a slot that is not the caller's.
LEMMA FinishWaitOutcome ==
    ASSUME Now, NEW pid \in Pid, pid # current, pid # INIT_PID,
           cpu.at \in {"user", "waitPid"}, FinishWait(pid)
    PROVE  Outcome
<1>1. current \in Pid /\ HasStatus(processes, current, "RUNNING") /\ ~Off(current, cpu)
    BY NowFacts DEF OneCpu, Off, ExitLabels, Taking
<1> DEFINE r == [processes[current] EXCEPT !.waiting_for_pid = NO_PID]
           t == [processes EXCEPT ![current].waiting_for_pid = NO_PID]
           u == Removed(t, pid)
<1>2. processes \in Table /\ processes[current] \in Process /\ processes[current] # NULL
    BY <1>1, NowFacts DEF Table, HasStatus
<1>3. /\ r \in Process /\ t = [processes EXCEPT ![current] = r]
      /\ r.status = processes[current].status
      /\ r.parent_pid = processes[current].parent_pid
      /\ r.stack_pointer = processes[current].stack_pointer
    BY <1>2 DEF Process
<1> HIDE DEF r
<1>4. t \in Table /\ t[current] = r /\ \A p \in Pid : p # current => t[p] = processes[p]
    BY <1>1, <1>2, <1>3 DEF Table
<1> HIDE DEF t
<1>5. SlightTable(processes, t)
    BY <1>2, <1>3, <1>4, ProcessNotNull DEF SlightTable, Slight
<1>6. u \in Table /\ SlightTable(t, u) /\ u[current] = r
    BY <1>1, <1>4, RemovedEffect, SlightHelpers
<1> HIDE DEF u
<1>7. ChangedTable(processes, u)
    BY <1>5, <1>6, SlightTransitive, SlightChanged
<1>8. HasStatus(u, current, "RUNNING")
    BY <1>1, <1>3, <1>6, ProcessNotNull DEF HasStatus
<1>9. processes' = u /\ cpu' = At("user") /\ current' = current
    BY DEF FinishWait, u, t
<1>10. QED
    BY <1>1, <1>6, <1>7, <1>8, <1>9, GoOnOutcome DEF At

\* A removal with interrupts on begins, or finds nothing to do: the table stays.
LEMMA RemoveBeginsOutcome ==
    ASSUME Now, NEW pid \in Pid, NEW next, next.at # "waitPid",
           Off(current, cpu) => Off(current, next) /\ current # INIT_PID,
           RemoveBegins(pid, next)
    PROVE  Outcome
<1>1. /\ processes' = processes /\ current' = current
      /\ cpu' = next \/ cpu' = AtWith("emptySlot", pid)
    BY DEF RemoveBegins, Goto
<1>2. ChangedTable(processes, processes) /\ processes \in Table
    BY NowFacts, PidFacts, SlightHelpers, SlightChanged
<1>3. cpu'.at # "waitPid" /\ (Off(current, cpu) => Off(current, cpu'))
    BY <1>1 DEF Off, AtWith
<1>4. QED
    BY <1>1, <1>2, <1>3, GoOnOutcome

\* The slot emptied is that of another process, or of one that executes myExit's tail.
LEMMA EmptySlotOutcome ==
    ASSUME Now, EmptySlot PROVE Outcome
<1>1. /\ processes' = Removed(processes, cpu.arg) /\ current' = current
      /\ cpu' = At("sizeLoad") /\ cpu.at = "emptySlot"
    BY DEF EmptySlot, Executing, Goto
<1>2. /\ cpu.arg \in Pid /\ cpu.arg # INIT_PID
      /\ current # INIT_PID => cpu.arg = current
    BY <1>1, NowFacts DEF GoodContext, Reserved
<1>3. /\ processes' \in Table /\ SlightTable(processes, processes')
      /\ \A p \in Pid : p # cpu.arg => processes'[p] = processes[p]
    BY <1>1, <1>2, NowFacts, RemovedEffect, SlightHelpers
<1>4. cpu'.at = "sizeLoad"
    BY <1>1 DEF At
<1>5. Off(current, cpu) <=> current # INIT_PID
    BY <1>1 DEF Off, ExitLabels, Taking
<1>6. Off(current, cpu) => Off(current, cpu')
    BY <1>4, <1>5 DEF Off, Taking
<1>7. ASSUME current \in Pid, HasStatus(processes, current, "RUNNING")
      PROVE  HasStatus(processes', current, "RUNNING")
    <2>1. current = INIT_PID
        BY <1>5, <1>7, OffTableNobody
    <2>2. QED
        BY <1>2, <1>3, <1>7, <2>1 DEF HasStatus
<1>8. QED
    BY <1>1, <1>3, <1>4, <1>6, <1>7, SlightChanged, GoOnOutcome

\* A step that only moves the current process to another label.
LEMMA MoveOutcome ==
    ASSUME Now, processes' = processes, current' = current, cpu'.at # "waitPid",
           Off(current, cpu) => Off(current, cpu')
    PROVE  Outcome
<1>1. ChangedTable(processes, processes) /\ processes \in Table
    BY NowFacts, PidFacts, SlightHelpers, SlightChanged
<1>2. QED
    BY <1>1, GoOnOutcome

----------------------------------------------------------------------------
\* The steps

\* The system calls.
LEMMA SystemCallOutcome ==
    ASSUME Now, SystemCall PROVE Outcome
<1>0. /\ processes \in Table /\ cpu \in Context /\ current \in Pid \cup {NO_PID}
      /\ size # 0 /\ NoSelf(processes, current, cpu) /\ IInv
    BY NowFacts, NeverZero
<1>c. ASSUME NEW call, Calling(call)
      PROVE  /\ current \in Pid /\ current # INIT_PID /\ processes[current] \in Process
             /\ processes[current] # NULL /\ cpu.at = "user"
             /\ HasStatus(processes, current, "RUNNING")
    <2>1. /\ current \in Pid /\ current # INIT_PID /\ processes[current] \in Process
          /\ cpu.at = "user"
        BY <1>0, <1>c, CallerFacts
    <2>2. HasStatus(processes, current, "RUNNING")
        BY <2>1, NowFacts DEF OneCpu, Off, ExitLabels, Taking
    <2>3. QED
        BY <2>1, <2>2 DEF HasStatus
<1>1. CASE AddProcess
    <2> DEFINE r == NewProcess(current, FALSE, "user")
    <2>1. PICK p \in FirstFree(processes) : Return([processes EXCEPT ![p] = r], size + 1)
        BY <1>1 DEF AddProcess
    <2>2. p \in Pid /\ processes[p] = NULL /\ cpu.at = "user"
        BY <1>1, <1>c, <2>1 DEF AddProcess, FirstFree
    <2>3. r \in Process
        BY <1>0, NewProcessType DEF Labels
    <2>4. r.status = "READY" /\ r.parent_pid = current /\ r.stack_pointer.at = "user"
        BY DEF NewProcess, At
    <2>5. /\ processes' = [processes EXCEPT ![p] = r] /\ current' = current /\ cpu' = cpu
        BY <2>1 DEF Return
    <2> HIDE DEF r
    <2>6. QED
        BY <2>2, <2>3, <2>4, <2>5, FreshOutcome
<1>2. CASE Yield
    <2>1. Schedule(processes, size, cpu, TRUE)
        BY <1>2 DEF Yield, YieldWith
    <2>2. ChangedTable(processes, processes)
        BY <1>0, PidFacts, SlightHelpers, SlightChanged
    <2>3. QED
        BY <1>0, <2>1, <2>2, ScheduleOutcome
<1>3. CASE SysExit
    <2> DEFINE w == ParentWoken(processes, current)
               t == Removed(w, current)
    <2>1. /\ current \in Pid /\ current # INIT_PID /\ processes[current] # NULL
          /\ Dec8(size) # 0
        BY <1>0, <1>3, <1>c, CallerFacts, StillCounts DEF SysExit
    <2>2. w \in Table /\ SameSlots(processes, w) /\ SlightTable(processes, w)
        BY <1>0, <2>1, ParentWokenEffect, HelpersSameSlots, SlightHelpers
    <2> HIDE DEF w
    <2>4. t \in Table /\ SlightTable(w, t)
        BY <2>1, <2>2, RemovedEffect, SlightHelpers
    <2>5. Schedule(t, Dec8(size), cpu, TRUE)
        BY <1>3 DEF SysExit, YieldWith, w
    <2> HIDE DEF t
    <2>6. ChangedTable(processes, t) /\ NoSelf(t, current, cpu)
        BY <1>0, <2>2, <2>4, SlightTransitive, SlightChanged, ChangedNoSelf
    <2>7. QED
        BY <1>0, <2>1, <2>4, <2>5, <2>6, ScheduleOutcome
<1>4. CASE ReturnFromMain
    <2>1. /\ current \in Pid /\ processes[current] \in Process
          /\ HasStatus(processes, current, "RUNNING")
        BY <1>4, <1>c DEF ReturnFromMain
    <2> DEFINE r == [processes[current] EXCEPT !.status = "TERMINATED"]
    <2>2. /\ processes' = [processes EXCEPT ![current] = r]
          /\ r.status = "TERMINATED" /\ r \in Process
          /\ r.parent_pid = processes[current].parent_pid
          /\ r.stack_pointer = processes[current].stack_pointer
        BY <1>0, <1>4, <2>1 DEF ReturnFromMain, Table, Process, Statuses
    <2>3. current' = current /\ cpu' = At("exitWake")
        BY <1>4 DEF ReturnFromMain, Goto
    <2> HIDE DEF r
    <2>4. /\ processes'[current] = r
          /\ \A p \in Pid : p # current => processes'[p] = processes[p]
        BY <1>0, <2>1, <2>2 DEF Table
    <2>5. OneCpu(processes', current', cpu')
        BY <2>2, <2>3, <2>4, NowFacts DEF OneCpu, HasStatus, At, Off, ExitLabels
    <2>6. NoSelf(processes', current', cpu')
        <3>1. NoSelf(processes, current, cpu')
            BY <1>0, <2>3, MovedNoSelf DEF At
        <3>2. QED
            BY <2>1, <2>2, <2>3, <2>4, <3>1, ProcessNotNull DEF NoSelf, NotOwnChild, Where
    <2>7. LifeStep
        <3> SUFFICES ASSUME NEW p \in Pid
                     PROVE  LifeOf(processes', p) \in Life!Follows[LifeOf(processes, p)]
            BY DEF LifeStep
        <3>1. CASE p = current
            <4>1. LifeOf(processes', p) = "TERMINATED" /\ LifeOf(processes, p) = "RUNNING"
                BY <2>1, <2>2, <2>4, <3>1, ProcessNotNull DEF LifeOf, HasStatus
            <4>2. QED
                BY <4>1 DEF Life!Follows
        <3>2. CASE p # current
            <4>1. LifeOf(processes', p) = LifeOf(processes, p)
                BY <2>4, <3>2 DEF LifeOf
            <4>2. LifeOf(processes, p) \in Statuses \cup {"ABSENT"}
                BY <1>0 DEF LifeOf, Table, Process
            <4>3. QED
                BY <4>1, <4>2 DEF Life!Follows, Statuses
        <3>3. QED
            BY <3>1, <3>2
    <2>8. Handed
        BY <2>1, <2>2, <2>4, ProcessNotNull DEF Handed, HasStatus
    <2>9. QED
        BY <2>5, <2>6, <2>7, <2>8 DEF Outcome
<1>5. ASSUME NEW pid \in Pid, KillProcess(pid) PROVE Outcome
    BY <1>5, KillOutcome DEF KillProcess
<1>6. ASSUME NEW pid \in Pid, BlockProcess(pid) PROVE Outcome
    <2>1. /\ processes[pid] # NULL /\ processes[pid] \in Process /\ pid # INIT_PID
          /\ processes[pid].status # "TERMINATED"
        BY <1>0, <1>6 DEF BlockProcess, MayBlock, Table
    <2> DEFINE r == [processes[pid] EXCEPT !.status = "BLOCKED"]
               t == [processes EXCEPT ![pid].status = "BLOCKED"]
    <2>2. /\ t = [processes EXCEPT ![pid] = r] /\ r \in Process /\ r.status = "BLOCKED"
          /\ r.parent_pid = processes[pid].parent_pid
          /\ r.stack_pointer = processes[pid].stack_pointer
        BY <1>0, <2>1 DEF Table, Process, Statuses
    <2> HIDE DEF r
    <2>3. t \in Table /\ t[pid] = r /\ \A p \in Pid : p # pid => t[p] = processes[p]
        BY <1>0, <2>2 DEF Table
    <2>4. ChangedTable(processes, t)
        BY <2>1, <2>2, <2>3, ProcessNotNull DEF ChangedTable, Changed, Slight
    <2>5. NoSelf(t, current, cpu)
        BY <1>0, <2>4, ChangedNoSelf
    <2>6. \/ Schedule(t, size, cpu, TRUE)
          \/ pid # current /\ Return(t, size)
        BY <1>6 DEF BlockProcess, YieldWith
    <2> HIDE DEF t
    <2>7. CASE Schedule(t, size, cpu, TRUE)
        BY <1>0, <2>3, <2>4, <2>5, <2>7, ScheduleOutcome
    <2>8. CASE pid # current /\ Return(t, size)
        <3>1. processes' = t /\ current' = current /\ cpu' = cpu
            BY <2>8 DEF Return
        <3>2. current \in Pid /\ HasStatus(processes, current, "RUNNING")
                 => HasStatus(t, current, "RUNNING")
            BY <2>3, <2>8 DEF HasStatus
        <3>3. QED
            BY <2>3, <2>4, <3>1, <3>2, GoOnOutcome
    <2>9. QED
        BY <2>6, <2>7, <2>8
<1>7. ASSUME NEW pid \in Pid, UnblockProcess(pid) PROVE Outcome
    <2>1. Return(Unblocked(processes, pid), size)
        BY <1>7 DEF UnblockProcess
    <2>2. /\ Unblocked(processes, pid) \in Table
          /\ SlightTable(processes, Unblocked(processes, pid))
          /\ \A p \in Pid : processes[p] # NULL => Unblocked(processes, pid)[p] # NULL
        BY <1>0, UnblockedEffect, SlightHelpers DEF Woken
    <2>3. QED
        BY <2>1, <2>2, ReturnOutcome DEF HasStatus
<1>8. ASSUME NEW pid \in Pid, WaitPid(pid) PROVE Outcome
    <2>1. /\ current \in Pid /\ current # INIT_PID /\ processes[current] \in Process
          /\ HasStatus(processes, current, "RUNNING") /\ cpu.at = "user"
        BY <1>8, <1>c DEF WaitPid
    <2>2. /\ pid # current /\ pid # INIT_PID
        <3>1. processes[pid] # NULL /\ processes[pid].parent_pid = current
            BY <1>8 DEF WaitPid
        <3>2. pid # current
            BY <1>0, <3>1 DEF NoSelf, NotOwnChild
        <3>3. pid # INIT_PID
            BY <2>1, <3>1, NowFacts, PidFacts
        <3>4. QED
            BY <3>2, <3>3
    <2>3. CASE processes[pid].status = "TERMINATED"
        BY <1>8, <2>1, <2>2, <2>3, FinishWaitOutcome DEF WaitPid
    <2>4. CASE processes[pid].status # "TERMINATED"
        <3> DEFINE r == [processes[current] EXCEPT !.waiting_for_pid = pid,
                                                   !.status = "BLOCKED"]
                   t == [processes EXCEPT ![current].waiting_for_pid = pid,
                                          ![current].status = "BLOCKED"]
                   d == AtWith("waitPid", pid)
        <3>1. /\ t = [processes EXCEPT ![current] = r] /\ r \in Process
              /\ r.status = "BLOCKED" /\ r.parent_pid = processes[current].parent_pid
              /\ r.stack_pointer = processes[current].stack_pointer
            BY <1>0, <2>1 DEF Table, Process, Statuses
        <3> HIDE DEF r
        <3>2. t \in Table /\ t[current] = r /\ \A p \in Pid : p # current => t[p] = processes[p]
            BY <1>0, <2>1, <3>1 DEF Table
        <3>3. ChangedTable(processes, t)
            BY <2>1, <3>1, <3>2, ProcessNotNull
               DEF ChangedTable, Changed, Slight, HasStatus
        <3>4. d \in Context /\ d.at = "waitPid" /\ d.arg = pid
            BY PidInContext DEF AtWith, Context, Labels
        <3>7. Schedule(t, size, d, TRUE)
            BY <1>8, <2>4 DEF WaitPid, YieldWith
        <3> HIDE DEF t, d
        <3>8. NoSelf(t, current, d)
            <4>1. NoSelf(t, current, cpu)
                BY <1>0, <3>3, ChangedNoSelf
            <4>2. QED
                BY <2>2, <3>4, <4>1, MovedNoSelf
        <3>9. QED
            BY <1>0, <3>2, <3>3, <3>4, <3>7, <3>8, ScheduleOutcome
    <2>5. QED
        BY <2>3, <2>4
<1>9. ASSUME NEW pid \in Pid, NEW x \in Priorities, SetPriority(pid, x) PROVE Outcome
    <2> DEFINE r == [processes[pid] EXCEPT !.priority = x, !.remaining_quantum = x]
               t == [processes EXCEPT ![pid].priority = x, ![pid].remaining_quantum = x]
    <2>1. processes[pid] # NULL /\ Return(t, size)
        BY <1>9 DEF SetPriority
    <2>2. processes[pid] \in Process /\ x \in 0 .. MAX_PRIORITY
        BY <1>0, <2>1, MaxPriorityAssumption DEF Table, Priorities, MIN_PRIORITY
    <2>3. /\ t = [processes EXCEPT ![pid] = r] /\ r \in Process
          /\ r.status = processes[pid].status
          /\ r.parent_pid = processes[pid].parent_pid
          /\ r.stack_pointer = processes[pid].stack_pointer
        BY <1>0, <2>2 DEF Table, Process
    <2> HIDE DEF r
    <2>4. t \in Table /\ t[pid] = r /\ \A p \in Pid : p # pid => t[p] = processes[p]
        BY <1>0, <2>3 DEF Table
    <2> HIDE DEF t
    <2>5. SlightTable(processes, t)
        BY <2>1, <2>3, <2>4, ProcessNotNull DEF SlightTable, Slight
    <2>6. \A p \in Pid : processes[p] # NULL => t[p] # NULL
        BY <2>3, <2>4, ProcessNotNull
    <2>7. QED
        BY <2>1, <2>4, <2>5, <2>6, ReturnOutcome DEF HasStatus
<1>10. QED
    BY <1>1, <1>2, <1>3, <1>4, <1>5, <1>6, <1>7, <1>8, <1>9 DEF SystemCall

\* The kernel code that runs with interrupts on.
LEMMA KernelStepOutcome ==
    ASSUME Now, KernelStep PROVE Outcome
<1>0. /\ processes \in Table /\ cpu \in Context /\ current \in Pid \cup {NO_PID}
      /\ size # 0 /\ NoSelf(processes, current, cpu)
      /\ current # NO_PID => GoodContext(current, cpu)
      /\ current = NO_PID <=> cpu.at = "boot"
    BY NowFacts, NeverZero
<1>s. ChangedTable(processes, processes)
    BY <1>0, PidFacts, SlightHelpers, SlightChanged
<1>1. CASE InitMain
    <2> DEFINE r == NewProcess(current, TRUE, "user")
    <2>1. PICK p \in FirstFree(processes) : processes' = [processes EXCEPT ![p] = r]
        BY <1>1 DEF InitMain
    <2>2. /\ p \in Pid /\ processes[p] = NULL /\ cpu.at = "start"
          /\ current' = current /\ cpu'.at = "countLoad"
        BY <1>1, <2>1 DEF InitMain, Executing, FirstFree, Goto, At
    <2>3. r \in Process
        BY <1>0, NewProcessType DEF Labels
    <2>4. /\ r.status = "READY" /\ r.parent_pid = current /\ r.stack_pointer.at = "user"
        BY DEF NewProcess, At
    <2> HIDE DEF r
    <2>5. QED
        BY <2>1, <2>2, <2>3, <2>4, FreshOutcome
<1>2. CASE WaitPidResume
    <2>1. /\ current \in Pid /\ processes[current] # NULL /\ FinishWait(cpu.arg)
          /\ cpu.at = "waitPid"
        BY <1>2 DEF WaitPidResume, Executing
    <2>2. cpu.arg \in Pid /\ cpu.arg # INIT_PID
        BY <1>0, <2>1, PidFacts DEF GoodContext, Reserved
    <2>3. cpu.arg # current
        BY <1>0, <2>1 DEF NoSelf, NotOwnChild, Where
    <2>4. QED
        BY <2>1, <2>2, <2>3, FinishWaitOutcome
<1>3. CASE ExitWakeParent
    <2>1. /\ current \in Pid /\ current' = current /\ cpu' = At("exitRemove")
          /\ cpu.at = "exitWake"
          /\ processes' = IF processes[current] = NULL THEN processes
                          ELSE ParentWoken(processes, current)
        BY <1>3 DEF ExitWakeParent, Executing, Goto
    <2>2. Off(current, cpu) /\ Off(current, cpu') /\ cpu'.at # "waitPid"
        BY <2>1 DEF Off, ExitLabels, At
    <2>3. ~HasStatus(processes, current, "RUNNING")
        BY <2>1, <2>2, OffTableNobody
    <2>4. processes' \in Table /\ ChangedTable(processes, processes')
        BY <1>0, <1>s, <2>1, ParentWokenEffect, SlightHelpers, SlightChanged
    <2>5. QED
        BY <2>1, <2>2, <2>3, <2>4, GoOnOutcome
<1>4. CASE ExitRemove
    <2>1. /\ current \in Pid /\ cpu.at = "exitRemove"
          /\ RemoveBegins(current, At("exitYield"))
        BY <1>4 DEF ExitRemove, Executing
    <2>2. current # INIT_PID
        BY <1>0, <2>1, PidFacts DEF GoodContext, ExitLabels, Reserved
    <2>3. Off(current, At("exitYield")) /\ At("exitYield").at # "waitPid"
        BY DEF Off, ExitLabels, At
    <2>4. QED
        BY <2>1, <2>2, <2>3, RemoveBeginsOutcome
<1>5. CASE ExitYield
    <2>1. Schedule(processes, size, cpu, TRUE)
        BY <1>5 DEF ExitYield, YieldWith
    <2>2. QED
        BY <1>0, <1>s, <2>1, ScheduleOutcome
<1>6. CASE ReapRemove
    <2>1. cpu.at = "reapRemove" /\ RemoveBegins(cpu.arg, At("idle"))
        BY <1>6 DEF ReapRemove, Executing
    <2>2. cpu.arg \in Pid /\ ~Off(current, cpu) /\ At("idle").at # "waitPid"
        BY <1>0, <2>1, PidFacts DEF GoodContext, Off, ExitLabels, Taking, At
    <2>3. QED
        BY <2>1, <2>2, RemoveBeginsOutcome
<1>7. CASE EmptySlot
    BY <1>7, EmptySlotOutcome
<1>8. CASE LoadSize \/ LoadCount
    <2>1. /\ processes' = processes /\ current' = current
          /\ \/ cpu.at = "sizeLoad" /\ cpu'.at = "sizeStore"
             \/ cpu.at = "countLoad" /\ cpu'.at = "countStore"
        BY <1>8 DEF LoadSize, LoadCount, Executing, Goto, AtWith
    <2>2. cpu'.at # "waitPid" /\ (Off(current, cpu) => Off(current, cpu'))
        BY <2>1 DEF Off, ExitLabels, Taking
    <2>3. QED
        BY <2>1, <2>2, MoveOutcome
<1>9. CASE StoreSize
    <2>1. /\ processes' = processes /\ current' = current /\ cpu.at = "sizeStore"
          /\ cpu' = At(IF current = INIT_PID THEN "idle" ELSE "exitYield")
        BY <1>9 DEF StoreSize, Executing, Goto
    <2>2. /\ cpu'.at \in {"idle", "exitYield"}
          /\ current # INIT_PID => cpu'.at = "exitYield"
        BY <2>1 DEF At
    <2>3. cpu'.at # "waitPid" /\ (Off(current, cpu) => Off(current, cpu'))
        BY <2>1, <2>2 DEF Off, ExitLabels
    <2>4. QED
        BY <2>1, <2>3, MoveOutcome
<1>10. CASE StoreCount
    <2>1. /\ processes' = processes /\ current' = current /\ cpu.at = "countStore"
          /\ cpu'.at = "prio"
        BY <1>10 DEF StoreCount, Executing, Goto, At
    <2>2. ~Off(current, cpu)
        BY <2>1 DEF Off, ExitLabels, Taking
    <2>3. QED
        BY <2>1, <2>2, MoveOutcome
<1>11. CASE InitSetPriority
    <2>1. /\ current' = current /\ cpu.at = "prio" /\ cpu'.at = "idle"
          /\ processes' = IF processes[SHELL_PID] = NULL THEN processes
                          ELSE [processes EXCEPT ![SHELL_PID].priority = MAX_PRIORITY,
                                    ![SHELL_PID].remaining_quantum = MAX_PRIORITY]
        BY <1>11 DEF InitSetPriority, Executing, Goto, At
    <2>2. ~Off(current, cpu)
        BY <2>1 DEF Off, ExitLabels, Taking
    <2>3. CASE processes[SHELL_PID] = NULL
        BY <2>1, <2>2, <2>3, MoveOutcome
    <2>4. CASE processes[SHELL_PID] # NULL
        <3> DEFINE r == [processes[SHELL_PID] EXCEPT !.priority = MAX_PRIORITY,
                                                     !.remaining_quantum = MAX_PRIORITY]
        <3>1. processes[SHELL_PID] \in Process
            BY <1>0, <2>4, PidFacts DEF Table
        <3>2. MAX_PRIORITY \in Priorities /\ MAX_PRIORITY \in 0 .. MAX_PRIORITY
            BY MaxPriorityAssumption DEF Priorities, MIN_PRIORITY
        <3>3. /\ r \in Process /\ r.status = processes[SHELL_PID].status
              /\ r.parent_pid = processes[SHELL_PID].parent_pid
              /\ r.stack_pointer = processes[SHELL_PID].stack_pointer
            BY <3>1, <3>2 DEF Process
        <3>4. processes' = [processes EXCEPT ![SHELL_PID] = r]
            BY <1>0, <2>1, <2>4, PidFacts DEF Table
        <3> HIDE DEF r
        <3>5. /\ processes' \in Table /\ processes'[SHELL_PID] = r
              /\ \A p \in Pid : p # SHELL_PID => processes'[p] = processes[p]
            BY <1>0, <3>3, <3>4, PidFacts DEF Table
        <3>6. SlightTable(processes, processes')
            BY <2>4, <3>3, <3>5, ProcessNotNull DEF SlightTable, Slight
        <3>7. current \in Pid /\ HasStatus(processes, current, "RUNNING")
                 => HasStatus(processes', current, "RUNNING")
            BY <3>3, <3>5, ProcessNotNull DEF HasStatus
        <3>8. QED
            BY <2>1, <2>2, <3>5, <3>6, <3>7, SlightChanged, GoOnOutcome
    <2>5. QED
        BY <2>3, <2>4
<1>12. ASSUME NEW pid \in Pid, ReapFind(pid) PROVE Outcome
    <2>1. /\ processes' = processes /\ current' = current
          /\ cpu'.at = "reapRemove" /\ cpu.at = "idle"
        BY <1>12 DEF ReapFind, Executing, Goto, AtWith
    <2>2. ~Off(current, cpu)
        BY <2>1 DEF Off, ExitLabels, Taking
    <2>3. QED
        BY <2>1, <2>2, MoveOutcome
<1>13. QED
    BY <1>1, <1>2, <1>3, <1>4, <1>5, <1>6, <1>7, <1>8, <1>9, <1>10, <1>11, <1>12
       DEF KernelStep

\* Every step leaves one process with the CPU and follows the arrows of ProcessLife.
LEMMA NextOutcome ==
    ASSUME Now, [Next]_vars PROVE Outcome
<1>0. /\ processes \in Table /\ cpu \in Context /\ force_reschedule \in BOOLEAN
      /\ size # 0 /\ NoSelf(processes, current, cpu)
      /\ ChangedTable(processes, processes)
    BY NowFacts, NeverZero, PidFacts, SlightHelpers, SlightChanged
<1>1. CASE TimerTick
    <2>1. Schedule(processes, size, cpu, force_reschedule)
        BY <1>1 DEF TimerTick
    <2>2. QED
        BY <1>0, <2>1, ScheduleOutcome
<1>2. CASE KillForegroundProcess
    BY <1>2, KillOutcome DEF KillForegroundProcess
<1>3. CASE SystemCall
    BY <1>3, SystemCallOutcome
<1>4. CASE KernelStep
    BY <1>4, KernelStepOutcome
<1>5. CASE UNCHANGED vars \/ MemoryTaken
    <2>1. processes' = processes /\ current' = current /\ cpu' = cpu
        BY <1>5 DEF vars, MemoryTaken
    <2>2. QED
        BY <1>0, <2>1, GoOnOutcome
<1>6. QED
    BY <1>1, <1>2, <1>3, <1>4, <1>5 DEF Next, NotFollowed

\* The invariant of this module holds from boot on.
THEOREM CpuInvariance == Spec => []LInv
<1>1. Init => LInv
    <2> SUFFICES ASSUME Init PROVE LInv
        OBVIOUS
    <2>1. FInv /\ CInv
        BY InitGood, InitMatched, InitCounted DEF FInv, CInv, CountedNow
    <2>2. OneCpu(processes, current, cpu)
        BY PidFacts DEF Init, OneCpu, HasStatus, NewProcess, At, Off
    <2>3. NoSelf(processes, current, cpu)
        BY PidFacts DEF Init, NoSelf, NotOwnChild, Where, NewProcess, At
    <2>4. QED
        BY <2>1, <2>2, <2>3 DEF LInv
<1>2. LInv /\ [Next]_vars => LInv'
    <2> SUFFICES ASSUME LInv, [Next]_vars PROVE LInv'
        OBVIOUS
    <2>1. FInv' /\ CInv'
        BY NextKeeps, NextCounted DEF LInv
    <2>2. harm' = "none" => harm = "none"
        BY HarmOnly
    <2>3. harm = "none" => Outcome
        BY NextOutcome DEF Now
    <2>4. QED
        BY <2>1, <2>2, <2>3 DEF LInv, Outcome
<1>3. QED
    BY <1>1, <1>2, PTL DEF Spec

\* Until a race does harm, the CPU executes a process only while it is RUNNING, and myExit's
\* tail only for a process that has terminated or left the table.
THEOREM CpuAlwaysRunsItsProcess == Spec => []CpuRunsItsProcess
<1>1. LInv => CpuRunsItsProcess
    <2> SUFFICES ASSUME Now PROVE CpuRunsItsProcess
        BY DEF Now, CpuRunsItsProcess
    <2>1. /\ OneCpu(processes, current, cpu) /\ Matched(processes, current, cpu)
          /\ current # NO_PID <=> cpu.at # "boot"
          /\ current \in Pid \cup {NO_PID} /\ Held(processes, current, cpu)
          /\ current # NO_PID => GoodContext(current, cpu)
        BY NowFacts DEF Counted
    <2>2. cpu.at \in {"start", "countLoad", "countStore", "prio", "idle", "reapRemove",
                      "user", "waitPid"} => HasStatus(processes, current, "RUNNING")
        BY <2>1 DEF OneCpu, Off, ExitLabels, Taking
    <2>3. cpu.at \in {"emptySlot", "sizeLoad", "sizeStore"} /\ current = INIT_PID
             => HasStatus(processes, current, "RUNNING")
        BY <2>1 DEF OneCpu, Off, ExitLabels, Taking
    <2>4. current \in Pid /\ processes[current] # NULL
             => Matches(current, processes[current].status, cpu.at)
        BY <2>1 DEF Matched, Where
    <2>5. cpu.at \in {"exitWake", "exitRemove"}
             => processes[current] = NULL \/ HasStatus(processes, current, "TERMINATED")
        BY <2>1, <2>4 DEF Matches, Finishing, HasStatus
    <2>6. cpu.at = "emptySlot" /\ current # INIT_PID
             => HasStatus(processes, current, "TERMINATED")
        BY <2>1, <2>4 DEF Matches, Finishing, HasStatus, Held, GoodContext
    <2>7. cpu.at \in {"sizeLoad", "sizeStore", "exitYield"} /\ current # INIT_PID
             => processes[current] = NULL
        BY <2>1, <2>4 DEF Matches, Taking
    <2>8. QED
        BY <2>1, <2>2, <2>3, <2>5, <2>6, <2>7 DEF CpuRunsItsProcess, OneCpu
<1>2. QED
    BY <1>1, CpuInvariance, PTL

\* Until a race does harm, the kernel implements ProcessLife: its table is always on the arrows
\* of the life cycle, and whoever stops running hands the CPU over or is finishing.
THEOREM KernelImplementsLife == Spec => ImplementsLife
<1>1. Init => Life!LifeInit
    <2> SUFFICES ASSUME Init, NEW p \in Pid
                 PROVE  LifeOf(processes, p) = IF p = INIT_PID THEN "READY" ELSE "ABSENT"
        BY DEF Life!LifeInit, LifeState, LifeOf
    <2>1. NewProcess(NO_PID, TRUE, "start") \in Process
        BY NewProcessType DEF Labels
    <2>2. QED
        BY <2>1, ProcessNotNull DEF Init, LifeOf, NewProcess
<1>2. LInv /\ LInv' /\ [Next]_vars => [harm' = "none" => Life!LifeNext]_LifeState
    <2> SUFFICES ASSUME LInv, LInv', [Next]_vars, harm' = "none" PROVE Life!LifeNext
        OBVIOUS
    <2>1. Outcome /\ Now
        BY HarmOnly, NextOutcome DEF Now
    <2>2. processes \in Table /\ processes' \in Table
        BY DEF LInv, FInv, IInv, GoodState
    <2>3. \A p \in Pid : /\ LifeOf(processes, p) \in Life!States
                         /\ LifeOf(processes', p) \in Life!States
        BY <2>2 DEF LifeOf, Table, Process, Statuses, Life!States
    <2>4. \A p, q \in Pid : LifeOf(processes', p) = "RUNNING" /\ LifeOf(processes', q) = "RUNNING"
                               => p = q
        BY <2>1 DEF Outcome, OneCpu, HasStatus, LifeOf
    <2>5. \A p \in Pid : LifeOf(processes, p) = "RUNNING" =>
             \/ LifeOf(processes', p) = "TERMINATED"
             \/ \E q \in Pid : LifeOf(processes', q) = "RUNNING"
        <3> SUFFICES ASSUME NEW p \in Pid, LifeOf(processes, p) = "RUNNING"
                     PROVE  \/ LifeOf(processes', p) = "TERMINATED"
                            \/ \E q \in Pid : LifeOf(processes', q) = "RUNNING"
            OBVIOUS
        <3>1. HasStatus(processes, p, "RUNNING") /\ p = current
            BY <2>1, NowFacts DEF OneCpu, HasStatus, LifeOf
        <3>2. QED
            BY <2>1, <3>1 DEF Outcome, Handed, HasStatus, LifeOf
    <2>6. QED
        BY <2>1, <2>3, <2>4, <2>5
           DEF Life!LifeNext, Life!OneRunning, Life!HandsOver, Outcome, LifeStep,
               LifeState, LifeOf
<1>3. QED
    BY <1>1, <1>2, CpuInvariance, PTL DEF Spec, ImplementsLife
====
