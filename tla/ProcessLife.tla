---- MODULE ProcessLife ----
(***************************************************************************)
(* What the kernel promises about the processes of a single CPU, whatever  *)
(* the scheduling policy: the life of a process, and that the CPU is       *)
(* always given to somebody.  The arrows are those of process_status_t in  *)
(* 6_NoMansLand/processInc.h, plus ABSENT for an empty slot of the table.  *)
(***************************************************************************)
CONSTANTS Pid, First   \* the slots, and the process there is at boot

VARIABLE state

States == {"ABSENT", "READY", "RUNNING", "BLOCKED", "TERMINATED"}

\* A new process starts READY; one that has terminated can only leave its slot.
\* BLOCKED to RUNNING: woken and given the CPU by the same handler.
Follows ==
    [ABSENT     |-> {"ABSENT", "READY"},
     READY      |-> {"READY", "RUNNING", "BLOCKED", "ABSENT"},
     RUNNING    |-> {"RUNNING", "READY", "BLOCKED", "TERMINATED", "ABSENT"},
     BLOCKED    |-> {"BLOCKED", "READY", "RUNNING", "ABSENT"},
     TERMINATED |-> {"TERMINATED", "ABSENT"}]

LifeInit == state = [p \in Pid |-> IF p = First THEN "READY" ELSE "ABSENT"]

OneRunning(s) == \A p, q \in Pid : s[p] = "RUNNING" /\ s[q] = "RUNNING" => p = q

\* Whoever stops running has handed the CPU to another process, or is finishing itself.
HandsOver ==
    \A p \in Pid : state[p] = "RUNNING" =>
        \/ state'[p] = "TERMINATED"
        \/ \E q \in Pid : state'[q] = "RUNNING"

LifeNext ==
    /\ state' \in [Pid -> States]
    /\ \A p \in Pid : state'[p] \in Follows[state[p]]
    /\ OneRunning(state')
    /\ HandsOver

LifeSpec == LifeInit /\ [][LifeNext]_state
====
