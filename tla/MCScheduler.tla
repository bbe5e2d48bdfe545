---- MODULE MCScheduler ----
(* Instances of Scheduler for TLC: slot 0 is init, slot 1 the shell, the    *)
(* others hold user processes.                                             *)
EXTENDS Scheduler

\* Commands that exit in either way, block, wake, wait for and kill each other.  No nice,
\* with which a process keeps the CPU as long as it wants; yield is a tick with the quantum
\* used up.  The shell does not leave its main loop.
Commands ==
    [p \in Pid |-> CASE p = INIT_PID -> {}
                     [] p = SHELL_PID -> {"new_process", "waitpid", "kill", "block", "unblock"}
                     [] OTHER -> {"sys_exit", "return", "kill", "block", "unblock", "waitpid"}]

\* Commands that create processes of their own, kill, block, and return from main.
Families ==
    [p \in Pid |-> CASE p = INIT_PID -> {}
                     [] p = SHELL_PID -> {"new_process", "waitpid", "unblock"}
                     [] OTHER -> {"new_process", "return", "kill", "block"}]

\* The shell starts commands, waits for them, renices or kills them; they run and exit.
ShellSession ==
    [p \in Pid |-> CASE p = INIT_PID -> {}
                     [] p = SHELL_PID -> {"new_process", "waitpid", "kill", "nice", "yield"}
                     [] OTHER -> {"sys_exit"}]

\* The shell waits for a command while a background program creates processes.
TwoCreators ==
    [p \in Pid |-> CASE p = INIT_PID -> {}
                     [] p = SHELL_PID -> {"new_process", "waitpid"}
                     [] OTHER -> {"new_process", "sys_exit"}]

====
