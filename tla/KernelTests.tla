---- MODULE KernelTests ----
(***************************************************************************)
(* The tests of the process calls: ts (testProcess.c), which creates       *)
(* processes and kills, blocks and unblocks them at random with a record   *)
(* of its own of what they are, and tp (testPriority.c), which creates     *)
(* some, changes their priorities, blocks, unblocks and kills them.  Every *)
(* call is a step between which others run: the user at the shell starts   *)
(* processes and kills, blocks or unblocks any but the test.  The          *)
(* processes the tests create run for ever, so their exits are left out;   *)
(* READY stands for RUNNING too.                                           *)
(***************************************************************************)
EXTENDS ProcessTable, Sequences

CONSTANTS
    MaxChildren   \* the most processes ts is asked for; tp creates TOTAL_PROCESSES = 4

VARIABLES
    test,       \* "ts" or "tp"
    count,          \* how many processes it creates
    table,
    stage,
    rq,         \* the index of its loops
    p_rqs,      \* ts: pid and state; tp: the pid only
    reported,   \* the error it has ended with
    meddled     \* history: somebody else has killed or blocked a process of the test

testVars == <<test, count, table, stage, rq, p_rqs, reported, meddled>>

TEST_PID == 2
ERROR_PID == -1

ASSUME TestAssumption == MaxChildren \in Nat \ {0} /\ TEST_PID < MAX_PROCESSES

TestInit ==
    /\ test \in {"ts", "tp"} /\ count \in 1 .. MaxChildren
    /\ table = [p \in Pid |-> IF p = INIT_PID THEN NewProcess(NO_PID, TRUE, "start")
                              ELSE IF p \in {SHELL_PID, TEST_PID}
                              THEN NewProcess(p - 1, p = SHELL_PID, "start") ELSE NULL]
    /\ stage = "create" /\ rq = 1 /\ p_rqs = <<>>
    /\ reported = "none" /\ meddled = FALSE

----------------------------------------------------------------------------
\* The calls: the table after each, for a pid for which it does not return -1

MayKill(t, pid) == pid \in Pid /\ t[pid] # NULL /\ ~t[pid].unkillable
AfterKill(t, pid) == Removed(ParentWoken(Adopted(t, pid), pid), pid)
MayUnblock(t, pid) == pid \in Pid /\ HasStatus(t, pid, "BLOCKED")
Blocked(t, pid) == [t EXCEPT ![pid].status = "BLOCKED"]
MaySetPriority(t, pid, prio) == pid \in Pid /\ t[pid] # NULL /\ prio \in Priorities
Reniced(t, pid, prio) == [t EXCEPT ![pid].priority = prio, ![pid].remaining_quantum = prio]
Started(t, parent) ==
    IF FirstFree(t) = {} THEN t
    ELSE [t EXCEPT ![CHOOSE p \in FirstFree(t) : TRUE] = NewProcess(parent, FALSE, "user")]
PidOfNew(t) == IF FirstFree(t) = {} THEN ERROR_PID ELSE CHOOSE p \in FirstFree(t) : TRUE

Ends(why) == stage' = "ended" /\ reported' = why /\ UNCHANGED <<rq, p_rqs>>
\* The loops of both tests: the next index, or the next loop.
NextOr(next) ==
    IF rq < count THEN rq' = rq + 1 /\ UNCHANGED stage ELSE rq' = 1 /\ stage' = next
Pass(which, at) == test = which /\ stage = at /\ UNCHANGED <<test, count, meddled>>

----------------------------------------------------------------------------
\* ts

Alive == {k \in DOMAIN p_rqs : p_rqs[k].state # "TERMINATED"}

Create ==
    /\ Pass("ts", "create") /\ table' = Started(table, TEST_PID)
    /\ IF PidOfNew(table) = ERROR_PID THEN Ends("create")
       ELSE /\ p_rqs' = Append(p_rqs, [pid |-> PidOfNew(table), state |-> "RUNNING"])
            /\ NextOr("act") /\ UNCHANGED reported

Acts == Pass("ts", "act")
Killed ==
    /\ Acts /\ p_rqs[rq].state # "TERMINATED"
    /\ IF MayKill(table, p_rqs[rq].pid)
       THEN /\ table' = AfterKill(table, p_rqs[rq].pid)
            /\ p_rqs' = [p_rqs EXCEPT ![rq].state = "TERMINATED"]
            /\ NextOr("unblock") /\ UNCHANGED reported
       ELSE Ends("kill") /\ UNCHANGED table
Block ==
    /\ Acts /\ p_rqs[rq].state = "RUNNING"
    /\ IF MayBlock(table, p_rqs[rq].pid)
       THEN /\ table' = Blocked(table, p_rqs[rq].pid)
            /\ p_rqs' = [p_rqs EXCEPT ![rq].state = "BLOCKED"]
            /\ NextOr("unblock") /\ UNCHANGED reported
       ELSE Ends("block") /\ UNCHANGED table
ActsNot ==
    /\ Acts /\ p_rqs[rq].state # "RUNNING"
    /\ NextOr("unblock") /\ UNCHANGED <<table, p_rqs, reported>>

\* Variant with a bug: what has been unblocked is still recorded as blocked.
UnblockForgotten ==
    /\ Pass("ts", "unblock") /\ p_rqs[rq].state = "BLOCKED"
    /\ table' = Unblocked(table, p_rqs[rq].pid)
    /\ NextOr("round") /\ UNCHANGED <<p_rqs, reported>>
Unblock ==
    /\ Pass("ts", "unblock") /\ p_rqs[rq].state = "BLOCKED"
    /\ IF MayUnblock(table, p_rqs[rq].pid)
       THEN /\ table' = Unblocked(table, p_rqs[rq].pid)
            /\ p_rqs' = [p_rqs EXCEPT ![rq].state = "RUNNING"]
            /\ NextOr("round") /\ UNCHANGED reported
       ELSE Ends("unblock") /\ UNCHANGED table
UnblocksNot ==
    /\ Pass("ts", "unblock") /\ NextOr("round") /\ UNCHANGED <<table, p_rqs, reported>>

\* while (alive > 0), and the loop for ever around it.
Round ==
    /\ Pass("ts", "round")
    /\ IF Alive = {} THEN stage' = "create" /\ p_rqs' = <<>> ELSE stage' = "act" /\ UNCHANGED p_rqs
    /\ UNCHANGED <<table, rq, reported>>

----------------------------------------------------------------------------
\* tp, which goes on whatever a call returns

CreateAnyway ==
    /\ Pass("tp", "create") /\ table' = Started(table, TEST_PID)
    /\ p_rqs' = Append(p_rqs, PidOfNew(table))
    /\ NextOr("nice") /\ UNCHANGED reported
Nice(at, next, prio) ==
    /\ Pass("tp", at) /\ NextOr(next) /\ UNCHANGED <<p_rqs, reported>>
    /\ table' = IF MaySetPriority(table, p_rqs[rq], prio)
                THEN Reniced(table, p_rqs[rq], prio) ELSE table
BlockAnyway ==
    /\ Pass("tp", "block") /\ NextOr("niceBlocked") /\ UNCHANGED <<p_rqs, reported>>
    /\ table' = IF p_rqs[rq] \in Pid /\ MayBlock(table, p_rqs[rq])
                THEN Blocked(table, p_rqs[rq]) ELSE table
UnblockAnyway ==
    /\ Pass("tp", "unblock") /\ NextOr("kill") /\ UNCHANGED <<p_rqs, reported>>
    /\ table' = IF MayUnblock(table, p_rqs[rq]) THEN Unblocked(table, p_rqs[rq]) ELSE table
KillAnyway ==
    /\ Pass("tp", "kill") /\ NextOr("ended") /\ UNCHANGED <<p_rqs, reported>>
    /\ table' = IF MayKill(table, p_rqs[rq]) THEN AfterKill(table, p_rqs[rq]) ELSE table
tp ==
    \/ CreateAnyway \/ BlockAnyway \/ UnblockAnyway \/ KillAnyway
    \/ Nice("nice", "block", MIN_PRIORITY + ((rq - 1) % MAX_PRIORITY))
    \/ Nice("niceBlocked", "unblock", MIN_PRIORITY + 1)

----------------------------------------------------------------------------
\* The user

OfTest(pid) == table[pid] # NULL /\ table[pid].parent_pid = TEST_PID
Meddles(pid) ==
    meddled' = (meddled \/ OfTest(pid)) /\ UNCHANGED <<test, count, stage, rq, p_rqs, reported>>
UserStarts ==
    /\ table' = Started(table, SHELL_PID)
    /\ UNCHANGED <<test, count, stage, rq, p_rqs, reported, meddled>>
UserKills ==
    \E pid \in Pid \ {TEST_PID} :
        MayKill(table, pid) /\ table' = AfterKill(table, pid) /\ Meddles(pid)
UserBlocks ==
    \E pid \in Pid \ {TEST_PID, SHELL_PID} :
        /\ MayBlock(table, pid)
        /\ table' = IF MayUnblock(table, pid) THEN Unblocked(table, pid) ELSE Blocked(table, pid)
        /\ Meddles(pid)

TestNext ==
    \/ Create \/ Killed \/ Block \/ ActsNot \/ Unblock \/ UnblocksNot \/ Round
    \/ tp
    \/ UserStarts \/ UserKills \/ UserBlocks

TestSpec == TestInit /\ [][TestNext]_testVars

----------------------------------------------------------------------------
\* Properties

Agrees(k) ==
    LET pid == p_rqs[k].pid
    IN  CASE p_rqs[k].state = "RUNNING" -> OfTest(pid) /\ table[pid].status = "READY"
          [] p_rqs[k].state = "BLOCKED" -> OfTest(pid) /\ table[pid].status = "BLOCKED"
          [] OTHER -> ~OfTest(pid)
\* While nobody meddles with its processes, and others take and leave the slots around them and
\* those it has given back, the record of ts is what the kernel has, and ts ends with an error
\* only for want of a slot.  A round of ts leaves none of its processes behind, and neither does tp,
\* even when it could not create them all; a ts that ends for want of a slot leaves those it had
\* created.
TestsAgreeWithKernel ==
    ~meddled =>
        /\ reported \in {"none", "create"}
        /\ test = "ts" => \A k \in DOMAIN p_rqs : Agrees(k)
        /\ (test = "tp" /\ stage = "ended") \/ (test = "ts" /\ stage = "round" /\ Alive = {})
               => \A pid \in Pid : ~OfTest(pid)
====
