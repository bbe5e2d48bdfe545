---- MODULE Userland ----
(***************************************************************************)
(* The programs and the library of 4_Userland that need nothing of the     *)
(* kernel but what other modules have already: a behaviour is a run of one *)
(* of them.                                                                *)
(***************************************************************************)
EXTENDS Snake, CommandLine, Numbers, TestSync, ProcessList, KernelTests,
        Filters

VARIABLE program   \* the one that runs

vars == <<program, snakeVars, lineVars, numberVars, syncVars, listVars, testVars, filterVars>>

Programs == {"snake", "line", "number", "tsem", "ps", "test", "filter"}

\* A program that does not run stays in one of its initial states.
LineIdle == typed = <<>> /\ LineInit
NumberIdle == call = [f |-> "print_int", n |-> 0] /\ returned = FALSE /\ output = <<>>
SyncIdle == use_sem = FALSE /\ SyncInit
FilterIdle == tool = "cat" /\ text = <<>> /\ FilterInit
TestIdle == test = "ts" /\ count = 1 /\ TestInit

Init ==
    /\ program \in Programs
    /\ SnakeInit /\ ListInit
    /\ IF program = "line" THEN LineInit ELSE LineIdle
    /\ IF program = "number" THEN NumberInit ELSE NumberIdle
    /\ IF program = "tsem" THEN SyncInit ELSE SyncIdle
    /\ IF program = "test" THEN TestInit ELSE TestIdle
    /\ IF program = "filter" THEN FilterInit ELSE FilterIdle

Runs(one) ==
    /\ program = one /\ UNCHANGED program
    /\ one # "snake" => UNCHANGED snakeVars
    /\ one # "line" => UNCHANGED lineVars
    /\ one # "number" => UNCHANGED numberVars
    /\ one # "tsem" => UNCHANGED syncVars
    /\ one # "ps" => UNCHANGED listVars
    /\ one # "test" => UNCHANGED testVars
    /\ one # "filter" => UNCHANGED filterVars

Next ==
    \/ Runs("snake") /\ SnakeNext
    \/ Runs("line") /\ LineNext
    \/ Runs("number") /\ NumberNext
    \/ Runs("tsem") /\ SyncNext
    \/ Runs("ps") /\ ListNext
    \/ Runs("test") /\ TestNext
    \/ Runs("filter") /\ FilterChar

Spec == Init /\ [][Next]_vars
====
