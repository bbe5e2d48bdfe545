---- MODULE ProcessList ----
(***************************************************************************)
(* ps of stdLib.c, block of shellFunctions.c and processStatus of          *)
(* scheduler.c.  processStatus fills one static array in the kernel and    *)
(* returns its address; ps walks it twice, up to an entry with NO_PID, and *)
(* block up to the pid it was given, with interrupts on: another of them   *)
(* may have it filled again in the middle of a walk.  Of an entry only the *)
(* pid is kept.                                                            *)
(*                                                                         *)
(* The array has a cell for every slot, so a full table leaves none for    *)
(* the end mark, which processStatus then writes behind it.  What lies     *)
(* there belongs to others: reading it may give anything, and no further   *)
(* cell is told apart.                                                     *)
(***************************************************************************)
EXTENDS ProcessTable

CONSTANTS
    Walkers,       \* the processes that run ps
    Sought         \* the pids that block is asked for, also of processes there are not

ASSUME SoughtAssumption == Sought \subseteq Int

VARIABLES
    alive,         \* the slots that are taken
    processInfo,
    walk,          \* "idle", "sum" or "print"
    entry,         \* the entry a walker looks at
    block,         \* the shell's walk: what it looks for and at, and if nobody has listed since
    written,       \* history: the cells that have been filled since the listing of one that walks
    overrun        \* history: an end mark has been written behind the array

listVars == <<alive, processInfo, walk, entry, block, written, overrun>>

Cells == 0 .. MAX_PROCESSES - 1
Behind == MAX_PROCESSES
Places == 0 .. Behind

NotBlocking == [on |-> FALSE, pid |-> NO_PID, entry |-> 0, alone |-> FALSE]

ListInit ==
    /\ alive = {INIT_PID, SHELL_PID}
    /\ processInfo = [c \in Cells |-> 0]
    /\ walk = [w \in Walkers |-> "idle"]
    /\ entry = [w \in Walkers |-> 0]
    /\ block = NotBlocking
    /\ written = [w \in Walkers |-> {}] /\ overrun = FALSE

Entries == Cardinality(alive)
\* The pid of the entry c: processStatus goes through the slots in order.
PidAt(c) == CHOOSE p \in alive : Cardinality({q \in alive : q < p}) = c

\* Variant with a bug: the array is cleared first.
ListedAfresh ==
    [c \in Cells |-> IF c < Entries THEN PidAt(c) ELSE IF c = Entries THEN NO_PID ELSE 0]
\* processStatus.
Listed ==
    [c \in Cells |-> IF c < Entries THEN PidAt(c)
                     ELSE IF c = Entries THEN NO_PID ELSE processInfo[c]]
FilledCells == 0 .. Entries

processStatus ==
    /\ processInfo' = Listed
    /\ overrun' = (overrun \/ Entries = Behind)
    /\ UNCHANGED alive

Filled(v) == IF walk[v] = "idle" THEN written[v] ELSE written[v] \cup FilledCells

\* What a walk reads at a place.
PidsAt(place) == IF place \in Cells THEN {processInfo[place]} ELSE {NO_PID, 0}
After1(place) == IF place = Behind THEN Behind ELSE place + 1

\* ps begins, in a process; so does block, in the shell.
StartWalk(w) ==
    /\ walk[w] = "idle" /\ processStatus
    /\ walk' = [walk EXCEPT ![w] = "sum"] /\ entry' = [entry EXCEPT ![w] = 0]
    /\ written' = [v \in Walkers |-> IF v = w THEN FilledCells ELSE Filled(v)]
    /\ block' = [block EXCEPT !.alone = FALSE]
BlockLists ==
    /\ ~block.on /\ processStatus
    /\ \E pid \in Sought :
           block' = [on |-> TRUE, pid |-> pid, entry |-> 0, alone |-> pid \in alive]
    /\ written' = [v \in Walkers |-> Filled(v)]
    /\ UNCHANGED <<walk, entry>>
\* Its loop has no other end than the pid.
BlockLooks ==
    /\ block.on
    /\ \E pid \in PidsAt(block.entry) :
           block' = IF pid = block.pid THEN NotBlocking
                    ELSE [block EXCEPT !.entry = After1(@)]
    /\ UNCHANGED <<alive, processInfo, walk, entry, written, overrun>>

\* Its process is over: what it walked with is not used again.
Stops(w) ==
    /\ walk' = [walk EXCEPT ![w] = "idle"]
    /\ entry' = [entry EXCEPT ![w] = 0] /\ written' = [written EXCEPT ![w] = {}]

GoesOn(w) == entry' = [entry EXCEPT ![w] = After1(@)] /\ UNCHANGED <<walk, written>>

\* calculateTotalCPUTicks, and the loop that prints a row.
Sum(w) ==
    /\ walk[w] = "sum"
    /\ \E pid \in PidsAt(entry[w]) :
           IF pid = NO_PID
           THEN /\ walk' = [walk EXCEPT ![w] = "print"] /\ entry' = [entry EXCEPT ![w] = 0]
                /\ UNCHANGED written
           ELSE GoesOn(w)
    /\ UNCHANGED <<alive, processInfo, block, overrun>>
PrintRow(w) ==
    /\ walk[w] = "print"
    /\ \E pid \in PidsAt(entry[w]) : IF pid = NO_PID THEN Stops(w) ELSE GoesOn(w)
    /\ UNCHANGED <<alive, processInfo, block, overrun>>

\* Processes come and go; one that walks may be killed.
TableChanges ==
    /\ \E p \in Pid \ {INIT_PID, SHELL_PID} : alive' = (alive \ {p}) \cup ({p} \ alive)
    /\ UNCHANGED <<processInfo, walk, entry, block, written, overrun>>
WalkerKilled(w) ==
    walk[w] # "idle" /\ Stops(w) /\ UNCHANGED <<alive, processInfo, block, overrun>>

ListNext ==
    \/ BlockLists \/ BlockLooks \/ TableChanges
    \/ \E w \in Walkers : StartWalk(w) \/ Sum(w) \/ PrintRow(w) \/ WalkerKilled(w)

ListSpec == ListInit /\ [][ListNext]_listVars

----------------------------------------------------------------------------
\* Properties

Walks(w) == walk[w] \in {"sum", "print"}

\* However often the array is filled under a ps, with more entries or with fewer, there is an end
\* in the array ahead of it, and every row before that end was filled in by its own listing or by
\* a later one: ps neither leaves the array nor shows what an older listing has left behind, as
\* long as no listing has found the table full.  And block, whose loop ends at its pid only, finds
\* it in the array if its process was there and nobody has listed since.
WalksEnd ==
    /\ ~overrun => \A w \in Walkers : Walks(w) =>
           \E end \in Cells :
               /\ entry[w] <= end /\ processInfo[end] = NO_PID
               /\ entry[w] .. end \subseteq written[w]
    /\ block.alone => \E c \in Cells : block.entry <= c /\ processInfo[c] = block.pid
====
