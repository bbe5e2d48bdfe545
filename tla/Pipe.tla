---- MODULE Pipe ----
(***************************************************************************)
(* 3_Kernel/2_libraries/pipes.c in use: the shell runs "writer | reader",  *)
(* waits for both and destroys the pipe.  The two semaphores of the pipe   *)
(* are what FifoSemaphores promises, plus their spinlocks.                 *)
(*                                                                         *)
(* A system call runs with interrupts off: "kernel" is the process inside  *)
(* one, nobody else runs before it blocks or returns.  The exit of a       *)
(* process whose main returned (exits = "return") runs with interrupts on  *)
(* and goes through send_pipe_eof in steps between which others run.       *)
(*                                                                         *)
(* pressedKey echoes Ctrl-S, Ctrl-D and Ctrl-C with sys_write(1, ..., 2),  *)
(* in the context of the process it interrupts: in the writer's the two    *)
(* bytes go into the pipe, and may have to wait for room, before the kill  *)
(* that Ctrl-C asks for.  Keys that interrupt the writer inside its        *)
(* preemptible exit are followed only as far as they hang it (EchoSpins).  *)
(***************************************************************************)
EXTENDS Integers, Sequences, FiniteSets, WaitQueue

CONSTANTS
    PIPE_SIZE,   \* 1024 in pipes.h
    MaxBytes,    \* bound of the model: the bytes the writer has to write; with more than
                 \* these in the pipe or read, no key is echoed into it
    Exits,       \* the ways the writer may end: "sys_exit", "return"
    CtrlC,       \* TRUE if the user presses Ctrl-C, Ctrl-D and Ctrl-S
    NULL

ASSUME SizesAssumption == PIPE_SIZE \in Nat \ {0} /\ MaxBytes \in Nat
ASSUME NullAssumption == NULL \notin {"writer", "reader", "shell"}
ASSUME ModesAssumption == Exits \subseteq {"sys_exit", "return"} /\ CtrlC \in BOOLEAN

Users == {"writer", "reader"}
Proc == Users \cup {"shell"}
EOF == 0   \* the bytes stored in the writer's name are 1, 2, 3, ... in that order

VARIABLES
    pipe,      \* buffer, positions and size; NULL before createPipe and after destroyPipe
    sem,       \* writeSem ("space") and readSem ("data")
    status,
    job,       \* what a process is doing in the pipe code, and how many bytes are left
    kernel,    \* the process inside a system call or the Ctrl-C handler, or NULL
    shell,     \* where the shell is
    exits,     \* how the writer will end
    written,   \* how many bytes have been stored in the writer's name, echoes included
    got,       \* what the reader has been given
    killed,    \* history: Ctrl-C has killed somebody
    hung       \* a process spins with interrupts off on a lock that nobody can release

vars == <<pipe, sem, status, job, kernel, shell, exits, written, got, killed, hung>>

Idle == [kind |-> "user", rest |-> 0, at |-> "user"]
Doing(kind, n, at) == [kind |-> kind, rest |-> n, at |-> at]

Init ==
    /\ pipe = NULL
    /\ sem = [s \in {"space", "data"} |-> [value |-> 0, waiters |-> <<>>, lock |-> NULL]]
    /\ status = [p \in Proc |-> IF p = "shell" THEN "READY" ELSE "ABSENT"]
    /\ job = [p \in Proc |-> Idle]
    /\ kernel = NULL /\ shell = "create"
    /\ exits \in Exits
    /\ written = 0 /\ got = <<>> /\ killed = FALSE /\ hung = FALSE

----------------------------------------------------------------------------
\* The ring and the semaphores

Next1(i) == (i + 1) % PIPE_SIZE

\* Variant with a bug: a byte is stored behind the one it should follow.
StoredAhead(byte) ==
    [pipe EXCEPT !.buffer[Next1(pipe.writePos)] = byte, !.writePos = Next1(@), !.size = @ + 1]
Stored(byte) ==
    [pipe EXCEPT !.buffer[pipe.writePos] = byte, !.writePos = Next1(@), !.size = @ + 1]
Fetched == [pipe EXCEPT !.readPos = Next1(@), !.size = @ - 1]

\* A read waits for data and gives space, every other job the other way round.
Takes(kind) == IF kind = "read" THEN "data" ELSE "space"
Gives(kind) == IF kind = "read" THEN "space" ELSE "data"

Queued(s, p) == [sem EXCEPT ![s].waiters = Append(@, p)]
Taken(s) == [sem EXCEPT ![s].value = @ - 1]

\* Variant with a bug: the token is given to a waiter and kept.
PostedAlways(s) == [sem EXCEPT ![s].value = @ + 1,
                               ![s].waiters = IF @ = <<>> THEN @ ELSE Tail(@)]
\* semPost: to the first that waits, who becomes READY if it is BLOCKED.
Posted(s) ==
    IF sem[s].waiters = <<>> THEN [sem EXCEPT ![s].value = @ + 1]
    ELSE [sem EXCEPT ![s].waiters = Tail(@)]
Awake(st, p) == [st EXCEPT ![p] = IF @ = "BLOCKED" THEN "READY" ELSE @]
WokenBy(s) == IF sem[s].waiters = <<>> THEN status ELSE Awake(status, Head(sem[s].waiters))

\* remove_process_from_all_semaphore_queues.
WithoutWaiter(p) ==
    [s \in DOMAIN sem |-> [sem[s] EXCEPT !.waiters = Without(@, p)]]

----------------------------------------------------------------------------
\* writePipe, readPipe and send_pipe_eof with interrupts off

MayRun(p) == status[p] = "READY" /\ kernel = NULL /\ ~hung
InUserCode(p) == MayRun(p) /\ job[p] = Idle
InCall(p, at) ==
    /\ status[p] = "READY" /\ kernel \in {NULL, p} /\ ~hung
    /\ job[p].at = at /\ job[p].kind # "return"

Enter(p, kind, n) ==
    /\ job' = [job EXCEPT ![p] = Doing(kind, n, "wait")]
    /\ kernel' = p

CallWrite ==
    /\ InUserCode("writer")
    /\ \E n \in 1 .. MaxBytes - written : Enter("writer", "write", n)
    /\ UNCHANGED <<pipe, sem, status, shell, exits, written, got, killed, hung>>
\* The reader reads byte by byte (getCharNoWait) and stops after EOF.
ReachedEof == got # <<>> /\ got[Len(got)] = EOF
CallRead ==
    /\ InUserCode("reader") /\ ~ReachedEof /\ Enter("reader", "read", 1)
    /\ UNCHANGED <<pipe, sem, status, shell, exits, written, got, killed, hung>>
\* pressedKey interrupts the writer: '^' and 0 (the first two bytes of a uint16_t array).
EchoKey ==
    /\ CtrlC /\ InUserCode("writer") /\ written <= MaxBytes
    /\ \/ Enter("writer", "write", 2)   \* Ctrl-S, Ctrl-D: back to the program
       \/ Enter("writer", "echo", 2)    \* Ctrl-C: killForegroundProcess comes next
    /\ UNCHANGED <<pipe, sem, status, shell, exits, written, got, killed, hung>>
\* The same inside send_pipe_eof of a writer that holds the lock of the semaphore.
EchoSpins ==
    /\ CtrlC /\ MayRun("writer") /\ sem["space"].lock = "writer"
    /\ hung' = TRUE
    /\ UNCHANGED <<pipe, sem, status, job, kernel, shell, exits, written, got, killed>>

\* Variant with a bug: the exit sends no EOF.
CallExitSilently ==
    /\ InUserCode("writer") /\ exits = "sys_exit"
    /\ status' = [status EXCEPT !["writer"] = "ABSENT",
                                !["shell"] = IF shell = "waitWriter" THEN "READY" ELSE @]
    /\ UNCHANGED <<pipe, sem, job, kernel, shell, exits, written, got, killed, hung>>
\* myExit of the writer: it may end before it has written everything.
CallExit ==
    /\ InUserCode("writer") /\ exits = "sys_exit" /\ Enter("writer", "exit", 1)
    /\ UNCHANGED <<pipe, sem, status, shell, exits, written, got, killed, hung>>

Spins(s) == sem[s].lock # NULL
SpinsForever(p) ==
    /\ \/ InCall(p, "wait") /\ Spins(Takes(job[p].kind))
       \/ InCall(p, "copy") /\ Spins(Gives(job[p].kind))
    /\ hung' = TRUE
    /\ UNCHANGED <<pipe, sem, status, job, kernel, shell, exits, written, got, killed>>

\* Variant with a bug: a process that has to wait is not put into the queue.
WaitUnqueued(p) ==
    LET s == Takes(job[p].kind)
    IN  /\ InCall(p, "wait") /\ ~Spins(s)
        /\ job' = [job EXCEPT ![p].at = "copy"]
        /\ \/ /\ sem[s].value > 0
              /\ sem' = Taken(s) /\ kernel' = p /\ UNCHANGED status
           \/ /\ sem[s].value = 0
              /\ sem' = sem /\ kernel' = NULL
              /\ status' = [status EXCEPT ![p] = "BLOCKED"]
        /\ UNCHANGED <<pipe, shell, exits, written, got, killed, hung>>

\* semWait.
Wait(p) ==
    LET s == Takes(job[p].kind)
    IN  /\ InCall(p, "wait") /\ ~Spins(s)
        /\ job' = [job EXCEPT ![p].at = "copy"]
        /\ \/ /\ sem[s].value > 0
              /\ sem' = Taken(s) /\ kernel' = p /\ UNCHANGED status
           \/ /\ sem[s].value = 0
              /\ sem' = Queued(s, p) /\ kernel' = NULL
              /\ status' = [status EXCEPT ![p] = "BLOCKED"]
        /\ UNCHANGED <<pipe, shell, exits, written, got, killed, hung>>

\* The shell's waitPid is over when the process it waits for ends or is killed.
Waiting == shell \in {"waitWriter", "waitReader"}
Target == IF shell = "waitWriter" THEN "writer" ELSE "reader"
ParentWoken(st, p) == IF Waiting /\ Target = p THEN Awake(st, "shell") ELSE st
\* Variant with a bug: the one that waits is not woken.
LeftSilently(st, p) == [st EXCEPT ![p] = "ABSENT"]
Left(st, p) == [ParentWoken(st, p) EXCEPT ![p] = "ABSENT"]

\* Once semWait has returned: one byte, then semPost; the call goes on, returns, finishes
\* the exit or the kill it is part of, or leads to the kill.
Copy(p) ==
    LET kind == job[p].kind
        more == job[p].rest > 1
    IN  /\ InCall(p, "copy") /\ ~Spins(Gives(kind)) /\ pipe # NULL
        /\ sem' = Posted(Gives(kind))
        /\ CASE kind = "read" ->
                    /\ got' = Append(got, pipe.buffer[pipe.readPos])
                    /\ pipe' = Fetched /\ UNCHANGED written
             [] kind \in {"write", "echo"} ->
                    /\ pipe' = Stored(written + 1)
                    /\ written' = written + 1 /\ UNCHANGED got
             [] OTHER -> pipe' = Stored(EOF) /\ UNCHANGED <<written, got>>
        /\ status' = CASE kind = "exit" -> Left(WokenBy("data"), "writer")
                       [] kind = "kill" -> [WokenBy("data") EXCEPT !["writer"] = "ABSENT"]
                       [] OTHER -> WokenBy(Gives(kind))
        /\ job' = IF more THEN [job EXCEPT ![p] = Doing(kind, @.rest - 1, "wait")]
                  ELSE IF kind = "echo" THEN [job EXCEPT ![p] = Doing("echo", 0, "kill")]
                  ELSE IF kind = "kill" THEN [job EXCEPT ![p] = Idle, !["writer"] = Idle]
                  ELSE [job EXCEPT ![p] = Idle]
        /\ kernel' = IF more \/ kind = "echo" THEN p ELSE NULL
        /\ UNCHANGED <<shell, exits, killed, hung>>

----------------------------------------------------------------------------
\* send_pipe_eof of a writer whose main returned: interrupts are on

\* The steps, and the one each leads to.
Step(at, to) ==
    /\ MayRun("writer") /\ job["writer"] = Doing("return", 1, at)
    /\ job' = [job EXCEPT !["writer"].at = to]
Locked(s) == [sem EXCEPT ![s].lock = "writer"]
Unlocked(s) == [sem EXCEPT ![s].lock = NULL]

ReturnFromMain ==
    /\ InUserCode("writer") /\ exits = "return"
    /\ job' = [job EXCEPT !["writer"] = Doing("return", 1, "acquire")]
    /\ UNCHANGED <<pipe, sem, status>>
EofSem ==
    /\ \/ Step("acquire", "test") /\ sem' = Locked("space")
       \/ Step("test", "taken") /\ sem["space"].value > 0 /\ sem' = Taken("space")
       \/ Step("test", "queued") /\ sem["space"].value = 0 /\ sem' = Queued("space", "writer")
       \/ Step("taken", "store") /\ sem' = Unlocked("space")
       \/ Step("queued", "block") /\ sem' = Unlocked("space")
       \/ Step("acquire2", "post") /\ sem' = Locked("data")
       \/ Step("release2", "finish") /\ sem' = Unlocked("data")
    /\ UNCHANGED <<pipe, status>>
EofBlock ==
    /\ Step("block", "store")
    /\ status' = [status EXCEPT !["writer"] = "BLOCKED"] /\ UNCHANGED <<pipe, sem>>
EofStore ==
    /\ Step("store", "acquire2") /\ pipe # NULL
    /\ pipe' = Stored(EOF) /\ UNCHANGED <<sem, status>>
EofPost ==
    /\ Step("post", "release2")
    /\ sem' = Posted("data") /\ status' = WokenBy("data") /\ UNCHANGED pipe
EofFinish ==
    /\ MayRun("writer") /\ job["writer"].at = "finish"
    /\ job' = [job EXCEPT !["writer"] = Idle]
    /\ status' = Left(status, "writer") /\ UNCHANGED <<pipe, sem>>

PreemptibleExit ==
    /\ ReturnFromMain \/ EofSem \/ EofBlock \/ EofStore \/ EofPost \/ EofFinish
    /\ UNCHANGED <<kernel, shell, exits, written, got, killed, hung>>

----------------------------------------------------------------------------
\* The reader's end, Ctrl-C and the shell

\* The reader writes to the screen: its exit sends no EOF.
ReaderExits ==
    /\ InUserCode("reader") /\ ReachedEof
    /\ status' = Left(status, "reader")
    /\ UNCHANGED <<pipe, sem, job, kernel, shell, exits, written, got, killed, hung>>

\* killForegroundProcess in the context of x, for whom no echo goes into the pipe, or after
\* the echo in the writer's; init runs when nobody else can.
Interrupted(x) ==
    IF x = "init"
    THEN /\ Target = "reader" /\ kernel = NULL /\ ~hung
         /\ \A p \in Proc : status[p] # "READY"
    ELSE x = "reader" /\ InUserCode(x)
\* To kill the writer x sends its EOF first, and may have to wait: the writer stays until
\* then.
Kill(x) ==
    /\ killed' = TRUE
    /\ sem' = WithoutWaiter(Target)
    /\ IF Target = "writer"
       THEN /\ status' = ParentWoken(status, "writer")
            /\ Enter(x, "kill", 1)
       ELSE /\ status' = Left(status, "reader")
            /\ job' = [job EXCEPT !["reader"] = Idle] /\ UNCHANGED kernel
Foreground == Waiting /\ status[Target] # "ABSENT"
KillForeground(x) ==
    /\ CtrlC /\ Interrupted(x) /\ Foreground /\ Kill(x)
    /\ UNCHANGED <<pipe, shell, exits, written, got, hung>>
EchoedKill ==
    /\ InCall("writer", "kill")
    /\ \/ Foreground /\ Kill("writer")
       \/ /\ ~Foreground
          /\ job' = [job EXCEPT !["writer"] = Idle] /\ kernel' = NULL
          /\ UNCHANGED <<sem, status, killed>>
    /\ UNCHANGED <<pipe, shell, exits, written, got, hung>>

ShellMoves(from, to) == MayRun("shell") /\ shell = from /\ shell' = to

CreatePipe ==
    /\ ShellMoves("create", "spawnWriter")
    /\ pipe' = [buffer |-> [i \in 0 .. PIPE_SIZE - 1 |-> NULL],
                readPos |-> 0, writePos |-> 0, size |-> 0]
    /\ sem' = [sem EXCEPT !["space"].value = PIPE_SIZE]
    /\ UNCHANGED <<status, job>>
Spawn ==
    /\ \/ /\ ShellMoves("spawnWriter", "spawnReader")
          /\ status' = [status EXCEPT !["writer"] = "READY"]
       \/ /\ ShellMoves("spawnReader", "callWaitWriter")
          /\ status' = [status EXCEPT !["reader"] = "READY"]
    /\ UNCHANGED <<pipe, sem, job>>
\* waitPid returns at once if there is no such process.
CallWait ==
    /\ \/ /\ status["writer"] # "ABSENT" /\ ShellMoves("callWaitWriter", "waitWriter")
          /\ status' = [status EXCEPT !["shell"] = "BLOCKED"]
       \/ /\ status["reader"] # "ABSENT" /\ ShellMoves("callWaitReader", "waitReader")
          /\ status' = [status EXCEPT !["shell"] = "BLOCKED"]
       \/ status["writer"] = "ABSENT" /\ ShellMoves("callWaitWriter", "callWaitReader")
          /\ UNCHANGED status
       \/ status["reader"] = "ABSENT" /\ ShellMoves("callWaitReader", "destroy")
          /\ UNCHANGED status
    /\ UNCHANGED <<pipe, sem, job>>
\* Variant with a bug: the shell does not wait for the second command.
WaitReturnsEarly ==
    /\ \/ ShellMoves("waitWriter", "destroy")
       \/ ShellMoves("waitReader", "destroy")
    /\ status' = [status EXCEPT ![Target] = "ABSENT"]
    /\ job' = [job EXCEPT ![Target] = Idle]
    /\ UNCHANGED <<pipe, sem>>
\* The end of waitPid removes the process if it is still there.
WaitReturns ==
    /\ \/ ShellMoves("waitWriter", "callWaitReader")
       \/ ShellMoves("waitReader", "destroy")
    /\ status' = [status EXCEPT ![Target] = "ABSENT"]
    /\ job' = [job EXCEPT ![Target] = Idle]
    /\ UNCHANGED <<pipe, sem>>
DestroyPipe ==
    /\ ShellMoves("destroy", "done")
    /\ pipe' = NULL /\ UNCHANGED <<sem, status, job>>

Shell ==
    /\ CreatePipe \/ Spawn \/ CallWait \/ WaitReturns \/ DestroyPipe
    /\ UNCHANGED <<kernel, exits, written, got, killed, hung>>

ProcessStep ==
    \/ CallWrite \/ CallRead \/ CallExit \/ ReaderExits \/ PreemptibleExit
    \/ EchoKey \/ EchoSpins \/ EchoedKill
    \/ \E p \in Users : SpinsForever(p) \/ Wait(p) \/ Copy(p)
Next == ProcessStep \/ Shell \/ \E x \in {"reader", "init"} : KillForeground(x)

Spec == Init /\ [][Next]_vars

\* Every READY process runs in the end (NoStarvation of Scheduler), and the programs do
\* what they have to do: the writer writes or exits, the reader reads or exits.
Fairness ==
    /\ WF_vars(Shell) /\ WF_vars(PreemptibleExit) /\ WF_vars(EchoedKill)
    /\ WF_vars(CallWrite \/ CallExit) /\ WF_vars(CallRead \/ ReaderExits)
    /\ \A p \in Users : WF_vars(Wait(p)) /\ WF_vars(Copy(p))
FairSpec == Spec /\ Fairness

----------------------------------------------------------------------------
\* Properties

\* The reader gets the bytes stored in the writer's name (its own, and the two of each key
\* echoed in its context), each once and in order, then EOF, and EOF means that it has got
\* all of them, also after a kill (readPipe, writePipe, send_pipe_eof).
StreamIntact ==
    /\ \A i \in DOMAIN got : got[i] = i \/ (got[i] = EOF /\ i = Len(got))
    /\ ReachedEof => Len(got) = written + 1

\* The tokens of the two semaphores, with those that processes have taken and not passed
\* on, are as many as the ring has cells: no interleaving makes or loses one.
HasToken(p) ==
    /\ job[p].at \in {"copy", "taken", "queued", "block", "store", "acquire2", "post"}
    /\ \A i \in DOMAIN sem[Takes(job[p].kind)].waiters :
           sem[Takes(job[p].kind)].waiters[i] # p
TokensFillRing ==
    pipe # NULL /\ ~killed =>
        sem["space"].value + sem["data"].value + Cardinality({p \in Users : HasToken(p)})
            = PIPE_SIZE

\* A process that sleeps in the pipe code is in the queue of a semaphore without tokens,
\* unless it is being killed: no wake-up is lost between the test and the block, if both
\* are in one system call.
BeingKilled(p) == p = "writer" /\ \E x \in Users : job[x].kind = "kill"
BlockedAreQueued ==
    exits = "sys_exit" =>
        \A p \in Users : status[p] = "BLOCKED" /\ ~BeingKilled(p) =>
            LET s == Takes(job[p].kind)
            IN  /\ \E i \in DOMAIN sem[s].waiters : sem[s].waiters[i] = p
                /\ sem[s].value = 0

\* When destroyPipe frees the pipe, nobody is inside writePipe, readPipe or send_pipe_eof,
\* and nobody will be.
DestroyedWhenUnused ==
    shell \in {"destroy", "done"} =>
        \A p \in Users : status[p] = "ABSENT" /\ job[p] = Idle

\* The shell sleeps only while the process it waits for is there to wake it, by its exit
\* or by being killed: even a pipeline that is stuck gives the prompt back after Ctrl-C.
ShellWaitsForSomebody == status["shell"] = "BLOCKED" => Waiting /\ status[Target] # "ABSENT"

\* A pipeline ends: the writer's exit brings the reader its EOF and the shell its prompt.
PipelineEnds == exits = "sys_exit" ~> shell = "done" \/ killed

\* A process that waits for a lock with interrupts off gets it: its holder is running.
NoDeadSpin == ~hung
====
