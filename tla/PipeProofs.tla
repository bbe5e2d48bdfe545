---- MODULE PipeProofs ----
(***************************************************************************)
(* Proofs about Pipe, for rings and writes of any size, either kind of     *)
(* exit, with and without Ctrl-C and the echo of the keys (but of one that *)
(* interrupts the writer inside its preemptible exit, see Pipe).           *)
(***************************************************************************)
EXTENDS Pipe, WaitQueueProofs, FiniteSetTheorems, TLAPS

Sems == {"space", "data"}
Cell == 0 .. PIPE_SIZE - 1
InCalls == {"wait", "copy", "kill"}
\* Where send_pipe_eof of a writer that returned from main is: before it has stored EOF, and
\* after.
BeforeEof == {"acquire", "test", "taken", "queued", "block", "store"}
AfterEof == {"acquire2", "post", "release2", "finish"}

Job == [kind : {"user", "write", "echo", "read", "exit", "kill", "return"}, rest : Nat,
        at : {"user"} \cup InCalls \cup BeforeEof \cup AfterEof]
Early == {"create", "spawnWriter", "spawnReader", "callWaitWriter"}
WithoutWriter == {"callWaitReader", "waitReader", "destroy", "done"}
ShellAt == Early \cup {"waitWriter"} \cup WithoutWriter
Ring == [buffer : [Cell -> Nat \cup {NULL}], readPos : Cell, writePos : Cell, size : 0 .. PIPE_SIZE]

Typed ==
    /\ sem \in [Sems -> [value : Nat, waiters : Seq(Users), lock : {NULL, "writer"}]]
    /\ status \in [Proc -> {"ABSENT", "READY", "BLOCKED"}]
    /\ job \in [Proc -> Job]
    /\ kernel \in Users \cup {NULL}
    /\ shell \in ShellAt
    /\ written \in Nat
    /\ got \in Seq(Nat)

\* What each process can be doing.
JobInv ==
    /\ job["shell"] = Idle
    /\ \A p \in Users :
        /\ job[p].kind = "user" <=> job[p].at = "user"
        /\ job[p].kind = "user" => job[p] = Idle
        /\ job[p].kind = "return" <=> job[p].at \in BeforeEof \cup AfterEof
        /\ job[p].kind = "return" => p = "writer" /\ exits = "return" /\ job[p].rest = 1
        /\ job[p].kind \in {"write", "echo", "exit"} => p = "writer"
        /\ job[p].kind = "read" => p = "reader"
        /\ job[p].kind \notin {"write", "echo"} => job[p].rest < 2
        /\ job[p].at = "kill" => job[p].kind = "echo"
        /\ status[p] = "ABSENT" => job[p] = Idle
        /\ job[p].at \in {"wait", "kill"} => kernel = p
        /\ kernel = p => status[p] = "READY" /\ job[p].at \in InCalls

\* How far the shell is, and whom it waits for.
ShellInv ==
    /\ status["shell"] # "ABSENT"
    /\ shell \in {"create", "spawnWriter"} => status["writer"] = "ABSENT"
    /\ shell \in {"create", "spawnWriter", "spawnReader"} => status["reader"] = "ABSENT"
    /\ shell \in WithoutWriter => status["writer"] = "ABSENT"
    /\ shell \in {"destroy", "done"} => status["reader"] = "ABSENT"
    /\ status["shell"] = "BLOCKED" => Waiting /\ status[Target] # "ABSENT"
    /\ status["shell"] = "READY" /\ Waiting => status[Target] = "ABSENT" \/ killed
    /\ killed => shell \notin Early
    /\ \A x \in Users : job[x].kind = "kill" =>
           killed /\ ~(status["shell"] = "BLOCKED" /\ shell = "waitWriter")

\* The queues: nobody is in one twice, who is in one sleeps there or is about to, and
\* whoever was removed while it slept is gone.
InQueue(s, p) == In(sem[s].waiters, p)
Sleeps(p) ==
    \/ job[p].at = "copy" /\ status[p] = "BLOCKED"
    \/ job[p].at \in {"queued", "block"}
    \/ job[p].at = "store" /\ status[p] = "BLOCKED"
QueueInv ==
    \A s \in Sems :
        /\ Distinct(sem[s].waiters)
        /\ sem[s].waiters # <<>> => sem[s].value = 0
        /\ \A p \in Users : InQueue(s, p) =>
               \/ status[p] = "ABSENT" /\ killed
               \/ Sleeps(p) /\ s = Takes(job[p].kind)
        /\ shell = "create" => sem[s].value = 0

\* The tokens never exceed the cells they stand for.
Held(s, p) ==
    IF /\ status[p] = "READY" /\ ~InQueue(s, p)
       /\ s = Takes(job[p].kind) /\ job[p].at \in {"copy", "taken", "store"}
    THEN 1 ELSE 0
\* 1 while send_pipe_eof of a writer that returned has stored EOF and not yet posted it.
Owed == IF job["writer"].at \in {"acquire2", "post"} THEN 1 ELSE 0
RoomInv ==
    shell \notin {"create", "done"} =>
        /\ pipe \in Ring
        /\ sem["space"].value + Held("space", "writer") + Held("space", "reader") + pipe.size
               <= PIPE_SIZE
        /\ sem["data"].value + Held("data", "reader") + Owed <= pipe.size

\* Item i of the stream: the bytes, then EOF.
Item(i) == IF i <= written THEN i ELSE EOF
EofStored == Len(got) + pipe.size > written
\* The byte that is m places behind the oldest one.
CellAt(m) == pipe.buffer[(pipe.readPos + m) % PIPE_SIZE]
StreamInv ==
    /\ \A i \in DOMAIN got : got[i] = Item(i)
    /\ Len(got) <= written + 1
    /\ job["reader"].kind = "read" => Len(got) <= written
    /\ shell \in {"create", "spawnWriter"} => got = <<>> /\ written = 0
    /\ shell = "create" => pipe = NULL
    /\ shell = "spawnWriter" => pipe.size = 0
    /\ shell \notin {"create", "done"} =>
        /\ pipe.writePos = (pipe.readPos + pipe.size) % PIPE_SIZE
        /\ \A m \in 0 .. pipe.size - 1 : CellAt(m) = Item(Len(got) + m + 1)
        /\ Len(got) + pipe.size >= written
        /\ EofStored => \/ status["writer"] = "ABSENT" \/ job["writer"].kind = "kill"
                        \/ job["writer"].at \in AfterEof
        /\ job["writer"].at \in AfterEof => EofStored

Token(p) == IF HasToken(p) THEN 1 ELSE 0
TokenInv ==
    ~killed /\ shell # "create" =>
        sem["space"].value + sem["data"].value + Token("writer") + Token("reader") = PIPE_SIZE

\* Whoever sleeps is queued, but for a writer that is being killed.
SleepInv ==
    exits = "sys_exit" =>
        \A p \in Users : status[p] = "BLOCKED" /\ ~BeingKilled(p) => InQueue(Takes(job[p].kind), p)

IInv ==
    /\ Typed /\ JobInv /\ ShellInv /\ QueueInv /\ RoomInv /\ StreamInv /\ TokenInv /\ SleepInv

----------------------------------------------------------------------------
\* Queues

\* What is in a queue of users with one more behind, without its head, and without one of them.
LEMMA Appended ==
    ASSUME NEW q \in Seq(Users), NEW p \in Users, Distinct(q), ~In(q, p)
    PROVE  /\ Append(q, p) \in Seq(Users) /\ Append(q, p) # <<>> /\ Distinct(Append(q, p))
           /\ \A r : In(Append(q, p), r) <=> In(q, r) \/ r = p
    BY QueueGrows

LEMMA Headless ==
    ASSUME NEW q \in Seq(Users), Distinct(q), q # <<>>
    PROVE  /\ Head(q) \in Users /\ In(q, Head(q))
           /\ Tail(q) \in Seq(Users) /\ Distinct(Tail(q))
           /\ \A r : In(Tail(q), r) <=> In(q, r) /\ r # Head(q)
    BY QueueMoves

LEMMA Removed ==
    ASSUME NEW q \in Seq(Users), Distinct(q), NEW p
    PROVE  /\ Without(q, p) \in Seq(Users) /\ Distinct(Without(q, p))
           /\ \A r : In(Without(q, p), r) <=> In(q, r) /\ r # p
           /\ q = <<>> => Without(q, p) = <<>>
    BY QueueWithout

SemType == [value : Nat, waiters : Seq(Users), lock : {NULL, "writer"}]

\* One field of one semaphore is given another value.
LEMMA SemValue ==
    ASSUME sem \in [Sems -> SemType], NEW s \in Sems, NEW v \in Nat
    PROVE  LET new == [sem EXCEPT ![s].value = v]
           IN  /\ new \in [Sems -> SemType]
               /\ \A t \in Sems : /\ new[t].value = IF t = s THEN v ELSE sem[t].value
                                  /\ new[t].waiters = sem[t].waiters
BY DEF SemType

\* One queue is replaced.
LEMMA SemWaiters ==
    ASSUME sem \in [Sems -> SemType], NEW s \in Sems, NEW q \in Seq(Users)
    PROVE  LET new == [sem EXCEPT ![s].waiters = q]
           IN  /\ new \in [Sems -> SemType]
               /\ \A t \in Sems : /\ new[t].value = sem[t].value
                                  /\ new[t].waiters = IF t = s THEN q ELSE sem[t].waiters
BY DEF SemType

\* One spinlock is taken or released: the values and the queues stay.
LEMMA SemLock ==
    ASSUME sem \in [Sems -> SemType], NEW s \in Sems, NEW l \in {NULL, "writer"}
    PROVE  LET new == [sem EXCEPT ![s].lock = l]
           IN  /\ new \in [Sems -> SemType]
               /\ \A t \in Sems : /\ new[t].value = sem[t].value
                                  /\ new[t].waiters = sem[t].waiters
BY DEF SemType

\* semPost: one token more, or the head of the queue leaves it with the token.
LEMMA PostOutcome ==
    ASSUME Typed, QueueInv, NEW s \in Sems
    PROVE  /\ Posted(s) \in [Sems -> SemType]
           /\ \A t \in Sems : t # s => /\ Posted(s)[t].waiters = sem[t].waiters
                                       /\ Posted(s)[t].value = sem[t].value
           /\ Distinct(Posted(s)[s].waiters)
           /\ \/ /\ Posted(s)[s].waiters = <<>> /\ \A p : ~InQueue(s, p)
                 /\ Posted(s)[s].value = sem[s].value + 1 /\ WokenBy(s) = status
              \/ \E h \in Users :
                   /\ InQueue(s, h) /\ Posted(s)[s].value = 0 /\ sem[s].value = 0
                   /\ \A p : In(Posted(s)[s].waiters, p) <=> InQueue(s, p) /\ p # h
                   /\ WokenBy(s) = Awake(status, h)
    <1>. DEFINE q == sem[s].waiters
    <1>1. sem \in [Sems -> SemType] /\ q \in Seq(Users) /\ sem[s].value \in Nat /\ Distinct(q)
        BY DEF Typed, SemType, QueueInv
    <1>2. CASE q = <<>>
        <2>1. Posted(s) = [sem EXCEPT ![s].value = sem[s].value + 1] /\ WokenBy(s) = status
            BY <1>2 DEF Posted, WokenBy
        <2>2. \A p : ~InQueue(s, p)
            BY <1>2 DEF InQueue, In
        <2>3. sem[s].value + 1 \in Nat
            BY <1>1
        <2>4. /\ Posted(s) \in [Sems -> SemType]
              /\ \A t \in Sems :
                    /\ Posted(s)[t].value = IF t = s THEN sem[s].value + 1 ELSE sem[t].value
                    /\ Posted(s)[t].waiters = sem[t].waiters
            BY <1>1, <2>1, <2>3, SemValue
        <2>. QED
            BY <1>1, <1>2, <2>1, <2>2, <2>4
    <1>3. CASE q # <<>>
        <2>1. Posted(s) = [sem EXCEPT ![s].waiters = Tail(q)] /\ WokenBy(s) = Awake(status, Head(q))
            BY <1>3 DEF Posted, WokenBy
        <2>2. /\ Head(q) \in Users /\ In(q, Head(q)) /\ Tail(q) \in Seq(Users)
              /\ Distinct(Tail(q)) /\ \A r : In(Tail(q), r) <=> In(q, r) /\ r # Head(q)
            BY <1>1, <1>3, Headless
        <2>3. sem[s].value = 0
            BY <1>3 DEF QueueInv
        <2>4. /\ Posted(s) \in [Sems -> SemType]
              /\ \A t \in Sems : /\ Posted(s)[t].value = sem[t].value
                                 /\ Posted(s)[t].waiters = IF t = s THEN Tail(q) ELSE sem[t].waiters
            <3>1. sem \in [Sems -> SemType] /\ Tail(q) \in Seq(Users)
                BY <1>1, <2>2
            <3>2. Posted(s) = [sem EXCEPT ![s].waiters = Tail(q)]
                BY <2>1
            <3>. DEFINE new == [sem EXCEPT ![s].waiters = Tail(q)]
            <3>3. /\ new \in [Sems -> SemType]
                  /\ \A t \in Sems : /\ new[t].value = sem[t].value
                                     /\ new[t].waiters = IF t = s THEN Tail(q) ELSE sem[t].waiters
                BY <3>1, SemWaiters
            <3>. QED
                BY <3>2, <3>3
        <2>. QED
            BY <2>1, <2>2, <2>3, <2>4 DEF InQueue
    <1>. QED
        BY <1>2, <1>3

\* Whoever runs in a call after its semWait is in no queue.
LEMMA CopyIsOut ==
    ASSUME JobInv, QueueInv, NEW p \in Users, InCall(p, "copy")
    PROVE  \A s \in Sems : ~InQueue(s, p)
BY DEF JobInv, QueueInv, InCall, Sleeps

\* The stream is where it was: nothing was stored or fetched, and no writer came to life.
LEMMA StreamStays ==
    ASSUME StreamInv, UNCHANGED <<pipe, got, written>>,
           shell' \in {"create", "spawnWriter"} => shell' = shell,
           shell' \notin {"create", "done"} => shell \notin {"create", "done"},
           job'["reader"].kind = "read" => job["reader"].kind = "read" \/ Len(got) <= written,
           \/ status'["writer"] = "ABSENT" \/ job'["writer"].kind = "kill"
              \/ job'["writer"].at \in AfterEof
           \/ /\ status["writer"] # "ABSENT" /\ job["writer"].kind # "kill"
              /\ job["writer"].at \notin AfterEof,
           job'["writer"].at \in AfterEof => job["writer"].at \in AfterEof
    PROVE  StreamInv'
BY DEF StreamInv, Item, EofStored, CellAt

\* A call begins.
LEMMA EnterKeeps ==
    ASSUME IInv, NEW p \in Users, NEW n \in Nat \ {0}, NEW kind,
           \/ kind \in {"write", "echo"} /\ p = "writer"
           \/ kind = "exit" /\ p = "writer" /\ n = 1
           \/ kind = "read" /\ p = "reader" /\ n = 1 /\ ~ReachedEof,
           InUserCode(p), Enter(p, kind, n),
           UNCHANGED <<pipe, sem, status, shell, exits, written, got, killed, hung>>
    PROVE  IInv'
    <1>1. /\ job[p] = Idle /\ status[p] = "READY" /\ kernel = NULL /\ kernel' = p
          /\ job' = [job EXCEPT ![p] = Doing(kind, n, "wait")]
        BY DEF InUserCode, MayRun, Enter
    <1>2. /\ Doing(kind, n, "wait") \in Job
          /\ \A r \in Proc : r # p => job'[r] = job[r]
          /\ job'[p].kind = kind /\ job'[p].at = "wait" /\ job'[p].rest = n
          /\ p \in Proc /\ "writer" \in Proc /\ "reader" \in Proc /\ "shell" \in Proc
        BY <1>1 DEF IInv, Typed, Job, Doing, Proc, Users, InCalls
    <1>3. job[p].kind = "user" /\ job[p].at = "user" /\ job[p].rest = 0
        BY <1>1 DEF Idle
    <1>4. Typed'
        BY <1>1, <1>2 DEF IInv, Typed
    <1>5. JobInv'
        BY <1>1, <1>2, NullAssumption
           DEF IInv, JobInv, Users, InCalls, BeforeEof, AfterEof, Typed
    <1>6. ShellInv'
        BY <1>1, <1>2, <1>3 DEF IInv, ShellInv, Waiting, Target, Users
    <1>7. \A s \in Sems : ~InQueue(s, p)
        BY <1>1, <1>3 DEF IInv, QueueInv, Sleeps
    <1>8. QueueInv'
        BY <1>1, <1>2, <1>7 DEF IInv, QueueInv, Sleeps, InQueue
    <1>9. RoomInv'
        BY <1>1, <1>2, <1>3 DEF IInv, RoomInv, Held, Owed, InQueue, Users
    <1>10. StreamInv'
        <2>1. kind = "read" => Len(got) <= written
            BY DEF IInv, Typed, StreamInv, Item, ReachedEof, EOF
        <2>. QED
            BY <1>1, <1>2, <1>3, <2>1, StreamStays DEF IInv, Users, AfterEof
    <1>11. TokenInv'
        BY <1>1, <1>2, <1>3 DEF IInv, TokenInv, Token, HasToken, Users
    <1>12. SleepInv'
        BY <1>1, <1>2, <1>3 DEF IInv, SleepInv, BeingKilled, InQueue, Users
    <1>. QED
        BY <1>4, <1>5, <1>6, <1>8, <1>9, <1>10, <1>11, <1>12 DEF IInv

\* The end of a process, and of the wait for it.
LEMMA LeftFacts ==
    ASSUME NEW st \in [Proc -> {"ABSENT", "READY", "BLOCKED"}], NEW p \in Users
    PROVE  /\ Left(st, p) \in [Proc -> {"ABSENT", "READY", "BLOCKED"}]
           /\ Left(st, p)[p] = "ABSENT"
           /\ \A r \in Users : r # p => Left(st, p)[r] = st[r]
           /\ Left(st, p)["shell"] = IF Waiting /\ Target = p /\ st["shell"] = "BLOCKED"
                                     THEN "READY" ELSE st["shell"]
BY DEF Left, ParentWoken, Awake, Proc, Users

\* Who is woken was BLOCKED; nobody else notices.
LEMMA AwakeFacts ==
    ASSUME NEW st \in [Proc -> {"ABSENT", "READY", "BLOCKED"}], NEW p \in Proc
    PROVE  /\ Awake(st, p) \in [Proc -> {"ABSENT", "READY", "BLOCKED"}]
           /\ Awake(st, p)[p] = IF st[p] = "BLOCKED" THEN "READY" ELSE st[p]
           /\ \A r \in Proc : r # p => Awake(st, p)[r] = st[r]
BY DEF Awake

\* The processes have names of their own.
LEMMA Names ==
    /\ "writer" \in Users /\ "reader" \in Users /\ "shell" \notin Users /\ Users \subseteq Proc
    /\ "shell" \in Proc /\ Proc = Users \cup {"shell"}
    /\ "space" \in Sems /\ "data" \in Sems
BY DEF Users, Proc, Sems

\* The reader ends; it is in no queue, and wakes the shell if that waits for it.
LEMMA ReaderExitsKeeps ==
    ASSUME IInv, ReaderExits
    PROVE  IInv'
    <1>1. /\ job["reader"] = Idle /\ status["reader"] = "READY" /\ kernel = NULL
          /\ status' = Left(status, "reader")
          /\ UNCHANGED <<pipe, sem, job, kernel, shell, exits, written, got, killed, hung>>
        BY DEF ReaderExits, InUserCode, MayRun
    <1>2. /\ status' \in [Proc -> {"ABSENT", "READY", "BLOCKED"}]
          /\ status'["reader"] = "ABSENT" /\ status'["writer"] = status["writer"]
          /\ status'["shell"] = IF Waiting /\ Target = "reader" /\ status["shell"] = "BLOCKED"
                                THEN "READY" ELSE status["shell"]
        <2>1. status \in [Proc -> {"ABSENT", "READY", "BLOCKED"}]
            BY DEF IInv, Typed
        <2>. DEFINE L == Left(status, "reader")
        <2>2. /\ L \in [Proc -> {"ABSENT", "READY", "BLOCKED"}]
              /\ L["reader"] = "ABSENT"
              /\ \A r \in Users : r # "reader" => L[r] = status[r]
              /\ L["shell"] = IF Waiting /\ Target = "reader" /\ status["shell"] = "BLOCKED"
                               THEN "READY" ELSE status["shell"]
            BY <2>1, LeftFacts, Names
        <2>3. status' = L
            BY <1>1
        <2>. HIDE DEF L
        <2>. QED
            BY <2>2, <2>3, Names
    <1>3. job["reader"].kind = "user" /\ job["reader"].at = "user" /\ job["reader"].rest = 0
        BY <1>1 DEF Idle
    <1>4. Typed'
        BY <1>1, <1>2 DEF IInv, Typed
    <1>5. JobInv'
        BY <1>1, <1>2, NullAssumption DEF IInv, JobInv, Users
    <1>6. ShellInv'
        BY <1>1, <1>2 DEF IInv, ShellInv, Waiting, Target, Users, WithoutWriter, Early
    <1>7. \A s \in Sems : ~InQueue(s, "reader")
        BY <1>1, <1>3, Names DEF IInv, QueueInv, Sleeps
    <1>8. QueueInv'
        BY <1>1, <1>2, <1>7 DEF IInv, QueueInv, Sleeps, InQueue, Users
    <1>9. RoomInv'
        BY <1>1, <1>2, <1>3 DEF IInv, RoomInv, Held, Owed, InQueue
    <1>10. StreamInv'
        BY <1>1, <1>2 DEF IInv, StreamInv, Item, EofStored, CellAt
    <1>11. TokenInv'
        BY <1>1 DEF IInv, TokenInv, Token, HasToken
    <1>12. SleepInv'
        BY <1>1, <1>2 DEF IInv, SleepInv, BeingKilled, InQueue, Users
    <1>. QED
        BY <1>4, <1>5, <1>6, <1>8, <1>9, <1>10, <1>11, <1>12 DEF IInv

\* A writer returns from main, and takes and releases locks; it loses no place and no token.
LEMMA ReturnStepKeeps ==
    ASSUME IInv, NEW to \in BeforeEof \cup AfterEof,
           status["writer"] = "READY", kernel = NULL, exits = "return",
           job' = [job EXCEPT !["writer"] = Doing("return", 1, to)],
           \/ job["writer"] = Idle /\ to = "acquire"
           \/ /\ job["writer"].kind = "return"
              /\ \/ job["writer"].at = "acquire" /\ to = "test"
                 \/ job["writer"].at = "taken" /\ to = "store"
                 \/ job["writer"].at = "queued" /\ to = "block"
                 \/ job["writer"].at = "acquire2" /\ to = "post"
                 \/ job["writer"].at = "release2" /\ to = "finish",
           sem' \in [Sems -> SemType],
           \A s \in Sems : sem'[s].value = sem[s].value /\ sem'[s].waiters = sem[s].waiters,
           UNCHANGED <<pipe, status, kernel, shell, exits, written, got, killed, hung>>
    PROVE  IInv'
    <1>1. /\ Doing("return", 1, to) \in Job
          /\ job'["reader"] = job["reader"] /\ job'["shell"] = job["shell"]
          /\ job'["writer"].kind = "return" /\ job'["writer"].at = to /\ job'["writer"].rest = 1
        BY Names DEF IInv, Typed, Job, Doing
    <1>2. job["writer"] = Idle => job["writer"].kind = "user" /\ job["writer"].at = "user"
        BY DEF Idle
    <1>3. \A s \in Sems : \A p : InQueue(s, p)' <=> InQueue(s, p)
        BY DEF InQueue, In
    <1>4. Typed'
        BY <1>1 DEF IInv, Typed, SemType
    <1>5. JobInv'
        BY <1>1, NullAssumption DEF IInv, JobInv, Users, BeforeEof, AfterEof
    <1>6. ShellInv'
        BY <1>1 DEF IInv, ShellInv, Waiting, Target, Users
    <1>7. QueueInv'
        <2>1. \A s \in Sems : Distinct(sem'[s].waiters)
            BY DEF IInv, QueueInv
        <2>2. ASSUME NEW s \in Sems, NEW p \in Users, InQueue(s, p)
              PROVE  \/ status[p] = "ABSENT" /\ killed
                     \/ Sleeps(p)' /\ s = Takes(job'[p].kind)
            <3>1. \/ status[p] = "ABSENT" /\ killed
                  \/ Sleeps(p) /\ s = Takes(job[p].kind)
                <4>1. \A t \in Sems : \A r \in Users : InQueue(t, r) =>
                          \/ status[r] = "ABSENT" /\ killed
                          \/ Sleeps(r) /\ t = Takes(job[r].kind)
                    BY DEF IInv, QueueInv
                <4>. QED
                    BY <2>2, <4>1
            <3>. QED
                BY <1>1, <1>2, <3>1 DEF Sleeps, Takes, Users
        <2>. QED
            BY <1>3, <2>1, <2>2 DEF IInv, QueueInv
    <1>8. RoomInv'
        <2>1. \A s \in Sems : \A p \in Users : Held(s, p)' = Held(s, p) \/ Held(s, p)' <= Held(s, p)
            BY <1>1, <1>2, <1>3 DEF Held, Users, Takes
        <2>2. Owed' = Owed
            BY <1>1, <1>2 DEF Owed, BeforeEof
        <2>. QED
            BY <1>1, <1>2, <1>3, <2>2, Names DEF IInv, RoomInv, Held, Takes
    <1>9. StreamInv'
        BY <1>1, <1>2, StreamStays DEF IInv, AfterEof, BeforeEof
    <1>10. TokenInv'
        <2>1. \A p \in Users : Token(p)' = Token(p)
            BY <1>1, <1>2, <1>3, Names DEF Token, HasToken, Users, Takes, InQueue, In
        <2>. QED
            BY <2>1, Names DEF IInv, TokenInv
    <1>11. SleepInv'
        BY <1>1 DEF IInv, SleepInv, Users
    <1>. QED
        BY <1>4, <1>5, <1>6, <1>7, <1>8, <1>9, <1>10, <1>11 DEF IInv

----------------------------------------------------------------------------
\* The ring

\* A cell counted from another one, at most once around the ring.
LEMMA Wraps ==
    ASSUME NEW a \in Cell, NEW b \in 0 .. PIPE_SIZE
    PROVE  /\ (a + b) % PIPE_SIZE \in Cell
           /\ (a + b) % PIPE_SIZE = IF a + b < PIPE_SIZE THEN a + b ELSE a + b - PIPE_SIZE
    <1>1. \A x \in Nat : x < PIPE_SIZE => x % PIPE_SIZE = x
        BY SizesAssumption
    <1>2. \A x \in Nat : x >= PIPE_SIZE /\ x < 2 * PIPE_SIZE => x % PIPE_SIZE = x - PIPE_SIZE
        BY SizesAssumption
    <1>3. a + b \in Nat /\ a + b < 2 * PIPE_SIZE
        BY SizesAssumption DEF Cell
    <1>. QED
        BY <1>1, <1>2, <1>3, SizesAssumption DEF Cell

\* Cell m counted from the next cell is cell m + 1, and the next of cell m is cell m + 1.
LEMMA CellsFollow ==
    ASSUME NEW a \in Cell, NEW m \in 0 .. PIPE_SIZE - 1
    PROVE  /\ (((a + m) % PIPE_SIZE) + 1) % PIPE_SIZE = (a + (m + 1)) % PIPE_SIZE
           /\ (((a + 1) % PIPE_SIZE) + m) % PIPE_SIZE = (a + (m + 1)) % PIPE_SIZE
    <1>1. m \in 0 .. PIPE_SIZE /\ m + 1 \in 0 .. PIPE_SIZE /\ 1 \in 0 .. PIPE_SIZE
        BY SizesAssumption
    <1>. DEFINE c == (a + m) % PIPE_SIZE
                d == (a + 1) % PIPE_SIZE
                e == (a + (m + 1)) % PIPE_SIZE
    <1>2. c \in Cell /\ c = IF a + m < PIPE_SIZE THEN a + m ELSE a + m - PIPE_SIZE
        BY <1>1, Wraps
    <1>3. d \in Cell /\ d = IF a + 1 < PIPE_SIZE THEN a + 1 ELSE a + 1 - PIPE_SIZE
        BY <1>1, Wraps
    <1>4. e = IF a + (m + 1) < PIPE_SIZE THEN a + (m + 1) ELSE a + (m + 1) - PIPE_SIZE
        BY <1>1, Wraps
    <1>. HIDE DEF c, d, e
    <1>5. (c + 1) % PIPE_SIZE = IF c + 1 < PIPE_SIZE THEN c + 1 ELSE c + 1 - PIPE_SIZE
        BY <1>1, <1>2, Wraps
    <1>6. (d + m) % PIPE_SIZE = IF d + m < PIPE_SIZE THEN d + m ELSE d + m - PIPE_SIZE
        BY <1>1, <1>3, Wraps
    <1>7. (c + 1) % PIPE_SIZE = e
        BY <1>2, <1>4, <1>5, SizesAssumption DEF Cell
    <1>8. (d + m) % PIPE_SIZE = e
        BY <1>3, <1>4, <1>6, SizesAssumption DEF Cell
    <1>. QED
        BY <1>7, <1>8 DEF c, d, e

\* Two cells less than the size apart are two cells.
LEMMA CellsDiffer ==
    ASSUME NEW a \in Cell, NEW m \in 0 .. PIPE_SIZE - 1, NEW j \in 0 .. PIPE_SIZE - 1,
           (a + m) % PIPE_SIZE = (a + j) % PIPE_SIZE
    PROVE  m = j
    <1>1. m \in 0 .. PIPE_SIZE /\ j \in 0 .. PIPE_SIZE
        BY SizesAssumption
    <1>2. /\ (a + m) % PIPE_SIZE = IF a + m < PIPE_SIZE THEN a + m ELSE a + m - PIPE_SIZE
          /\ (a + j) % PIPE_SIZE = IF a + j < PIPE_SIZE THEN a + j ELSE a + j - PIPE_SIZE
        BY <1>1, Wraps
    <1>3. \A k, l, n \in Int : \A b \in 0 .. n - 1 :
              /\ k \in 0 .. n - 1 /\ l \in 0 .. n - 1
              /\ (IF b + k < n THEN b + k ELSE b + k - n) = (IF b + l < n THEN b + l ELSE b + l - n)
              => k = l
        OBVIOUS
    <1>4. (IF a + m < PIPE_SIZE THEN a + m ELSE a + m - PIPE_SIZE)
              = (IF a + j < PIPE_SIZE THEN a + j ELSE a + j - PIPE_SIZE)
        BY <1>2, Zenon
    <1>5. PIPE_SIZE \in Int /\ m \in Int /\ j \in Int /\ a \in 0 .. PIPE_SIZE - 1
        BY SizesAssumption DEF Cell
    <1>. QED
        BY <1>3, <1>4, <1>5

\* A byte stored is behind all the others.
LEMMA StoredBehind ==
    ASSUME pipe \in Ring, pipe.size < PIPE_SIZE, NEW byte \in Nat,
           pipe.writePos = (pipe.readPos + pipe.size) % PIPE_SIZE,
           pipe' = Stored(byte)
    PROVE  /\ pipe' \in Ring /\ pipe'.readPos = pipe.readPos /\ pipe'.size = pipe.size + 1
           /\ pipe'.writePos = (pipe'.readPos + pipe'.size) % PIPE_SIZE
           /\ \A m \in 0 .. pipe.size - 1 : CellAt(m)' = CellAt(m)
           /\ \A m \in Nat : m = pipe.size => CellAt(m)' = byte
    <1>1. /\ pipe.readPos \in Cell /\ pipe.writePos \in Cell /\ pipe.size \in 0 .. PIPE_SIZE - 1
          /\ pipe.buffer \in [Cell -> Nat \cup {NULL}]
        BY SizesAssumption DEF Ring
    <1>2. /\ pipe'.buffer = [pipe.buffer EXCEPT ![pipe.writePos] = byte]
          /\ pipe'.writePos = (pipe.writePos + 1) % PIPE_SIZE
          /\ pipe'.size = pipe.size + 1 /\ pipe'.readPos = pipe.readPos
        BY DEF Stored, Ring, Next1
    <1>3. (pipe.writePos + 1) % PIPE_SIZE = (pipe.readPos + (pipe.size + 1)) % PIPE_SIZE
        BY <1>1, CellsFollow
    <1>4. (pipe.readPos + (pipe.size + 1)) % PIPE_SIZE \in Cell
        BY SMTT(40), <1>1, SizesAssumption, Wraps
    <1>5. pipe' \in Ring
        <2>1. pipe'.buffer \in [Cell -> Nat \cup {NULL}]
            BY <1>1, <1>2
        <2>2. pipe' = [buffer |-> pipe'.buffer, readPos |-> pipe'.readPos,
                       writePos |-> pipe'.writePos, size |-> pipe'.size]
            BY DEF Stored, Ring
        <2>3. pipe'.size \in 0 .. PIPE_SIZE
            BY <1>1, <1>2, SizesAssumption
        <2>. QED
            BY <1>1, <1>2, <1>3, <1>4, <2>1, <2>2, <2>3 DEF Ring
    <1>6. ASSUME NEW m \in 0 .. pipe.size - 1 PROVE CellAt(m)' = CellAt(m)
        <2>1. m \in 0 .. PIPE_SIZE - 1 /\ m # pipe.size /\ m \in 0 .. PIPE_SIZE
            BY <1>1, SizesAssumption
        <2>2. (pipe.readPos + m) % PIPE_SIZE # pipe.writePos
            BY <1>1, <2>1, CellsDiffer
        <2>3. (pipe.readPos + m) % PIPE_SIZE \in Cell
            BY <1>1, <2>1, Wraps
        <2>. QED
            BY <1>1, <1>2, <2>2, <2>3 DEF CellAt
    <1>7. ASSUME NEW m \in Nat, m = pipe.size PROVE CellAt(m)' = byte
        BY <1>1, <1>2, <1>7 DEF CellAt
    <1>. QED
        BY <1>1, <1>2, <1>3, <1>5, <1>6, <1>7

\* A byte fetched is the oldest one.
LEMMA FetchedFirst ==
    ASSUME pipe \in Ring, pipe.size > 0,
           pipe.writePos = (pipe.readPos + pipe.size) % PIPE_SIZE,
           pipe' = Fetched
    PROVE  /\ pipe' \in Ring /\ pipe'.size = pipe.size - 1
           /\ pipe'.writePos = (pipe'.readPos + pipe'.size) % PIPE_SIZE
           /\ \A m \in 0 .. pipe.size - 2 : CellAt(m)' = CellAt(m + 1)
           /\ pipe.buffer[pipe.readPos] = CellAt(0)
    <1>1. /\ pipe.readPos \in Cell /\ pipe.writePos \in Cell /\ pipe.size \in 1 .. PIPE_SIZE
          /\ pipe.buffer \in [Cell -> Nat \cup {NULL}]
        BY SizesAssumption DEF Ring
    <1>2. /\ pipe'.buffer = pipe.buffer /\ pipe'.writePos = pipe.writePos
          /\ pipe'.size = pipe.size - 1 /\ pipe'.readPos = (pipe.readPos + 1) % PIPE_SIZE
        BY DEF Fetched, Ring, Next1
    <1>3. \A m \in 0 .. PIPE_SIZE - 1 :
              (pipe'.readPos + m) % PIPE_SIZE = (pipe.readPos + (m + 1)) % PIPE_SIZE
        BY <1>1, <1>2, CellsFollow
    <1>4. pipe' \in Ring
        <2>1. pipe' = [buffer |-> pipe'.buffer, readPos |-> pipe'.readPos,
                       writePos |-> pipe'.writePos, size |-> pipe'.size]
            BY DEF Fetched, Ring
        <2>2. pipe'.readPos \in Cell
            BY <1>1, <1>2, SizesAssumption, Wraps
        <2>3. pipe'.size \in 0 .. PIPE_SIZE
            BY <1>1, <1>2, SizesAssumption
        <2>. QED
            BY <1>1, <1>2, <2>1, <2>2, <2>3 DEF Ring
    <1>5. pipe'.writePos = (pipe'.readPos + pipe'.size) % PIPE_SIZE
        <2>1. pipe.size - 1 \in 0 .. PIPE_SIZE - 1 /\ (pipe.size - 1) + 1 = pipe.size
            BY <1>1, SizesAssumption
        <2>. QED
            BY <1>2, <1>3, <2>1
    <1>6. ASSUME NEW m \in 0 .. pipe.size - 2 PROVE CellAt(m)' = CellAt(m + 1)
        <2>1. m \in 0 .. PIPE_SIZE - 1
            BY <1>1, SizesAssumption
        <2>. QED
            BY <1>2, <1>3, <2>1 DEF CellAt
    <1>7. pipe.buffer[pipe.readPos] = CellAt(0)
        <2>1. 0 \in 0 .. PIPE_SIZE /\ pipe.readPos + 0 < PIPE_SIZE
            BY <1>1, SizesAssumption DEF Cell
        <2>2. (pipe.readPos + 0) % PIPE_SIZE = pipe.readPos + 0
            BY <1>1, <2>1, Wraps
        <2>. QED
            BY <1>1, <2>2 DEF CellAt, Cell
    <1>. QED
        BY <1>2, <1>4, <1>5, <1>6, <1>7

----------------------------------------------------------------------------
\* semPost

\* Whoever semPost wakes was asleep in that queue; nobody else notices.
LEMMA Waking ==
    ASSUME Typed, QueueInv, NEW s \in Sems
    PROVE  /\ WokenBy(s) \in [Proc -> {"ABSENT", "READY", "BLOCKED"}]
           /\ WokenBy(s)["shell"] = status["shell"]
           /\ \A r \in Users :
                \/ WokenBy(s)[r] = status[r]
                \/ /\ WokenBy(s)[r] = "READY" /\ status[r] = "BLOCKED" /\ InQueue(s, r)
                   /\ ~In(Posted(s)[s].waiters, r)
           /\ \A t \in Sems : \A r : In(Posted(s)[t].waiters, r) => InQueue(t, r)
           /\ \A t \in Sems : \A r \in Users :
                  In(Posted(s)[t].waiters, r) => WokenBy(s)[r] = status[r]
    <1>1. status \in [Proc -> {"ABSENT", "READY", "BLOCKED"}]
        BY DEF Typed
    <1>2. CASE WokenBy(s) = status
        <2>1. \A t \in Sems : \A r : In(Posted(s)[t].waiters, r) => InQueue(t, r)
            <3>1. \A r : ~In(<<>>, r)
                BY DEF In
            <3>2. \A t \in Sems : t # s => Posted(s)[t].waiters = sem[t].waiters
                BY PostOutcome
            <3>3. \A r : In(Posted(s)[s].waiters, r) => InQueue(s, r)
                BY <3>1, PostOutcome
            <3>. QED
                BY <3>2, <3>3 DEF InQueue
        <2>. QED
            BY <1>1, <1>2, <2>1
    <1>3. ASSUME NEW h \in Users, InQueue(s, h), WokenBy(s) = Awake(status, h),
                 \A p : In(Posted(s)[s].waiters, p) <=> InQueue(s, p) /\ p # h
          PROVE  /\ WokenBy(s) \in [Proc -> {"ABSENT", "READY", "BLOCKED"}]
                 /\ WokenBy(s)["shell"] = status["shell"]
                 /\ \A r \in Users :
                      \/ WokenBy(s)[r] = status[r]
                      \/ /\ WokenBy(s)[r] = "READY" /\ status[r] = "BLOCKED" /\ InQueue(s, r)
                         /\ ~In(Posted(s)[s].waiters, r)
                 /\ \A t \in Sems : \A r : In(Posted(s)[t].waiters, r) => InQueue(t, r)
                 /\ \A t \in Sems : \A r \in Users :
                        In(Posted(s)[t].waiters, r) => WokenBy(s)[r] = status[r]
        <2>. DEFINE W == WokenBy(s)
        <2>1. /\ W \in [Proc -> {"ABSENT", "READY", "BLOCKED"}]
              /\ W[h] = IF status[h] = "BLOCKED" THEN "READY" ELSE status[h]
              /\ \A r \in Proc : r # h => W[r] = status[r]
            BY <1>1, <1>3, AwakeFacts, Names
        <2>. HIDE DEF W
        <2>2. \A t \in Sems : t # s => Posted(s)[t].waiters = sem[t].waiters
            BY PostOutcome
        <2>3. \A t \in Sems : \A r : In(Posted(s)[t].waiters, r) => InQueue(t, r)
            BY <1>3, <2>2 DEF InQueue
        <2>4. W["shell"] = status["shell"]
            BY <2>1, Names
        <2>5. ASSUME NEW r \in Users
              PROVE  \/ W[r] = status[r]
                     \/ /\ W[r] = "READY" /\ status[r] = "BLOCKED" /\ InQueue(s, r)
                        /\ ~In(Posted(s)[s].waiters, r)
            BY <1>3, <2>1, Names
        <2>6. ASSUME NEW t \in Sems, NEW r \in Users, In(Posted(s)[t].waiters, r)
              PROVE  W[r] = status[r]
            <3>1. CASE r # h
                BY <2>1, <3>1, Names
            <3>2. CASE r = h
                <4>1. t # s
                    BY <1>3, <2>6, <3>2
                <4>2. InQueue(t, h) /\ InQueue(s, h)
                    BY <1>3, <2>3, <2>6, <3>2
                <4>3. \A u \in Sems :
                            InQueue(u, h) => status[h] = "ABSENT" \/ u = Takes(job[h].kind)
                    BY DEF QueueInv
                <4>4. status[h] = "ABSENT"
                    BY <4>1, <4>2, <4>3
                <4>. QED
                    BY <2>1, <3>2, <4>4
            <3>. QED
                BY <3>1, <3>2
        <2>. QED
            BY <2>1, <2>3, <2>4, <2>5, <2>6 DEF W
    <1>. QED
        <2>1. \/ WokenBy(s) = status
              \/ \E h \in Users :
                   /\ InQueue(s, h) /\ WokenBy(s) = Awake(status, h)
                   /\ \A p : In(Posted(s)[s].waiters, p) <=> InQueue(s, p) /\ p # h
            BY PostOutcome
        <2>2. CASE WokenBy(s) = status
            BY <1>2, <2>2
        <2>3. ASSUME NEW h \in Users, InQueue(s, h), WokenBy(s) = Awake(status, h),
                     \A p : In(Posted(s)[s].waiters, p) <=> InQueue(s, p) /\ p # h
              PROVE  /\ WokenBy(s) \in [Proc -> {"ABSENT", "READY", "BLOCKED"}]
                     /\ WokenBy(s)["shell"] = status["shell"]
                     /\ \A r \in Users :
                          \/ WokenBy(s)[r] = status[r]
                          \/ /\ WokenBy(s)[r] = "READY" /\ status[r] = "BLOCKED" /\ InQueue(s, r)
                             /\ ~In(Posted(s)[s].waiters, r)
                     /\ \A t \in Sems : \A r : In(Posted(s)[t].waiters, r) => InQueue(t, r)
                     /\ \A t \in Sems : \A r \in Users :
                            In(Posted(s)[t].waiters, r) => WokenBy(s)[r] = status[r]
            BY <1>3, <2>3
        <2>. QED
            BY <2>1, <2>2, <2>3

\* What a step of p does to the others when it ends in semPost(s): p itself is in no queue,
\* and those it ends are gone.
PostStep(s, p) ==
    /\ sem' = Posted(s)
    /\ \A r \in Users : job'[r] = job[r] \/ r = p \/ (status'[r] = "ABSENT" /\ killed)
    /\ \A r \in Users : status'[r] = WokenBy(s)[r] \/ (status'[r] = "ABSENT" /\ (r = p \/ killed))
    /\ \A t \in Sems : ~InQueue(t, p)
    /\ UNCHANGED killed

\* The queues after a post: whoever is still in one sleeps where it slept.
LEMMA PostQueues ==
    ASSUME Typed, QueueInv, NEW s \in Sems, NEW p \in Users, PostStep(s, p),
           shell # "create", UNCHANGED shell
    PROVE  QueueInv'
    <1>1. \A t \in Sems : \A r : In(Posted(s)[t].waiters, r) => InQueue(t, r)
        BY Waking
    <1>2. \A t \in Sems : \A r \in Users :
              In(Posted(s)[t].waiters, r) => WokenBy(s)[r] = status[r]
        BY Waking
    <1>3. \A t \in Sems : Distinct(Posted(s)[t].waiters)
        BY PostOutcome DEF QueueInv
    <1>4. \A t \in Sems : Posted(s)[t].waiters # <<>> => Posted(s)[t].value = 0
        BY PostOutcome DEF QueueInv
    <1>5. sem' = Posted(s)
        BY DEF PostStep
    <1>6. ASSUME NEW t \in Sems, NEW r \in Users, InQueue(t, r)'
          PROVE  \/ status'[r] = "ABSENT" /\ killed'
                 \/ Sleeps(r)' /\ t = Takes(job'[r].kind)
        <2>1. In(Posted(s)[t].waiters, r)
            BY <1>5, <1>6 DEF InQueue
        <2>2. InQueue(t, r) /\ WokenBy(s)[r] = status[r]
            BY <1>1, <1>2, <2>1
        <2>3. r # p
            BY <2>2 DEF PostStep
        <2>4. CASE status'[r] = "ABSENT" /\ killed
            BY <2>4 DEF PostStep
        <2>5. CASE status'[r] = status[r] /\ job'[r] = job[r]
            <3>1. \/ status[r] = "ABSENT" /\ killed
                  \/ Sleeps(r) /\ t = Takes(job[r].kind)
                BY <2>2 DEF QueueInv
            <3>. QED
                BY <2>5, <3>1 DEF Sleeps, PostStep
        <2>. QED
            BY <2>2, <2>3, <2>4, <2>5 DEF PostStep
    <1>. QED
        BY <1>3, <1>4, <1>5, <1>6 DEF QueueInv

\* The tokens of s are one more at most, with those held, and those of the others no more.
LEMMA PostHeld ==
    ASSUME Typed, QueueInv, NEW s \in Sems, NEW p \in Users, PostStep(s, p),
           job'[p].at \notin {"copy", "taken", "store"}
    PROVE  /\ \A t \in Sems : Held(t, p)' = 0
           /\ \A t \in Sems : t # s => /\ sem'[t].value = sem[t].value
                                       /\ \A r \in Users : Held(t, r)' <= Held(t, r)
           /\ \/ /\ sem'[s].value = sem[s].value + 1
                 /\ \A r \in Users : Held(s, r)' <= Held(s, r)
              \/ /\ sem'[s].value = sem[s].value
                 /\ \E h \in Users : \A r \in Users :
                        Held(s, r)' <= Held(s, r) + (IF r = h THEN 1 ELSE 0)
    <1>1. \A t \in Sems : Held(t, p)' = 0
        BY DEF Held
    <1>2. \A t \in Sems : \A r \in Users : Held(t, r)' \in {0, 1} /\ Held(t, r) \in {0, 1}
        BY DEF Held
    <1>3. sem' = Posted(s)
        BY DEF PostStep
    <1>4. ASSUME NEW t \in Sems, NEW r \in Users, Held(t, r)' = 1, Held(t, r) = 0
          PROVE  t = s /\ InQueue(s, r) /\ ~In(Posted(s)[s].waiters, r)
        <2>1. r # p
            BY <1>1, <1>4
        <2>2. /\ status'[r] = "READY" /\ ~InQueue(t, r)' /\ t = Takes(job'[r].kind)
              /\ job'[r].at \in {"copy", "taken", "store"}
            BY <1>4 DEF Held
        <2>3. job'[r] = job[r] /\ status'[r] = WokenBy(s)[r]
            BY <2>1, <2>2 DEF PostStep
        <2>4. status[r] # "READY" \/ InQueue(t, r)
            BY <1>4, <2>2, <2>3 DEF Held
        <2>5. CASE InQueue(t, r)
            <3>1. t = s
                <4>1. t # s => Posted(s)[t].waiters = sem[t].waiters
                    BY PostOutcome
                <4>. QED
                    BY <1>3, <2>2, <2>5, <4>1 DEF InQueue
            <3>. QED
                BY <1>3, <2>2, <2>5, <3>1 DEF InQueue
        <2>6. CASE status[r] # "READY"
            <3>1. status[r] = "BLOCKED" /\ InQueue(s, r) /\ ~In(Posted(s)[s].waiters, r)
                BY <2>2, <2>3, <2>6, Waking
            <3>2. s = Takes(job[r].kind)
                BY <3>1 DEF QueueInv
            <3>. QED
                BY <2>2, <2>3, <3>1, <3>2
        <2>. QED
            BY <2>4, <2>5, <2>6
    <1>5. \A t \in Sems : t # s => /\ sem'[t].value = sem[t].value
                                   /\ \A r \in Users : Held(t, r)' <= Held(t, r)
        <2>1. \A t \in Sems : t # s => Posted(s)[t].value = sem[t].value
            BY PostOutcome
        <2>. QED
            BY <1>2, <1>3, <1>4, <2>1
    <1>6. CASE /\ \A r : ~InQueue(s, r)
               /\ Posted(s)[s].value = sem[s].value + 1
        BY <1>1, <1>2, <1>3, <1>4, <1>5, <1>6
    <1>7. ASSUME NEW h \in Users, Posted(s)[s].value = 0, sem[s].value = 0,
                 \A r : In(Posted(s)[s].waiters, r) <=> InQueue(s, r) /\ r # h
          PROVE  /\ sem'[s].value = sem[s].value
                 /\ \A r \in Users : Held(s, r)' <= Held(s, r) + (IF r = h THEN 1 ELSE 0)
        <2>1. ASSUME NEW r \in Users
              PROVE  Held(s, r)' <= Held(s, r) + (IF r = h THEN 1 ELSE 0)
            <3>1. Held(s, r)' = 1 /\ Held(s, r) = 0 => r = h
                BY <1>4, <1>7
            <3>. QED
                BY <1>2, <3>1
        <2>. QED
            BY <1>3, <1>7, <2>1
    <1>8. \/ /\ \A r : ~InQueue(s, r)
             /\ Posted(s)[s].value = sem[s].value + 1
          \/ \E h \in Users : /\ Posted(s)[s].value = 0 /\ sem[s].value = 0
                              /\ \A r : In(Posted(s)[s].waiters, r) <=> InQueue(s, r) /\ r # h
        BY PostOutcome
    <1>. QED
        BY <1>1, <1>5, <1>6, <1>7, <1>8

\* The token that p had is in the semaphore, or the one it woke has it.
LEMMA PostTokens ==
    ASSUME Typed, QueueInv, NEW s \in Sems, NEW p \in Users, NEW q \in Users, PostStep(s, p),
           p # q, job'[q] = job[q], ~killed
    PROVE  sem'["space"].value + sem'["data"].value + Token(q)'
               = sem["space"].value + sem["data"].value + Token(q) + 1
    <1>1. sem' = Posted(s)
        BY DEF PostStep
    <1>2. /\ \A t \in Sems : Posted(s)[t].value \in Nat /\ sem[t].value \in Nat
          /\ \A t \in Sems : t # s => /\ Posted(s)[t].waiters = sem[t].waiters
                                      /\ Posted(s)[t].value = sem[t].value
        BY PostOutcome DEF Typed, SemType
    <1>3. Token(q) = IF /\ job[q].at \in {"copy", "taken", "queued", "block", "store", "acquire2",
                                          "post"}
                        /\ ~InQueue(Takes(job[q].kind), q)
                     THEN 1 ELSE 0
        BY DEF Token, HasToken, InQueue, In
    <1>4. Token(q)' = IF /\ job[q].at \in {"copy", "taken", "queued", "block", "store", "acquire2",
                                           "post"}
                         /\ ~In(Posted(s)[Takes(job[q].kind)].waiters, q)
                      THEN 1 ELSE 0
        BY <1>1 DEF Token, HasToken, InQueue, In
    <1>5. Takes(job[q].kind) \in Sems
        BY DEF Takes, Sems
    <1>6. CASE /\ Posted(s)[s].waiters = <<>> /\ \A r : ~InQueue(s, r)
               /\ Posted(s)[s].value = sem[s].value + 1
        <2>1. Token(q)' = Token(q)
            <3>1. ~In(<<>>, q)
                BY DEF In
            <3>. QED
                BY <1>2, <1>3, <1>4, <1>5, <1>6, <3>1 DEF InQueue
        <2>. QED
            BY SMTT(40), <1>1, <1>2, <1>6, <2>1, <1>3 DEF Sems
    <1>7. ASSUME NEW h \in Users, InQueue(s, h), Posted(s)[s].value = 0, sem[s].value = 0,
                 \A r : In(Posted(s)[s].waiters, r) <=> InQueue(s, r) /\ r # h
          PROVE  sem'["space"].value + sem'["data"].value + Token(q)'
                     = sem["space"].value + sem["data"].value + Token(q) + 1
        <2>1. h = q
            BY <1>7 DEF PostStep, Users
        <2>2. Sleeps(q) /\ s = Takes(job[q].kind)
            BY <1>7, <2>1 DEF QueueInv
        <2>3. Token(q) = 0 /\ Token(q)' = 1
            BY <1>3, <1>4, <1>7, <2>1, <2>2 DEF Sleeps
        <2>. QED
            BY <1>1, <1>2, <1>7, <2>3 DEF Sems
    <1>8. \/ /\ Posted(s)[s].waiters = <<>> /\ \A r : ~InQueue(s, r)
             /\ Posted(s)[s].value = sem[s].value + 1
          \/ \E h \in Users : /\ InQueue(s, h) /\ Posted(s)[s].value = 0 /\ sem[s].value = 0
                              /\ \A r : In(Posted(s)[s].waiters, r) <=> InQueue(s, r) /\ r # h
        BY PostOutcome
    <1>. QED
        BY <1>6, <1>7, <1>8

\* Whoever sleeps stays where it sleeps when another one posts.
LEMMA PostSleep ==
    ASSUME Typed, QueueInv, SleepInv, NEW s \in Sems, NEW p \in Users, PostStep(s, p),
           UNCHANGED exits, exits = "sys_exit" => status'[p] # "BLOCKED",
           (\E x \in Users : job[x].kind = "kill") =>
               status'["writer"] = "ABSENT" \/ \E x \in Users : job'[x].kind = "kill"
    PROVE  SleepInv'
    <1>. SUFFICES ASSUME exits = "sys_exit", NEW r \in Users,
                         status'[r] = "BLOCKED", ~BeingKilled(r)'
                  PROVE  InQueue(Takes(job[r].kind), r)'
        BY DEF SleepInv
    <1>1. r # p /\ job'[r] = job[r] /\ status'[r] = WokenBy(s)[r]
        BY DEF PostStep
    <1>2. status[r] = "BLOCKED"
        BY <1>1, Waking
    <1>3. ~BeingKilled(r)
        BY DEF BeingKilled
    <1>. DEFINE t == Takes(job[r].kind)
    <1>4. t \in Sems /\ InQueue(t, r)
        BY <1>2, <1>3 DEF SleepInv, Takes, Sems
    <1>5. In(Posted(s)[t].waiters, r)
        <2>1. CASE t # s
            BY <1>4, <2>1, PostOutcome DEF InQueue
        <2>2. CASE t = s
            <3>1. \/ \A u : ~InQueue(s, u)
                  \/ \E h \in Users :
                        /\ \A u : In(Posted(s)[s].waiters, u) <=> InQueue(s, u) /\ u # h
                        /\ WokenBy(s) = Awake(status, h)
                BY PostOutcome
            <3>2. PICK h \in Users :
                        /\ \A u : In(Posted(s)[s].waiters, u) <=> InQueue(s, u) /\ u # h
                        /\ WokenBy(s) = Awake(status, h)
                BY <1>4, <2>2, <3>1
            <3>3. Awake(status, h)[h] = IF status[h] = "BLOCKED" THEN "READY" ELSE status[h]
                BY ZenonT(60), AwakeFacts, Names DEF Typed
            <3>4. r # h
                BY <1>1, <1>2, <3>2, <3>3
            <3>. QED
                BY <1>4, <2>2, <3>2, <3>4
        <2>. QED
            BY <2>1, <2>2
    <1>6. sem' = Posted(s) /\ job'[r].kind = job[r].kind
        BY <1>1 DEF PostStep
    <1>. QED
        BY <1>5, <1>6 DEF InQueue

\* Whoever copies has a token, of the semaphore it waited for, and the ring is there.
LEMMA CopyFacts ==
    ASSUME IInv, NEW p \in Users, InCall(p, "copy")
    PROVE  /\ status[p] = "READY" /\ kernel \in {NULL, p} /\ job[p].at = "copy"
           /\ job[p].kind \in {"read", "write", "echo", "exit", "kill"}
           /\ \A s \in Sems : ~InQueue(s, p)
           /\ \A s \in Sems : Held(s, p) = IF s = Takes(job[p].kind) THEN 1 ELSE 0
           /\ Token(p) = 1
           /\ shell \notin {"create", "spawnWriter", "done"}
    <1>1. status[p] = "READY" /\ kernel \in {NULL, p} /\ job[p].at = "copy"
        BY DEF InCall
    <1>2. job[p].kind \in {"read", "write", "echo", "exit", "kill"}
        BY <1>1 DEF IInv, JobInv, InCall, Typed, Job, Proc, BeforeEof, AfterEof
    <1>3. \A s \in Sems : ~InQueue(s, p)
        BY CopyIsOut DEF IInv
    <1>4. \A s \in Sems : Held(s, p) = IF s = Takes(job[p].kind) THEN 1 ELSE 0
        BY <1>1, <1>3 DEF Held
    <1>5. Takes(job[p].kind) \in Sems
        BY DEF Takes, Sems
    <1>6. Token(p) = 1
        BY <1>1, <1>3, <1>5 DEF Token, HasToken, InQueue, In
    <1>7. shell \notin {"create", "spawnWriter", "done"}
        BY <1>1 DEF IInv, ShellInv, Users, WithoutWriter
    <1>. QED
        BY <1>1, <1>2, <1>3, <1>4, <1>6, <1>7

\* A byte is read.
LEMMA CopyReadKeeps ==
    ASSUME IInv, NEW p \in Users, Copy(p), job[p].kind = "read"
    PROVE  IInv'
    <1>1. InCall(p, "copy")
        BY DEF Copy
    <1>2. p = "reader" /\ ~(job[p].rest > 1)
        BY SMTT(40) DEF IInv, JobInv, Typed, Job, Proc
    <1>3. /\ sem' = Posted("space") /\ pipe' = Fetched /\ UNCHANGED written
          /\ got' = Append(got, pipe.buffer[pipe.readPos])
          /\ status' = WokenBy("space") /\ job' = [job EXCEPT ![p] = Idle] /\ kernel' = NULL
          /\ UNCHANGED <<shell, exits, killed, hung>>
        BY <1>2 DEF Copy, Gives
    <1>4. /\ job'["reader"] = Idle /\ job'["writer"] = job["writer"] /\ job'["shell"] = job["shell"]
          /\ Idle \in Job /\ Idle.kind = "user" /\ Idle.at = "user" /\ Idle.rest = 0
        BY <1>2, <1>3, Names DEF IInv, Typed, Idle, Job
    <1>5. /\ status["reader"] = "READY" /\ kernel \in {NULL, "reader"}
          /\ \A s \in Sems : ~InQueue(s, "reader")
          /\ Held("space", "reader") = 0 /\ Held("data", "reader") = 1 /\ Token("reader") = 1
          /\ shell \notin {"create", "spawnWriter", "done"}
        BY <1>1, <1>2, CopyFacts, Names DEF Takes
    <1>6. Typed /\ QueueInv
        BY DEF IInv
    <1>7. PostStep("space", "reader")
        BY <1>3, <1>4, <1>5 DEF PostStep, Users
    <1>8. /\ status' \in [Proc -> {"ABSENT", "READY", "BLOCKED"}]
          /\ status'["shell"] = status["shell"] /\ status'["reader"] = "READY"
          /\ \/ status'["writer"] = status["writer"]
             \/ status'["writer"] = "READY" /\ status["writer"] = "BLOCKED"
        <2>1. /\ WokenBy("space") \in [Proc -> {"ABSENT", "READY", "BLOCKED"}]
              /\ WokenBy("space")["shell"] = status["shell"]
              /\ \A r \in Users : \/ WokenBy("space")[r] = status[r]
                                 \/ (WokenBy("space")[r] = "READY" /\ status[r] = "BLOCKED")
            BY <1>6, Waking, Names
        <2>. QED
            BY <1>3, <1>5, <2>1, Names
    <1>9. /\ pipe \in Ring /\ pipe.size > 0 /\ pipe.size \in Nat
          /\ pipe.writePos = (pipe.readPos + pipe.size) % PIPE_SIZE
          /\ sem["data"].value \in Nat /\ sem["space"].value \in Nat
          /\ CellAt(0) = Item(Len(got) + 1)
        <2>1. /\ pipe \in Ring /\ sem["data"].value + Held("data", "reader") + Owed <= pipe.size
              /\ pipe.size \in Nat
            BY <1>5 DEF IInv, RoomInv, Ring
        <2>2. sem["data"].value \in Nat /\ sem["space"].value \in Nat
            BY Names DEF IInv, Typed
        <2>3. pipe.size > 0
            BY <1>5, <2>1, <2>2 DEF Owed
        <2>4. pipe.writePos = (pipe.readPos + pipe.size) % PIPE_SIZE
            BY <1>5 DEF IInv, StreamInv
        <2>5. 0 \in 0 .. pipe.size - 1
            BY <2>1, <2>3
        <2>6. CellAt(0) = Item(Len(got) + 0 + 1)
            BY <1>5, <2>5 DEF IInv, StreamInv
        <2>. QED
            BY <1>6, <2>1, <2>2, <2>3, <2>4, <2>6 DEF Typed
    <1>10. /\ pipe' \in Ring /\ pipe'.size = pipe.size - 1
           /\ pipe'.writePos = (pipe'.readPos + pipe'.size) % PIPE_SIZE
           /\ \A m \in 0 .. pipe.size - 2 : CellAt(m)' = CellAt(m + 1)
           /\ pipe.buffer[pipe.readPos] = CellAt(0)
        BY <1>3, <1>9, FetchedFirst
    <1>11. /\ got' = Append(got, Item(Len(got) + 1)) /\ Item(Len(got) + 1) \in Nat
           /\ got' \in Seq(Nat) /\ Len(got') = Len(got) + 1
           /\ \A i \in DOMAIN got' : got'[i] = Item(i)
        <2>1. got' = Append(got, Item(Len(got) + 1)) /\ got \in Seq(Nat)
            BY <1>3, <1>6, <1>9, <1>10 DEF Typed
        <2>2. Item(Len(got) + 1) \in Nat
            BY <2>1 DEF Item, EOF
        <2>3. \A i \in DOMAIN got : got[i] = Item(i)
            BY DEF IInv, StreamInv
        <2>. QED
            BY <2>1, <2>2, <2>3
    <1>12. Typed'
        <2>1. sem' \in [Sems -> SemType]
            BY <1>3, <1>6, Names, PostOutcome
        <2>2. job' \in [Proc -> Job]
            BY <1>3, <1>4, <1>6 DEF Typed
        <2>. QED
            BY <1>3, <1>6, <1>8, <1>11, <2>1, <2>2 DEF Typed, SemType
    <1>13. JobInv'
        BY <1>3, <1>4, <1>5, <1>8, NullAssumption
           DEF IInv, JobInv, Users, InCalls, BeforeEof, AfterEof
    <1>14. ShellInv'
        BY <1>3, <1>4, <1>5, <1>8 DEF IInv, ShellInv, Waiting, Target, Users
    <1>15. QueueInv'
        BY <1>3, <1>5, <1>6, <1>7, Names, PostQueues
    <1>16. RoomInv'
        <2>1. job'["reader"].at \notin {"copy", "taken", "store"}
            BY <1>4
        <2>2. /\ \A t \in Sems : Held(t, "reader")' = 0
              /\ \A t \in Sems : t # "space" =>
                    /\ sem'[t].value = sem[t].value
                    /\ \A r \in Users : Held(t, r)' <= Held(t, r)
              /\ \/ /\ sem'["space"].value = sem["space"].value + 1
                    /\ \A r \in Users : Held("space", r)' <= Held("space", r)
                 \/ /\ sem'["space"].value = sem["space"].value
                    /\ \E h \in Users : \A r \in Users :
                          Held("space", r)' <= Held("space", r) + (IF r = h THEN 1 ELSE 0)
            BY <1>6, <1>7, <2>1, Names, PostHeld
        <2>3. Owed' = Owed
            BY <1>4 DEF Owed
        <2>4. /\ sem["space"].value + Held("space", "writer") + Held("space", "reader") + pipe.size
                     <= PIPE_SIZE
              /\ sem["data"].value + Held("data", "reader") + Owed <= pipe.size
            BY <1>5 DEF IInv, RoomInv
        <2>5. \A t \in Sems : \A r \in Users : Held(t, r) \in {0, 1} /\ Held(t, r)' \in {0, 1}
            BY DEF Held
        <2>6. sem'["data"].value = sem["data"].value /\ Held("data", "reader")' = 0
            BY <2>2, Names
        <2>7. sem'["space"].value + Held("space", "writer")' + Held("space", "reader")'
                  <= sem["space"].value + Held("space", "writer") + Held("space", "reader") + 1
            <3>1. /\ Held("space", "reader")' = 0
                  /\ \/ /\ sem'["space"].value = sem["space"].value + 1
                        /\ Held("space", "writer")' <= Held("space", "writer")
                     \/ /\ sem'["space"].value = sem["space"].value
                        /\ Held("space", "writer")' <= Held("space", "writer") + 1
                BY <2>2, <2>5, Names
            <3>. QED
                BY SMTT(40), <1>9, <2>5, <3>1, Names
        <2>8. Owed \in {0, 1} /\ PIPE_SIZE \in Nat
            BY SizesAssumption DEF Owed
        <2>9. /\ sem'["space"].value + Held("space", "writer")' + Held("space", "reader")'
                     + pipe'.size <= PIPE_SIZE
              /\ sem'["data"].value + Held("data", "reader")' + Owed' <= pipe'.size
            <3>1. sem'["space"].value \in Nat
                BY <1>12, Names DEF Typed
            <3>2. /\ Held("space", "writer") \in {0, 1} /\ Held("space", "reader") \in {0, 1}
                  /\ Held("space", "writer")' \in {0, 1} /\ Held("space", "reader")' \in {0, 1}
                BY <2>5, Names
            <3>3. sem'["space"].value + Held("space", "writer")' + Held("space", "reader")'
                      + pipe'.size <= PIPE_SIZE
                <4>1. \A a, b, c, d, e, f, n, t \in Int :
                          a + b + c <= d + e + f + 1 /\ d + e + f + n <= t
                              => a + b + c + (n - 1) <= t
                    OBVIOUS
                <4>2. pipe'.size = pipe.size - 1 /\ pipe.size \in Int /\ sem["space"].value \in Int
                    BY <1>9, <1>10
                <4>. QED
                    BY <2>4, <2>7, <2>8, <3>1, <3>2, <4>1, <4>2
            <3>4. sem'["data"].value + Held("data", "reader")' + Owed' <= pipe'.size
                BY <1>5, <1>9, <1>10, <2>3, <2>4, <2>6, <2>8
            <3>. QED
                BY <3>3, <3>4
        <2>. QED
            BY <1>10, <2>9 DEF RoomInv
    <1>17. StreamInv'
        <2>1. Len(got) <= written /\ Len(got) \in Nat /\ written \in Nat
            BY <1>2, <1>6 DEF IInv, StreamInv, Typed
        <2>2. \A i : Item(i)' = Item(i)
            BY <1>3 DEF Item
        <2>3. ASSUME NEW m \in 0 .. pipe'.size - 1 PROVE CellAt(m)' = Item(Len(got') + m + 1)
            <3>1. m \in 0 .. pipe.size - 2 /\ m + 1 \in 0 .. pipe.size - 1
                BY <1>9, <1>10
            <3>2. CellAt(m + 1) = Item(Len(got) + (m + 1) + 1)
                BY <1>5, <3>1 DEF IInv, StreamInv
            <3>3. Len(got) + (m + 1) + 1 = Len(got') + m + 1
                BY <1>11, <2>1
            <3>. QED
                BY <1>10, <3>1, <3>2, <3>3
        <2>4. EofStored' <=> EofStored
            BY <1>3, <1>9, <1>10, <1>11, <2>1 DEF EofStored
        <2>5. Len(got') + pipe'.size >= written
            <3>1. Len(got) + pipe.size >= written
                BY <1>5 DEF IInv, StreamInv
            <3>. QED
                BY <1>9, <1>10, <1>11, <2>1, <3>1
        <2>6. EofStored' => \/ status'["writer"] = "ABSENT" \/ job'["writer"].kind = "kill"
                            \/ job'["writer"].at \in AfterEof
            BY <1>4, <1>5, <1>8, <2>4 DEF IInv, StreamInv
        <2>7. job'["writer"].at \in AfterEof => EofStored'
            BY <1>4, <1>5, <2>4 DEF IInv, StreamInv
        <2>. QED
            BY <1>3, <1>4, <1>5, <1>10, <1>11, <2>1, <2>2, <2>3, <2>5, <2>6, <2>7 DEF StreamInv
    <1>18. TokenInv'
        <2>1. Token("reader")' = 0
            BY <1>4 DEF Token, HasToken
        <2>2. ~killed => sem'["space"].value + sem'["data"].value + Token("writer")'
                             = sem["space"].value + sem["data"].value + Token("writer") + 1
            BY <1>4, <1>6, <1>7, Names, PostTokens
        <2>3. \A r \in Users : Token(r) \in {0, 1} /\ Token(r)' \in {0, 1}
            BY DEF Token
        <2>. QED
            BY <1>3, <1>5, <1>9, <2>1, <2>2, <2>3, Names DEF IInv, TokenInv
    <1>19. SleepInv'
        BY <1>2, <1>3, <1>4, <1>6, <1>7, <1>8, Names, PostSleep DEF IInv, Users
    <1>. QED
        BY <1>12, <1>13, <1>14, <1>15, <1>16, <1>17, <1>18, <1>19 DEF IInv

\* A byte of writePipe, or the EOF of an exit or of a kill, is stored.
LEMMA CopyStoreKeeps ==
    ASSUME IInv, NEW p \in Users, Copy(p), job[p].kind # "read"
    PROVE  IInv'
    <1>. DEFINE kind == job[p].kind
                own == kind \in {"write", "echo"}
                byte == IF own THEN written + 1 ELSE EOF
    <1>1. InCall(p, "copy") /\ Typed /\ QueueInv
        BY DEF Copy, IInv
    <1>2. /\ kind \in {"write", "echo", "exit", "kill"}
          /\ kind \in {"write", "echo", "exit"} => p = "writer"
          /\ kind = "kill" => killed
          /\ ~own => ~(job[p].rest > 1)
        <2>1. kind \in {"write", "echo", "exit", "kill"} /\ job[p].rest \in Nat
            BY <1>1, CopyFacts, Names DEF Typed, Job
        <2>. QED
            BY <2>1, Names DEF IInv, JobInv, ShellInv
    <1>3. /\ sem' = Posted("data") /\ pipe' = Stored(byte)
          /\ written' = IF own THEN written + 1 ELSE written
          /\ UNCHANGED <<got, shell, exits, killed, hung>>
        BY <1>2 DEF Copy, Gives
    <1>4. /\ status["shell"] \in {"READY", "BLOCKED"} /\ status[p] = "READY"
          /\ kernel \in {NULL, p} /\ job[p].at = "copy"
          /\ \A s \in Sems : ~InQueue(s, p)
          /\ Held("space", p) = 1 /\ Held("data", p) = 0 /\ Token(p) = 1
          /\ shell \notin {"create", "spawnWriter", "done"}
        <2>1. Takes(kind) = "space"
            BY <1>2 DEF Takes
        <2>. QED
            BY <1>1, <2>1, CopyFacts, Names DEF IInv, ShellInv, Typed
    <1>5. /\ job' \in [Proc -> Job] /\ job'["shell"] = job["shell"]
          /\ \/ job'[p] = Idle /\ kernel' = NULL
             \/ job'[p] = Doing(kind, job[p].rest - 1, "wait") /\ kernel' = p /\ own
             \/ job'[p] = Doing("echo", 0, "kill") /\ kernel' = p /\ own
          /\ \A r \in Users : \/ job'[r] = job[r] \/ r = p
                              \/ kind = "kill" /\ r = "writer" /\ job'[r] = Idle
          /\ kind = "kill" => job'["writer"] = Idle
          /\ Idle \in Job /\ Idle.kind = "user" /\ Idle.at = "user" /\ Idle.rest = 0
        <2>1. job \in [Proc -> Job] /\ Idle \in Job
            BY <1>1 DEF Typed, Job, Idle
        <2>2. Idle.kind = "user" /\ Idle.at = "user" /\ Idle.rest = 0
            BY DEF Idle
        <2>3. CASE job[p].rest > 1
            <3>1. own /\ kind \in {"write", "echo"}
                BY <1>2, <2>3
            <3>2. job[p].rest - 1 \in Nat
                BY <2>1, <2>3, Names DEF Job
            <3>3. Doing(kind, job[p].rest - 1, "wait") \in Job
                BY <3>1, <3>2 DEF Doing, Job, InCalls
            <3>4. job' = [job EXCEPT ![p] = Doing(kind, job[p].rest - 1, "wait")] /\ kernel' = p
                BY <2>3 DEF Copy, Doing
            <3>. QED
                BY <2>1, <2>2, <3>1, <3>3, <3>4, Names
        <2>4. CASE ~(job[p].rest > 1) /\ kind \notin {"kill", "echo"}
            <3>1. job' = [job EXCEPT ![p] = Idle] /\ kernel' = NULL
                BY <2>4 DEF Copy
            <3>. QED
                BY <2>1, <2>2, <2>4, <3>1, Names
        <2>5. CASE ~(job[p].rest > 1) /\ kind = "kill"
            <3>1. job' = [job EXCEPT ![p] = Idle, !["writer"] = Idle] /\ kernel' = NULL
                BY <2>5 DEF Copy
            <3>. QED
                BY <2>1, <2>2, <2>5, <3>1, Names
        <2>6. CASE ~(job[p].rest > 1) /\ kind = "echo"
            <3>1. job' = [job EXCEPT ![p] = Doing("echo", 0, "kill")] /\ kernel' = p
                BY <2>6 DEF Copy
            <3>2. Doing("echo", 0, "kill") \in Job
                BY DEF Doing, Job, InCalls
            <3>. QED
                BY <2>1, <2>2, <2>6, <3>1, <3>2, Names
        <2>. QED
            BY <1>2, <2>3, <2>4, <2>5, <2>6
    <1>6. /\ WokenBy("data") \in [Proc -> {"ABSENT", "READY", "BLOCKED"}]
          /\ WokenBy("data")["shell"] = status["shell"]
          /\ \A r \in Users : \/ WokenBy("data")[r] = status[r]
                              \/ (WokenBy("data")[r] = "READY" /\ status[r] = "BLOCKED")
        BY <1>1, Waking, Names
    <1>7. /\ status' \in [Proc -> {"ABSENT", "READY", "BLOCKED"}]
          /\ status'["reader"] = WokenBy("data")["reader"]
          /\ own => status'["writer"] = "READY"
          /\ ~own => status'["writer"] = "ABSENT"
          /\ status'["shell"] = IF kind = "exit" /\ shell = "waitWriter" THEN "READY"
                                ELSE status["shell"]
        <2>. DEFINE W == WokenBy("data")
        <2>1. CASE own
            <3>1. status' = W
                BY <2>1 DEF Copy, Gives
            <3>. QED
                BY <1>2, <1>4, <1>6, <2>1, <3>1, Names
        <2>2. CASE kind = "exit"
            <3>1. status' = Left(W, "writer")
                BY <2>2 DEF Copy
            <3>2. /\ Left(W, "writer") \in [Proc -> {"ABSENT", "READY", "BLOCKED"}]
                  /\ Left(W, "writer")["writer"] = "ABSENT"
                  /\ \A r \in Users : r # "writer" => Left(W, "writer")[r] = W[r]
                  /\ Left(W, "writer")["shell"]
                        = IF Waiting /\ Target = "writer" /\ W["shell"] = "BLOCKED"
                          THEN "READY" ELSE W["shell"]
                <4>1. W \in [Proc -> {"ABSENT", "READY", "BLOCKED"}]
                    BY <1>6
                <4>. HIDE DEF W
                <4>. QED
                    BY <4>1, LeftFacts, Names
            <3>3. (Waiting /\ Target = "writer") <=> shell = "waitWriter"
                BY DEF Waiting, Target
            <3>. HIDE DEF W
            <3>4. W["shell"] \in {"READY", "BLOCKED"}
                BY <1>4, <1>6 DEF W
            <3>. QED
                BY <2>2, <3>1, <3>2, <3>3, <3>4, <1>6, Names DEF W
        <2>3. CASE kind = "kill"
            <3>1. status' = [W EXCEPT !["writer"] = "ABSENT"]
                BY <2>3 DEF Copy
            <3>. QED
                BY <1>6, <2>3, <3>1, Names
        <2>. QED
            BY <1>2, <2>1, <2>2, <2>3
    <1>8. PostStep("data", p)
        <2>1. \A r \in Users : \/ job'[r] = job[r] \/ r = p
                               \/ (status'[r] = "ABSENT" /\ killed)
            BY <1>2, <1>5, <1>7
        <2>2. \A r \in Users : \/ status'[r] = WokenBy("data")[r]
                               \/ (status'[r] = "ABSENT" /\ (r = p \/ killed))
            <3>1. own => WokenBy("data")["writer"] = "READY"
                BY <1>2, <1>4, <1>6, Names
            <3>. QED
                BY <1>2, <1>7, <3>1 DEF Users
        <2>. QED
            BY <1>3, <1>4, <2>1, <2>2 DEF PostStep
    <1>9. job'[p].at \in {"user", "wait", "kill"} /\ job'[p].kind \in {"user", "write", "echo"}
        BY <1>5 DEF Doing
    <1>10. \A t \in Sems : \A r \in Users : Held(t, r) \in {0, 1} /\ Held(t, r)' \in {0, 1}
        BY DEF Held
    <1>11. /\ pipe \in Ring /\ pipe.size < PIPE_SIZE /\ pipe.size \in Nat /\ PIPE_SIZE \in Nat
           /\ pipe.writePos = (pipe.readPos + pipe.size) % PIPE_SIZE
           /\ sem["data"].value \in Nat /\ sem["space"].value \in Nat
           /\ sem["space"].value + Held("space", "writer") + Held("space", "reader") + pipe.size
                  <= PIPE_SIZE
           /\ sem["data"].value + Held("data", "reader") + Owed <= pipe.size
        <2>1. /\ pipe \in Ring /\ pipe.size \in Nat /\ PIPE_SIZE \in Nat
              /\ sem["space"].value + Held("space", "writer") + Held("space", "reader") + pipe.size
                     <= PIPE_SIZE
              /\ sem["data"].value + Held("data", "reader") + Owed <= pipe.size
            BY <1>4, SizesAssumption DEF IInv, RoomInv, Ring
        <2>2. sem["data"].value \in Nat /\ sem["space"].value \in Nat
            BY Names DEF IInv, Typed
        <2>3. Held("space", "writer") \in {0, 1} /\ Held("space", "reader") \in {0, 1}
            BY <1>10, Names
        <2>4. Held("space", "writer") = 1 \/ Held("space", "reader") = 1
            BY <1>4 DEF Users
        <2>5. pipe.size < PIPE_SIZE
            BY <2>1, <2>2, <2>3, <2>4
        <2>6. pipe.writePos = (pipe.readPos + pipe.size) % PIPE_SIZE
            BY <1>4 DEF IInv, StreamInv
        <2>. QED
            BY <2>1, <2>2, <2>5, <2>6
    <1>12. got \in Seq(Nat) /\ written \in Nat /\ byte \in Nat /\ Len(got) \in Nat
        BY <1>1 DEF Typed, EOF
    <1>13. /\ pipe' \in Ring /\ pipe'.readPos = pipe.readPos /\ pipe'.size = pipe.size + 1
           /\ pipe'.writePos = (pipe'.readPos + pipe'.size) % PIPE_SIZE
           /\ \A m \in 0 .. pipe.size - 1 : CellAt(m)' = CellAt(m)
           /\ \A m \in Nat : m = pipe.size => CellAt(m)' = byte
        <2>. HIDE DEF byte
        <2>. QED
            BY <1>3, <1>11, <1>12, StoredBehind
    <1>14. Typed'
        <2>1. sem' \in [Sems -> SemType]
            BY <1>1, <1>3, Names, PostOutcome
        <2>2. kernel' \in Users \cup {NULL} /\ written' \in Nat
            BY <1>3, <1>5, <1>12
        <2>. QED
            BY <1>1, <1>3, <1>5, <1>7, <2>1, <2>2 DEF Typed, SemType
    <1>15. JobInv'
        <2>1. \A r \in Users : r # p => kernel # r
            BY <1>4, NullAssumption DEF Users
        <2>2. kernel' \in {NULL, p}
            BY <1>5
        <2>3. ASSUME NEW r \in Users
              PROVE  /\ job'[r].kind = "user" <=> job'[r].at = "user"
                     /\ job'[r].kind = "user" => job'[r] = Idle
                     /\ job'[r].kind = "return" <=> job'[r].at \in BeforeEof \cup AfterEof
                     /\ job'[r].kind = "return" => /\ r = "writer" /\ exits = "return"
                                                   /\ job'[r].rest = 1
                     /\ job'[r].kind \in {"write", "echo", "exit"} => r = "writer"
                     /\ job'[r].kind = "read" => r = "reader"
                     /\ job'[r].kind \notin {"write", "echo"} => job'[r].rest < 2
                     /\ job'[r].at = "kill" => job'[r].kind = "echo"
                     /\ status'[r] = "ABSENT" => job'[r] = Idle
                     /\ job'[r].at \in {"wait", "kill"} => kernel' = r
                     /\ kernel' = r => status'[r] = "READY" /\ job'[r].at \in InCalls
            <3>1. CASE job'[r] = Idle
                <4>1. kernel' # r
                    <5>1. CASE r = p
                        <6>1. /\ Doing(kind, job[p].rest - 1, "wait") # Idle
                              /\ Doing("echo", 0, "kill") # Idle
                            BY DEF Doing, Idle
                        <6>. QED
                            BY <1>5, <3>1, <5>1, <6>1, NullAssumption DEF Users
                    <5>2. CASE r # p
                        BY <2>2, <5>2, NullAssumption DEF Users
                    <5>. QED
                        BY <5>1, <5>2
                <4>. QED
                    BY <1>5, <3>1, <4>1 DEF BeforeEof, AfterEof
            <3>2. CASE r = p /\ job'[p] # Idle
                <4>1. /\ job'[p].kind \in {"write", "echo"} /\ job'[p].at \in {"wait", "kill"}
                      /\ kernel' = p /\ own
                      /\ job'[p].at = "kill" => job'[p].kind = "echo"
                    BY <1>5, <3>2 DEF Doing
                <4>2. p = "writer" /\ status'["writer"] = "READY"
                    BY <1>2, <1>7, <4>1
                <4>. QED
                    BY <3>2, <4>1, <4>2 DEF InCalls, BeforeEof, AfterEof
            <3>3. CASE r # p /\ job'[r] = job[r]
                <4>1. kernel' # r
                    BY <2>2, <3>3, NullAssumption DEF Users
                <4>2. status'[r] = "ABSENT" => status[r] = "ABSENT" \/ job'[r] = Idle
                    <5>1. CASE r = "reader"
                        BY <1>6, <1>7, <5>1, Names
                    <5>2. CASE r = "writer"
                        BY <1>2, <1>5, <1>7, <3>3, <5>2
                    <5>. QED
                        BY <5>1, <5>2 DEF Users
                <4>. QED
                    BY <1>3, <2>1, <3>3, <4>1, <4>2 DEF IInv, JobInv
            <3>. QED
                BY <1>5, <3>1, <3>2, <3>3
        <2>. QED
            BY <1>3, <1>5, <2>3 DEF IInv, JobInv
    <1>16. ShellInv'
        <2>1. status'["shell"] # "ABSENT"
            BY <1>4, <1>7
        <2>2. /\ shell \in {"create", "spawnWriter"} => status'["writer"] = "ABSENT"
              /\ shell \in {"create", "spawnWriter", "spawnReader"} => status'["reader"] = "ABSENT"
              /\ shell \in WithoutWriter => status'["writer"] = "ABSENT"
              /\ shell \in {"destroy", "done"} => status'["reader"] = "ABSENT"
            BY <1>2, <1>4, <1>6, <1>7, Names DEF IInv, ShellInv
        <2>3. status'["shell"] = "BLOCKED" =>
                  Waiting /\ status'[Target] # "ABSENT"
            <3>1. ASSUME status'["shell"] = "BLOCKED" PROVE Waiting /\ status'[Target] # "ABSENT"
                <4>1. status["shell"] = "BLOCKED" /\ ~(kind = "exit" /\ shell = "waitWriter")
                    BY <1>7, <3>1
                <4>2. Waiting /\ status[Target] # "ABSENT"
                    BY <4>1 DEF IInv, ShellInv
                <4>3. CASE shell = "waitWriter"
                    <5>1. kind # "kill"
                        BY <4>1, <4>3 DEF IInv, ShellInv
                    <5>. QED
                        BY <1>2, <1>7, <4>1, <4>2, <4>3, <5>1 DEF Target
                <4>4. CASE shell # "waitWriter"
                    BY <1>6, <1>7, <4>2, <4>4, Names DEF Target
                <4>. QED
                    BY <4>3, <4>4
            <3>. QED
                BY <3>1
        <2>4. status'["shell"] = "READY" /\ Waiting => status'[Target] = "ABSENT" \/ killed
            <3>1. CASE kind = "exit" /\ shell = "waitWriter"
                BY <1>7, <3>1 DEF Target
            <3>2. CASE ~(kind = "exit" /\ shell = "waitWriter")
                <4>1. status["shell"] = status'["shell"]
                    BY <1>7, <3>2
                <4>2. status["shell"] = "READY" /\ Waiting => status[Target] = "ABSENT" \/ killed
                    BY DEF IInv, ShellInv
                <4>3. status[Target] = "ABSENT" => status'[Target] = "ABSENT"
                    BY <1>2, <1>4, <1>6, <1>7, Names DEF Target
                <4>. QED
                    BY <4>1, <4>2, <4>3
            <3>. QED
                BY <3>1, <3>2
        <2>5. killed => shell \notin Early
            BY DEF IInv, ShellInv
        <2>6. \A x \in Users : job'[x].kind = "kill" =>
                  killed /\ ~(status'["shell"] = "BLOCKED" /\ shell = "waitWriter")
            <3>1. \A x \in Users : job'[x].kind = "kill" => job[x].kind = "kill"
                BY <1>5, <1>9
            <3>2. \A x \in Users : job[x].kind = "kill" =>
                      killed /\ ~(status["shell"] = "BLOCKED" /\ shell = "waitWriter")
                BY DEF IInv, ShellInv
            <3>. QED
                BY <1>7, <3>1, <3>2
        <2>. QED
            BY <1>3, <2>1, <2>2, <2>3, <2>4, <2>5, <2>6 DEF ShellInv, Waiting, Target
    <1>17. QueueInv'
        BY <1>1, <1>3, <1>4, <1>8, Names, PostQueues
    <1>18. RoomInv'
        <2>1. /\ \A t \in Sems : Held(t, p)' = 0
              /\ \A t \in Sems : t # "data" =>
                    /\ sem'[t].value = sem[t].value
                    /\ \A r \in Users : Held(t, r)' <= Held(t, r)
              /\ \/ /\ sem'["data"].value = sem["data"].value + 1
                    /\ \A r \in Users : Held("data", r)' <= Held("data", r)
                 \/ /\ sem'["data"].value = sem["data"].value
                    /\ \E h \in Users : \A r \in Users :
                          Held("data", r)' <= Held("data", r) + (IF r = h THEN 1 ELSE 0)
            <3>1. job'[p].at \notin {"copy", "taken", "store"}
                BY <1>9
            <3>. QED
                BY <1>1, <1>8, <3>1, Names, PostHeld
        <2>2. Owed' <= Owed /\ Owed \in {0, 1} /\ Owed' \in {0, 1}
            BY <1>5, <1>9, Names DEF Owed
        <2>3. /\ sem'["space"].value = sem["space"].value
              /\ Held("space", "writer")' <= Held("space", "writer")
              /\ Held("space", "reader")' <= Held("space", "reader")
            BY <2>1, Names
        <2>4. /\ Held("space", "writer") \in {0, 1} /\ Held("space", "reader") \in {0, 1}
              /\ Held("space", "writer")' \in {0, 1} /\ Held("space", "reader")' \in {0, 1}
              /\ Held("data", "reader") \in {0, 1} /\ Held("data", "reader")' \in {0, 1}
            BY <1>10, Names
        <2>5. \/ Held("space", "writer")' = 0 /\ Held("space", "writer") = 1
              \/ Held("space", "reader")' = 0 /\ Held("space", "reader") = 1
            BY <1>4, <2>1, Names DEF Users
        <2>6. sem'["space"].value + Held("space", "writer")' + Held("space", "reader")'
                  + pipe'.size <= PIPE_SIZE
            BY <1>11, <1>13, <2>3, <2>4, <2>5
        <2>7. \/ /\ sem'["data"].value = sem["data"].value + 1
                 /\ Held("data", "reader")' <= Held("data", "reader")
              \/ /\ sem'["data"].value = sem["data"].value
                 /\ Held("data", "reader")' <= Held("data", "reader") + 1
            BY <2>1, <2>4, Names
        <2>8. sem'["data"].value + Held("data", "reader")' + Owed' <= pipe'.size
            BY <1>11, <1>13, <2>2, <2>4, <2>7
        <2>. QED
            BY <1>13, <2>6, <2>8 DEF RoomInv
    <1>19. StreamInv'
        <2>1. /\ \A i \in DOMAIN got : got[i] = Item(i)
              /\ Len(got) <= written + 1 /\ Len(got) + pipe.size >= written
              /\ \A m \in 0 .. pipe.size - 1 : CellAt(m) = Item(Len(got) + m + 1)
            BY <1>4 DEF IInv, StreamInv
        <2>2. kind # "kill" => Len(got) + pipe.size = written
            <3>1. kind # "kill" => /\ status["writer"] = "READY" /\ job["writer"].kind # "kill"
                                   /\ job["writer"].at \notin AfterEof
                BY <1>2, <1>4 DEF AfterEof
            <3>2. EofStored => \/ status["writer"] = "ABSENT" \/ job["writer"].kind = "kill"
                               \/ job["writer"].at \in AfterEof
                BY <1>4 DEF IInv, StreamInv
            <3>3. kind # "kill" => ~EofStored
                BY <3>1, <3>2
            <3>4. /\ Len(got) \in Nat /\ pipe.size \in Nat /\ written \in Nat
                  /\ Len(got) + pipe.size >= written
                BY <1>11, <1>12, <2>1
            <3>5. kind # "kill" => ~(Len(got) + pipe.size > written)
                BY <3>3 DEF EofStored
            <3>. QED
                BY ONLY <3>4, <3>5
        <2>3. \A i \in Nat : i <= Len(got) + pipe.size => Item(i)' = Item(i)
            BY <1>2, <1>3, <1>12, <2>2 DEF Item
        <2>4. \A i \in DOMAIN got' : got'[i] = Item(i)'
            <3>1. \A i \in DOMAIN got : i \in Nat /\ i <= Len(got) + pipe.size
                BY <1>11, <1>12
            <3>. QED
                BY <1>3, <2>1, <2>3, <3>1
        <2>5. ASSUME NEW m \in 0 .. pipe'.size - 1 PROVE CellAt(m)' = Item(Len(got) + m + 1)'
            <3>1. m \in 0 .. pipe.size - 1 \/ m = pipe.size
                BY <1>11, <1>13
            <3>2. CASE m \in 0 .. pipe.size - 1
                <4>1. Len(got) + m + 1 \in Nat /\ Len(got) + m + 1 <= Len(got) + pipe.size
                    BY <1>11, <1>12, <3>2
                <4>. QED
                    BY <1>3, <1>13, <2>1, <2>3, <3>2, <4>1
            <3>3. CASE m = pipe.size
                <4>1. CellAt(m)' = byte
                    BY <1>11, <1>13, <3>3
                <4>2. Item(Len(got) + m + 1)' = byte
                    BY <1>2, <1>3, <1>11, <1>12, <2>1, <2>2, <3>3 DEF Item
                <4>. QED
                    BY <4>1, <4>2
            <3>. QED
                BY <3>1, <3>2, <3>3
        <2>6. /\ Len(got) <= written' + 1
              /\ Len(got) + pipe'.size >= written'
            BY <1>2, <1>3, <1>11, <1>12, <1>13, <2>1, <2>2
        <2>7. EofStored' => \/ status'["writer"] = "ABSENT" \/ job'["writer"].kind = "kill"
                            \/ job'["writer"].at \in AfterEof
            <3>1. own => ~EofStored'
                BY <1>3, <1>11, <1>12, <1>13, <2>2 DEF EofStored
            <3>. QED
                BY <1>2, <1>7, <3>1
        <2>8. job'["writer"].at \in AfterEof => EofStored'
            <3>1. job'["writer"].at \in AfterEof => kind = "kill" /\ job'["writer"] = job["writer"]
                BY <1>2, <1>5, <1>9, Names DEF AfterEof
            <3>. QED
                BY <1>5, <3>1 DEF AfterEof
        <2>9. job'["reader"].kind = "read" => Len(got) <= written'
            <3>1. job'["reader"].kind = "read" => job'["reader"] = job["reader"]
                BY <1>5, <1>9, Names
            <3>2. job["reader"].kind = "read" => Len(got) <= written
                BY DEF IInv, StreamInv
            <3>. QED
                BY <1>3, <1>12, <3>1, <3>2
        <2>. QED
            BY <1>3, <1>4, <1>13, <2>4, <2>5, <2>6, <2>7, <2>8, <2>9 DEF StreamInv
    <1>20. TokenInv'
        <2>. SUFFICES ASSUME ~killed
                      PROVE  sem'["space"].value + sem'["data"].value + Token("writer")'
                                 + Token("reader")' = PIPE_SIZE
            BY <1>3 DEF TokenInv
        <2>1. p = "writer" /\ job'["reader"] = job["reader"]
            BY <1>2, <1>5, Names
        <2>2. Token("writer")' = 0
            BY <1>9, <2>1 DEF Token, HasToken
        <2>3. sem'["space"].value + sem'["data"].value + Token("reader")'
                  = sem["space"].value + sem["data"].value + Token("reader") + 1
            BY <1>1, <1>8, <2>1, Names, PostTokens
        <2>4. \A r \in Users : Token(r) \in {0, 1} /\ Token(r)' \in {0, 1}
            BY DEF Token
        <2>5. sem["space"].value + sem["data"].value + Token("writer") + Token("reader") = PIPE_SIZE
            BY <1>4 DEF IInv, TokenInv
        <2>6. sem'["space"].value \in Nat /\ sem'["data"].value \in Nat
            BY <1>14, Names DEF Typed
        <2>. QED
            BY <1>4, <1>11, <2>1, <2>2, <2>3, <2>4, <2>5, <2>6, Names
    <1>21. SleepInv'
        <2>1. status'[p] # "BLOCKED"
            BY <1>2, <1>4, <1>6, <1>7 DEF Users
        <2>2. (\E x \in Users : job[x].kind = "kill") =>
                  status'["writer"] = "ABSENT" \/ \E x \in Users : job'[x].kind = "kill"
            BY <1>2, <1>5, <1>7
        <2>. QED
            BY <1>1, <1>3, <1>8, <2>1, <2>2, Names, PostSleep DEF IInv
    <1>. QED
        BY <1>14, <1>15, <1>16, <1>17, <1>18, <1>19, <1>20, <1>21 DEF IInv

----------------------------------------------------------------------------
\* semWait

\* A token is taken by p, whose job says now that it has one.
LEMMA TakeKeeps ==
    ASSUME IInv, NEW p \in Users, NEW s \in Sems, NEW at \in {"copy", "taken"}, sem[s].value > 0,
           sem' = Taken(s), s = Takes(job[p].kind), status[p] = "READY",
           job' = [job EXCEPT ![p].at = at],
           \/ job[p].at = "wait" /\ at = "copy" /\ kernel' = p
           \/ job[p].at = "test" /\ at = "taken" /\ UNCHANGED kernel,
           UNCHANGED <<pipe, status, shell, exits, written, got, killed, hung>>
    PROVE  IInv'
    <1>1. /\ sem \in [Sems -> SemType] /\ job \in [Proc -> Job] /\ kernel \in Users \cup {NULL}
        BY DEF IInv, Typed, SemType
    <1>2. /\ sem' \in [Sems -> SemType]
          /\ \A t \in Sems : /\ sem'[t].value = IF t = s THEN sem[s].value - 1 ELSE sem[t].value
                             /\ sem'[t].waiters = sem[t].waiters
        <2>1. sem[s].value - 1 \in Nat
            BY <1>1 DEF SemType
        <2>. DEFINE new == [sem EXCEPT ![s].value = sem[s].value - 1]
        <2>2. /\ new \in [Sems -> SemType]
              /\ \A t \in Sems :
                    /\ new[t].value = IF t = s THEN sem[s].value - 1 ELSE sem[t].value
                    /\ new[t].waiters = sem[t].waiters
            BY <1>1, <2>1, SemValue
        <2>3. sem' = new
            BY DEF Taken
        <2>. HIDE DEF new
        <2>. QED
            BY <2>2, <2>3
    <1>3. \A t \in Sems : \A r : InQueue(t, r)' <=> InQueue(t, r)
        BY <1>2 DEF InQueue
    <1>4. \A r : ~InQueue(s, r)
        <2>1. sem[s].waiters = <<>>
            BY <1>1 DEF IInv, QueueInv, SemType
        <2>. QED
            BY <2>1 DEF InQueue, In
    <1>5. /\ \A r \in Proc : r # p => job'[r] = job[r]
          /\ job'[p].kind = job[p].kind /\ job'[p].rest = job[p].rest /\ job'[p].at = at
          /\ job' \in [Proc -> Job]
          /\ p \in Proc
        BY <1>1, Names DEF Job, InCalls, BeforeEof
    <1>6. Typed'
        BY <1>1, <1>2, <1>5 DEF IInv, Typed, SemType
    <1>7. JobInv'
        <2>1. job'["shell"] = Idle
            BY <1>5, Names DEF IInv, JobInv
        <2>2. ASSUME NEW r \in Users, r # p
              PROVE  /\ job'[r].at \in {"wait", "kill"} => kernel' = r
                     /\ kernel' = r => status'[r] = "READY" /\ job'[r].at \in InCalls
            <3>1. job[p].at = "wait" => kernel = p
                BY DEF IInv, JobInv
            <3>. QED
                BY <1>5, <2>2, <3>1, Names DEF IInv, JobInv
        <2>3. /\ job'[p].kind = "user" <=> job'[p].at = "user"
              /\ job'[p].kind = "user" => job'[p] = Idle
              /\ job'[p].kind = "return" <=> job'[p].at \in BeforeEof \cup AfterEof
              /\ job'[p].at \in {"wait", "kill"} => kernel' = p
              /\ kernel' = p => status'[p] = "READY" /\ job'[p].at \in InCalls
            <3>1. /\ job[p].kind = "user" <=> job[p].at = "user"
                  /\ job[p].kind = "return" <=> job[p].at \in BeforeEof \cup AfterEof
                  /\ kernel = p => job[p].at \in InCalls
                BY DEF IInv, JobInv
            <3>. QED
                BY <1>5, <3>1 DEF InCalls, BeforeEof, AfterEof
        <2>. QED
            BY <1>5, <2>1, <2>2, <2>3, Names DEF IInv, JobInv
    <1>8. ShellInv'
        BY <1>5, Names DEF IInv, ShellInv, Waiting, Target
    <1>9. QueueInv'
        <2>1. ASSUME NEW t \in Sems, NEW r \in Users, InQueue(t, r)
              PROVE  \/ status[r] = "ABSENT" /\ killed
                     \/ Sleeps(r)' /\ t = Takes(job'[r].kind)
            <3>1. \/ status[r] = "ABSENT" /\ killed
                  \/ Sleeps(r) /\ t = Takes(job[r].kind)
                BY <2>1 DEF IInv, QueueInv
            <3>2. r = p => t = s
                BY <3>1
            <3>3. r # p
                BY <1>4, <2>1, <3>2
            <3>. QED
                BY <1>5, <3>1, <3>3, Names DEF Sleeps
        <2>2. \A t \in Sems : Distinct(sem'[t].waiters)
            BY <1>2 DEF IInv, QueueInv
        <2>3. \A t \in Sems : sem'[t].waiters # <<>> => sem'[t].value = 0
            <3>1. sem[s].waiters = <<>>
                BY <1>1 DEF IInv, QueueInv, SemType
            <3>. QED
                BY <1>2, <3>1 DEF IInv, QueueInv
        <2>4. shell # "create"
            BY DEF IInv, QueueInv, Sems, SemType
        <2>. QED
            BY <1>3, <2>1, <2>2, <2>3, <2>4 DEF QueueInv
    <1>10. \A t \in Sems : \A r \in Users : r # p => Held(t, r)' = Held(t, r)
        BY <1>3, <1>5, Names DEF Held
    <1>11. \A t \in Sems : /\ Held(t, p) = 0
                           /\ Held(t, p)' = IF t = s THEN 1 ELSE 0
        BY <1>3, <1>4, <1>5 DEF Held
    <1>12. RoomInv'
        <2>1. \A t \in Sems : \A r \in Users : Held(t, r) \in {0, 1}
            BY DEF Held
        <2>2. Owed' = Owed
            BY <1>5, Names DEF Owed
        <2>3. \A t \in Sems :
                  sem'[t].value + Held(t, "writer")' + Held(t, "reader")'
                      = sem[t].value + Held(t, "writer") + Held(t, "reader")
            <3>. TAKE t \in Sems
            <3>1. sem[t].value \in Nat
                BY <1>1 DEF SemType
            <3>2. Held(t, "writer") \in {0, 1} /\ Held(t, "reader") \in {0, 1}
                BY <2>1, Names
            <3>3. CASE p = "writer"
                BY <1>2, <1>10, <1>11, <3>1, <3>2, <3>3, Names
            <3>4. CASE p = "reader"
                BY <1>2, <1>10, <1>11, <3>1, <3>2, <3>4, Names
            <3>. QED
                BY <3>3, <3>4 DEF Users
        <2>4. sem'["data"].value + Held("data", "reader")'
                  = sem["data"].value + Held("data", "reader")
            <3>1. Held("data", "writer")' = Held("data", "writer")
                <4>1. p = "writer" => s # "data"
                    BY DEF IInv, JobInv, Takes
                <4>. QED
                    BY <1>10, <1>11, <4>1, Names
            <3>2. sem["data"].value \in Nat /\ sem'["data"].value \in Nat
                BY <1>1, <1>2, Names DEF SemType
            <3>3. /\ Held("data", "writer") \in {0, 1} /\ Held("data", "reader") \in {0, 1}
                  /\ Held("data", "reader")' \in {0, 1}
                BY <2>1, <1>10, <1>11, Names DEF Held
            <3>4. sem'["data"].value + Held("data", "writer")' + Held("data", "reader")'
                      = sem["data"].value + Held("data", "writer") + Held("data", "reader")
                BY <2>3, Names
            <3>. QED
                BY <3>1, <3>2, <3>3, <3>4
        <2>. QED
            BY <2>2, <2>3, <2>4, Names DEF IInv, RoomInv
    <1>13. StreamInv'
        <2>1. job'["reader"].kind = job["reader"].kind /\ job'["writer"].kind = job["writer"].kind
            BY <1>5, Names
        <2>2. /\ job'["writer"].at \in AfterEof => job["writer"].at \in AfterEof
              /\ job["writer"].at \in AfterEof => job'["writer"].at \in AfterEof
            BY <1>5, Names DEF AfterEof
        <2>. QED
            BY <2>1, <2>2, StreamStays DEF IInv
    <1>14. TokenInv'
        <2>1. \A r \in Users : r # p => Token(r)' = Token(r)
            <3>. SUFFICES ASSUME NEW r \in Users, r # p PROVE Token(r)' = Token(r)
                OBVIOUS
            <3>1. job'[r] = job[r] /\ Takes(job[r].kind) \in Sems
                BY <1>5, Names DEF Takes
            <3>. QED
                BY <1>2, <3>1 DEF Token, HasToken
        <2>2. Token(p) = 0 /\ Token(p)' = 1
            <3>1. \A i \in DOMAIN sem[s].waiters : sem[s].waiters[i] # p
                BY <1>4 DEF InQueue, In
            <3>. QED
                BY <1>2, <1>5, <3>1 DEF Token, HasToken
        <2>3. \A r \in Users : Token(r) \in {0, 1}
            BY DEF Token
        <2>4. \A t \in Sems : sem[t].value \in Nat
            BY <1>1 DEF SemType
        <2>5. \/ /\ sem'["space"].value = sem["space"].value - 1
                 /\ sem'["data"].value = sem["data"].value
              \/ /\ sem'["space"].value = sem["space"].value
                 /\ sem'["data"].value = sem["data"].value - 1
            BY <1>2 DEF Sems
        <2>6. CASE p = "writer"
            BY <2>1, <2>2, <2>3, <2>4, <2>5, <2>6, Names DEF IInv, TokenInv
        <2>7. CASE p = "reader"
            BY <2>1, <2>2, <2>3, <2>4, <2>5, <2>7, Names DEF IInv, TokenInv
        <2>. QED
            BY <2>6, <2>7 DEF Users
    <1>15. SleepInv'
        <2>1. \A r \in Users : job'[r].kind = job[r].kind
            BY <1>5, Names
        <2>2. \A r \in Users : Takes(job[r].kind) \in Sems
            BY DEF Takes, Sems
        <2>. QED
            BY <1>3, <2>1, <2>2 DEF IInv, SleepInv, BeingKilled
    <1>. QED
        BY <1>6, <1>7, <1>8, <1>9, <1>12, <1>13, <1>14, <1>15 DEF IInv

\* There is no token, and p queues: it sleeps at once, or it will.
LEMMA QueueKeeps ==
    ASSUME IInv, NEW p \in Users, NEW s \in Sems, NEW at \in {"copy", "queued"}, sem[s].value = 0,
           sem' = Queued(s, p), s = Takes(job[p].kind), status[p] = "READY",
           job' = [job EXCEPT ![p].at = at],
           \/ /\ job[p].at = "wait" /\ at = "copy" /\ kernel' = NULL
              /\ status' = [status EXCEPT ![p] = "BLOCKED"]
           \/ /\ job[p].at = "test" /\ at = "queued" /\ exits = "return"
              /\ UNCHANGED <<kernel, status>>,
           UNCHANGED <<pipe, shell, exits, written, got, killed, hung>>
    PROVE  IInv'
    <1>1. /\ sem \in [Sems -> SemType] /\ job \in [Proc -> Job] /\ kernel \in Users \cup {NULL}
          /\ status \in [Proc -> {"ABSENT", "READY", "BLOCKED"}]
        BY DEF IInv, Typed, SemType
    <1>2. \A t \in Sems : ~InQueue(t, p)
        BY DEF IInv, QueueInv, Sleeps
    <1>3. /\ Append(sem[s].waiters, p) \in Seq(Users) /\ Append(sem[s].waiters, p) # <<>>
          /\ Distinct(Append(sem[s].waiters, p))
          /\ \A r : In(Append(sem[s].waiters, p), r) <=> InQueue(s, r) \/ r = p
        <2>1. sem[s].waiters \in Seq(Users) /\ Distinct(sem[s].waiters) /\ ~In(sem[s].waiters, p)
            BY <1>1, <1>2 DEF IInv, QueueInv, SemType, InQueue
        <2>. QED
            BY <2>1, Appended DEF InQueue
    <1>4. /\ sem' \in [Sems -> SemType]
          /\ \A t \in Sems : /\ sem'[t].value = sem[t].value
                             /\ sem'[t].waiters = IF t = s THEN Append(sem[s].waiters, p)
                                                  ELSE sem[t].waiters
        <2>. DEFINE q == Append(sem[s].waiters, p)
                    new == [sem EXCEPT ![s].waiters = q]
        <2>1. sem' = new
            BY DEF Queued
        <2>2. q \in Seq(Users)
            BY <1>3
        <2>. HIDE DEF q
        <2>3. /\ new \in [Sems -> SemType]
              /\ \A t \in Sems : /\ new[t].value = sem[t].value
                                 /\ new[t].waiters = IF t = s THEN q ELSE sem[t].waiters
            BY <1>1, <2>2, SemWaiters
        <2>. HIDE DEF new
        <2>. QED
            BY <2>1, <2>3 DEF q
    <1>5. \A t \in Sems : \A r : InQueue(t, r)' <=> InQueue(t, r) \/ (t = s /\ r = p)
        BY <1>3, <1>4 DEF InQueue
    <1>6. /\ \A r \in Proc : r # p => job'[r] = job[r] /\ status'[r] = status[r]
          /\ job'[p].kind = job[p].kind /\ job'[p].rest = job[p].rest /\ job'[p].at = at
          /\ job' \in [Proc -> Job] /\ status' \in [Proc -> {"ABSENT", "READY", "BLOCKED"}]
          /\ p \in Proc /\ status'[p] = IF at = "copy" THEN "BLOCKED" ELSE "READY"
        BY <1>1, Names DEF Job, InCalls, BeforeEof
    <1>7. Typed'
        BY <1>1, <1>4, <1>6 DEF IInv, Typed, SemType
    <1>8. JobInv'
        <2>1. job'["shell"] = Idle
            BY <1>6, Names DEF IInv, JobInv
        <2>2. ASSUME NEW r \in Users, r # p
              PROVE  /\ job'[r].at \in {"wait", "kill"} => kernel' = r
                     /\ kernel' = r => status'[r] = "READY" /\ job'[r].at \in InCalls
                     /\ status'[r] = "ABSENT" => job'[r] = Idle
            <3>1. job[p].at = "wait" => kernel = p
                BY DEF IInv, JobInv
            <3>. QED
                BY <1>6, <2>2, <3>1, Names, NullAssumption DEF IInv, JobInv, Users
        <2>3. /\ job'[p].kind = "user" <=> job'[p].at = "user"
              /\ job'[p].kind = "user" => job'[p] = Idle
              /\ job'[p].kind = "return" <=> job'[p].at \in BeforeEof \cup AfterEof
              /\ job'[p].at \in {"wait", "kill"} => kernel' = p
              /\ status'[p] = "ABSENT" => job'[p] = Idle
              /\ kernel' = p => status'[p] = "READY" /\ job'[p].at \in InCalls
            <3>1. /\ job[p].kind = "user" <=> job[p].at = "user"
                  /\ job[p].kind = "return" <=> job[p].at \in BeforeEof \cup AfterEof
                  /\ kernel = p => job[p].at \in InCalls
                BY DEF IInv, JobInv
            <3>. QED
                BY <1>6, <3>1, NullAssumption DEF InCalls, BeforeEof, AfterEof, Users
        <2>. QED
            BY <1>6, <2>1, <2>2, <2>3, Names DEF IInv, JobInv
    <1>9. \A r \in Proc : status'[r] = "ABSENT" <=> status[r] = "ABSENT"
        BY <1>6
    <1>10. ShellInv'
        <2>1. status'["shell"] = status["shell"]
            BY <1>6, Names DEF Users
        <2>2. \A r \in Users : job'[r].kind = job[r].kind
            BY <1>6, Names
        <2>3. Target \in Proc
            BY Names DEF Target
        <2>. QED
            BY <1>9, <2>1, <2>2, <2>3, Names DEF IInv, ShellInv, Waiting, Target
    <1>11. QueueInv'
        <2>1. ASSUME NEW t \in Sems, NEW r \in Users, InQueue(t, r)'
              PROVE  \/ status'[r] = "ABSENT" /\ killed
                     \/ Sleeps(r)' /\ t = Takes(job'[r].kind)
            <3>1. CASE r = p
                <4>1. t = s
                    BY <1>2, <1>5, <2>1, <3>1
                <4>. QED
                    BY <1>6, <3>1, <4>1 DEF Sleeps
            <3>2. CASE r # p
                <4>1. \/ status[r] = "ABSENT" /\ killed
                      \/ Sleeps(r) /\ t = Takes(job[r].kind)
                    BY <1>5, <2>1, <3>2 DEF IInv, QueueInv
                <4>. QED
                    BY <1>6, <3>2, <4>1, Names DEF Sleeps
            <3>. QED
                BY <3>1, <3>2
        <2>2. \A t \in Sems : Distinct(sem'[t].waiters)
            BY <1>3, <1>4 DEF IInv, QueueInv
        <2>3. \A t \in Sems : /\ sem'[t].waiters # <<>> => sem'[t].value = 0
                              /\ shell = "create" => sem'[t].value = 0
            BY <1>4 DEF IInv, QueueInv
        <2>. QED
            BY <2>1, <2>2, <2>3 DEF QueueInv
    <1>12. \A t \in Sems : \A r \in Users : Held(t, r)' = Held(t, r)
        <2>1. \A t \in Sems : Held(t, p)' = 0 /\ Held(t, p) = 0
            BY <1>6 DEF Held
        <2>2. \A t \in Sems : \A r \in Users : r # p => Held(t, r)' = Held(t, r)
            BY <1>5, <1>6, Names DEF Held
        <2>. QED
            BY <2>1, <2>2
    <1>13. RoomInv'
        <2>1. Owed' = Owed
            BY <1>6, Names DEF Owed
        <2>. QED
            BY <1>4, <1>12, <2>1, Names DEF IInv, RoomInv
    <1>14. StreamInv'
        <2>1. job'["reader"].kind = job["reader"].kind /\ job'["writer"].kind = job["writer"].kind
            BY <1>6, Names
        <2>2. /\ job'["writer"].at \in AfterEof => job["writer"].at \in AfterEof
              /\ job["writer"].at \in AfterEof => job'["writer"].at \in AfterEof
            BY <1>6, Names DEF AfterEof
        <2>. QED
            BY <1>9, <2>1, <2>2, StreamStays, Names DEF IInv
    <1>15. TokenInv'
        <2>1. \A r \in Users : r # p => Token(r)' = Token(r)
            <3>. SUFFICES ASSUME NEW r \in Users, r # p PROVE Token(r)' = Token(r)
                OBVIOUS
            <3>1. job'[r] = job[r] /\ Takes(job[r].kind) \in Sems
                BY <1>6, Names DEF Takes
            <3>2. HasToken(r) <=> /\ job[r].at \in {"copy", "taken", "queued", "block", "store",
                                                    "acquire2", "post"}
                                  /\ ~InQueue(Takes(job[r].kind), r)
                BY DEF HasToken, InQueue, In
            <3>3. HasToken(r)' <=> /\ job[r].at \in {"copy", "taken", "queued", "block", "store",
                                                     "acquire2", "post"}
                                   /\ ~InQueue(Takes(job[r].kind), r)'
                BY <3>1 DEF HasToken, InQueue, In
            <3>. QED
                BY <1>5, <3>1, <3>2, <3>3 DEF Token
        <2>2. Token(p) = 0 /\ Token(p)' = 0
            <3>1. InQueue(s, p)'
                BY <1>5
            <3>2. \E i \in DOMAIN sem'[s].waiters : sem'[s].waiters[i] = p
                BY <3>1 DEF InQueue, In
            <3>. QED
                BY <1>6, <3>2 DEF Token, HasToken
        <2>3. \A r \in Users : Token(r)' = Token(r)
            BY <2>1, <2>2
        <2>. QED
            BY <1>4, <2>3, Names DEF IInv, TokenInv
    <1>16. SleepInv'
        <2>1. \A r \in Users : job'[r].kind = job[r].kind
            BY <1>6, Names
        <2>2. \A r \in Users : Takes(job[r].kind) \in Sems
            BY DEF Takes, Sems
        <2>. SUFFICES ASSUME exits = "sys_exit", NEW r \in Users,
                             status'[r] = "BLOCKED", ~BeingKilled(r)'
                      PROVE  InQueue(Takes(job[r].kind), r)'
            BY <2>1 DEF SleepInv
        <2>3. CASE r = p
            BY <1>5, <2>3
        <2>4. CASE r # p
            BY <1>5, <1>6, <2>1, <2>2, <2>4, Names DEF IInv, SleepInv, BeingKilled
        <2>. QED
            BY <2>3, <2>4
    <1>. QED
        BY <1>7, <1>8, <1>10, <1>11, <1>13, <1>14, <1>15, <1>16 DEF IInv

\* semWait.
LEMMA WaitKeeps ==
    ASSUME IInv, NEW p \in Users, Wait(p)
    PROVE  IInv'
    <1>. DEFINE s == Takes(job[p].kind)
    <1>1. /\ status[p] = "READY" /\ job[p].at = "wait" /\ s \in Sems
          /\ job' = [job EXCEPT ![p].at = "copy"]
          /\ UNCHANGED <<pipe, shell, exits, written, got, killed, hung>>
        BY DEF Wait, InCall, Takes, Sems
    <1>2. CASE sem[s].value > 0 /\ sem' = Taken(s) /\ kernel' = p /\ UNCHANGED status
        BY <1>1, <1>2, TakeKeeps
    <1>3. CASE /\ sem[s].value = 0 /\ sem' = Queued(s, p) /\ kernel' = NULL
               /\ status' = [status EXCEPT ![p] = "BLOCKED"]
        BY <1>1, <1>3, QueueKeeps
    <1>. QED
        BY <1>2, <1>3 DEF Wait

----------------------------------------------------------------------------
\* send_pipe_eof of a writer that returned from main

\* Where the writer is on that way.
LEMMA StepFacts ==
    ASSUME IInv, NEW at \in BeforeEof \cup AfterEof, NEW to \in BeforeEof \cup AfterEof,
           Step(at, to)
    PROVE  /\ status["writer"] = "READY" /\ kernel = NULL /\ exits = "return"
           /\ job["writer"].kind = "return" /\ job["writer"].at = at /\ job["writer"].rest = 1
           /\ job' = [job EXCEPT !["writer"] = Doing("return", 1, to)]
           /\ job' = [job EXCEPT !["writer"].at = to]
           /\ job' \in [Proc -> Job]
           /\ job'["reader"] = job["reader"] /\ job'["shell"] = job["shell"]
           /\ job'["writer"] = Doing("return", 1, to)
           /\ job'["writer"].kind = "return" /\ job'["writer"].at = to /\ job'["writer"].rest = 1
           /\ shell \notin {"create", "spawnWriter", "done"}
           /\ \A s \in Sems : InQueue(s, "writer") =>
                  s = "space" /\ (at \in {"queued", "block"})
    <1>1. /\ status["writer"] = "READY" /\ kernel = NULL
          /\ job["writer"] = Doing("return", 1, at)
          /\ job' = [job EXCEPT !["writer"].at = to]
        BY DEF Step, MayRun
    <1>2. job["writer"].kind = "return" /\ job["writer"].at = at /\ job["writer"].rest = 1
        BY <1>1 DEF Doing
    <1>3. exits = "return"
        BY <1>2, Names DEF IInv, JobInv
    <1>4. job \in [Proc -> Job] /\ Doing("return", 1, to) \in Job
        BY DEF IInv, Typed, Job, Doing
    <1>5. [job["writer"] EXCEPT !.at = to] = Doing("return", 1, to)
        BY <1>1 DEF Doing
    <1>6. job' = [job EXCEPT !["writer"] = Doing("return", 1, to)]
        BY <1>1, <1>5
    <1>7. Doing("return", 1, to).kind = "return" /\ Doing("return", 1, to).at = to
          /\ Doing("return", 1, to).rest = 1
        BY DEF Doing
    <1>8. /\ job' \in [Proc -> Job]
          /\ job'["reader"] = job["reader"] /\ job'["shell"] = job["shell"]
          /\ job'["writer"] = Doing("return", 1, to)
        BY <1>4, <1>6, Names
    <1>9. shell \notin {"create", "spawnWriter", "done"}
        BY <1>1 DEF IInv, ShellInv, WithoutWriter
    <1>10. \A s \in Sems : InQueue(s, "writer") => s = "space" /\ (at \in {"queued", "block"})
        <2>1. \A s \in Sems : InQueue(s, "writer") => Sleeps("writer") /\ s = Takes("return")
            BY <1>1, <1>2, Names DEF IInv, QueueInv
        <2>. QED
            BY <1>1, <1>2, <2>1 DEF Sleeps, Takes, BeforeEof, AfterEof
    <1>. QED
        BY <1>1, <1>2, <1>3, <1>6, <1>7, <1>8, <1>9, <1>10

\* The steps of semWait and semPost between two locks, with interrupts on.
LEMMA EofSemKeeps ==
    ASSUME IInv, EofSem, UNCHANGED <<kernel, shell, exits, written, got, killed, hung>>
    PROVE  IInv'
    <1>1. UNCHANGED <<pipe, status, kernel, shell, exits, written, got, killed, hung>>
        BY DEF EofSem
    <1>2. sem \in [Sems -> SemType]
        BY DEF IInv, Typed, SemType
    <1>3. ASSUME NEW l \in {NULL, "writer"}, NEW t \in Sems, sem' = [sem EXCEPT ![t].lock = l]
          PROVE  /\ sem' \in [Sems -> SemType]
                 /\ \A s \in Sems : sem'[s].value = sem[s].value /\ sem'[s].waiters = sem[s].waiters
        <2>. DEFINE new == [sem EXCEPT ![t].lock = l]
        <2>1. /\ new \in [Sems -> SemType]
              /\ \A s \in Sems : new[s].value = sem[s].value /\ new[s].waiters = sem[s].waiters
            BY <1>2, SemLock
        <2>2. sem' = new
            BY <1>3
        <2>. HIDE DEF new
        <2>. QED
            BY <2>1, <2>2
    <1>4. ASSUME NEW at \in BeforeEof \cup AfterEof, NEW to \in BeforeEof \cup AfterEof,
                 Step(at, to),
                 \/ at = "acquire" /\ to = "test"
                 \/ at = "taken" /\ to = "store"
                 \/ at = "queued" /\ to = "block"
                 \/ at = "acquire2" /\ to = "post"
                 \/ at = "release2" /\ to = "finish",
                 NEW l \in {NULL, "writer"}, NEW t \in Sems, sem' = [sem EXCEPT ![t].lock = l]
          PROVE  IInv'
        <2>1. /\ sem' \in [Sems -> SemType]
              /\ \A s \in Sems : sem'[s].value = sem[s].value /\ sem'[s].waiters = sem[s].waiters
            BY <1>3, <1>4
        <2>2. /\ status["writer"] = "READY" /\ kernel = NULL /\ exits = "return"
              /\ job["writer"].kind = "return" /\ job["writer"].at = at
              /\ job' = [job EXCEPT !["writer"] = Doing("return", 1, to)]
            BY <1>4, StepFacts
        <2>. QED
            BY <1>1, <1>4, <2>1, <2>2, ReturnStepKeeps
    <1>5. {"acquire", "test", "taken", "queued", "block", "store", "acquire2", "post", "release2",
           "finish"} \subseteq BeforeEof \cup AfterEof
        BY DEF BeforeEof, AfterEof
    <1>6. CASE Step("acquire", "test") /\ sem' = Locked("space")
        BY <1>4, <1>5, <1>6, Names DEF Locked
    <1>7. CASE Step("taken", "store") /\ sem' = Unlocked("space")
        BY <1>4, <1>5, <1>7, Names DEF Unlocked
    <1>8. CASE Step("queued", "block") /\ sem' = Unlocked("space")
        BY <1>4, <1>5, <1>8, Names DEF Unlocked
    <1>9. CASE Step("acquire2", "post") /\ sem' = Locked("data")
        BY <1>4, <1>5, <1>9, Names DEF Locked
    <1>10. CASE Step("release2", "finish") /\ sem' = Unlocked("data")
        BY <1>4, <1>5, <1>10, Names DEF Unlocked
    <1>11. Takes("return") = "space"
        BY DEF Takes
    <1>12. CASE Step("test", "taken") /\ sem["space"].value > 0 /\ sem' = Taken("space")
        <2>1. /\ status["writer"] = "READY" /\ job["writer"].kind = "return"
              /\ job["writer"].at = "test" /\ job' = [job EXCEPT !["writer"].at = "taken"]
            BY <1>5, <1>12, StepFacts
        <2>. QED
            BY <1>1, <1>11, <1>12, <2>1, Names, TakeKeeps
    <1>13. CASE Step("test", "queued") /\ sem["space"].value = 0 /\ sem' = Queued("space", "writer")
        <2>1. /\ status["writer"] = "READY" /\ job["writer"].kind = "return" /\ exits = "return"
              /\ job["writer"].at = "test" /\ job' = [job EXCEPT !["writer"].at = "queued"]
            BY <1>5, <1>13, StepFacts
        <2>. QED
            BY <1>1, <1>11, <1>13, <2>1, Names, QueueKeeps
    <1>. QED
        BY <1>6, <1>7, <1>8, <1>9, <1>10, <1>12, <1>13 DEF EofSem

\* The writer returns from main, and send_pipe_eof begins.
LEMMA ReturnFromMainKeeps ==
    ASSUME IInv, ReturnFromMain, UNCHANGED <<kernel, shell, exits, written, got, killed, hung>>
    PROVE  IInv'
    <1>1. /\ status["writer"] = "READY" /\ kernel = NULL /\ exits = "return" /\ job["writer"] = Idle
          /\ job' = [job EXCEPT !["writer"] = Doing("return", 1, "acquire")]
          /\ UNCHANGED <<pipe, sem, status>>
        BY DEF ReturnFromMain, InUserCode, MayRun
    <1>2. "acquire" \in BeforeEof \cup AfterEof
        BY DEF BeforeEof
    <1>3. /\ sem' \in [Sems -> SemType]
          /\ \A s \in Sems : sem'[s].value = sem[s].value /\ sem'[s].waiters = sem[s].waiters
        BY <1>1 DEF IInv, Typed, SemType
    <1>. QED
        BY <1>1, <1>2, <1>3, ReturnStepKeeps

\* The writer blocks, perhaps after its wake-up: it keeps its place, or its token.
LEMMA EofBlockKeeps ==
    ASSUME IInv, EofBlock, UNCHANGED <<kernel, shell, exits, written, got, killed, hung>>
    PROVE  IInv'
    <1>1. /\ Step("block", "store") /\ status' = [status EXCEPT !["writer"] = "BLOCKED"]
          /\ UNCHANGED <<pipe, sem>>
        BY DEF EofBlock
    <1>2. /\ status["writer"] = "READY" /\ kernel = NULL /\ exits = "return"
          /\ job["writer"].kind = "return" /\ job["writer"].at = "block" /\ job["writer"].rest = 1
          /\ job' \in [Proc -> Job]
          /\ job'["reader"] = job["reader"] /\ job'["shell"] = job["shell"]
          /\ job'["writer"].kind = "return" /\ job'["writer"].at = "store"
          /\ job'["writer"].rest = 1
          /\ shell \notin {"create", "spawnWriter", "done"}
        <2>1. "block" \in BeforeEof \cup AfterEof /\ "store" \in BeforeEof \cup AfterEof
            BY DEF BeforeEof
        <2>. QED
            BY <1>1, <2>1, StepFacts
    <1>3. /\ status' \in [Proc -> {"ABSENT", "READY", "BLOCKED"}]
          /\ status'["writer"] = "BLOCKED" /\ status'["reader"] = status["reader"]
          /\ status'["shell"] = status["shell"]
        BY <1>1, Names DEF IInv, Typed
    <1>4. Typed'
        BY <1>1, <1>2, <1>3 DEF IInv, Typed
    <1>5. JobInv'
        BY <1>2, <1>3, NullAssumption DEF IInv, JobInv, Users, BeforeEof, AfterEof
    <1>6. ShellInv'
        BY <1>2, <1>3 DEF IInv, ShellInv, Waiting, Target, Users
    <1>7. \A s \in Sems : \A r : InQueue(s, r)' <=> InQueue(s, r)
        BY <1>1 DEF InQueue
    <1>8. QueueInv'
        <2>1. ASSUME NEW s \in Sems, NEW r \in Users, InQueue(s, r)
              PROVE  \/ status'[r] = "ABSENT" /\ killed
                     \/ Sleeps(r)' /\ s = Takes(job'[r].kind)
            <3>1. \/ status[r] = "ABSENT" /\ killed
                  \/ Sleeps(r) /\ s = Takes(job[r].kind)
                BY <2>1 DEF IInv, QueueInv
            <3>. QED
                BY <1>2, <1>3, <3>1 DEF Sleeps, Takes, Users
        <2>. QED
            BY <1>1, <1>7, <2>1 DEF IInv, QueueInv
    <1>9. \A s \in Sems : \A r \in Users : Held(s, r)' = Held(s, r)
        BY <1>2, <1>3, <1>7 DEF Held, Users
    <1>10. RoomInv'
        <2>1. Owed' = Owed
            BY <1>2 DEF Owed
        <2>. QED
            BY <1>1, <1>9, <2>1, Names DEF IInv, RoomInv
    <1>11. StreamInv'
        BY <1>1, <1>2, <1>3, StreamStays DEF IInv, AfterEof
    <1>12. TokenInv'
        <2>1. Token("writer")' = Token("writer") /\ Token("reader")' = Token("reader")
            BY <1>1, <1>2 DEF Token, HasToken
        <2>. QED
            BY <1>1, <2>1 DEF IInv, TokenInv
    <1>13. SleepInv'
        BY <1>2 DEF SleepInv
    <1>. QED
        BY <1>4, <1>5, <1>6, <1>8, <1>10, <1>11, <1>12, <1>13 DEF IInv

\* The writer stores its EOF behind everything it has written.
LEMMA EofStoreKeeps ==
    ASSUME IInv, EofStore, UNCHANGED <<kernel, shell, exits, written, got, killed, hung>>
    PROVE  IInv'
    <1>1. /\ Step("store", "acquire2") /\ pipe' = Stored(EOF)
          /\ UNCHANGED <<sem, status>>
        BY DEF EofStore
    <1>2. /\ status["writer"] = "READY" /\ kernel = NULL /\ exits = "return"
          /\ job["writer"].kind = "return" /\ job["writer"].at = "store" /\ job["writer"].rest = 1
          /\ job' \in [Proc -> Job]
          /\ job'["reader"] = job["reader"] /\ job'["shell"] = job["shell"]
          /\ job'["writer"].kind = "return" /\ job'["writer"].at = "acquire2"
          /\ job'["writer"].rest = 1
          /\ shell \notin {"create", "spawnWriter", "done"}
          /\ \A s \in Sems : ~InQueue(s, "writer")
        <2>1. "store" \in BeforeEof \cup AfterEof /\ "acquire2" \in BeforeEof \cup AfterEof
            BY DEF BeforeEof, AfterEof
        <2>. QED
            BY <1>1, <2>1, StepFacts
    <1>3. Typed'
        BY <1>1, <1>2 DEF IInv, Typed
    <1>4. JobInv'
        BY <1>1, <1>2 DEF IInv, JobInv, Users, InCalls, BeforeEof, AfterEof
    <1>5. ShellInv'
        BY <1>1, <1>2 DEF IInv, ShellInv, Waiting, Target, Users
    <1>6. \A s \in Sems : \A r : InQueue(s, r)' <=> InQueue(s, r)
        BY <1>1 DEF InQueue
    <1>7. QueueInv'
        <2>1. ASSUME NEW s \in Sems, NEW r \in Users, InQueue(s, r)
              PROVE  \/ status'[r] = "ABSENT" /\ killed
                     \/ Sleeps(r)' /\ s = Takes(job'[r].kind)
            <3>1. \/ status[r] = "ABSENT" /\ killed
                  \/ Sleeps(r) /\ s = Takes(job[r].kind)
                BY <2>1 DEF IInv, QueueInv
            <3>. QED
                BY <1>1, <1>2, <2>1, <3>1 DEF Sleeps, Users
        <2>. QED
            BY <1>1, <1>6, <2>1 DEF IInv, QueueInv
    <1>8. /\ Held("space", "writer") = 1 /\ Held("space", "writer")' = 0
          /\ Held("space", "reader")' = Held("space", "reader")
          /\ Held("data", "reader")' = Held("data", "reader")
          /\ Owed = 0 /\ Owed' = 1
        BY <1>1, <1>2, <1>6, Names DEF Held, Takes, Owed
    <1>9. /\ pipe \in Ring /\ pipe.size < PIPE_SIZE /\ pipe.size \in Nat /\ PIPE_SIZE \in Nat
          /\ pipe.writePos = (pipe.readPos + pipe.size) % PIPE_SIZE
          /\ sem["space"].value + 1 + Held("space", "reader") + pipe.size <= PIPE_SIZE
          /\ sem["data"].value + Held("data", "reader") + 0 <= pipe.size
          /\ sem["data"].value \in Nat /\ sem["space"].value \in Nat
          /\ Held("space", "reader") \in {0, 1} /\ Held("data", "reader") \in {0, 1}
        <2>1. /\ pipe \in Ring /\ pipe.size \in Nat /\ PIPE_SIZE \in Nat
              /\ sem["space"].value + 1 + Held("space", "reader") + pipe.size <= PIPE_SIZE
              /\ sem["data"].value + Held("data", "reader") + 0 <= pipe.size
            BY <1>2, <1>8, SizesAssumption DEF IInv, RoomInv, Ring
        <2>2. sem["data"].value \in Nat /\ sem["space"].value \in Nat
            BY Names DEF IInv, Typed
        <2>3. Held("space", "reader") \in {0, 1} /\ Held("data", "reader") \in {0, 1}
            BY DEF Held
        <2>4. pipe.size < PIPE_SIZE
            BY <2>1, <2>2, <2>3
        <2>5. pipe.writePos = (pipe.readPos + pipe.size) % PIPE_SIZE
            BY <1>2 DEF IInv, StreamInv
        <2>. QED
            BY <2>1, <2>2, <2>3, <2>4, <2>5
    <1>10. /\ pipe' \in Ring /\ pipe'.readPos = pipe.readPos /\ pipe'.size = pipe.size + 1
           /\ pipe'.writePos = (pipe'.readPos + pipe'.size) % PIPE_SIZE
           /\ \A m \in 0 .. pipe.size - 1 : CellAt(m)' = CellAt(m)
           /\ \A m \in Nat : m = pipe.size => CellAt(m)' = EOF
        <2>1. EOF \in Nat
            BY DEF EOF
        <2>. QED
            BY <1>1, <1>9, <2>1, StoredBehind
    <1>11. RoomInv'
        BY <1>1, <1>8, <1>9, <1>10 DEF RoomInv
    <1>12. StreamInv'
        <2>1. /\ \A i \in DOMAIN got : got[i] = Item(i)
              /\ Len(got) <= written + 1 /\ Len(got) + pipe.size >= written
              /\ \A m \in 0 .. pipe.size - 1 : CellAt(m) = Item(Len(got) + m + 1)
              /\ job["reader"].kind = "read" => Len(got) <= written
            BY <1>2 DEF IInv, StreamInv
        <2>2. written \in Nat /\ Len(got) \in Nat
            BY DEF IInv, Typed
        <2>3. Len(got) + pipe.size = written
            <3>1. ~EofStored
                BY <1>2 DEF IInv, StreamInv, AfterEof
            <3>2. Len(got) + pipe.size >= written /\ pipe.size \in Nat
                BY <1>9, <2>1
            <3>. QED
                BY <2>2, <3>1, <3>2 DEF EofStored
        <2>4. \A i : Item(i)' = Item(i)
            BY DEF Item
        <2>5. ASSUME NEW m \in 0 .. pipe'.size - 1 PROVE CellAt(m)' = Item(Len(got) + m + 1)
            <3>1. m \in 0 .. pipe.size - 1 \/ m = pipe.size
                BY <1>9, <1>10
            <3>2. CASE m \in 0 .. pipe.size - 1
                BY <1>10, <2>1, <3>2
            <3>3. CASE m = pipe.size
                <4>1. CellAt(m)' = EOF
                    BY <1>9, <1>10, <3>3
                <4>2. Item(Len(got) + m + 1) = EOF
                    BY <1>9, <2>2, <2>3, <3>3 DEF Item
                <4>. QED
                    BY <4>1, <4>2
            <3>. QED
                BY <3>1, <3>2, <3>3
        <2>6. EofStored'
            BY <1>9, <1>10, <2>2, <2>3 DEF EofStored
        <2>7. Len(got) + pipe'.size >= written
            BY <1>9, <1>10, <2>2, <2>3
        <2>8. job'["writer"].at \in AfterEof
            BY <1>2 DEF AfterEof
        <2>. QED
            BY <1>2, <1>10, <2>1, <2>4, <2>5, <2>6, <2>7, <2>8 DEF StreamInv
    <1>13. TokenInv'
        <2>1. Token("writer")' = Token("writer") /\ Token("reader")' = Token("reader")
            BY <1>1, <1>2 DEF Token, HasToken
        <2>. QED
            BY <1>1, <2>1 DEF IInv, TokenInv
    <1>14. SleepInv'
        BY <1>2 DEF SleepInv
    <1>. QED
        BY <1>3, <1>4, <1>5, <1>7, <1>11, <1>12, <1>13, <1>14 DEF IInv

\* The writer posts its EOF; the reader may be waiting for it.
LEMMA EofPostKeeps ==
    ASSUME IInv, EofPost, UNCHANGED <<kernel, shell, exits, written, got, killed, hung>>
    PROVE  IInv'
    <1>1. /\ Step("post", "release2") /\ sem' = Posted("data") /\ status' = WokenBy("data")
          /\ UNCHANGED pipe
        BY DEF EofPost
    <1>2. /\ status["writer"] = "READY" /\ kernel = NULL /\ exits = "return"
          /\ job["writer"].kind = "return" /\ job["writer"].at = "post" /\ job["writer"].rest = 1
          /\ job' \in [Proc -> Job]
          /\ job'["reader"] = job["reader"] /\ job'["shell"] = job["shell"]
          /\ job'["writer"].kind = "return" /\ job'["writer"].at = "release2"
          /\ job'["writer"].rest = 1
          /\ shell \notin {"create", "spawnWriter", "done"}
          /\ \A s \in Sems : ~InQueue(s, "writer")
        <2>1. "post" \in BeforeEof \cup AfterEof /\ "release2" \in BeforeEof \cup AfterEof
            BY DEF AfterEof
        <2>. QED
            BY <1>1, <2>1, StepFacts
    <1>3. Typed /\ QueueInv
        BY DEF IInv
    <1>4. /\ status' \in [Proc -> {"ABSENT", "READY", "BLOCKED"}]
          /\ status'["shell"] = status["shell"]
          /\ \A r \in Users : \/ status'[r] = status[r]
                              \/ (status'[r] = "READY" /\ status[r] = "BLOCKED")
        BY <1>1, <1>3, Waking, Names
    <1>5. PostStep("data", "writer")
        BY <1>1, <1>2 DEF PostStep, Users
    <1>6. Typed'
        <2>1. sem' \in [Sems -> SemType]
            BY <1>1, <1>3, Names, PostOutcome
        <2>. QED
            BY <1>2, <1>3, <1>4, <2>1 DEF Typed, SemType
    <1>7. JobInv'
        BY <1>2, <1>4, NullAssumption DEF IInv, JobInv, Users, InCalls, BeforeEof, AfterEof
    <1>8. ShellInv'
        BY <1>2, <1>4 DEF IInv, ShellInv, Waiting, Target, Users
    <1>9. QueueInv'
        BY <1>2, <1>3, <1>5, Names, PostQueues
    <1>10. \A t \in Sems : \A r \in Users : Held(t, r) \in {0, 1} /\ Held(t, r)' \in {0, 1}
        BY DEF Held
    <1>11. RoomInv'
        <2>1. /\ \A t \in Sems : Held(t, "writer")' = 0
              /\ \A t \in Sems : t # "data" =>
                    /\ sem'[t].value = sem[t].value
                    /\ \A r \in Users : Held(t, r)' <= Held(t, r)
              /\ \/ /\ sem'["data"].value = sem["data"].value + 1
                    /\ \A r \in Users : Held("data", r)' <= Held("data", r)
                 \/ /\ sem'["data"].value = sem["data"].value
                    /\ \E h \in Users : \A r \in Users :
                          Held("data", r)' <= Held("data", r) + (IF r = h THEN 1 ELSE 0)
            <3>1. job'["writer"].at \notin {"copy", "taken", "store"}
                BY <1>2
            <3>. QED
                BY <1>3, <1>5, <3>1, Names, PostHeld
        <2>2. Owed = 1 /\ Owed' = 0
            BY <1>2 DEF Owed
        <2>3. /\ Held("space", "writer") \in {0, 1} /\ Held("space", "reader") \in {0, 1}
              /\ Held("space", "writer")' \in {0, 1} /\ Held("space", "reader")' \in {0, 1}
              /\ Held("data", "reader") \in {0, 1} /\ Held("data", "reader")' \in {0, 1}
            BY <1>10, Names
        <2>4. /\ pipe \in Ring /\ pipe.size \in Nat /\ PIPE_SIZE \in Nat
              /\ sem["space"].value + Held("space", "writer") + Held("space", "reader") + pipe.size
                     <= PIPE_SIZE
              /\ sem["data"].value + Held("data", "reader") + 1 <= pipe.size
            BY <1>2, <2>2, SizesAssumption DEF IInv, RoomInv, Ring
        <2>5. sem["data"].value \in Nat /\ sem["space"].value \in Nat
            BY Names DEF IInv, Typed
        <2>6. sem'["space"].value + Held("space", "writer")' + Held("space", "reader")'
                  + pipe.size <= PIPE_SIZE
            <3>1. /\ sem'["space"].value = sem["space"].value
                  /\ Held("space", "writer")' <= Held("space", "writer")
                  /\ Held("space", "reader")' <= Held("space", "reader")
                BY <2>1, Names
            <3>. QED
                BY <2>3, <2>4, <2>5, <3>1
        <2>7. \/ /\ sem'["data"].value = sem["data"].value + 1
                 /\ Held("data", "reader")' <= Held("data", "reader")
              \/ /\ sem'["data"].value = sem["data"].value
                 /\ Held("data", "reader")' <= Held("data", "reader") + 1
            BY <2>1, <2>3, Names
        <2>8. sem'["data"].value + Held("data", "reader")' + Owed' <= pipe.size
            BY <2>2, <2>3, <2>4, <2>5, <2>7
        <2>. QED
            BY <1>1, <2>4, <2>6, <2>8 DEF RoomInv
    <1>12. StreamInv'
        BY <1>1, <1>2, <1>4, StreamStays DEF IInv, AfterEof
    <1>13. TokenInv'
        <2>1. Token("writer")' = 0 /\ Token("writer") = 1
            <3>1. /\ \A i \in DOMAIN sem["space"].waiters : sem["space"].waiters[i] # "writer"
                  /\ Takes(job["writer"].kind) = "space"
                BY <1>2, Names DEF InQueue, In, Takes
            <3>. QED
                BY <1>2, <3>1 DEF Token, HasToken
        <2>2. ~killed => sem'["space"].value + sem'["data"].value + Token("reader")'
                             = sem["space"].value + sem["data"].value + Token("reader") + 1
            BY <1>2, <1>3, <1>5, Names, PostTokens
        <2>3. Token("reader") \in {0, 1} /\ Token("reader")' \in {0, 1}
            BY DEF Token
        <2>4. /\ sem["data"].value \in Nat /\ sem["space"].value \in Nat
              /\ sem'["data"].value \in Nat /\ sem'["space"].value \in Nat
            BY <1>6, Names DEF IInv, Typed
        <2>. QED
            BY <2>1, <2>2, <2>3, <2>4 DEF IInv, TokenInv
    <1>14. SleepInv'
        BY <1>2 DEF SleepInv
    <1>. QED
        BY <1>6, <1>7, <1>8, <1>9, <1>11, <1>12, <1>13, <1>14 DEF IInv

\* The writer ends and wakes the shell if that waits for it.
LEMMA EofFinishKeeps ==
    ASSUME IInv, EofFinish, UNCHANGED <<kernel, shell, exits, written, got, killed, hung>>
    PROVE  IInv'
    <1>1. /\ status["writer"] = "READY" /\ kernel = NULL /\ job["writer"].at = "finish"
          /\ job' = [job EXCEPT !["writer"] = Idle] /\ status' = Left(status, "writer")
          /\ UNCHANGED <<pipe, sem>>
        BY DEF EofFinish, MayRun
    <1>2. /\ job["writer"].kind = "return" /\ exits = "return"
          /\ shell \notin {"create", "spawnWriter", "done"}
        BY <1>1, Names DEF IInv, JobInv, ShellInv, AfterEof, WithoutWriter
    <1>3. /\ job' \in [Proc -> Job]
          /\ job'["reader"] = job["reader"] /\ job'["shell"] = job["shell"] /\ job'["writer"] = Idle
          /\ Idle.kind = "user" /\ Idle.at = "user" /\ Idle.rest = 0
        BY <1>1, Names DEF IInv, Typed, Job, Idle
    <1>4. /\ status' \in [Proc -> {"ABSENT", "READY", "BLOCKED"}]
          /\ status'["writer"] = "ABSENT" /\ status'["reader"] = status["reader"]
          /\ status'["shell"] = IF shell = "waitWriter" /\ status["shell"] = "BLOCKED"
                                THEN "READY" ELSE status["shell"]
        <2>1. status \in [Proc -> {"ABSENT", "READY", "BLOCKED"}]
            BY DEF IInv, Typed
        <2>. DEFINE L == Left(status, "writer")
        <2>2. /\ L \in [Proc -> {"ABSENT", "READY", "BLOCKED"}]
              /\ L["writer"] = "ABSENT"
              /\ \A r \in Users : r # "writer" => L[r] = status[r]
              /\ L["shell"] = IF Waiting /\ Target = "writer" /\ status["shell"] = "BLOCKED"
                              THEN "READY" ELSE status["shell"]
            BY <2>1, LeftFacts, Names
        <2>3. status' = L
            BY <1>1
        <2>4. (Waiting /\ Target = "writer") <=> shell = "waitWriter"
            BY DEF Waiting, Target
        <2>. HIDE DEF L
        <2>. QED
            BY <2>2, <2>3, <2>4, Names
    <1>5. Typed'
        BY <1>1, <1>3, <1>4 DEF IInv, Typed
    <1>6. JobInv'
        BY <1>1, <1>3, <1>4, NullAssumption DEF IInv, JobInv, Users, InCalls, BeforeEof, AfterEof
    <1>7. ShellInv'
        BY <1>1, <1>2, <1>3, <1>4 DEF IInv, ShellInv, Waiting, Target, Users, WithoutWriter
    <1>8. QueueInv'
        <2>1. ASSUME NEW s \in Sems, NEW r \in Users, InQueue(s, r)
              PROVE  \/ status'[r] = "ABSENT" /\ killed
                     \/ Sleeps(r)' /\ s = Takes(job'[r].kind)
            <3>1. \/ status[r] = "ABSENT" /\ killed
                  \/ Sleeps(r) /\ s = Takes(job[r].kind)
                BY <2>1 DEF IInv, QueueInv
            <3>. QED
                BY <1>1, <1>3, <1>4, <3>1 DEF Sleeps, Users
        <2>. QED
            BY <1>1, <2>1 DEF IInv, QueueInv, InQueue
    <1>9. RoomInv'
        <2>1. \A s \in Sems : /\ Held(s, "reader")' = Held(s, "reader")
                              /\ Held(s, "writer")' = 0 /\ Held(s, "writer") = 0
            BY <1>1, <1>3, <1>4 DEF Held, InQueue
        <2>2. Owed = 0 /\ Owed' = 0
            BY <1>1, <1>3 DEF Owed
        <2>. QED
            BY <1>1, <1>2, <2>1, <2>2, Names DEF IInv, RoomInv
    <1>10. StreamInv'
        BY <1>1, <1>2, <1>3, <1>4, StreamStays DEF IInv, AfterEof
    <1>11. TokenInv'
        <2>1. /\ Token("writer")' = 0 /\ Token("writer") = 0
              /\ Token("reader")' = Token("reader")
            BY <1>1, <1>3 DEF Token, HasToken
        <2>. QED
            BY <1>1, <2>1 DEF IInv, TokenInv
    <1>12. SleepInv'
        BY <1>2 DEF SleepInv
    <1>. QED
        BY <1>5, <1>6, <1>7, <1>8, <1>9, <1>10, <1>11, <1>12 DEF IInv

----------------------------------------------------------------------------
\* Ctrl-C

\* remove_process_from_all_semaphore_queues takes the victim out of both queues.
LEMMA RemovedFacts ==
    ASSUME Typed, QueueInv, NEW x \in Users, sem' = WithoutWaiter(x)
    PROVE  /\ sem' \in [Sems -> SemType]
           /\ \A s \in Sems : /\ sem'[s].value = sem[s].value
                              /\ Distinct(sem'[s].waiters)
                              /\ sem'[s].waiters # <<>> => sem[s].waiters # <<>>
                              /\ \A r : InQueue(s, r)' <=> InQueue(s, r) /\ r # x
    <1>1. sem \in [Sems -> SemType]
        BY DEF Typed, SemType
    <1>2. \A s \in Sems : /\ Without(sem[s].waiters, x) \in Seq(Users)
                          /\ Distinct(Without(sem[s].waiters, x))
                          /\ \A r : In(Without(sem[s].waiters, x), r)
                                        <=> In(sem[s].waiters, r) /\ r # x
                          /\ sem[s].waiters = <<>> => Without(sem[s].waiters, x) = <<>>
        <2>. TAKE s \in Sems
        <2>1. sem[s].waiters \in Seq(Users) /\ Distinct(sem[s].waiters)
            BY <1>1 DEF QueueInv, SemType
        <2>. QED
            BY <2>1, Removed
    <1>3. \A s \in Sems : sem'[s] = [sem[s] EXCEPT !.waiters = Without(sem[s].waiters, x)]
        BY <1>1 DEF WithoutWaiter
    <1>4. DOMAIN sem' = Sems /\ sem' = [s \in Sems |-> sem'[s]]
        BY <1>1 DEF WithoutWaiter
    <1>5. \A s \in Sems : /\ sem'[s] \in SemType /\ sem'[s].value = sem[s].value
                          /\ sem'[s].waiters = Without(sem[s].waiters, x)
        <2>. TAKE s \in Sems
        <2>. DEFINE w == Without(sem[s].waiters, x)
        <2>1. w \in Seq(Users) /\ sem[s] \in SemType /\ sem'[s] = [sem[s] EXCEPT !.waiters = w]
            BY <1>1, <1>2, <1>3
        <2>. HIDE DEF w
        <2>2. sem'[s] \in SemType /\ sem'[s].value = sem[s].value /\ sem'[s].waiters = w
            BY <2>1 DEF SemType
        <2>. QED
            BY <2>2 DEF w
    <1>. QED
        BY ZenonT(60), <1>2, <1>4, <1>5 DEF InQueue

\* The writer is killed: whoever runs sends its EOF first.
LEMMA KillWriterKeeps ==
    ASSUME IInv, NEW x \in Users, Foreground, Target = "writer", Kill(x),
           status[x] = "READY", kernel \in {NULL, x}, job[x].at \in {"user", "kill"},
           UNCHANGED <<pipe, shell, exits, written, got, hung>>
    PROVE  IInv'
    <1>1. /\ Waiting /\ status["writer"] # "ABSENT" /\ killed' = TRUE
          /\ sem' = WithoutWaiter("writer") /\ status' = ParentWoken(status, "writer")
          /\ job' = [job EXCEPT ![x] = Doing("kill", 1, "wait")] /\ kernel' = x
        BY DEF Foreground, Kill, Enter
    <1>2. shell = "waitWriter" /\ shell' = "waitWriter"
        BY <1>1 DEF Target
    <1>3. Typed /\ QueueInv
        BY DEF IInv
    <1>4. /\ sem' \in [Sems -> SemType]
          /\ \A s \in Sems : /\ sem'[s].value = sem[s].value
                             /\ Distinct(sem'[s].waiters)
                             /\ sem'[s].waiters # <<>> => sem[s].waiters # <<>>
                             /\ \A r : InQueue(s, r)' <=> InQueue(s, r) /\ r # "writer"
        BY <1>1, <1>3, Names, RemovedFacts
    <1>5. /\ status' \in [Proc -> {"ABSENT", "READY", "BLOCKED"}]
          /\ \A r \in Users : status'[r] = status[r]
          /\ status'["shell"] = IF status["shell"] = "BLOCKED" THEN "READY" ELSE status["shell"]
        <2>1. status' = Awake(status, "shell")
            BY <1>1 DEF ParentWoken
        <2>2. status \in [Proc -> {"ABSENT", "READY", "BLOCKED"}]
            BY <1>3 DEF Typed
        <2>3. /\ Awake(status, "shell") \in [Proc -> {"ABSENT", "READY", "BLOCKED"}]
              /\ Awake(status, "shell")["shell"]
                    = IF status["shell"] = "BLOCKED" THEN "READY" ELSE status["shell"]
              /\ \A r \in Proc : r # "shell" => Awake(status, "shell")[r] = status[r]
            BY ONLY <2>2, AwakeFacts, Names
        <2>. QED
            BY ONLY <2>1, <2>3, Names
    <1>6. /\ job' \in [Proc -> Job] /\ job'["shell"] = job["shell"]
          /\ job'[x].kind = "kill" /\ job'[x].at = "wait" /\ job'[x].rest = 1
          /\ \A r \in Users : r # x => job'[r] = job[r]
        <2>1. Doing("kill", 1, "wait") \in Job
            BY DEF Doing, Job, InCalls
        <2>2. /\ Doing("kill", 1, "wait").kind = "kill" /\ Doing("kill", 1, "wait").at = "wait"
              /\ Doing("kill", 1, "wait").rest = 1
            BY DEF Doing
        <2>. QED
            BY <1>1, <1>3, <2>1, <2>2, Names DEF Typed
    <1>7. \A s \in Sems : ~InQueue(s, x)
        BY DEF IInv, QueueInv, Sleeps
    <1>8. Typed'
        BY <1>1, <1>2, <1>3, <1>4, <1>5, <1>6 DEF Typed, SemType
    <1>9. JobInv'
        <2>1. ASSUME NEW r \in Users, r # x
              PROVE  job'[r].at \notin {"wait", "kill"} /\ kernel' # r
            BY <1>1, <1>6, <2>1, NullAssumption DEF IInv, JobInv, Users
        <2>2. /\ job'[x].kind \notin {"user", "return", "write", "echo", "exit", "read"}
              /\ job'[x].at \notin {"user", "kill"} \cup BeforeEof \cup AfterEof
              /\ status'[x] # "ABSENT" /\ status'[x] = "READY" /\ job'[x].at \in InCalls
            BY <1>1, <1>5, <1>6 DEF BeforeEof, AfterEof, InCalls
        <2>. QED
            BY <1>1, <1>5, <1>6, <2>1, <2>2 DEF IInv, JobInv
    <1>10. ShellInv'
        BY <1>1, <1>2, <1>5 DEF IInv, ShellInv, Waiting, Target, WithoutWriter, Early, Users
    <1>11. QueueInv'
        <2>1. ASSUME NEW s \in Sems, NEW r \in Users, InQueue(s, r)'
              PROVE  \/ Sleeps(r)' /\ s = Takes(job'[r].kind)
                     \/ status'[r] = "ABSENT" /\ killed'
            <3>1. InQueue(s, r) /\ r # "writer" /\ r # x
                BY <1>4, <1>7, <2>1
            <3>2. \/ status[r] = "ABSENT" /\ killed
                  \/ Sleeps(r) /\ s = Takes(job[r].kind)
                BY <3>1 DEF IInv, QueueInv
            <3>. QED
                BY <1>1, <1>5, <1>6, <3>1, <3>2 DEF Sleeps
        <2>. QED
            BY <1>2, <1>4, <2>1 DEF IInv, QueueInv
    <1>12. \A t \in Sems : \A r \in Users : Held(t, r)' <= Held(t, r)
        <2>1. ASSUME NEW t \in Sems, NEW r \in Users, Held(t, r)' = 1 PROVE Held(t, r) = 1
            <3>1. /\ r # x /\ status[r] = "READY" /\ job'[r] = job[r]
                  /\ t = Takes(job[r].kind) /\ job[r].at \in {"copy", "taken", "store"}
                BY <1>5, <1>6, <2>1 DEF Held
            <3>2. ~InQueue(t, r)
                BY <3>1 DEF IInv, QueueInv, Sleeps
            <3>. QED
                BY <3>1, <3>2 DEF Held
        <2>2. \A t \in Sems : \A r \in Users : Held(t, r) \in {0, 1} /\ Held(t, r)' \in {0, 1}
            BY DEF Held
        <2>. QED
            BY <2>1, <2>2
    <1>13. RoomInv'
        <2>1. Owed' \in {0, 1} /\ Owed \in {0, 1} /\ Owed' <= Owed
            BY <1>6, Names DEF Owed
        <2>2. /\ pipe \in Ring /\ pipe.size \in Nat /\ PIPE_SIZE \in Nat
              /\ sem["space"].value + Held("space", "writer") + Held("space", "reader") + pipe.size
                     <= PIPE_SIZE
              /\ sem["data"].value + Held("data", "reader") + Owed <= pipe.size
            BY <1>2, SizesAssumption DEF IInv, RoomInv, Ring
        <2>3. /\ sem["data"].value \in Nat /\ sem["space"].value \in Nat
              /\ sem'["data"].value = sem["data"].value /\ sem'["space"].value = sem["space"].value
            BY <1>3, <1>4, Names DEF Typed
        <2>4. \A t \in Sems : \A r \in Users : Held(t, r) \in {0, 1} /\ Held(t, r)' \in {0, 1}
            BY DEF Held
        <2>5. sem'["space"].value + Held("space", "writer")' + Held("space", "reader")' + pipe.size
                  <= PIPE_SIZE
            BY <1>12, <2>2, <2>3, <2>4, Names
        <2>6. sem'["data"].value + Held("data", "reader")' + Owed' <= pipe.size
            BY <1>12, <2>1, <2>2, <2>3, <2>4, Names
        <2>. QED
            BY <1>1, <2>2, <2>5, <2>6 DEF RoomInv
    <1>14. StreamInv'
        <2>1. /\ job'["reader"].kind = "read" => job["reader"].kind = "read"
              /\ job'["writer"].at \in AfterEof => job["writer"].at \in AfterEof
              /\ job'["writer"].kind = "kill" \/ job'["writer"] = job["writer"]
            BY <1>6, Names DEF AfterEof
        <2>. QED
            BY <1>1, <1>2, <1>5, <2>1, StreamStays, Names DEF IInv
    <1>15. TokenInv'
        BY <1>1 DEF TokenInv
    <1>16. SleepInv'
        <2>1. BeingKilled("writer")'
            BY <1>6 DEF BeingKilled
        <2>. SUFFICES ASSUME exits = "sys_exit", status'["reader"] = "BLOCKED"
                      PROVE  InQueue(Takes(job["reader"].kind), "reader")'
            BY <1>1, <2>1 DEF SleepInv, Users
        <2>2. status["reader"] = "BLOCKED" /\ x # "reader" /\ job'["reader"] = job["reader"]
            BY <1>1, <1>5, <1>6, Names
        <2>3. InQueue(Takes(job["reader"].kind), "reader")
            BY <2>2, Names DEF IInv, SleepInv, BeingKilled
        <2>4. Takes(job["reader"].kind) \in Sems
            BY DEF Takes, Sems
        <2>5. "reader" # "writer"
            OBVIOUS
        <2>. QED
            BY <1>4, <2>2, <2>3, <2>4, <2>5 DEF InQueue
    <1>. QED
        BY <1>8, <1>9, <1>10, <1>11, <1>13, <1>14, <1>15, <1>16 DEF IInv

\* The reader is killed, while it sleeps or after what it was doing, or by itself.
LEMMA KillReaderKeeps ==
    ASSUME IInv, NEW x \in {"reader", "init"}, KillForeground(x), Target = "reader"
    PROVE  IInv'
    <1>1. /\ Waiting /\ kernel = NULL /\ killed' = TRUE
          /\ sem' = WithoutWaiter("reader") /\ status' = Left(status, "reader")
          /\ job' = [job EXCEPT !["reader"] = Idle]
          /\ UNCHANGED <<pipe, kernel, shell, exits, written, got, hung>>
        BY DEF KillForeground, Foreground, Kill, Interrupted, InUserCode, MayRun
    <1>2. shell = "waitReader" /\ shell' = "waitReader"
        BY <1>1 DEF Target, Waiting
    <1>3. Typed /\ QueueInv /\ status["writer"] = "ABSENT" /\ job["writer"] = Idle
        BY <1>2, Names DEF IInv, ShellInv, JobInv, WithoutWriter
    <1>4. /\ sem' \in [Sems -> SemType]
          /\ \A s \in Sems : /\ sem'[s].value = sem[s].value
                             /\ Distinct(sem'[s].waiters)
                             /\ sem'[s].waiters # <<>> => sem[s].waiters # <<>>
                             /\ \A r : InQueue(s, r)' <=> InQueue(s, r) /\ r # "reader"
        BY <1>1, <1>3, Names, RemovedFacts
    <1>5. /\ status' \in [Proc -> {"ABSENT", "READY", "BLOCKED"}]
          /\ status'["reader"] = "ABSENT" /\ status'["writer"] = "ABSENT"
          /\ status'["shell"] = IF status["shell"] = "BLOCKED" THEN "READY" ELSE status["shell"]
        <2>1. status \in [Proc -> {"ABSENT", "READY", "BLOCKED"}]
            BY <1>3 DEF Typed
        <2>. DEFINE L == Left(status, "reader")
        <2>2. /\ L \in [Proc -> {"ABSENT", "READY", "BLOCKED"}]
              /\ L["reader"] = "ABSENT"
              /\ \A r \in Users : r # "reader" => L[r] = status[r]
              /\ L["shell"] = IF Waiting /\ Target = "reader" /\ status["shell"] = "BLOCKED"
                              THEN "READY" ELSE status["shell"]
            BY <2>1, LeftFacts, Names
        <2>3. status' = L
            BY <1>1
        <2>4. Waiting /\ Target = "reader"
            BY <1>1
        <2>. HIDE DEF L
        <2>. QED
            BY <1>3, <2>2, <2>3, <2>4, Names
    <1>6. /\ job' \in [Proc -> Job] /\ job'["shell"] = job["shell"]
          /\ job'["reader"] = Idle /\ job'["writer"] = Idle
          /\ Idle.kind = "user" /\ Idle.at = "user" /\ Idle.rest = 0
        BY <1>1, <1>3, Names DEF Typed, Job, Idle
    <1>7. Typed'
        BY <1>1, <1>2, <1>3, <1>4, <1>5, <1>6 DEF Typed, SemType
    <1>8. JobInv'
        BY <1>1, <1>5, <1>6, NullAssumption DEF IInv, JobInv, Users, BeforeEof, AfterEof
    <1>9. ShellInv'
        BY <1>1, <1>2, <1>5, <1>6 DEF IInv, ShellInv, Waiting, Target, WithoutWriter, Early, Users
    <1>10. QueueInv'
        BY <1>1, <1>2, <1>4, <1>5 DEF IInv, QueueInv, Users
    <1>11. RoomInv'
        <2>1. \A t \in Sems : \A r \in Users : Held(t, r)' = 0
            BY <1>6 DEF Held, Users
        <2>2. \A t \in Sems : \A r \in Users : Held(t, r) \in {0, 1}
            BY DEF Held
        <2>3. Owed' = 0 /\ Owed \in {0, 1}
            BY <1>6 DEF Owed
        <2>4. /\ pipe \in Ring /\ pipe.size \in Nat /\ PIPE_SIZE \in Nat
              /\ sem["space"].value + Held("space", "writer") + Held("space", "reader") + pipe.size
                     <= PIPE_SIZE
              /\ sem["data"].value + Held("data", "reader") + Owed <= pipe.size
            BY <1>2, SizesAssumption DEF IInv, RoomInv, Ring
        <2>5. /\ sem["data"].value \in Nat /\ sem["space"].value \in Nat
              /\ sem'["data"].value = sem["data"].value /\ sem'["space"].value = sem["space"].value
            BY <1>3, <1>4, Names DEF Typed
        <2>6. sem'["space"].value + Held("space", "writer")' + Held("space", "reader")' + pipe.size
                  <= PIPE_SIZE
            BY <2>1, <2>2, <2>4, <2>5, Names
        <2>7. sem'["data"].value + Held("data", "reader")' + Owed' <= pipe.size
            BY <2>1, <2>2, <2>3, <2>4, <2>5, Names
        <2>. QED
            BY <1>1, <2>4, <2>6, <2>7 DEF RoomInv
    <1>12. StreamInv'
        BY <1>1, <1>2, <1>5, <1>6, StreamStays DEF IInv, AfterEof
    <1>13. TokenInv'
        BY <1>1 DEF TokenInv
    <1>14. SleepInv'
        BY <1>5 DEF SleepInv, Users
    <1>. QED
        BY <1>7, <1>8, <1>9, <1>10, <1>11, <1>12, <1>13, <1>14 DEF IInv

\* Ctrl-C in the context of the reader or of init.
LEMMA KillForegroundKeeps ==
    ASSUME IInv, NEW x \in {"reader", "init"}, KillForeground(x)
    PROVE  IInv'
    <1>1. CASE Target = "writer"
        <2>1. x = "reader" /\ InUserCode(x) /\ Foreground /\ Kill(x)
            BY <1>1 DEF KillForeground, Interrupted
        <2>2. status[x] = "READY" /\ kernel = NULL /\ job[x].at = "user"
            BY <2>1 DEF InUserCode, MayRun, Idle
        <2>. QED
            BY <1>1, <2>1, <2>2, KillWriterKeeps, Names DEF KillForeground
    <1>2. CASE Target = "reader"
        BY <1>2, KillReaderKeeps
    <1>. QED
        BY <1>1, <1>2 DEF Target

\* The echo of Ctrl-C is in the pipe: the writer kills itself, or goes on if nobody waits.
LEMMA EchoedKillKeeps ==
    ASSUME IInv, EchoedKill
    PROVE  IInv'
    <1>1. /\ status["writer"] = "READY" /\ kernel = "writer" /\ job["writer"].at = "kill"
          /\ job["writer"].kind = "echo"
        BY Names DEF EchoedKill, InCall, IInv, JobInv
    <1>2. CASE Foreground /\ Kill("writer")
        <2>1. Target = "writer"
            BY <1>1, <1>2 DEF IInv, ShellInv, Target, Waiting, Foreground, WithoutWriter
        <2>2. UNCHANGED <<pipe, shell, exits, written, got, hung>>
            BY DEF EchoedKill
        <2>3. /\ IInv /\ "writer" \in Users /\ Foreground /\ Target = "writer" /\ Kill("writer")
              /\ status["writer"] = "READY" /\ kernel \in {NULL, "writer"}
              /\ job["writer"].at \in {"user", "kill"}
            BY <1>1, <1>2, <2>1, Names
        <2>. QED
            BY ONLY <2>2, <2>3, KillWriterKeeps
    <1>3. CASE ~(Foreground /\ Kill("writer"))
        <2>1. /\ job' = [job EXCEPT !["writer"] = Idle] /\ kernel' = NULL
              /\ UNCHANGED <<pipe, sem, status, shell, exits, written, got, killed, hung>>
            BY <1>3 DEF EchoedKill
        <2>2. /\ job' \in [Proc -> Job] /\ job'["shell"] = job["shell"]
              /\ job'["writer"] = Idle /\ job'["reader"] = job["reader"]
              /\ Idle.kind = "user" /\ Idle.at = "user" /\ Idle.rest = 0
            BY <2>1, Names DEF IInv, Typed, Job, Idle
        <2>3. Typed'
            BY <2>1, <2>2 DEF IInv, Typed
        <2>4. JobInv'
            BY <1>1, <2>1, <2>2, NullAssumption DEF IInv, JobInv, Users, BeforeEof, AfterEof
        <2>5. ShellInv'
            BY <2>1, <2>2 DEF IInv, ShellInv, Waiting, Target, Users
        <2>6. \A s \in Sems : ~InQueue(s, "writer")
            BY <1>1, Names DEF IInv, QueueInv, Sleeps
        <2>7. QueueInv'
            BY <2>1, <2>2, <2>6 DEF IInv, QueueInv, Sleeps, InQueue, Users
        <2>8. RoomInv'
            BY <1>1, <2>1, <2>2 DEF IInv, RoomInv, Held, Owed, InQueue
        <2>9. StreamInv'
            BY <1>1, <2>1, <2>2, StreamStays DEF IInv, AfterEof
        <2>10. TokenInv'
            BY <1>1, <2>1, <2>2 DEF IInv, TokenInv, Token, HasToken
        <2>11. SleepInv'
            BY <1>1, <2>1, <2>2 DEF IInv, SleepInv, BeingKilled, InQueue, Users
        <2>. QED
            BY <2>3, <2>4, <2>5, <2>7, <2>8, <2>9, <2>10, <2>11 DEF IInv
    <1>. QED
        BY <1>2, <1>3

----------------------------------------------------------------------------
\* The shell

\* Before the writer and the reader are there, nobody waits and the queues are empty.
LEMMA NobodyYet ==
    ASSUME IInv, NEW p \in Users, status[p] = "ABSENT", ~killed
    PROVE  /\ job[p] = Idle /\ \A s \in Sems : ~InQueue(s, p) /\ Held(s, p) = 0
           /\ Token(p) = 0
    <1>1. job[p] = Idle
        BY DEF IInv, JobInv
    <1>2. \A s \in Sems : ~InQueue(s, p)
        BY <1>1 DEF IInv, QueueInv, Sleeps, Idle
    <1>. QED
        BY <1>1, <1>2 DEF Held, Token, HasToken, Idle

\* The ring is made, with as many tokens as cells.
LEMMA CreatePipeKeeps ==
    ASSUME IInv, CreatePipe, UNCHANGED <<kernel, exits, written, got, killed, hung>>
    PROVE  IInv'
    <1>1. /\ shell = "create" /\ shell' = "spawnWriter" /\ kernel = NULL
          /\ pipe' = [buffer |-> [i \in 0 .. PIPE_SIZE - 1 |-> NULL],
                      readPos |-> 0, writePos |-> 0, size |-> 0]
          /\ sem' = [sem EXCEPT !["space"].value = PIPE_SIZE]
          /\ UNCHANGED <<status, job>>
        BY DEF CreatePipe, ShellMoves, MayRun
    <1>2. /\ status["writer"] = "ABSENT" /\ status["reader"] = "ABSENT" /\ ~killed
          /\ got = <<>> /\ written = 0 /\ PIPE_SIZE \in Nat
          /\ \A s \in Sems : sem[s].value = 0
        BY <1>1, SizesAssumption DEF IInv, ShellInv, StreamInv, QueueInv, Early
    <1>3. \A p \in Users : /\ job[p] = Idle /\ \A s \in Sems : ~InQueue(s, p) /\ Held(s, p) = 0
                           /\ Token(p) = 0
        BY <1>2, NobodyYet DEF Users
    <1>4. /\ sem' \in [Sems -> SemType]
          /\ \A s \in Sems : /\ sem'[s].value = IF s = "space" THEN PIPE_SIZE ELSE 0
                             /\ sem'[s].waiters = sem[s].waiters
        <2>1. sem \in [Sems -> SemType]
            BY DEF IInv, Typed, SemType
        <2>. DEFINE new == [sem EXCEPT !["space"].value = PIPE_SIZE]
        <2>2. /\ new \in [Sems -> SemType]
              /\ \A t \in Sems : /\ new[t].value = IF t = "space" THEN PIPE_SIZE ELSE sem[t].value
                                 /\ new[t].waiters = sem[t].waiters
            BY <1>2, <2>1, SemValue, Names
        <2>3. sem' = new
            BY <1>1
        <2>. HIDE DEF new
        <2>. QED
            BY <1>2, <2>2, <2>3
    <1>5. \A s \in Sems : sem[s].waiters = <<>>
        <2>1. ASSUME NEW s \in Sems, sem[s].waiters # <<>> PROVE FALSE
            <3>1. sem[s].waiters \in Seq(Users) /\ Distinct(sem[s].waiters)
                BY DEF IInv, Typed, QueueInv
            <3>2. Head(sem[s].waiters) \in Users /\ In(sem[s].waiters, Head(sem[s].waiters))
                BY <2>1, <3>1, Headless
            <3>. QED
                BY <1>3, <3>2 DEF InQueue
        <2>. QED
            BY <2>1
    <1>6. Typed'
        BY <1>1, <1>4 DEF IInv, Typed, SemType, ShellAt, Early
    <1>7. JobInv'
        BY <1>1 DEF IInv, JobInv
    <1>8. ShellInv'
        BY <1>1, <1>2 DEF IInv, ShellInv, Waiting, Target, Early, WithoutWriter
    <1>9. QueueInv'
        BY <1>1, <1>3, <1>4, <1>5 DEF IInv, QueueInv, InQueue
    <1>10. pipe' \in Ring /\ pipe'.size = 0 /\ pipe'.readPos = 0 /\ pipe'.writePos = 0
        BY <1>1, SizesAssumption DEF Ring, Cell
    <1>11. RoomInv'
        <2>1. \A s \in Sems : \A p \in Users : Held(s, p)' = 0
            BY <1>1, <1>3 DEF Held, Idle
        <2>2. Owed' = 0
            BY <1>1, <1>3, Names DEF Owed, Idle
        <2>. QED
            BY <1>2, <1>4, <1>10, <2>1, <2>2, Names DEF RoomInv
    <1>12. StreamInv'
        <2>1. (0 + 0) % PIPE_SIZE = 0
            BY SizesAssumption
        <2>2. job'["reader"].kind = "user" /\ job'["writer"].at = "user"
            BY <1>1, <1>3, Names DEF Idle
        <2>3. Len(got) = 0
            BY <1>2
        <2>. QED
            BY <1>1, <1>2, <1>10, <2>1, <2>2, <2>3 DEF StreamInv, EofStored, AfterEof
    <1>13. TokenInv'
        <2>1. Token("writer")' = 0 /\ Token("reader")' = 0
            BY <1>1, <1>3, Names DEF Token, HasToken, Idle
        <2>. QED
            BY <1>2, <1>4, <2>1, Names DEF TokenInv
    <1>14. SleepInv'
        BY <1>1, <1>2 DEF SleepInv, Users
    <1>. QED
        BY <1>6, <1>7, <1>8, <1>9, <1>11, <1>12, <1>13, <1>14 DEF IInv

\* A process comes to life, outside of the pipe code.
LEMMA SpawnKeeps ==
    ASSUME IInv, Spawn, UNCHANGED <<kernel, exits, written, got, killed, hung>>
    PROVE  IInv'
    <1>1. PICK p \in Users :
              /\ \/ p = "writer" /\ shell = "spawnWriter" /\ shell' = "spawnReader"
                 \/ p = "reader" /\ shell = "spawnReader" /\ shell' = "callWaitWriter"
              /\ status' = [status EXCEPT ![p] = "READY"]
        BY Names DEF Spawn, ShellMoves
    <1>2. /\ status[p] = "ABSENT" /\ ~killed /\ shell \in Early /\ shell' \in Early
          /\ kernel = NULL /\ status["shell"] = "READY"
          /\ UNCHANGED <<pipe, sem, job, kernel, exits, written, got, killed, hung>>
        BY <1>1 DEF Spawn, ShellMoves, MayRun, IInv, ShellInv, Early
    <1>3. job[p] = Idle /\ \A s \in Sems : ~InQueue(s, p) /\ Held(s, p) = 0
        BY <1>2, NobodyYet
    <1>4. /\ status' \in [Proc -> {"ABSENT", "READY", "BLOCKED"}]
          /\ status'[p] = "READY" /\ \A r \in Proc : r # p => status'[r] = status[r]
          /\ status'["shell"] = "READY"
        BY <1>1, <1>2, Names DEF IInv, Typed
    <1>5. Typed'
        BY <1>1, <1>2, <1>4 DEF IInv, Typed, ShellAt, Early
    <1>6. JobInv'
        BY <1>2, <1>3, <1>4, Names, NullAssumption DEF IInv, JobInv, Users
    <1>7. ShellInv'
        BY <1>1, <1>2, <1>4, Names DEF IInv, ShellInv, Waiting, Target, Early, WithoutWriter
    <1>8. QueueInv'
        <2>1. ASSUME NEW s \in Sems, NEW r \in Users, InQueue(s, r)
              PROVE  \/ status'[r] = "ABSENT" /\ killed
                     \/ Sleeps(r)' /\ s = Takes(job'[r].kind)
            <3>1. r # p
                BY <1>3, <2>1
            <3>2. \/ status[r] = "ABSENT" /\ killed
                  \/ Sleeps(r) /\ s = Takes(job[r].kind)
                BY <2>1 DEF IInv, QueueInv
            <3>. QED
                BY <1>2, <1>4, <3>1, <3>2, Names DEF Sleeps
        <2>2. \A s \in Sems : /\ Distinct(sem[s].waiters)
                              /\ sem[s].waiters # <<>> => sem[s].value = 0
            BY DEF IInv, QueueInv
        <2>3. \A s \in Sems : \A r : InQueue(s, r)' <=> InQueue(s, r)
            BY <1>2 DEF InQueue
        <2>. QED
            BY <1>1, <1>2, <2>1, <2>2, <2>3 DEF QueueInv
    <1>9. RoomInv'
        <2>1. \A s \in Sems : Held(s, p)' = 0
            BY <1>2, <1>3 DEF Held, Idle
        <2>2. \A s \in Sems : \A r \in Users : r # p => Held(s, r)' = Held(s, r)
            BY <1>2, <1>4, Names DEF Held, InQueue
        <2>3. \A s \in Sems : \A r \in Users : Held(s, r)' = Held(s, r)
            BY <1>3, <2>1, <2>2
        <2>4. Owed' = Owed
            BY <1>2 DEF Owed
        <2>. QED
            BY <1>1, <1>2, <2>3, <2>4, Names DEF IInv, RoomInv
    <1>10. StreamInv'
        <2>1. CASE p = "writer"
            <3>1. got = <<>> /\ written = 0 /\ pipe.size = 0
                BY <1>1, <2>1 DEF IInv, StreamInv
            <3>2. ~EofStored /\ ~EofStored'
                BY <1>2, <3>1 DEF EofStored
            <3>3. /\ pipe.writePos = (pipe.readPos + pipe.size) % PIPE_SIZE
                  /\ \A m \in 0 .. pipe.size - 1 : CellAt(m) = Item(Len(got) + m + 1)
                  /\ Len(got) + pipe.size >= written /\ Len(got) <= written + 1
                  /\ \A i \in DOMAIN got : got[i] = Item(i)
                  /\ job["reader"].kind = "read" => Len(got) <= written
                  /\ job["writer"].at \in AfterEof => EofStored
                BY <1>1, <2>1 DEF IInv, StreamInv
            <3>. QED
                BY <1>1, <1>2, <2>1, <3>2, <3>3 DEF StreamInv, Item, CellAt
        <2>2. CASE p = "reader"
            <3>1. status'["writer"] = status["writer"]
                BY <1>4, <2>2, Names
            <3>. QED
                BY <1>1, <1>2, <2>2, <3>1, StreamStays DEF IInv
        <2>. QED
            BY <2>1, <2>2 DEF Users
    <1>11. TokenInv'
        BY <1>1, <1>2 DEF IInv, TokenInv, Token, HasToken
    <1>12. SleepInv'
        <2>1. \A r \in Users : status'[r] = "BLOCKED" => status[r] = "BLOCKED"
            BY <1>4, Names
        <2>. QED
            BY <1>2, <2>1 DEF IInv, SleepInv, BeingKilled, InQueue
    <1>. QED
        BY <1>5, <1>6, <1>7, <1>8, <1>9, <1>10, <1>11, <1>12 DEF IInv

\* The shell begins to wait, or need not.
LEMMA CallWaitKeeps ==
    ASSUME IInv, CallWait, UNCHANGED <<kernel, exits, written, got, killed, hung>>
    PROVE  IInv'
    <1>1. /\ kernel = NULL /\ status["shell"] = "READY"
          /\ UNCHANGED <<pipe, sem, job, kernel, exits, written, got, killed, hung>>
          /\ \/ /\ status["writer"] # "ABSENT" /\ shell = "callWaitWriter" /\ shell' = "waitWriter"
                /\ status' = [status EXCEPT !["shell"] = "BLOCKED"]
             \/ /\ status["reader"] # "ABSENT" /\ shell = "callWaitReader" /\ shell' = "waitReader"
                /\ status' = [status EXCEPT !["shell"] = "BLOCKED"]
             \/ /\ status["writer"] = "ABSENT" /\ shell = "callWaitWriter"
                /\ shell' = "callWaitReader" /\ status' = status
             \/ /\ status["reader"] = "ABSENT" /\ shell = "callWaitReader" /\ shell' = "destroy"
                /\ status' = status
        BY DEF CallWait, ShellMoves, MayRun
    <1>2. /\ status' \in [Proc -> {"ABSENT", "READY", "BLOCKED"}]
          /\ status'["writer"] = status["writer"] /\ status'["reader"] = status["reader"]
          /\ status'["shell"] = IF shell' \in {"waitWriter", "waitReader"} THEN "BLOCKED"
                                ELSE "READY"
        BY <1>1, Names DEF IInv, Typed
    <1>3. Typed'
        BY <1>1, <1>2 DEF IInv, Typed, ShellAt, Early, WithoutWriter
    <1>4. JobInv'
        BY <1>1, <1>2 DEF IInv, JobInv, Users
    <1>5. ShellInv'
        <2>1. shell = "callWaitWriter" => ~killed
            BY DEF IInv, ShellInv, Early
        <2>2. \A x \in Users : job[x].kind = "kill" => killed
            BY DEF IInv, ShellInv
        <2>3. shell = "callWaitReader" => status["writer"] = "ABSENT"
            BY DEF IInv, ShellInv, WithoutWriter
        <2>. QED
            BY <1>1, <1>2, <2>1, <2>2, <2>3 DEF ShellInv, Waiting, Target, Early, WithoutWriter
    <1>6. QueueInv'
        BY <1>1, <1>2 DEF IInv, QueueInv, Sleeps, InQueue, Users
    <1>7. RoomInv'
        BY <1>1, <1>2 DEF IInv, RoomInv, Held, Owed, InQueue
    <1>8. StreamInv'
        BY <1>1, <1>2, StreamStays DEF IInv
    <1>9. TokenInv'
        BY <1>1 DEF IInv, TokenInv, Token, HasToken
    <1>10. SleepInv'
        BY <1>1, <1>2 DEF IInv, SleepInv, BeingKilled, InQueue, Users
    <1>. QED
        BY <1>3, <1>4, <1>5, <1>6, <1>7, <1>8, <1>9, <1>10 DEF IInv

\* waitPid removes whom it waited for; unless somebody was killed it is gone already.
LEMMA WaitReturnsKeeps ==
    ASSUME IInv, WaitReturns, UNCHANGED <<kernel, exits, written, got, killed, hung>>
    PROVE  IInv'
    <1>1. PICK p \in Users :
              /\ \/ p = "writer" /\ shell = "waitWriter" /\ shell' = "callWaitReader"
                 \/ p = "reader" /\ shell = "waitReader" /\ shell' = "destroy"
              /\ p = Target
        BY Names DEF WaitReturns, ShellMoves, Target
    <1>2. /\ kernel = NULL /\ status["shell"] = "READY" /\ Waiting
          /\ status' = [status EXCEPT ![p] = "ABSENT"]
          /\ job' = [job EXCEPT ![p] = Idle]
          /\ UNCHANGED <<pipe, sem, kernel, exits, written, got, killed, hung>>
        BY <1>1 DEF WaitReturns, ShellMoves, MayRun, Waiting
    <1>3. /\ status' \in [Proc -> {"ABSENT", "READY", "BLOCKED"}]
          /\ status'[p] = "ABSENT" /\ \A r \in Proc : r # p => status'[r] = status[r]
          /\ job' \in [Proc -> Job]
          /\ job'[p] = Idle /\ \A r \in Proc : r # p => job'[r] = job[r]
          /\ Idle.kind = "user" /\ Idle.at = "user" /\ Idle.rest = 0
        <2>1. /\ Idle \in Job /\ Idle.kind = "user" /\ Idle.at = "user" /\ Idle.rest = 0
            BY DEF Job, Idle
        <2>. QED
            BY <1>2, <2>1, Names DEF IInv, Typed
    <1>4. ~killed => status[p] = "ABSENT" /\ job[p] = Idle
        <2>1. status["shell"] = "READY" /\ Waiting => status[Target] = "ABSENT" \/ killed
            BY DEF IInv, ShellInv
        <2>. QED
            BY <1>1, <1>2, <2>1 DEF IInv, JobInv
    <1>5. /\ status'["shell"] = "READY" /\ job'["shell"] = job["shell"]
          /\ shell' \in WithoutWriter /\ shell' \notin Early
          /\ status'["writer"] = "ABSENT"
        BY <1>1, <1>2, <1>3, Names DEF IInv, ShellInv, WithoutWriter, Early, Users
    <1>6. Typed'
        BY <1>1, <1>2, <1>3 DEF IInv, Typed, ShellAt, WithoutWriter
    <1>7. JobInv'
        <2>1. \A r \in Users : kernel # r
            BY <1>2, NullAssumption DEF Users
        <2>2. ASSUME NEW r \in Users, r # p PROVE job'[r] = job[r] /\ status'[r] = status[r]
            BY <1>3, <2>2, Names
        <2>. QED
            BY <1>2, <1>3, <1>5, <2>1, <2>2 DEF IInv, JobInv, BeforeEof, AfterEof
    <1>8. ShellInv'
        <2>1. shell' \in {"destroy", "done"} => status'["reader"] = "ABSENT"
            BY <1>1, <1>3
        <2>2. \A x \in Users : job'[x].kind = "kill" => killed
            BY <1>3, Names DEF IInv, ShellInv
        <2>3. shell' \notin {"waitWriter", "waitReader", "create", "spawnWriter", "spawnReader"}
            BY <1>1
        <2>. QED
            BY <1>2, <1>5, <2>1, <2>2, <2>3 DEF ShellInv, Waiting
    <1>9. \A s \in Sems : \A r : InQueue(s, r)' <=> InQueue(s, r)
        BY <1>2 DEF InQueue
    <1>10. QueueInv'
        <2>1. ASSUME NEW s \in Sems, NEW r \in Users, InQueue(s, r)
              PROVE  \/ status'[r] = "ABSENT" /\ killed
                     \/ Sleeps(r)' /\ s = Takes(job'[r].kind)
            <3>1. \/ status[r] = "ABSENT" /\ killed
                  \/ Sleeps(r) /\ s = Takes(job[r].kind)
                BY <2>1 DEF IInv, QueueInv
            <3>2. CASE r # p
                BY <1>3, <3>1, <3>2, Names DEF Sleeps
            <3>3. CASE r = p
                <4>1. killed
                    BY <1>4, <3>1, <3>3 DEF Sleeps, Idle
                <4>. QED
                    BY <1>3, <3>3, <4>1
            <3>. QED
                BY <3>2, <3>3
        <2>2. \A s \in Sems : /\ Distinct(sem[s].waiters)
                              /\ sem[s].waiters # <<>> => sem[s].value = 0
            BY DEF IInv, QueueInv
        <2>. QED
            BY <1>1, <1>2, <1>9, <2>1, <2>2 DEF QueueInv
    <1>11. RoomInv'
        <2>1. \A t \in Sems : \A r \in Users : Held(t, r) \in {0, 1} /\ Held(t, r)' \in {0, 1}
            BY DEF Held
        <2>2. \A t \in Sems : \A r \in Users : Held(t, r)' <= Held(t, r)
            <3>1. \A t \in Sems : Held(t, p)' = 0
                BY <1>3 DEF Held
            <3>2. \A t \in Sems : \A r \in Users : r # p => Held(t, r)' = Held(t, r)
                BY <1>3, <1>9, Names DEF Held
            <3>. QED
                BY <2>1, <3>1, <3>2
        <2>3. Owed' \in {0, 1} /\ Owed \in {0, 1} /\ Owed' <= Owed
            BY <1>3, Names DEF Owed
        <2>4. /\ pipe \in Ring /\ pipe.size \in Nat /\ PIPE_SIZE \in Nat
              /\ sem["space"].value + Held("space", "writer") + Held("space", "reader") + pipe.size
                     <= PIPE_SIZE
              /\ sem["data"].value + Held("data", "reader") + Owed <= pipe.size
            BY <1>1, SizesAssumption DEF IInv, RoomInv, Ring
        <2>5. sem["data"].value \in Nat /\ sem["space"].value \in Nat
            BY Names DEF IInv, Typed
        <2>6. sem["space"].value + Held("space", "writer")' + Held("space", "reader")' + pipe.size
                  <= PIPE_SIZE
            BY <2>1, <2>2, <2>4, <2>5, Names
        <2>7. sem["data"].value + Held("data", "reader")' + Owed' <= pipe.size
            BY <2>1, <2>2, <2>3, <2>4, <2>5, Names
        <2>. QED
            BY <1>2, <2>4, <2>6, <2>7 DEF RoomInv
    <1>12. StreamInv'
        <2>1. /\ job'["reader"].kind = "read" => job["reader"].kind = "read"
              /\ job'["writer"].at \in AfterEof => job["writer"].at \in AfterEof
            BY <1>3, Names DEF AfterEof
        <2>. QED
            BY <1>1, <1>2, <1>5, <2>1, StreamStays DEF IInv
    <1>13. TokenInv'
        <2>1. CASE killed
            BY <1>2, <2>1 DEF TokenInv
        <2>2. CASE ~killed
            <3>1. \A r \in Users : job'[r] = job[r]
                BY <1>3, <1>4, <2>2, Names
            <3>2. Token("writer")' = Token("writer") /\ Token("reader")' = Token("reader")
                BY <1>2, <3>1, Names DEF Token, HasToken
            <3>. QED
                BY <1>1, <1>2, <3>2 DEF IInv, TokenInv
        <2>. QED
            BY <2>1, <2>2
    <1>14. SleepInv'
        <2>. SUFFICES ASSUME exits = "sys_exit", NEW r \in Users, status'[r] = "BLOCKED"
                      PROVE  InQueue(Takes(job[r].kind), r)'
            BY <1>2 DEF SleepInv
        <2>1. r # p /\ r # "writer"
            BY <1>3, <1>5
        <2>2. status[r] = "BLOCKED" /\ job'[r] = job[r] /\ ~BeingKilled(r)
            BY <1>3, <2>1, Names DEF BeingKilled
        <2>3. Takes(job[r].kind) \in Sems
            BY DEF Takes, Sems
        <2>. QED
            BY <1>9, <2>2, <2>3 DEF IInv, SleepInv
    <1>. QED
        BY <1>6, <1>7, <1>8, <1>10, <1>11, <1>12, <1>13, <1>14 DEF IInv

\* The ring is freed; nobody is left.
LEMMA DestroyPipeKeeps ==
    ASSUME IInv, DestroyPipe, UNCHANGED <<kernel, exits, written, got, killed, hung>>
    PROVE  IInv'
    <1>1. /\ shell = "destroy" /\ shell' = "done"
          /\ UNCHANGED <<sem, status, job, kernel, exits, written, got, killed, hung>>
        BY DEF DestroyPipe, ShellMoves
    <1>2. Typed'
        BY <1>1 DEF IInv, Typed, ShellAt, WithoutWriter
    <1>3. JobInv'
        BY <1>1 DEF IInv, JobInv
    <1>4. ShellInv'
        BY <1>1 DEF IInv, ShellInv, Waiting, Target, Early, WithoutWriter
    <1>5. QueueInv'
        BY <1>1 DEF IInv, QueueInv, Sleeps, InQueue
    <1>6. RoomInv' /\ TokenInv'
        BY <1>1 DEF IInv, RoomInv, TokenInv, Token, HasToken
    <1>7. StreamInv'
        BY <1>1 DEF IInv, StreamInv, Item
    <1>8. SleepInv'
        BY <1>1 DEF IInv, SleepInv, BeingKilled, InQueue
    <1>. QED
        BY <1>2, <1>3, <1>4, <1>5, <1>6, <1>7, <1>8 DEF IInv

----------------------------------------------------------------------------
\* Every step

\* The invariant does not say what hung is.
LEMMA SpinsForeverKeeps ==
    ASSUME IInv, UNCHANGED <<pipe, sem, status, job, kernel, shell, exits, written, got, killed>>
    PROVE  IInv'
    <1>1. \A s \in Sems : \A r : InQueue(s, r)' <=> InQueue(s, r)
        BY DEF InQueue
    <1>2. Typed' /\ JobInv' /\ ShellInv'
        BY DEF IInv, Typed, JobInv, ShellInv, Waiting, Target
    <1>3. QueueInv'
        BY <1>1 DEF IInv, QueueInv, Sleeps
    <1>4. RoomInv'
        BY DEF IInv, RoomInv, Held, Owed, InQueue
    <1>5. StreamInv'
        BY DEF IInv, StreamInv, Item, EofStored, CellAt
    <1>6. TokenInv'
        BY DEF IInv, TokenInv, Token, HasToken
    <1>7. SleepInv'
        BY DEF IInv, SleepInv, BeingKilled, InQueue
    <1>. QED
        BY <1>2, <1>3, <1>4, <1>5, <1>6, <1>7 DEF IInv

\* The calls of the programs, and the echo of a key in the writer's context.
LEMMA CallsKeep ==
    ASSUME IInv, CallWrite \/ CallRead \/ CallExit \/ EchoKey
    PROVE  IInv'
    <1>1. CASE CallWrite
        <2>1. PICK n \in 1 .. MaxBytes - written : Enter("writer", "write", n)
            BY <1>1 DEF CallWrite
        <2>2. n \in Nat \ {0}
            BY <2>1, SizesAssumption DEF IInv, Typed
        <2>. QED
            BY <1>1, <2>1, <2>2, EnterKeeps, Names DEF CallWrite
    <1>2. CASE CallRead
        BY <1>2, EnterKeeps, Names DEF CallRead
    <1>3. CASE CallExit
        BY <1>3, EnterKeeps, Names DEF CallExit
    <1>4. CASE EchoKey
        <2>1. PICK kind \in {"write", "echo"} : Enter("writer", kind, 2)
            BY <1>4 DEF EchoKey
        <2>2. 2 \in Nat \ {0}
            OBVIOUS
        <2>. QED
            BY <1>4, <2>1, <2>2, EnterKeeps, Names DEF EchoKey
    <1>. QED
        BY <1>1, <1>2, <1>3, <1>4

\* The invariant holds before the pipe is made.
LEMMA Initially == Init => IInv
    <1>. SUFFICES ASSUME Init PROVE IInv
        OBVIOUS
    <1>1. /\ \A p \in Users : status[p] = "ABSENT" /\ job[p] = Idle
          /\ status["shell"] = "READY" /\ job["shell"] = Idle
          /\ \A s \in Sems : sem[s] = [value |-> 0, waiters |-> <<>>, lock |-> NULL]
          /\ status \in [Proc -> {"ABSENT", "READY", "BLOCKED"}]
          /\ kernel = NULL /\ shell = "create" /\ written = 0 /\ got = <<>> /\ killed = FALSE
        BY DEF Init, Users, Proc, Sems
    <1>2. Idle \in Job /\ Idle.kind = "user" /\ Idle.at = "user" /\ Idle.rest = 0
        BY DEF Idle, Job
    <1>3. Typed
        <2>1. sem \in [Sems -> SemType]
            BY DEF Init, Sems, SemType
        <2>2. job \in [Proc -> Job]
            BY <1>2 DEF Init
        <2>3. shell \in ShellAt /\ got \in Seq(Nat)
            BY <1>1 DEF ShellAt, Early
        <2>. QED
            BY <1>1, <2>1, <2>2, <2>3 DEF Typed, SemType
    <1>4. JobInv
        BY <1>1, <1>2, NullAssumption DEF JobInv, Users, BeforeEof, AfterEof
    <1>5. ShellInv
        BY <1>1, <1>2, Names DEF ShellInv, WithoutWriter, Waiting
    <1>6. QueueInv
        BY <1>1 DEF QueueInv, InQueue, In, Distinct
    <1>7. RoomInv /\ TokenInv
        BY <1>1 DEF RoomInv, TokenInv
    <1>8. StreamInv
        BY <1>1, <1>2, Names DEF Init, StreamInv, AfterEof
    <1>9. SleepInv
        BY <1>1 DEF SleepInv
    <1>. QED
        BY <1>3, <1>4, <1>5, <1>6, <1>7, <1>8, <1>9 DEF IInv

\* No step breaks the invariant.
LEMMA StepKeeps == IInv /\ [Next]_vars => IInv'
    <1>. SUFFICES ASSUME IInv, [Next]_vars PROVE IInv'
        OBVIOUS
    <1>1. CASE ProcessStep
        <2>1. CASE CallWrite \/ CallRead \/ CallExit \/ EchoKey
            BY <2>1, CallsKeep
        <2>2. CASE ReaderExits
            BY <2>2, ReaderExitsKeeps
        <2>3. CASE PreemptibleExit
            <3>1. UNCHANGED <<kernel, shell, exits, written, got, killed, hung>>
                BY <2>3 DEF PreemptibleExit
            <3>2. CASE ReturnFromMain
                BY <3>1, <3>2, ReturnFromMainKeeps
            <3>3. CASE EofSem
                BY <3>1, <3>3, EofSemKeeps
            <3>4. CASE EofBlock
                BY <3>1, <3>4, EofBlockKeeps
            <3>5. CASE EofStore
                BY <3>1, <3>5, EofStoreKeeps
            <3>6. CASE EofPost
                BY <3>1, <3>6, EofPostKeeps
            <3>7. CASE EofFinish
                BY <3>1, <3>7, EofFinishKeeps
            <3>. QED
                BY <2>3, <3>2, <3>3, <3>4, <3>5, <3>6, <3>7 DEF PreemptibleExit
        <2>4. ASSUME NEW p \in Users, SpinsForever(p) PROVE IInv'
            BY <2>4, SpinsForeverKeeps DEF SpinsForever
        <2>5. ASSUME NEW p \in Users, Wait(p) PROVE IInv'
            BY <2>5, WaitKeeps
        <2>6. ASSUME NEW p \in Users, Copy(p) PROVE IInv'
            BY <2>6, CopyReadKeeps, CopyStoreKeeps
        <2>7. CASE EchoSpins
            BY <2>7, SpinsForeverKeeps DEF EchoSpins
        <2>8. CASE EchoedKill
            BY <2>8, EchoedKillKeeps
        <2>. QED
            BY <1>1, <2>1, <2>2, <2>3, <2>4, <2>5, <2>6, <2>7, <2>8 DEF ProcessStep
    <1>2. CASE Shell
        <2>1. UNCHANGED <<kernel, exits, written, got, killed, hung>>
            BY <1>2 DEF Shell
        <2>2. CASE CreatePipe
            BY <2>1, <2>2, CreatePipeKeeps
        <2>3. CASE Spawn
            BY <2>1, <2>3, SpawnKeeps
        <2>4. CASE CallWait
            BY <2>1, <2>4, CallWaitKeeps
        <2>5. CASE WaitReturns
            BY <2>1, <2>5, WaitReturnsKeeps
        <2>6. CASE DestroyPipe
            BY <2>1, <2>6, DestroyPipeKeeps
        <2>. QED
            BY <1>2, <2>2, <2>3, <2>4, <2>5, <2>6 DEF Shell
    <1>3. ASSUME NEW x \in {"reader", "init"}, KillForeground(x) PROVE IInv'
        BY <1>3, KillForegroundKeeps
    <1>4. CASE UNCHANGED vars
        BY <1>4, SpinsForeverKeeps DEF vars
    <1>. QED
        BY <1>1, <1>2, <1>3, <1>4 DEF Next

\* The inductive invariant holds in every reachable state.
THEOREM Invariance == Spec => []IInv
    BY Initially, StepKeeps, PTL DEF Spec

----------------------------------------------------------------------------
\* What follows from it

\* writePipe, readPipe and send_pipe_eof: the reader is given the bytes stored in the writer's
\* name (its own and those of the keys echoed in its context), each once and in order, then
\* EOF and nothing more.
THEOREM StreamIsIntact == Spec => []StreamIntact
    <1>1. IInv => StreamIntact
        <2>. SUFFICES ASSUME IInv PROVE StreamIntact
            OBVIOUS
        <2>1. /\ got \in Seq(Nat) /\ written \in Nat /\ Len(got) <= written + 1
              /\ \A i \in DOMAIN got : got[i] = Item(i)
            BY DEF IInv, Typed, StreamInv
        <2>2. \A i \in DOMAIN got : i \in Nat \ {0} /\ i <= Len(got)
            BY <2>1
        <2>3. \A i \in DOMAIN got : got[i] = i \/ (got[i] = EOF /\ i = Len(got))
            BY <2>1, <2>2 DEF Item
        <2>4. ReachedEof => Len(got) = written + 1
            <3>1. ASSUME ReachedEof PROVE Len(got) = written + 1
                <4>1. Len(got) \in DOMAIN got /\ got[Len(got)] = EOF
                    BY <2>1, <3>1 DEF ReachedEof
                <4>2. ~(Len(got) <= written)
                    BY <2>1, <2>2, <4>1 DEF Item, EOF
                <4>. QED
                    BY <2>1, <4>2
            <3>. QED
                BY <3>1
        <2>. QED
            BY <2>3, <2>4 DEF StreamIntact
    <1>. QED
        BY <1>1, Invariance, PTL

\* The two semaphores of a pipe, with what processes have taken and not passed on, count the
\* cells of the ring, whatever the interleaving of semWait, semPost and send_pipe_eof.
THEOREM TokensAreKept == Spec => []TokensFillRing
    <1>1. IInv => TokensFillRing
        <2>. SUFFICES ASSUME IInv, pipe # NULL, ~killed
                      PROVE  sem["space"].value + sem["data"].value
                                 + Cardinality({p \in Users : HasToken(p)}) = PIPE_SIZE
            BY DEF TokensFillRing
        <2>1. sem["space"].value \in Nat /\ sem["data"].value \in Nat
            BY Names DEF IInv, Typed
        <2>2. shell # "create"
            BY DEF IInv, StreamInv
        <2>3. sem["space"].value + sem["data"].value + Token("writer") + Token("reader") = PIPE_SIZE
            BY <2>2 DEF IInv, TokenInv
        <2>4. Cardinality({p \in Users : HasToken(p)}) = Token("writer") + Token("reader")
            <3>. DEFINE S == {p \in Users : HasToken(p)}
            <3>1. /\ S = (IF HasToken("writer") THEN {"writer"} ELSE {})
                           \cup (IF HasToken("reader") THEN {"reader"} ELSE {})
                BY DEF Users
            <3>2. /\ Cardinality({}) = 0 /\ Cardinality({"writer"}) = 1
                  /\ Cardinality({"reader"}) = 1 /\ IsFiniteSet({"writer"})
                BY FS_EmptySet, FS_Singleton
            <3>3. Cardinality({"writer"} \cup {"reader"}) = 2
                <4>1. "reader" \notin {"writer"}
                    OBVIOUS
                <4>2. Cardinality({"writer"} \cup {"reader"}) = Cardinality({"writer"}) + 1
                    BY <3>2, <4>1, FS_AddElement
                <4>. QED
                    BY <3>2, <4>2
            <3>4. CASE HasToken("writer") /\ HasToken("reader")
                BY <3>1, <3>3, <3>4 DEF Token
            <3>5. CASE HasToken("writer") /\ ~HasToken("reader")
                <4>1. S = {"writer"}
                    BY <3>1, <3>5
                <4>. QED
                    BY <3>2, <3>5, <4>1 DEF Token
            <3>6. CASE ~HasToken("writer") /\ HasToken("reader")
                <4>1. S = {"reader"}
                    BY <3>1, <3>6
                <4>. QED
                    BY <3>2, <3>6, <4>1 DEF Token
            <3>7. CASE ~HasToken("writer") /\ ~HasToken("reader")
                <4>1. S = {}
                    BY <3>1, <3>7
                <4>. QED
                    BY <3>2, <3>7, <4>1 DEF Token
            <3>. QED
                BY <3>4, <3>5, <3>6, <3>7
        <2>5. Token("writer") \in Nat /\ Token("reader") \in Nat
            BY DEF Token
        <2>. QED
            BY <2>1, <2>3, <2>4, <2>5
    <1>. QED
        BY <1>1, Invariance, PTL

\* Whoever sleeps in semWait, called with interrupts off, is in the queue of a semaphore that
\* has no token: its wake-up cannot have come before it slept.
THEOREM SleepersAreQueued == Spec => []BlockedAreQueued
    <1>1. IInv => BlockedAreQueued
        <2>. SUFFICES ASSUME IInv, exits = "sys_exit", NEW p \in Users,
                             status[p] = "BLOCKED", ~BeingKilled(p)
                      PROVE  /\ InQueue(Takes(job[p].kind), p)
                             /\ sem[Takes(job[p].kind)].value = 0
            BY DEF BlockedAreQueued, InQueue, In
        <2>1. Takes(job[p].kind) \in Sems
            BY DEF Takes, Sems
        <2>2. InQueue(Takes(job[p].kind), p)
            BY DEF IInv, SleepInv
        <2>3. sem[Takes(job[p].kind)].waiters # <<>>
            BY <2>2 DEF InQueue, In
        <2>. QED
            BY <2>1, <2>2, <2>3 DEF IInv, QueueInv
    <1>. QED
        BY <1>1, Invariance, PTL

\* destroyPipe frees a pipe that nobody uses or will use: waitPid has returned for both.
THEOREM DestroyedUnused == Spec => []DestroyedWhenUnused
    <1>1. IInv => DestroyedWhenUnused
        BY DEF IInv, DestroyedWhenUnused, ShellInv, JobInv, WithoutWriter, Users
    <1>. QED
        BY <1>1, Invariance, PTL

\* The shell sleeps in waitPid only while the process it waits for exists, which wakes it when
\* it exits (myExit) or is killed (killForegroundProcess).
THEOREM ShellSleepsForSomebody == Spec => []ShellWaitsForSomebody
    <1>1. IInv => ShellWaitsForSomebody
        BY DEF IInv, ShellInv, ShellWaitsForSomebody
    <1>. QED
        BY <1>1, Invariance, PTL
====
