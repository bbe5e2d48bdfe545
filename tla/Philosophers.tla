---- MODULE Philosophers ----
(***************************************************************************)
(* The phylo program (phylo.c): the dining philosophers at a table that    *)
(* the user enlarges and reduces while they eat.  The philosophers change  *)
(* the table inside a mutex; the main program, which adds and removes      *)
(* them, does not take it.                                                 *)
(*                                                                         *)
(* All of it is user code, preempted anywhere: an action is one access to  *)
(* the shared variables or one system call.  The reads of test and the     *)
(* write they lead to are one action, as is the loop that compares the     *)
(* states with the printed ones.  The semaphores are what FifoSemaphores   *)
(* promises.                                                               *)
(***************************************************************************)
EXTENDS Integers, Sequences

CONSTANTS
    MAX_PHILOSOPHERS,   \* 10 in phylo.c
    Followed            \* bound of the model: what main may upset in a behaviour that goes on

ASSUME MaxAssumption == MAX_PHILOSOPHERS \in Nat \ {0}

Id == 0 .. MAX_PHILOSOPHERS - 1
THINKING == "THINKING"
HUNGRY == "HUNGRY"
EATING == "EATING"

VARIABLES
    philosopherCount,
    state,
    lastState,   \* TRUE if the last line printed showed the philosopher eating
    at,          \* where the philosopher is; "absent" if its process does not exist
    target,      \* the argument of the test it is in
    mutex,       \* the tokens of mutex_sem and the philosophers that wait for one
    fork,        \* the tokens of s0, s1, ...; -1 if there is no such semaphore
    main,        \* where phylo is
    alarm,       \* history: "ESTADO INVALIDO!!!" has been printed
    upset        \* history: what main has done to philosophers at an unfortunate moment

table == <<philosopherCount, state, lastState>>
vars == <<philosopherCount, state, lastState, at, target, mutex, fork, main, alarm, upset>>

Init ==
    /\ philosopherCount = 0
    /\ state = [i \in Id |-> THINKING]
    /\ lastState = [i \in Id |-> FALSE]
    /\ at = [i \in Id |-> "absent"]
    /\ target = [i \in Id |-> i]
    /\ mutex = [value |-> 1, waiters |-> <<>>]
    /\ fork = [i \in Id |-> -1]
    /\ main = "getchar"
    /\ alarm = FALSE /\ upset = {}

\* A division by zero while nobody is counted: the philosopher gets no further.
left(i) == (i + philosopherCount - 1) % philosopherCount
right(i) == (i + 1) % philosopherCount

Seated == 0 .. philosopherCount - 1
Eats(i) == state[i] = EATING
\* checkAdjacentEating.
adjacentEating == philosopherCount > 1 /\ \E i \in Seated : Eats(i) /\ (Eats(left(i)) \/ Eats(right(i)))

\* The line is printed when it differs from the last one and somebody eats; then the
\* states are checked.
checkAndPrintStateChange ==
    /\ lastState' = [i \in Id |-> IF i \in Seated THEN Eats(i) ELSE lastState[i]]
    /\ alarm' = \/ alarm
                \/ /\ adjacentEating
                   /\ \E i \in Seated : Eats(i) # lastState[i]

----------------------------------------------------------------------------
\* The philosophers

IsQueued(i) == \E k \in DOMAIN mutex.waiters : mutex.waiters[k] = i

\* A philosopher in semWait(mutexName) goes on when a post has taken it out of the queue.
Step(i, from, to) ==
    /\ at[i] = from /\ ~IsQueued(i)
    /\ at' = [at EXCEPT ![i] = to]

\* The writes to one's own state, think and eat with the sleep that follows.
SetState(i) ==
    /\ \/ Step(i, "think", "lock") /\ state' = [state EXCEPT ![i] = THINKING]
       \/ Step(i, "eat", "relock") /\ state' = [state EXCEPT ![i] = EATING]
       \/ Step(i, "locked", "showHungry") /\ state' = [state EXCEPT ![i] = HUNGRY]
       \/ Step(i, "relocked", "showThinking") /\ state' = [state EXCEPT ![i] = THINKING]
    /\ UNCHANGED <<philosopherCount, lastState, target, mutex, fork, main, alarm, upset>>

\* semWait(mutexName); the caller goes on at once or after a post.  The sleep of think is
\* over: half a second, in which main has not always come to count the newcomer.
WaitMutex(i) ==
    /\ Step(i, "lock", "locked") \/ Step(i, "relock", "relocked")
    /\ upset' = IF i \in Seated THEN upset ELSE upset \cup {"newcomer"}
    /\ mutex' = IF mutex.value > 0 THEN [mutex EXCEPT !.value = @ - 1]
                ELSE [mutex EXCEPT !.waiters = Append(@, i)]
    /\ UNCHANGED <<table, target, fork, main, alarm>>

\* semPost(mutexName).
PostMutex(i) ==
    /\ Step(i, "unlock", "waitFork") \/ Step(i, "release", "think")
    /\ mutex' = IF mutex.waiters = <<>> THEN [mutex EXCEPT !.value = @ + 1]
                ELSE [mutex EXCEPT !.waiters = Tail(@)]
    /\ UNCHANGED <<table, target, fork, main, alarm, upset>>

\* Variant with a bug: a philosopher that finds a token does not use it up.
WaitForkKeeps(i) ==
    /\ Step(i, "waitFork", "eat") /\ fork[i] > 0
    /\ UNCHANGED <<table, target, fork, mutex, main, alarm, upset>>
\* semWait(semNames[i]), once it returns.
WaitFork(i) ==
    /\ Step(i, "waitFork", "eat") /\ fork[i] > 0
    /\ fork' = [fork EXCEPT ![i] = @ - 1]
    /\ UNCHANGED <<table, target, mutex, main, alarm, upset>>

\* Where a test goes when its philosopher may not eat; where it goes, by way of the line
\* it prints and its post, when that one may.
AfterTest == [test1 |-> "unlock", test2 |-> "test3", test3 |-> "release"]
ShowAfter == [test1 |-> "show1", test2 |-> "show2", test3 |-> "show3"]
PostAfter == [show1 |-> "post1", show2 |-> "post2", show3 |-> "post3"]
AfterPost == [post1 |-> "unlock", post2 |-> "test3", post3 |-> "release"]

\* The tests of one's own state (1), of the left (2) and of the right neighbour (3).
Show(i) ==
    /\ philosopherCount > 0
    /\ \/ Step(i, "showHungry", "test1") /\ target' = [target EXCEPT ![i] = i]
       \/ Step(i, "showThinking", "test2") /\ target' = [target EXCEPT ![i] = left(i)]
       \/ UNCHANGED target /\ \E s \in DOMAIN PostAfter : Step(i, s, PostAfter[s])
    /\ checkAndPrintStateChange
    /\ UNCHANGED <<philosopherCount, state, mutex, fork, main, upset>>

\* Variant with a bug: only one neighbour is looked at.
MayEatLeftFree(i) == state[i] = HUNGRY /\ ~Eats(left(i))
MayEat(i) == state[i] = HUNGRY /\ ~Eats(left(i)) /\ ~Eats(right(i))

\* Variant with a bug: put_forks tests the left neighbour twice.
TestedLeft(i) == IF at[i] = "test3" THEN left(i) ELSE target[i]
\* test(right(i)) is called with the right neighbour of that moment.
Tested(i) == IF at[i] = "test3" THEN right(i) ELSE target[i]

Test(i) ==
    /\ philosopherCount > 0
    /\ \E t \in DOMAIN AfterTest :
          /\ Step(i, t, IF MayEat(Tested(i)) THEN ShowAfter[t] ELSE AfterTest[t])
          /\ state' = IF MayEat(Tested(i)) THEN [state EXCEPT ![Tested(i)] = EATING] ELSE state
    /\ target' = [target EXCEPT ![i] = IF MayEat(Tested(i)) THEN Tested(i) ELSE i]
    /\ UNCHANGED <<philosopherCount, lastState, mutex, fork, main, alarm, upset>>

\* Variant with a bug: the one found fit to eat is not told.
PostForkLost(i) ==
    /\ \E p \in DOMAIN AfterPost : Step(i, p, AfterPost[p])
    /\ target' = [target EXCEPT ![i] = i]
    /\ UNCHANGED <<table, mutex, fork, main, alarm, upset>>
\* semPost(semNames[target]), which fails if the semaphore has been closed.
PostFork(i) ==
    /\ \E p \in DOMAIN AfterPost : Step(i, p, AfterPost[p])
    /\ fork' = IF fork[target[i]] < 0 THEN fork ELSE [fork EXCEPT ![target[i]] = @ + 1]
    /\ target' = [target EXCEPT ![i] = i]
    /\ UNCHANGED <<table, mutex, main, alarm, upset>>

Philosopher(i) ==
    \/ SetState(i) \/ WaitMutex(i) \/ PostMutex(i) \/ WaitFork(i) \/ Show(i) \/ Test(i)
    \/ PostFork(i)

----------------------------------------------------------------------------
\* phylo

Last == philosopherCount - 1
MainMoves(from, to) == main = from /\ main' = to

\* addPhilosopher: semOpen, newProcess, then the table.
OpenFork ==
    /\ philosopherCount < MAX_PHILOSOPHERS /\ MainMoves("getchar", "newProcess")
    /\ fork' = [fork EXCEPT ![philosopherCount] = 0]
    /\ UNCHANGED <<table, at, target, mutex, alarm, upset>>
NewProcess ==
    /\ MainMoves("newProcess", "register")
    /\ at' = [at EXCEPT ![philosopherCount] = "think"]
    /\ UNCHANGED <<table, target, mutex, fork, alarm, upset>>
\* The neighbours 0 and the last of the old ring are neighbours no more: one that waits for
\* the other to eat up will not be tested by it.
Parted ==
    /\ philosopherCount > 1 /\ HUNGRY \in {state[0], state[Last]}
    /\ mutex.value = 0 \/ Eats(0) \/ Eats(Last)
Register ==
    /\ MainMoves("register", "show")
    /\ state' = [state EXCEPT ![philosopherCount] = THINKING]
    /\ lastState' = [lastState EXCEPT ![philosopherCount] = FALSE]
    /\ philosopherCount' = philosopherCount + 1
    /\ upset' = IF Parted THEN upset \cup {"parted"} ELSE upset
    /\ UNCHANGED <<at, target, mutex, fork, alarm>>

MainShows ==
    /\ MainMoves("show", "getchar") \/ MainMoves("quitShow", "quit")
    /\ checkAndPrintStateChange
    /\ UNCHANGED <<philosopherCount, state, at, target, mutex, fork, upset>>

\* removePhilosopher, for the command "r" and for each philosopher after "q".  What it
\* upsets: a section of the mutex, someone who waits for the last one to eat up, and
\* those on both sides of it who eat and become neighbours.
Upset(joins) ==
    upset' = upset \cup (IF mutex.value = 0 THEN {"section"} ELSE {})
                   \cup (IF Eats(Last) THEN {"eater"} ELSE {})
                   \cup (IF joins THEN {"joined"} ELSE {})
\* The queue without the process that is killed.
Unqueued(i) ==
    IF IsQueued(i)
    THEN LET k == CHOOSE k \in DOMAIN mutex.waiters : mutex.waiters[k] = i
         IN  SubSeq(mutex.waiters, 1, k - 1) \o SubSeq(mutex.waiters, k + 1, Len(mutex.waiters))
    ELSE mutex.waiters
Kill ==
    /\ philosopherCount > 0
    /\ MainMoves("getchar", "close") \/ MainMoves("quit", "quitClose")
    /\ at' = [at EXCEPT ![Last] = "absent"]
    /\ target' = [target EXCEPT ![Last] = Last]
    /\ mutex' = [mutex EXCEPT !.waiters = Unqueued(Last)]
    /\ Upset(FALSE)
    /\ UNCHANGED <<table, fork, alarm>>
CloseFork ==
    /\ MainMoves("close", "count") \/ MainMoves("quitClose", "quitCount")
    /\ fork' = [fork EXCEPT ![Last] = -1]
    /\ Upset(FALSE)
    /\ UNCHANGED <<table, at, target, mutex, alarm>>
CountOff ==
    /\ MainMoves("count", "show") \/ MainMoves("quitCount", "quitShow")
    /\ philosopherCount' = philosopherCount - 1
    /\ Upset(Last > 1 /\ Eats(0) /\ Eats(Last - 1))
    /\ UNCHANGED <<state, lastState, at, target, mutex, fork, alarm>>

\* "q"; at the end phylo closes mutex_sem, which nobody uses any more.
Quit ==
    /\ \/ MainMoves("getchar", "quit")
       \/ philosopherCount = 0 /\ MainMoves("quit", "exit")
    /\ UNCHANGED <<table, at, target, mutex, fork, alarm, upset>>

Main ==
    \/ OpenFork \/ NewProcess \/ Register \/ MainShows \/ Kill \/ CloseFork \/ CountOff \/ Quit

Next == upset \subseteq Followed /\ (Main \/ \E i \in Id : Philosopher(i))
Spec == Init /\ [][Next]_vars

\* READY processes run in the end (NoStarvation of Scheduler).  The user need not type.
Fairness ==
    /\ WF_vars(main # "getchar" /\ Main)
    /\ \A i \in Id : WF_vars(Philosopher(i))
FairSpec == Spec /\ Fairness

----------------------------------------------------------------------------
\* Properties

Spared(harms) == upset \cap harms = {}

\* Neighbours never eat together, while the ring grows and shrinks: unless a removal cut
\* into a section of the mutex or made neighbours of two who were eating (test,
\* removePhilosopher, checkAdjacentEating).
NeighboursNeverEat == Spared({"section", "joined", "newcomer"}) => ~adjacentEating

\* Whoever gets past semWait(semNames[i]) has been found fit to eat, and for each such
\* finding there is one token: none is left over for a later meal (test, take_forks).
EatersWereServed ==
    Spared({"section", "newcomer"}) =>
        \A i \in Seated : /\ at[i] = "eat" => Eats(i) /\ fork[i] = 0
                          /\ fork[i] > 0 => Eats(i) /\ at[i] \in {"unlock", "waitFork", "absent"}

\* A philosopher sleeps for its forks only while a neighbour eats, who will test it: no
\* wake-up is lost (take_forks, put_forks), unless main has removed that neighbour or
\* moved it away.
WaitsForAnEater ==
    Spared({"section", "eater", "parted", "newcomer"}) /\ mutex.value = 1 =>
        \A i \in Seated : at[i] = "waitFork" /\ fork[i] = 0 => Eats(left(i)) \/ Eats(right(i))

\* The hungry eat, at a table of at most three: in a ring of four the neighbours of one
\* philosopher may eat by turns for ever.
HungryEat ==
    \A i \in Id :
        (i \in Seated /\ state[i] = HUNGRY)
            ~> (state[i] = EATING \/ i \notin Seated \/ upset # {} \/ philosopherCount > 3)

\* phylo never prints the line with which it reports that neighbours eat
\* (checkAdjacentEating).
NoInvalidState == ~alarm
====
