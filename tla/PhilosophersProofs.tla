---- MODULE PhilosophersProofs ----
(***************************************************************************)
(* Proofs about Philosophers, for tables of any size: the philosophers     *)
(* exclude each other from the table, a finding that somebody may eat      *)
(* becomes one token, and with that neighbours never eat together and      *)
(* whoever sleeps for its forks has a neighbour who eats.                  *)
(***************************************************************************)
EXTENDS Philosophers, TLAPS

\* Where a philosopher has come to by its semWait(mutexName), or waits in it.
Asked == {"locked", "relocked"}
\* Where it has found somebody fit to eat who has no token yet.
ServesSelf == {"show1", "post1"}
ServesOther == {"show2", "post2", "show3", "post3"}
Serves == ServesSelf \cup ServesOther
Section == Asked \cup Serves
           \cup {"showHungry", "test1", "unlock", "showThinking", "test2", "test3", "release"}
Place == Section \cup {"absent", "think", "lock", "waitFork", "eat", "relock"}
Removing == {"close", "quitClose", "count", "quitCount"}

Inside(i) == at[i] \in Section /\ ~IsQueued(i)

\* Where a philosopher can be with each of its states.
PlacesOf(s) ==
    IF s = THINKING
    THEN {"absent", "think", "lock", "locked", "showThinking", "test2", "show2", "post2",
          "test3", "show3", "post3", "release"}
    ELSE IF s = HUNGRY
    THEN {"absent", "showHungry", "test1", "unlock", "waitFork"}
    ELSE {"absent", "show1", "post1", "unlock", "waitFork", "eat", "relock", "relocked"}

Typed ==
    /\ philosopherCount \in 0 .. MAX_PHILOSOPHERS
    /\ state \in [Id -> {THINKING, HUNGRY, EATING}]
    /\ at \in [Id -> Place]
    /\ target \in [Id -> Id]
    /\ mutex \in [value : {0, 1}, waiters : Seq(Id)]
    /\ fork \in [Id -> {-1, 0, 1}]

\* What phylo has done of an arrival or of a removal.
MainInv ==
    /\ main \in {"newProcess", "register"} =>
           philosopherCount < MAX_PHILOSOPHERS /\ fork[philosopherCount] = 0
    /\ main = "register" => at[philosopherCount] \in {"think", "lock"}
    /\ main \in Removing => philosopherCount > 0 /\ at[Last] = "absent"
    /\ \A i \in Id \ Seated : at[i] # "absent" =>
           main = "register" /\ i = philosopherCount /\ at[i] \in {"think", "lock"}
    /\ \A i \in Seated : at[i] = "absent" => main \in Removing /\ i = Last

\* One philosopher at a time is in a section.
MutexInv ==
    /\ mutex.value = 1 => mutex.waiters = <<>> /\ \A i \in Id : at[i] \notin Section
    /\ \A i, j \in Id : Inside(i) /\ Inside(j) => i = j
    /\ \A k \in DOMAIN mutex.waiters : at[mutex.waiters[k]] \in Asked
    /\ \A k, l \in DOMAIN mutex.waiters : mutex.waiters[k] = mutex.waiters[l] => k = l

\* A philosopher's state tells where it is, and its token is for a meal it may begin.
SeatInv ==
    \A i \in Seated : /\ at[i] \in PlacesOf(state[i])
                      /\ fork[i] = 1 => Eats(i) /\ at[i] \in {"unlock", "waitFork", "absent"}
                      /\ fork[i] = -1 => at[i] = "absent"

\* Whom a test is about, and the one that has been found fit to eat.
ServeInv ==
    \A j \in Seated :
        /\ at[j] = "test1" => target[j] = j
        /\ at[j] = "test2" => target[j] \in Seated
        /\ at[j] \in Serves => target[j] \in Seated /\ Eats(target[j]) /\ fork[target[j]] # 1
        /\ at[j] \in ServesSelf => target[j] = j
        /\ at[j] \in ServesOther => at[target[j]] \in {"waitFork", "absent"}
OwedInv ==
    \A i \in Seated : Eats(i) /\ at[i] \in {"unlock", "waitFork"} =>
        fork[i] = 1 \/ \E j \in Seated : at[j] \in Serves /\ target[j] = i

\* The philosopher at the end of its meal that is going to test i.
WillTest(j, i) ==
    \/ at[j] = "showThinking" /\ i \in {left(j), right(j)}
    \/ at[j] = "test2" /\ i \in {target[j], right(j)}
    \/ at[j] \in {"show2", "post2", "test3"} /\ i = right(j)
Sleeps(i) == state[i] = HUNGRY /\ at[i] \in {"unlock", "waitFork"}
NeighbourEats(i) == Eats(left(i)) \/ Eats(right(i))
HungryInv == \A i \in Seated : Sleeps(i) => NeighbourEats(i) \/ \E j \in Seated : WillTest(j, i)

TableInv == Typed /\ MainInv /\ MutexInv /\ SeatInv /\ ServeInv /\ OwedInv
IInv ==
    /\ Spared({"section", "newcomer"}) => TableInv
    /\ Spared({"section", "joined", "newcomer"}) => ~adjacentEating
    /\ Spared({"section", "eater", "parted", "newcomer"}) => HungryInv

----------------------------------------------------------------------------
\* Lemmas

\* The neighbours in a ring of c seats.
LEMMA Ring ==
    ASSUME NEW c \in Nat \ {0}, NEW i \in 0 .. c - 1
    PROVE  /\ (i + c - 1) % c = IF i = 0 THEN c - 1 ELSE i - 1
           /\ (i + 1) % c = IF i = c - 1 THEN 0 ELSE i + 1
OBVIOUS

\* left and right name seats, and undo each other.
LEMMA Neighbours ==
    ASSUME philosopherCount \in Nat
    PROVE  \A i \in Seated : /\ left(i) = IF i = 0 THEN Last ELSE i - 1
                             /\ right(i) = IF i = Last THEN 0 ELSE i + 1
                             /\ left(i) \in Seated /\ right(i) \in Seated
                             /\ left(right(i)) = i /\ right(left(i)) = i
    <1>1. \A i \in Seated : /\ left(i) = IF i = 0 THEN Last ELSE i - 1
                            /\ right(i) = IF i = Last THEN 0 ELSE i + 1
        <2>. SUFFICES ASSUME NEW i \in Seated
                      PROVE  /\ left(i) = IF i = 0 THEN Last ELSE i - 1
                             /\ right(i) = IF i = Last THEN 0 ELSE i + 1
            OBVIOUS
        <2>1. philosopherCount \in Nat \ {0} /\ i \in 0 .. philosopherCount - 1
            BY DEF Seated
        <2>. QED
            BY <2>1, Ring DEF left, right, Last
    <1>2. \A i \in Seated : left(i) \in Seated /\ right(i) \in Seated
        BY <1>1 DEF Seated, Last
    <1>. QED
        BY <1>1, <1>2 DEF Seated, Last

\* The mutex with another count or another queue.
LEMMA MutexRecord ==
    ASSUME Typed, NEW v \in {0, 1}, NEW q \in Seq(Id)
    PROVE  /\ [mutex EXCEPT !.value = v] \in [value : {0, 1}, waiters : Seq(Id)]
           /\ [mutex EXCEPT !.value = v].value = v
           /\ [mutex EXCEPT !.value = v].waiters = mutex.waiters
           /\ [mutex EXCEPT !.waiters = q] \in [value : {0, 1}, waiters : Seq(Id)]
           /\ [mutex EXCEPT !.waiters = q].value = mutex.value
           /\ [mutex EXCEPT !.waiters = q].waiters = q
BY DEF Typed

\* Who is seated has an identity.
LEMMA SeatedAreIds ==
    ASSUME Typed
    PROVE  /\ Seated \subseteq Id /\ philosopherCount \in Nat
           /\ philosopherCount > 0 => Last \in Seated
BY MaxAssumption DEF Typed, Seated, Id, Last

\* Who is next to come is not seated.
LEMMA NextSeat ==
    ASSUME Typed, philosopherCount < MAX_PHILOSOPHERS
    PROVE  philosopherCount \in Id /\ philosopherCount \notin Seated
BY MaxAssumption DEF Typed, Id, Seated

\* A seated philosopher's step that leaves it present is no business of phylo's.
LEMMA MainUntouched ==
    ASSUME Typed, MainInv, NEW i \in Seated, NEW p, p # "absent", at[i] # "absent",
           at' = [at EXCEPT ![i] = p], philosopherCount' = philosopherCount, main' = main,
           philosopherCount < MAX_PHILOSOPHERS => fork'[philosopherCount] = fork[philosopherCount]
    PROVE  MainInv'
    <1>1. Seated' = Seated /\ Last' = Last /\ i \in Id
        BY SeatedAreIds DEF Seated, Last
    <1>2. at'[i] = p /\ \A j \in Id : j # i => at'[j] = at[j]
        BY <1>1 DEF Typed
    <1>3. \A j \in Seated : at'[j] = "absent" => at[j] = "absent"
        BY <1>2, SeatedAreIds
    <1>4. \A j \in Id \ Seated : at'[j] = at[j]
        BY <1>2
    <1>5. main \in {"newProcess", "register"} =>
              philosopherCount < MAX_PHILOSOPHERS /\ fork'[philosopherCount] = 0
        BY DEF MainInv
    <1>6. main = "register" => at'[philosopherCount] \in {"think", "lock"}
        BY <1>4, <1>5, NextSeat DEF MainInv
    <1>7. main \in Removing => philosopherCount > 0 /\ at'[Last] = "absent"
        BY <1>2, SeatedAreIds DEF MainInv
    <1>. QED
        BY <1>1, <1>3, <1>4, <1>5, <1>6, <1>7 DEF MainInv

\* Whoever is in a section has the table to itself: the others wait in semWait or are out.
LEMMA Alone ==
    ASSUME Typed, MainInv, MutexInv, NEW i \in Id, Inside(i)
    PROVE  /\ mutex.value = 0 /\ i \in Seated
           /\ \A j \in Id : j # i => at[j] \notin Section \ Asked
           /\ \A j \in Id : j # i /\ at[j] \in Section => IsQueued(j)
    <1>1. mutex.value = 0
        BY DEF Typed, MutexInv, Inside
    <1>2. i \in Seated
        BY DEF MainInv, Inside, Section, Asked, Serves, ServesSelf, ServesOther
    <1>3. \A j \in Id : j # i /\ at[j] \in Section => IsQueued(j)
        BY DEF MutexInv, Inside
    <1>4. \A j \in Id : IsQueued(j) => at[j] \in Asked
        BY DEF IsQueued, MutexInv
    <1>. QED
        BY <1>1, <1>2, <1>3, <1>4

\* Steps within a section, and steps outside of any, leave the mutex alone.
LEMMA MutexUntouched ==
    ASSUME Typed, MutexInv, NEW i \in Id, NEW p \in Place, ~IsQueued(i),
           at[i] \in Section <=> p \in Section,
           at' = [at EXCEPT ![i] = p], mutex' = mutex
    PROVE  MutexInv'
    <1>1. \A j \in Id : IsQueued(j)' <=> IsQueued(j)
        BY DEF IsQueued
    <1>2. \A j \in Id : Inside(j)' <=> Inside(j)
        BY <1>1 DEF Inside, Typed
    <1>3. \A k \in DOMAIN mutex.waiters : mutex.waiters[k] # i /\ mutex.waiters[k] \in Id
        BY DEF IsQueued, Typed
    <1>. QED
        BY <1>1, <1>2, <1>3 DEF MutexInv, Typed

----------------------------------------------------------------------------
\* The philosophers' steps

\* think and eat confirm the state a seated philosopher has already.
LEMMA SetStateOutside ==
    ASSUME TableInv, NEW i \in Id, SetState(i), at[i] \in {"think", "eat"}
    PROVE  TableInv' /\ \A j \in Seated : state'[j] = state[j]
    <1>. DEFINE p == IF at[i] = "think" THEN "lock" ELSE "relock"
    <1>1. at' = [at EXCEPT ![i] = p] /\ ~IsQueued(i) /\ p \in Place
        BY DEF SetState, Step, Place
    <1>2. at[i] \notin Section /\ p \notin Section
        BY DEF Section, Asked, Serves, ServesSelf, ServesOther
    <1>3. /\ philosopherCount' = philosopherCount /\ main' = main /\ fork' = fork
          /\ mutex' = mutex /\ target' = target
          /\ state' = [state EXCEPT ![i] = IF at[i] = "think" THEN THINKING ELSE EATING]
        BY DEF SetState, Step
    <1>4. Seated' = Seated /\ Last' = Last /\ Seated \subseteq Id
        BY <1>3, SeatedAreIds DEF Seated, Last, TableInv
    <1>5. \A j \in Seated : state'[j] = state[j]
        BY <1>3, <1>4 DEF TableInv, Typed, SeatInv, PlacesOf, THINKING, HUNGRY, EATING
    <1>6. Typed'
        BY <1>1, <1>3 DEF TableInv, Typed, THINKING, HUNGRY, EATING
    <1>7. MainInv'
        BY <1>1, <1>3, <1>4 DEF TableInv, Typed, MainInv
    <1>8. MutexInv'
        BY <1>1, <1>2, <1>3, MutexUntouched DEF TableInv
    <1>9. SeatInv'
        BY <1>1, <1>3, <1>4, <1>5
           DEF TableInv, Typed, SeatInv, Eats, PlacesOf, THINKING, HUNGRY, EATING
    <1>10. \A j \in Seated : j # i => at'[j] = at[j]
        BY <1>1, <1>4 DEF TableInv, Typed
    <1>11. at'[i] = p
        BY <1>1 DEF TableInv, Typed
    <1>12. ServeInv'
        BY <1>3, <1>4, <1>5, <1>10, <1>11
           DEF TableInv, ServeInv, Eats, Serves, ServesSelf, ServesOther
    <1>13. OwedInv'
        BY <1>3, <1>4, <1>5, <1>10, <1>11
           DEF TableInv, OwedInv, Eats, Serves, ServesSelf, ServesOther
    <1>. QED
        BY <1>5, <1>6, <1>7, <1>8, <1>9, <1>12, <1>13 DEF TableInv

\* The writes inside a section: to HUNGRY from THINKING, to THINKING from EATING.
LEMMA SetStateInside ==
    ASSUME TableInv, NEW i \in Id, SetState(i), at[i] \notin {"think", "eat"}
    PROVE  /\ TableInv' /\ Inside(i) /\ i \in Seated
           /\ \/ at[i] = "locked" /\ state[i] = THINKING /\ state' = [state EXCEPT ![i] = HUNGRY]
                 /\ at' = [at EXCEPT ![i] = "showHungry"]
              \/ at[i] = "relocked" /\ state' = [state EXCEPT ![i] = THINKING]
                 /\ at' = [at EXCEPT ![i] = "showThinking"]
    <1>. DEFINE p == IF at[i] = "locked" THEN "showHungry" ELSE "showThinking"
                s == IF at[i] = "locked" THEN HUNGRY ELSE THINKING
    <1>1. /\ at' = [at EXCEPT ![i] = p] /\ ~IsQueued(i) /\ p \in Place
          /\ at[i] \in Asked /\ state' = [state EXCEPT ![i] = s]
        BY DEF SetState, Step, Place, Section, Asked
    <1>2. at[i] \in Section /\ p \in Section /\ Inside(i)
        BY <1>1 DEF Section, Inside
    <1>3. /\ philosopherCount' = philosopherCount /\ main' = main /\ fork' = fork
          /\ mutex' = mutex /\ target' = target
        BY DEF SetState
    <1>4. Seated' = Seated /\ Last' = Last /\ Seated \subseteq Id /\ i \in Seated
        BY <1>2, <1>3, SeatedAreIds, Alone DEF Seated, Last, TableInv
    <1>5. \A j \in Id : j # i => /\ at'[j] = at[j] /\ state'[j] = state[j]
                                 /\ at[j] \notin Section \ Asked
        BY <1>1, <1>2, Alone DEF TableInv, Typed
    <1>6. at'[i] = p /\ state'[i] = s
        BY <1>1 DEF TableInv, Typed
    <1>7. Typed'
        BY <1>1, <1>3 DEF TableInv, Typed
    <1>8. MainInv'
        <2>1. p # "absent" /\ at[i] # "absent"
            BY <1>1 DEF Asked
        <2>. QED
            BY <1>1, <1>3, <1>4, <2>1, MainUntouched DEF TableInv
    <1>9. MutexInv'
        BY <1>1, <1>2, <1>3, MutexUntouched DEF TableInv
    <1>10. fork[i] = 0 /\ (at[i] = "locked" => state[i] = THINKING)
        BY <1>1, <1>4 DEF TableInv, Typed, SeatInv, Asked, PlacesOf, THINKING, HUNGRY, EATING
    <1>11. SeatInv'
        BY <1>1, <1>3, <1>4, <1>5, <1>6, <1>10
           DEF TableInv, SeatInv, Eats, PlacesOf, THINKING, HUNGRY, EATING
    <1>12. \A j \in Seated : at'[j] \notin Serves \cup {"test1", "test2"}
        BY <1>4, <1>5, <1>6 DEF Section, Asked, Serves, ServesSelf, ServesOther
    <1>13. ServeInv'
        BY <1>4, <1>12 DEF ServeInv, Serves
    <1>14. \A j \in Seated : at[j] \notin Serves
        BY <1>1, <1>4, <1>5 DEF Section, Asked, Serves, ServesSelf, ServesOther
    <1>15. OwedInv'
        BY <1>3, <1>4, <1>5, <1>6, <1>14 DEF TableInv, OwedInv, Eats
    <1>. QED
        BY <1>1, <1>2, <1>4, <1>7, <1>8, <1>9, <1>10, <1>11, <1>13, <1>15 DEF TableInv, Asked

\* semWait(mutexName) and semPost(mutexName): who asks is queued or alone in the section, who
\* leaves hands it to the head of the queue.
LEMMA WaitMutexKeeps ==
    ASSUME TableInv, NEW i \in Id, WaitMutex(i), i \in Seated
    PROVE  TableInv' /\ at[i] \in {"lock", "relock"} /\ at'[i] \in Asked
    <1>. DEFINE p == IF at[i] = "lock" THEN "locked" ELSE "relocked"
    <1>1. /\ at' = [at EXCEPT ![i] = p] /\ ~IsQueued(i) /\ p \in Asked
          /\ at[i] \in {"lock", "relock"}
        BY DEF WaitMutex, Step, Asked
    <1>2. at[i] \notin Section /\ p \in Section /\ p \in Place
        BY <1>1 DEF Section, Asked, Serves, ServesSelf, ServesOther, Place
    <1>3. /\ philosopherCount' = philosopherCount /\ main' = main /\ fork' = fork
          /\ state' = state /\ target' = target
        BY DEF WaitMutex, table
    <1>4. Seated' = Seated /\ Last' = Last /\ Seated \subseteq Id
        BY <1>3, SeatedAreIds DEF Seated, Last, TableInv
    <1>5. at'[i] = p /\ \A j \in Id : j # i => at'[j] = at[j]
        BY <1>1 DEF TableInv, Typed
    <1>6. ASSUME mutex.value > 0 PROVE MutexInv'
        <2>1. mutex' = [mutex EXCEPT !.value = 0] /\ mutex.value = 1
            BY <1>6 DEF WaitMutex, TableInv, Typed
        <2>2. mutex.waiters = <<>> /\ \A j \in Id : at[j] \notin Section
            BY <2>1 DEF TableInv, MutexInv
        <2>3. /\ mutex'.waiters = <<>> /\ mutex'.value = 0
              /\ mutex' \in [value : {0, 1}, waiters : Seq(Id)]
            BY <2>1, <2>2 DEF TableInv, Typed
        <2>4. \A j, l \in Id : Inside(j)' /\ Inside(l)' => j = l
            BY <1>5, <2>2 DEF Inside
        <2>. QED
            BY <2>3, <2>4 DEF MutexInv
    <1>7. ASSUME ~(mutex.value > 0) PROVE MutexInv'
        <2>1. mutex' = [mutex EXCEPT !.waiters = Append(@, i)] /\ mutex.value = 0
            BY <1>7 DEF WaitMutex, TableInv, Typed
        <2>2. /\ mutex'.value = 0 /\ mutex'.waiters = Append(mutex.waiters, i)
              /\ mutex.waiters \in Seq(Id)
              /\ mutex' \in [value : {0, 1}, waiters : Seq(Id)]
            <3>1. mutex.waiters \in Seq(Id) /\ Append(mutex.waiters, i) \in Seq(Id)
                BY DEF TableInv, Typed
            <3>. QED
                BY <2>1, <3>1, MutexRecord DEF TableInv
        <2>3. /\ DOMAIN mutex'.waiters = 1 .. Len(mutex.waiters) + 1
              /\ DOMAIN mutex.waiters = 1 .. Len(mutex.waiters)
              /\ \A k \in DOMAIN mutex.waiters : mutex'.waiters[k] = mutex.waiters[k]
              /\ mutex'.waiters[Len(mutex.waiters) + 1] = i
              /\ Len(mutex.waiters) \in Nat
            BY <2>2
        <2>4. \A k \in DOMAIN mutex.waiters : mutex.waiters[k] # i /\ mutex.waiters[k] \in Id
            BY <1>1, <2>2 DEF IsQueued
        <2>5. IsQueued(i)' /\ \A j \in Id : j # i => (IsQueued(j)' <=> IsQueued(j))
            BY <2>3 DEF IsQueued
        <2>6. \A j, l \in Id : Inside(j)' /\ Inside(l)' => j = l
            <3>1. \A j \in Id : Inside(j)' => Inside(j)
                BY <1>5, <2>5 DEF Inside
            <3>. QED
                BY <3>1 DEF TableInv, MutexInv
        <2>7. \A k \in DOMAIN mutex'.waiters : at'[mutex'.waiters[k]] \in Asked
            BY <1>1, <1>5, <2>3, <2>4 DEF TableInv, MutexInv
        <2>8. \A k, l \in DOMAIN mutex'.waiters : mutex'.waiters[k] = mutex'.waiters[l] => k = l
            BY SMTT(40), <2>3, <2>4 DEF TableInv, MutexInv
        <2>. QED
            BY <2>2, <2>6, <2>7, <2>8 DEF TableInv, MutexInv
    <1>8. Typed'
        <2>1. mutex.waiters \in Seq(Id) /\ Append(mutex.waiters, i) \in Seq(Id)
            BY DEF TableInv, Typed
        <2>2. mutex.value > 0 => mutex.value - 1 = 0
            BY DEF TableInv, Typed
        <2>3. mutex' \in [value : {0, 1}, waiters : Seq(Id)]
            BY <2>1, <2>2, MutexRecord DEF WaitMutex, TableInv
        <2>. QED
            BY <1>1, <1>2, <1>3, <2>3 DEF TableInv, Typed
    <1>9. MainInv'
        <2>1. p # "absent" /\ at[i] # "absent"
            BY <1>1 DEF Asked
        <2>. QED
            BY <1>1, <1>3, <1>4, <2>1, MainUntouched DEF TableInv
    <1>10. SeatInv'
        BY <1>1, <1>3, <1>4, <1>5
           DEF TableInv, SeatInv, Eats, PlacesOf, THINKING, HUNGRY, EATING
    <1>11. ServeInv'
        BY <1>1, <1>3, <1>4, <1>5
           DEF TableInv, ServeInv, Eats, Serves, ServesSelf, ServesOther
    <1>12. OwedInv'
        BY <1>1, <1>3, <1>4, <1>5
           DEF TableInv, OwedInv, Eats, Serves, ServesSelf, ServesOther
    <1>. QED
        BY <1>1, <1>5, <1>6, <1>7, <1>8, <1>9, <1>10, <1>11, <1>12 DEF TableInv

\* semPost(mutexName): who leaves hands the section to the head of the queue.
LEMMA PostMutexKeeps ==
    ASSUME TableInv, NEW i \in Id, PostMutex(i)
    PROVE  /\ TableInv' /\ Inside(i) /\ i \in Seated /\ at[i] \in {"unlock", "release"}
           /\ at'[i] = IF at[i] = "unlock" THEN "waitFork" ELSE "think"
    <1>. DEFINE p == IF at[i] = "unlock" THEN "waitFork" ELSE "think"
    <1>1. /\ at' = [at EXCEPT ![i] = p] /\ ~IsQueued(i) /\ p \in Place
          /\ at[i] \in {"unlock", "release"}
        BY DEF PostMutex, Step, Place
    <1>2. at[i] \in Section /\ p \notin Section /\ Inside(i)
        BY <1>1 DEF Section, Asked, Serves, ServesSelf, ServesOther, Inside
    <1>3. /\ philosopherCount' = philosopherCount /\ main' = main /\ fork' = fork
          /\ state' = state /\ target' = target
        BY DEF PostMutex, table
    <1>4. Seated' = Seated /\ Last' = Last /\ Seated \subseteq Id /\ i \in Seated
        BY <1>2, <1>3, SeatedAreIds, Alone DEF Seated, Last, TableInv
    <1>5. at'[i] = p /\ \A j \in Id : j # i => at'[j] = at[j]
        BY <1>1 DEF TableInv, Typed
    <1>6. /\ mutex.value = 0 /\ \A j \in Id : j # i => at[j] \notin Section \ Asked
          /\ \A j \in Id : j # i /\ at[j] \in Section => IsQueued(j)
        BY <1>2, Alone DEF TableInv
    <1>7. MutexInv' /\ mutex' \in [value : {0, 1}, waiters : Seq(Id)]
        <2>1. CASE mutex.waiters = <<>>
            <3>1. mutex' = [mutex EXCEPT !.value = 1]
                BY <1>6, <2>1 DEF PostMutex
            <3>2. /\ mutex'.waiters = <<>> /\ mutex' \in [value : {0, 1}, waiters : Seq(Id)]
                BY <2>1, <3>1 DEF TableInv, Typed
            <3>3. \A j \in Id : at'[j] \notin Section
                BY <1>2, <1>5, <1>6, <2>1 DEF IsQueued
            <3>. QED
                BY <3>2, <3>3 DEF MutexInv, Inside
        <2>2. CASE mutex.waiters # <<>>
            <3>1. mutex' = [mutex EXCEPT !.waiters = Tail(@)]
                BY <2>2 DEF PostMutex
            <3>2. /\ mutex'.value = 0 /\ mutex'.waiters = Tail(mutex.waiters)
                  /\ mutex.waiters \in Seq(Id)
                  /\ mutex' \in [value : {0, 1}, waiters : Seq(Id)]
                <4>1. mutex.waiters \in Seq(Id) /\ Tail(mutex.waiters) \in Seq(Id)
                    BY <2>2 DEF TableInv, Typed
                <4>. QED
                    BY <1>6, <3>1, <4>1, MutexRecord DEF TableInv
            <3>3. /\ DOMAIN mutex'.waiters = 1 .. Len(mutex.waiters) - 1
                  /\ DOMAIN mutex.waiters = 1 .. Len(mutex.waiters)
                  /\ Len(mutex.waiters) \in Nat \ {0}
                  /\ \A k \in DOMAIN mutex'.waiters : mutex'.waiters[k] = mutex.waiters[k + 1]
                BY <2>2, <3>2
            <3>4. \A j \in Id : IsQueued(j) /\ j # mutex.waiters[1] => IsQueued(j)'
                <4>. SUFFICES ASSUME NEW j \in Id, IsQueued(j), j # mutex.waiters[1]
                              PROVE  IsQueued(j)'
                    OBVIOUS
                <4>1. PICK k \in DOMAIN mutex.waiters : mutex.waiters[k] = j
                    BY DEF IsQueued
                <4>2. k - 1 \in DOMAIN mutex'.waiters /\ mutex'.waiters[k - 1] = j
                    BY <3>3, <4>1
                <4>. QED
                    BY <4>2 DEF IsQueued
            <3>5. \A j \in Id : Inside(j)' => j = mutex.waiters[1]
                BY <1>2, <1>5, <1>6, <3>4 DEF Inside
            <3>6. \A k \in DOMAIN mutex'.waiters : at'[mutex'.waiters[k]] \in Asked
                <4>1. \A k \in DOMAIN mutex.waiters :
                          mutex.waiters[k] # i /\ mutex.waiters[k] \in Id
                    BY <1>1, <3>2 DEF IsQueued
                <4>2. \A k \in DOMAIN mutex'.waiters : k + 1 \in DOMAIN mutex.waiters
                    BY <3>3
                <4>. QED
                    BY <1>5, <3>3, <4>1, <4>2 DEF TableInv, MutexInv
            <3>7. \A k, l \in DOMAIN mutex'.waiters : mutex'.waiters[k] = mutex'.waiters[l] => k = l
                <4>. SUFFICES ASSUME NEW k \in DOMAIN mutex'.waiters,
                                     NEW l \in DOMAIN mutex'.waiters,
                                     mutex'.waiters[k] = mutex'.waiters[l]
                              PROVE  k = l
                    OBVIOUS
                <4>1. mutex.waiters[k + 1] = mutex.waiters[l + 1]
                    BY <3>3
                <4>2. k + 1 \in DOMAIN mutex.waiters /\ l + 1 \in DOMAIN mutex.waiters
                    BY <3>3
                <4>3. k + 1 = l + 1
                    BY <4>1, <4>2 DEF TableInv, MutexInv
                <4>. QED
                    BY <3>3, <4>3
            <3>. QED
                BY <3>2, <3>5, <3>6, <3>7 DEF MutexInv
        <2>. QED
            BY <2>1, <2>2
    <1>8. Typed'
        BY <1>1, <1>3, <1>7 DEF TableInv, Typed
    <1>9. MainInv'
        <2>1. p # "absent" /\ at[i] # "absent"
            BY <1>1
        <2>. QED
            BY <1>1, <1>3, <1>4, <2>1, MainUntouched DEF TableInv
    <1>10. SeatInv'
        BY <1>1, <1>3, <1>4, <1>5
           DEF TableInv, SeatInv, Eats, PlacesOf, THINKING, HUNGRY, EATING
    <1>11. \A j \in Seated : at'[j] \notin Serves \cup {"test1", "test2"}
        BY <1>1, <1>4, <1>5, <1>6 DEF Section, Asked, Serves, ServesSelf, ServesOther
    <1>12. ServeInv'
        BY <1>4, <1>11 DEF ServeInv, Serves
    <1>13. \A j \in Seated : at[j] \notin Serves
        BY <1>1, <1>4, <1>6 DEF Section, Asked, Serves, ServesSelf, ServesOther
    <1>14. OwedInv'
        BY <1>1, <1>3, <1>4, <1>5, <1>13
           DEF TableInv, OwedInv, SeatInv, Eats, PlacesOf, THINKING, HUNGRY, EATING
    <1>. QED
        BY <1>1, <1>2, <1>4, <1>5, <1>7, <1>8, <1>9, <1>10, <1>12, <1>14 DEF TableInv

\* semWait(semNames[i]): the token it takes is for a meal.
LEMMA TakeForkKeeps ==
    ASSUME TableInv, NEW i \in Id, WaitFork(i)
    PROVE  TableInv' /\ i \in Seated /\ Eats(i) /\ at[i] = "waitFork" /\ at'[i] = "eat"
    <1>1. at' = [at EXCEPT ![i] = "eat"] /\ ~IsQueued(i) /\ at[i] = "waitFork" /\ fork[i] = 1
        BY DEF WaitFork, Step, TableInv, Typed
    <1>2. "waitFork" \notin Section /\ "eat" \notin Section /\ "eat" \in Place
        BY DEF Section, Asked, Serves, ServesSelf, ServesOther, Place
    <1>3. /\ philosopherCount' = philosopherCount /\ main' = main /\ state' = state
          /\ mutex' = mutex /\ target' = target /\ fork' = [fork EXCEPT ![i] = 0]
        BY <1>1 DEF WaitFork, table
    <1>4. Seated' = Seated /\ Last' = Last /\ Seated \subseteq Id /\ i \in Seated
        BY <1>1, <1>3, SeatedAreIds DEF Seated, Last, TableInv, MainInv
    <1>5. /\ at'[i] = "eat" /\ \A j \in Id : j # i => at'[j] = at[j]
          /\ fork'[i] = 0 /\ \A j \in Id : j # i => fork'[j] = fork[j]
        BY <1>1, <1>3 DEF TableInv, Typed
    <1>6. Eats(i)
        BY <1>1, <1>4 DEF TableInv, SeatInv
    <1>7. Typed'
        BY <1>1, <1>2, <1>3 DEF TableInv, Typed
    <1>8. MainInv'
        <2>1. at[i] # "absent"
            BY <1>1
        <2>2. philosopherCount < MAX_PHILOSOPHERS =>
                  fork'[philosopherCount] = fork[philosopherCount]
            BY <1>4, <1>5, NextSeat DEF TableInv
        <2>. QED
            BY <1>1, <1>3, <1>4, <2>1, <2>2, MainUntouched DEF TableInv
    <1>9. MutexInv'
        BY <1>1, <1>2, <1>3, MutexUntouched DEF TableInv
    <1>10. SeatInv'
        BY <1>3, <1>4, <1>5, <1>6
           DEF TableInv, SeatInv, Eats, PlacesOf, THINKING, HUNGRY, EATING
    <1>11. ServeInv'
        BY <1>1, <1>3, <1>4, <1>5
           DEF TableInv, ServeInv, Eats, Serves, ServesSelf, ServesOther
    <1>12. OwedInv'
        BY <1>3, <1>4, <1>5, <1>1
           DEF TableInv, OwedInv, Eats, Serves, ServesSelf, ServesOther
    <1>. QED
        BY <1>1, <1>4, <1>5, <1>6, <1>7, <1>8, <1>9, <1>10, <1>11, <1>12 DEF TableInv

\* The lines the philosophers print: another place in the section, another target.
LEMMA ShowKeeps ==
    ASSUME TableInv, NEW i \in Id, Show(i)
    PROVE  /\ TableInv' /\ i \in Seated /\ Inside(i)
           /\ \/ at[i] = "showHungry" /\ at' = [at EXCEPT ![i] = "test1"]
              \/ at[i] = "showThinking" /\ at' = [at EXCEPT ![i] = "test2"]
                 /\ target'[i] = left(i)
              \/ at[i] \in DOMAIN PostAfter /\ at' = [at EXCEPT ![i] = PostAfter[at[i]]]
                 /\ target' = target
           /\ \A j \in Id : j # i => target'[j] = target[j]
    <1>. DEFINE p == IF at[i] = "showHungry" THEN "test1"
                     ELSE IF at[i] = "showThinking" THEN "test2" ELSE PostAfter[at[i]]
    <1>1. /\ at' = [at EXCEPT ![i] = p] /\ ~IsQueued(i)
          /\ at[i] \in {"showHungry", "showThinking", "show1", "show2", "show3"}
        BY DEF Show, Step, PostAfter
    <1>2. at[i] \in Section /\ p \in Section /\ Inside(i) /\ p \in Place
        BY <1>1 DEF Section, Serves, ServesSelf, ServesOther, Inside, PostAfter, Place
    <1>3. /\ philosopherCount' = philosopherCount /\ main' = main /\ fork' = fork
          /\ mutex' = mutex /\ state' = state
        BY DEF Show
    <1>4. Seated' = Seated /\ Last' = Last /\ Seated \subseteq Id /\ i \in Seated
        BY <1>2, <1>3, SeatedAreIds, Alone DEF Seated, Last, TableInv
    <1>5. \A j \in Id : j # i => at'[j] = at[j] /\ at[j] \notin Section \ Asked
        BY <1>1, <1>2, Alone DEF TableInv, Typed
    <1>6. at'[i] = p
        BY <1>1 DEF TableInv, Typed
    <1>7. \/ at[i] = "showHungry" /\ target' = [target EXCEPT ![i] = i]
          \/ at[i] = "showThinking" /\ target' = [target EXCEPT ![i] = left(i)]
          \/ at[i] \in DOMAIN PostAfter /\ target' = target
        BY DEF Show, Step, PostAfter
    <1>8. left(i) \in Seated
        BY <1>4, Neighbours, SeatedAreIds DEF TableInv
    <1>9. Typed'
        BY <1>1, <1>2, <1>3, <1>4, <1>7, <1>8 DEF TableInv, Typed
    <1>10. /\ \A j \in Id : j # i => target'[j] = target[j]
           /\ at[i] = "showHungry" => target'[i] = i
           /\ at[i] = "showThinking" => target'[i] = left(i)
        BY <1>7 DEF TableInv, Typed, PostAfter
    <1>11. MainInv'
        <2>1. p # "absent" /\ at[i] # "absent"
            BY <1>1 DEF PostAfter
        <2>. QED
            BY <1>1, <1>3, <1>4, <2>1, MainUntouched DEF TableInv
    <1>12. MutexInv'
        BY <1>1, <1>2, <1>3, MutexUntouched DEF TableInv
    <1>13. SeatInv'
        BY <1>1, <1>3, <1>4, <1>5, <1>6
           DEF TableInv, SeatInv, Eats, PlacesOf, THINKING, HUNGRY, EATING, PostAfter
    <1>14. \A j \in Seated : j # i => at'[j] \notin Serves \cup {"test1", "test2"}
        BY <1>4, <1>5 DEF Section, Asked, Serves, ServesSelf, ServesOther
    <1>15. ServeInv'
        <2>1. CASE at[i] = "showHungry"
            BY <2>1, <1>4, <1>6, <1>10, <1>14
               DEF ServeInv, Serves, ServesSelf, ServesOther
        <2>2. CASE at[i] = "showThinking"
            BY <2>2, <1>4, <1>6, <1>8, <1>10, <1>14
               DEF ServeInv, Serves, ServesSelf, ServesOther
        <2>3. CASE at[i] \in {"show1", "show2", "show3"}
            BY <2>3, <1>3, <1>4, <1>5, <1>6, <1>7, <1>14
               DEF TableInv, ServeInv, Serves, ServesSelf, ServesOther, PostAfter, Eats
        <2>. QED
            BY <1>1, <2>1, <2>2, <2>3
    <1>16. OwedInv'
        <2>1. \A j \in Seated : at[j] \in Serves => at'[j] \in Serves /\ target'[j] = target[j]
            BY <1>1, <1>4, <1>5, <1>6, <1>7, <1>10
               DEF Section, Asked, Serves, ServesSelf, ServesOther, PostAfter
        <2>2. \A j \in Seated : at'[j] \in {"unlock", "waitFork"} => at[j] = at'[j]
            BY <1>1, <1>4, <1>5, <1>6 DEF PostAfter
        <2>. QED
            BY <1>3, <1>4, <2>1, <2>2 DEF TableInv, OwedInv, Eats
    <1>. QED
        BY <1>1, <1>2, <1>4, <1>7, <1>9, <1>10, <1>11, <1>12, <1>13, <1>15, <1>16
           DEF TableInv, PostAfter

\* Whom a test is about: its philosopher, or a neighbour outside of any section.
LEMMA TestedFacts ==
    ASSUME TableInv, NEW i \in Seated, Inside(i), at[i] \in {"test1", "test2", "test3"}
    PROVE  /\ Tested(i) \in Seated
           /\ at[i] = "test1" => Tested(i) = i
           /\ at[i] # "test1" /\ state[Tested(i)] = HUNGRY =>
                  Tested(i) # i /\ at[Tested(i)] \in {"waitFork", "absent"}
    <1>. DEFINE x == Tested(i)
    <1>1. x \in Seated
        <2>1. right(i) \in Seated
            BY Neighbours, SeatedAreIds DEF TableInv
        <2>. QED
            BY <2>1 DEF TableInv, ServeInv, Tested
    <1>2. at[i] = "test1" => x = i
        BY DEF TableInv, ServeInv, Tested
    <1>3. \A j \in Seated : j # i => at[j] \notin Section \ Asked
        BY Alone, SeatedAreIds DEF TableInv
    <1>4. ASSUME at[i] # "test1", state[x] = HUNGRY PROVE x # i /\ at[x] \in {"waitFork", "absent"}
        <2>1. at[x] \in {"absent", "showHungry", "test1", "unlock", "waitFork"}
            BY <1>1, <1>4 DEF TableInv, SeatInv, PlacesOf, THINKING, HUNGRY, EATING
        <2>2. x # i
            BY <1>4, <2>1
        <2>. QED
            BY <1>1, <1>3, <2>1, <2>2 DEF Section, Asked, Serves, ServesSelf, ServesOther
    <1>. QED
        BY <1>1, <1>2, <1>4

\* A test that finds somebody fit to eat, and one that does not.
LEMMA TestFindsKeeps ==
    ASSUME TableInv, NEW i \in Id, Test(i), MayEat(Tested(i))
    PROVE  /\ TableInv' /\ i \in Seated /\ Inside(i)
           /\ at[i] \in {"test1", "test2", "test3"} /\ at' = [at EXCEPT ![i] = ShowAfter[at[i]]]
           /\ Tested(i) \in Seated /\ state[Tested(i)] = HUNGRY
           /\ state' = [state EXCEPT ![Tested(i)] = EATING]
           /\ target' = [target EXCEPT ![i] = Tested(i)]
    <1>. DEFINE x == Tested(i)
                p == ShowAfter[at[i]]
    <1>1. /\ at' = [at EXCEPT ![i] = p] /\ ~IsQueued(i)
          /\ at[i] \in {"test1", "test2", "test3"}
          /\ state' = [state EXCEPT ![x] = EATING] /\ target' = [target EXCEPT ![i] = x]
        BY DEF Test, Step, AfterTest
    <1>2. /\ at[i] \in Section /\ p \in Section /\ Inside(i) /\ p \in Place
          /\ p = IF at[i] = "test1" THEN "show1" ELSE IF at[i] = "test2" THEN "show2" ELSE "show3"
        BY <1>1 DEF Section, Serves, ServesSelf, ServesOther, Inside, ShowAfter, Place
    <1>3. /\ philosopherCount' = philosopherCount /\ main' = main /\ fork' = fork
          /\ mutex' = mutex
        BY DEF Test
    <1>4. Seated' = Seated /\ Last' = Last /\ Seated \subseteq Id /\ i \in Seated
        BY <1>2, <1>3, SeatedAreIds, Alone DEF Seated, Last, TableInv
    <1>5. \A j \in Id : j # i => at'[j] = at[j] /\ at[j] \notin Section \ Asked
        BY <1>1, <1>2, Alone DEF TableInv, Typed
    <1>6. at'[i] = p
        BY <1>1 DEF TableInv, Typed
    <1>7. /\ x \in Seated /\ state[x] = HUNGRY
          /\ at[i] = "test1" => x = i
          /\ at[i] # "test1" => x # i /\ at[x] \in {"waitFork", "absent"}
        BY <1>1, <1>2, <1>4, TestedFacts DEF MayEat
    <1>8. Typed'
        BY <1>1, <1>2, <1>3, <1>4, <1>7 DEF TableInv, Typed
    <1>9. /\ target'[i] = x /\ \A j \in Id : j # i => target'[j] = target[j]
          /\ state'[x] = EATING /\ \A j \in Id : j # x => state'[j] = state[j]
        BY <1>1, <1>4, <1>7 DEF TableInv, Typed
    <1>10. MainInv'
        <2>1. p # "absent" /\ at[i] # "absent"
            BY <1>1, <1>2
        <2>. QED
            BY <1>1, <1>3, <1>4, <2>1, MainUntouched DEF TableInv
    <1>11. MutexInv'
        BY <1>1, <1>2, <1>3, MutexUntouched DEF TableInv
    <1>12. fork[x] # 1
        BY <1>7 DEF TableInv, SeatInv, Eats, HUNGRY, EATING
    <1>13. SeatInv'
        <2>. SUFFICES ASSUME NEW j \in Seated
                      PROVE  /\ at'[j] \in PlacesOf(state'[j])
                             /\ fork'[j] = 1 =>
                                    Eats(j)' /\ at'[j] \in {"unlock", "waitFork", "absent"}
                             /\ fork'[j] = -1 => at'[j] = "absent"
            BY <1>4 DEF SeatInv
        <2>1. CASE j = x
            BY <2>1, <1>1, <1>2, <1>3, <1>4, <1>5, <1>6, <1>7, <1>9, <1>12
               DEF TableInv, SeatInv, Eats, PlacesOf, THINKING, HUNGRY, EATING
        <2>2. CASE j # x /\ j = i
            <3>1. at[i] # "test1" /\ state'[i] = state[i] /\ state[i] = THINKING
                BY <2>2, <1>1, <1>4, <1>7, <1>9
                   DEF TableInv, Typed, SeatInv, PlacesOf, THINKING, HUNGRY, EATING
            <3>2. fork[i] = 0
                BY <1>1, <1>4, <3>1 DEF TableInv, Typed, SeatInv, Eats, THINKING, EATING
            <3>. QED
                BY <2>2, <1>1, <1>2, <1>3, <1>6, <3>1, <3>2 DEF PlacesOf, Eats
        <2>3. CASE j # x /\ j # i
            BY <2>3, <1>3, <1>4, <1>5, <1>9 DEF TableInv, SeatInv, Eats
        <2>. QED
            BY <2>1, <2>2, <2>3
    <1>14. \A j \in Seated : j # i => at'[j] \notin Serves \cup {"test1", "test2"}
        BY <1>4, <1>5 DEF Section, Asked, Serves, ServesSelf, ServesOther
    <1>15. ServeInv'
        BY <1>1, <1>2, <1>3, <1>4, <1>5, <1>6, <1>7, <1>9, <1>12, <1>14
           DEF ServeInv, Eats, Serves, ServesSelf, ServesOther
    <1>16. OwedInv'
        <2>1. \A j \in Seated : at[j] \notin Serves
            BY <1>1, <1>4, <1>5 DEF Section, Asked, Serves, ServesSelf, ServesOther
        <2>2. at'[i] \in Serves /\ at'[i] \notin {"unlock", "waitFork"}
            BY <1>1, <1>2, <1>6 DEF Serves, ServesSelf, ServesOther
        <2>3. ASSUME NEW j \in Seated, Eats(j)', at'[j] \in {"unlock", "waitFork"}
              PROVE  fork'[j] = 1 \/ \E k \in Seated : at'[k] \in Serves /\ target'[k] = j
            <3>1. CASE j = x
                BY <3>1, <2>2, <1>4, <1>9
            <3>2. CASE j # x
                BY <3>2, <2>1, <2>2, <2>3, <1>3, <1>4, <1>5, <1>9 DEF TableInv, OwedInv, Eats
            <3>. QED
                BY <3>1, <3>2
        <2>. QED
            BY <1>4, <2>3 DEF OwedInv
    <1>. QED
        BY <1>1, <1>2, <1>4, <1>7, <1>8, <1>10, <1>11, <1>13, <1>15, <1>16 DEF TableInv

\* A test that finds its philosopher thinking, or a neighbour eating.
LEMMA TestFailsKeeps ==
    ASSUME TableInv, NEW i \in Id, Test(i), ~MayEat(Tested(i))
    PROVE  /\ TableInv' /\ i \in Seated /\ Inside(i)
           /\ at[i] \in {"test1", "test2", "test3"} /\ at' = [at EXCEPT ![i] = AfterTest[at[i]]]
           /\ state' = state /\ target' = [target EXCEPT ![i] = i]
    <1>. DEFINE p == AfterTest[at[i]]
    <1>1. /\ at' = [at EXCEPT ![i] = p] /\ ~IsQueued(i)
          /\ at[i] \in {"test1", "test2", "test3"}
          /\ state' = state /\ target' = [target EXCEPT ![i] = i]
        BY DEF Test, Step, AfterTest
    <1>2. /\ at[i] \in Section /\ p \in Section /\ Inside(i) /\ p \in Place
          /\ p = IF at[i] = "test1" THEN "unlock"
                 ELSE IF at[i] = "test2" THEN "test3" ELSE "release"
        BY <1>1 DEF Section, Serves, ServesSelf, ServesOther, Inside, AfterTest, Place
    <1>3. /\ philosopherCount' = philosopherCount /\ main' = main /\ fork' = fork
          /\ mutex' = mutex
        BY DEF Test
    <1>4. Seated' = Seated /\ Last' = Last /\ Seated \subseteq Id /\ i \in Seated
        BY <1>2, <1>3, SeatedAreIds, Alone DEF Seated, Last, TableInv
    <1>5. \A j \in Id : j # i => at'[j] = at[j] /\ at[j] \notin Section \ Asked
        BY <1>1, <1>2, Alone DEF TableInv, Typed
    <1>6. at'[i] = p
        BY <1>1 DEF TableInv, Typed
    <1>7. Typed'
        BY <1>1, <1>2, <1>3, <1>4 DEF TableInv, Typed
    <1>8. MainInv'
        <2>1. p # "absent" /\ at[i] # "absent"
            BY <1>1, <1>2
        <2>. QED
            BY <1>1, <1>3, <1>4, <2>1, MainUntouched DEF TableInv
    <1>9. MutexInv'
        BY <1>1, <1>2, <1>3, MutexUntouched DEF TableInv
    <1>10. SeatInv'
        BY <1>1, <1>2, <1>3, <1>4, <1>5, <1>6
           DEF TableInv, SeatInv, Eats, PlacesOf, THINKING, HUNGRY, EATING
    <1>11. \A j \in Seated : at'[j] \notin Serves \cup {"test1", "test2"}
        BY <1>1, <1>2, <1>4, <1>5, <1>6 DEF Section, Asked, Serves, ServesSelf, ServesOther
    <1>12. ServeInv'
        BY <1>4, <1>11 DEF ServeInv, Serves
    <1>13. OwedInv'
        <2>1. \A j \in Seated : at[j] \notin Serves
            BY <1>1, <1>4, <1>5 DEF Section, Asked, Serves, ServesSelf, ServesOther
        <2>2. at[i] = "test1" => ~Eats(i)
            BY <1>4 DEF TableInv, SeatInv, PlacesOf, Eats, THINKING, HUNGRY, EATING
        <2>. QED
            BY <1>1, <1>2, <1>3, <1>4, <1>5, <1>6, <2>1, <2>2 DEF TableInv, OwedInv, Eats
    <1>. QED
        BY <1>1, <1>2, <1>4, <1>7, <1>8, <1>9, <1>10, <1>12, <1>13 DEF TableInv

\* semPost(semNames[target]): what was found becomes a token.
LEMMA PostForkKeeps ==
    ASSUME TableInv, NEW i \in Id, PostFork(i)
    PROVE  /\ TableInv' /\ i \in Seated /\ Inside(i)
           /\ at[i] \in {"post1", "post2", "post3"} /\ at' = [at EXCEPT ![i] = AfterPost[at[i]]]
    <1>. DEFINE x == target[i]
                p == AfterPost[at[i]]
    <1>1. /\ at' = [at EXCEPT ![i] = p] /\ ~IsQueued(i)
          /\ at[i] \in {"post1", "post2", "post3"}
          /\ target' = [target EXCEPT ![i] = i]
        BY DEF PostFork, Step, AfterPost
    <1>2. /\ at[i] \in Section /\ p \in Section /\ Inside(i) /\ p \in Place /\ at[i] \in Serves
          /\ p = IF at[i] = "post1" THEN "unlock"
                 ELSE IF at[i] = "post2" THEN "test3" ELSE "release"
        BY <1>1 DEF Section, Serves, ServesSelf, ServesOther, Inside, AfterPost, Place
    <1>3. /\ philosopherCount' = philosopherCount /\ main' = main /\ state' = state
          /\ mutex' = mutex
        BY DEF PostFork, table
    <1>4. Seated' = Seated /\ Last' = Last /\ Seated \subseteq Id /\ i \in Seated
        BY <1>2, <1>3, SeatedAreIds, Alone DEF Seated, Last, TableInv
    <1>5. \A j \in Id : j # i => at'[j] = at[j] /\ at[j] \notin Section \ Asked
        BY <1>1, <1>2, Alone DEF TableInv, Typed
    <1>6. at'[i] = p
        BY <1>1 DEF TableInv, Typed
    <1>7. /\ x \in Seated /\ Eats(x) /\ fork[x] \in {-1, 0}
          /\ at[i] = "post1" => x = i
          /\ at[i] # "post1" => at[x] \in {"waitFork", "absent"}
        BY <1>1, <1>2, <1>4 DEF TableInv, Typed, ServeInv, ServesSelf, ServesOther
    <1>8. /\ fork[x] = -1 => fork' = fork
          /\ fork[x] = 0 => fork' = [fork EXCEPT ![x] = fork[x] + 1]
        BY <1>7 DEF PostFork
    <1>9. /\ \A j \in Id : j # x => fork'[j] = fork[j]
          /\ fork'[x] = IF fork[x] = 0 THEN 1 ELSE -1
          /\ fork' \in [Id -> {-1, 0, 1}]
        BY <1>4, <1>7, <1>8 DEF TableInv, Typed
    <1>10. Typed'
        BY <1>1, <1>2, <1>3, <1>4, <1>9 DEF TableInv, Typed
    <1>11. MainInv'
        <2>1. at[i] # "absent" /\ p # "absent"
            BY <1>1, <1>2
        <2>2. philosopherCount < MAX_PHILOSOPHERS =>
                  fork'[philosopherCount] = fork[philosopherCount]
            BY <1>4, <1>7, <1>9, NextSeat DEF TableInv
        <2>. QED
            BY <1>1, <1>3, <1>4, <2>1, <2>2, MainUntouched DEF TableInv
    <1>12. MutexInv'
        BY <1>1, <1>2, <1>3, MutexUntouched DEF TableInv
    <1>13. SeatInv'
        <2>. SUFFICES ASSUME NEW j \in Seated
                      PROVE  /\ at'[j] \in PlacesOf(state[j])
                             /\ fork'[j] = 1 =>
                                    Eats(j) /\ at'[j] \in {"unlock", "waitFork", "absent"}
                             /\ fork'[j] = -1 => at'[j] = "absent"
            BY <1>3, <1>4 DEF SeatInv, Eats
        <2>1. at'[j] \in PlacesOf(state[j])
            BY <1>1, <1>2, <1>4, <1>5, <1>6
               DEF TableInv, SeatInv, PlacesOf, THINKING, HUNGRY, EATING
        <2>2. fork'[j] = 1 => Eats(j) /\ at'[j] \in {"unlock", "waitFork", "absent"}
            BY <1>1, <1>2, <1>4, <1>5, <1>6, <1>7, <1>9 DEF TableInv, SeatInv
        <2>3. fork'[j] = -1 => at'[j] = "absent"
            BY <1>1, <1>2, <1>4, <1>5, <1>6, <1>7, <1>9 DEF TableInv, SeatInv
        <2>. QED
            BY <2>1, <2>2, <2>3
    <1>14. \A j \in Seated : at'[j] \notin Serves \cup {"test1", "test2"}
        BY <1>1, <1>2, <1>4, <1>5, <1>6 DEF Section, Asked, Serves, ServesSelf, ServesOther
    <1>15. ServeInv'
        BY <1>4, <1>14 DEF ServeInv, Serves
    <1>16. OwedInv'
        <2>. SUFFICES ASSUME NEW j \in Seated, Eats(j), at'[j] \in {"unlock", "waitFork"}
                      PROVE  fork'[j] = 1
            BY <1>3, <1>4 DEF OwedInv, Eats
        <2>1. CASE j = x
            <3>1. at'[x] # "absent" => fork[x] # -1
                BY <1>1, <1>2, <1>4, <1>5, <1>6, <1>7 DEF TableInv, SeatInv
            <3>. QED
                BY <2>1, <1>7, <1>9, <3>1
        <2>2. CASE j # x
            <3>1. \A k \in Seated : at[k] \in Serves => k = i
                BY <1>4, <1>5 DEF Section, Asked, Serves, ServesSelf, ServesOther
            <3>2. j # i
                <4>1. at[i] # "post1" => p \notin {"unlock", "waitFork"}
                    BY <1>1, <1>2
                <4>. QED
                    BY <2>2, <1>6, <1>7, <4>1
            <3>3. fork[j] = 1
                BY <2>2, <1>4, <1>5, <3>1, <3>2 DEF TableInv, OwedInv
            <3>. QED
                BY <2>2, <1>4, <1>9, <3>3
        <2>. QED
            BY <2>1, <2>2
    <1>. QED
        BY <1>1, <1>2, <1>4, <1>10, <1>11, <1>12, <1>13, <1>15, <1>16 DEF TableInv

----------------------------------------------------------------------------
\* The steps of phylo

\* semOpen of the newcomer's fork.
LEMMA OpenForkKeeps ==
    ASSUME TableInv, OpenFork
    PROVE  TableInv'
    <1>. DEFINE n == philosopherCount
    <1>1. /\ philosopherCount' = n /\ state' = state /\ at' = at /\ target' = target
          /\ mutex' = mutex /\ fork' = [fork EXCEPT ![n] = 0]
          /\ main = "getchar" /\ main' = "newProcess" /\ n < MAX_PHILOSOPHERS
        BY DEF OpenFork, MainMoves, table
    <1>2. Seated' = Seated /\ Last' = Last /\ Seated \subseteq Id
        BY <1>1, SeatedAreIds DEF Seated, Last, TableInv
    <1>3. n \in Id /\ n \notin Seated
        BY <1>1, NextSeat DEF TableInv
    <1>4. fork'[n] = 0 /\ \A j \in Seated : fork'[j] = fork[j]
        BY <1>1, <1>2, <1>3 DEF TableInv, Typed
    <1>5. Typed'
        BY <1>1 DEF TableInv, Typed
    <1>6. MainInv'
        BY <1>1, <1>2, <1>4 DEF TableInv, MainInv, Removing
    <1>7. MutexInv'
        BY <1>1 DEF TableInv, MutexInv, Inside, IsQueued
    <1>8. SeatInv' /\ ServeInv' /\ OwedInv'
        BY <1>1, <1>2, <1>4 DEF TableInv, SeatInv, ServeInv, OwedInv, Eats
    <1>. QED
        BY <1>5, <1>6, <1>7, <1>8 DEF TableInv

\* newProcess: it starts in think, before it is counted.
LEMMA NewProcessKeeps ==
    ASSUME TableInv, NewProcess
    PROVE  TableInv'
    <1>. DEFINE n == philosopherCount
    <1>1. /\ philosopherCount' = n /\ state' = state /\ fork' = fork /\ target' = target
          /\ mutex' = mutex /\ at' = [at EXCEPT ![n] = "think"]
          /\ main = "newProcess" /\ main' = "register"
        BY DEF NewProcess, MainMoves, table
    <1>2. Seated' = Seated /\ Last' = Last /\ Seated \subseteq Id
        BY <1>1, SeatedAreIds DEF Seated, Last, TableInv
    <1>3. n \in Id /\ n \notin Seated /\ at[n] = "absent"
        BY <1>1, NextSeat DEF TableInv, MainInv
    <1>4. at'[n] = "think" /\ \A j \in Id : j # n => at'[j] = at[j]
        BY <1>1, <1>3 DEF TableInv, Typed
    <1>5. /\ "think" \in Place /\ "think" \notin Section
          /\ "absent" \notin Section /\ "absent" \notin Asked
        BY DEF Place, Section, Asked, Serves, ServesSelf, ServesOther
    <1>6. Typed'
        BY <1>1, <1>5 DEF TableInv, Typed
    <1>7. MainInv'
        BY <1>1, <1>2, <1>3, <1>4 DEF TableInv, MainInv, Removing
    <1>8. MutexInv'
        <2>1. ~IsQueued(n)
            BY <1>3, <1>5 DEF TableInv, MutexInv, IsQueued
        <2>. QED
            BY <1>1, <1>3, <1>5, <2>1, MutexUntouched DEF TableInv
    <1>9. SeatInv' /\ ServeInv' /\ OwedInv'
        <2>1. \A j \in Seated : at'[j] = at[j]
            BY <1>2, <1>3, <1>4
        <2>2. SeatInv'
            BY <1>1, <1>2, <2>1 DEF TableInv, SeatInv, Eats
        <2>3. ServeInv'
            <3>1. target' = target /\ state' = state /\ fork' = fork
                BY <1>1
            <3>2. ServeInv /\ \A j \in Seated : at[j] \in Serves => target[j] \in Seated
                BY DEF TableInv, ServeInv
            <3>3. \A j \in Seated : at[j] \in Serves => at'[target[j]] = at[target[j]]
                BY <2>1, <3>2
            <3>. QED
                BY <1>2, <2>1, <3>1, <3>2, <3>3 DEF ServeInv, Eats, Serves
        <2>4. OwedInv'
            BY <1>1, <1>2, <2>1 DEF TableInv, OwedInv, Eats
        <2>. QED
            BY <2>2, <2>3, <2>4
    <1>. QED
        BY <1>6, <1>7, <1>8, <1>9 DEF TableInv

\* The newcomer is counted, THINKING.
LEMMA RegisterKeeps ==
    ASSUME TableInv, Register
    PROVE  /\ TableInv' /\ philosopherCount' = philosopherCount + 1 /\ philosopherCount \in Id
           /\ at' = at /\ target' = target
           /\ \A j \in Seated : state'[j] = state[j]
           /\ state'[philosopherCount] = THINKING /\ at[philosopherCount] \in {"think", "lock"}
    <1>. DEFINE n == philosopherCount
    <1>1. /\ philosopherCount' = n + 1 /\ at' = at /\ fork' = fork /\ target' = target
          /\ mutex' = mutex /\ state' = [state EXCEPT ![n] = THINKING]
          /\ main = "register" /\ main' = "show"
        BY DEF Register, MainMoves
    <1>2. n \in Id /\ n \notin Seated /\ n < MAX_PHILOSOPHERS /\ n \in Nat /\ Seated \subseteq Id
        BY <1>1, NextSeat, SeatedAreIds DEF TableInv, MainInv
    <1>3. Seated' = Seated \cup {n}
        BY <1>1, <1>2 DEF Seated
    <1>4. /\ state'[n] = THINKING /\ \A j \in Seated : state'[j] = state[j]
          /\ at[n] \in {"think", "lock"} /\ fork[n] = 0
        BY <1>1, <1>2 DEF TableInv, Typed, MainInv
    <1>5. Typed'
        BY <1>1, <1>2, MaxAssumption DEF TableInv, Typed
    <1>6. MainInv'
        BY <1>1, <1>3, <1>4 DEF TableInv, MainInv, Removing
    <1>7. MutexInv'
        BY <1>1 DEF TableInv, MutexInv, Inside, IsQueued
    <1>8. SeatInv'
        BY <1>1, <1>3, <1>4
           DEF TableInv, SeatInv, Eats, PlacesOf, THINKING, HUNGRY, EATING
    <1>9. ServeInv'
        BY <1>1, <1>3, <1>4 DEF TableInv, ServeInv, Eats, Serves, ServesSelf, ServesOther
    <1>10. OwedInv'
        BY <1>1, <1>3, <1>4 DEF TableInv, OwedInv, Eats
    <1>. QED
        BY <1>1, <1>2, <1>4, <1>5, <1>6, <1>7, <1>8, <1>9, <1>10 DEF TableInv

\* The lines phylo prints itself, and q.
LEMMA MainTurnsKeep ==
    ASSUME TableInv, UNCHANGED <<philosopherCount, state, at, target, mutex, fork>>,
           main \notin Removing \cup {"newProcess", "register"},
           main' \notin Removing \cup {"newProcess", "register"}
    PROVE  TableInv'
    <1>1. Seated' = Seated
        BY DEF Seated
    <1>2. Typed' /\ MainInv'
        BY <1>1 DEF TableInv, Typed, MainInv
    <1>3. MutexInv'
        BY DEF TableInv, MutexInv, Inside, IsQueued
    <1>4. SeatInv' /\ ServeInv' /\ OwedInv'
        BY <1>1 DEF TableInv, SeatInv, ServeInv, OwedInv, Eats
    <1>. QED
        BY <1>2, <1>3, <1>4 DEF TableInv

\* The removal, while nobody is in a section: nothing is being served.
LEMMA NobodyServes ==
    ASSUME TableInv, mutex.value = 1
    PROVE  \A j \in Id : at[j] \notin Serves \cup {"test1", "test2", "unlock"} /\ ~IsQueued(j)
BY DEF TableInv, MutexInv, IsQueued, Section

\* The process is killed: it was in no section, and its seat stays until it is counted off.
LEMMA KillKeeps ==
    ASSUME TableInv, Kill, mutex.value = 1
    PROVE  TableInv'
    <1>1. /\ philosopherCount' = philosopherCount /\ state' = state /\ fork' = fork
          /\ at' = [at EXCEPT ![Last] = "absent"] /\ target' = [target EXCEPT ![Last] = Last]
          /\ main \notin Removing \cup {"newProcess", "register"} /\ main' \in Removing
          /\ philosopherCount > 0
        BY DEF Kill, MainMoves, Removing, table
    <1>2. Seated' = Seated /\ Last' = Last /\ Seated \subseteq Id /\ Last \in Seated
        BY <1>1, SeatedAreIds DEF Seated, Last, TableInv
    <1>3. mutex' = mutex
        <2>1. ~IsQueued(Last)
            BY <1>2, NobodyServes
        <2>2. mutex' = [mutex EXCEPT !.waiters = mutex.waiters]
            BY <2>1 DEF Kill, Unqueued
        <2>. QED
            BY <2>2 DEF TableInv, Typed
    <1>4. /\ at'[Last] = "absent" /\ \A j \in Id : j # Last => at'[j] = at[j]
        BY <1>1, <1>2 DEF TableInv, Typed
    <1>5. "absent" \in Place /\ "absent" \notin Section
        BY DEF Place, Section, Asked, Serves, ServesSelf, ServesOther
    <1>6. Typed'
        BY <1>1, <1>2, <1>3, <1>5 DEF TableInv, Typed
    <1>7. MainInv'
        BY <1>1, <1>2, <1>4 DEF TableInv, MainInv, Removing
    <1>8. MutexInv'
        <2>1. at[Last] \notin Section /\ ~IsQueued(Last)
            BY <1>2, NobodyServes DEF TableInv, MutexInv
        <2>. QED
            BY <1>1, <1>2, <1>3, <1>5, <2>1, MutexUntouched DEF TableInv
    <1>9. SeatInv'
        BY <1>1, <1>2, <1>4 DEF TableInv, SeatInv, Eats, PlacesOf
    <1>10. \A j \in Seated : at'[j] \notin Serves \cup {"test1", "test2", "unlock"}
        BY <1>2, <1>4, NobodyServes DEF Serves, ServesSelf, ServesOther
    <1>11. ServeInv'
        BY <1>2, <1>10 DEF ServeInv, Serves
    <1>12. OwedInv'
        BY <1>1, <1>2, <1>4, NobodyServes DEF TableInv, OwedInv, Eats
    <1>. QED
        BY <1>6, <1>7, <1>8, <1>9, <1>11, <1>12 DEF TableInv

\* Its fork is closed: a token left in it is lost with it.
LEMMA CloseForkKeeps ==
    ASSUME TableInv, CloseFork, mutex.value = 1
    PROVE  TableInv'
    <1>1. /\ philosopherCount' = philosopherCount /\ state' = state /\ target' = target
          /\ at' = at /\ mutex' = mutex /\ fork' = [fork EXCEPT ![Last] = -1]
          /\ main \in Removing /\ main' \in Removing
        BY DEF CloseFork, MainMoves, Removing, table
    <1>2. /\ Seated' = Seated /\ Last' = Last /\ Seated \subseteq Id /\ Last \in Seated
          /\ at[Last] = "absent"
        BY <1>1, SeatedAreIds DEF Seated, Last, TableInv, MainInv
    <1>3. /\ fork'[Last] = -1 /\ \A j \in Id : j # Last => fork'[j] = fork[j]
        BY <1>1, <1>2 DEF TableInv, Typed
    <1>4. Typed'
        BY <1>1 DEF TableInv, Typed
    <1>5. MainInv'
        BY <1>1, <1>2 DEF TableInv, MainInv, Removing
    <1>6. MutexInv'
        BY <1>1 DEF TableInv, MutexInv, Inside, IsQueued
    <1>7. SeatInv'
        BY <1>1, <1>2, <1>3 DEF TableInv, SeatInv, Eats
    <1>8. ServeInv'
        BY <1>1, <1>2, NobodyServes DEF ServeInv, Serves
    <1>9. OwedInv'
        BY <1>1, <1>2, <1>3 DEF TableInv, OwedInv, Eats
    <1>. QED
        BY <1>4, <1>5, <1>6, <1>7, <1>8, <1>9 DEF TableInv

\* It is counted off: the seat that goes is the one nobody sits in.
LEMMA CountOffKeeps ==
    ASSUME TableInv, CountOff, mutex.value = 1
    PROVE  /\ TableInv' /\ philosopherCount' = philosopherCount - 1 /\ philosopherCount > 0
           /\ at' = at /\ state' = state /\ target' = target /\ at[Last] = "absent"
    <1>1. /\ philosopherCount' = philosopherCount - 1 /\ state' = state /\ target' = target
          /\ at' = at /\ mutex' = mutex /\ fork' = fork
          /\ main \in {"count", "quitCount"} /\ main' \in {"show", "quitShow"}
        BY DEF CountOff, MainMoves
    <1>2. /\ philosopherCount > 0 /\ at[Last] = "absent" /\ Last \in Seated /\ Seated \subseteq Id
          /\ philosopherCount \in Nat
        BY <1>1, SeatedAreIds DEF TableInv, MainInv, Removing
    <1>3. Seated' = Seated \ {Last}
        BY <1>1, <1>2 DEF Seated, Last
    <1>4. Typed'
        BY <1>1, <1>2, MaxAssumption DEF TableInv, Typed
    <1>5. MainInv'
        BY <1>1, <1>2, <1>3 DEF TableInv, MainInv, Removing
    <1>6. MutexInv'
        BY <1>1 DEF TableInv, MutexInv, Inside, IsQueued
    <1>7. SeatInv'
        BY <1>1, <1>3 DEF TableInv, SeatInv, Eats
    <1>8. ServeInv'
        BY <1>1, <1>2, <1>3, NobodyServes DEF ServeInv, Serves
    <1>9. OwedInv'
        BY <1>1, <1>2, <1>3, NobodyServes DEF TableInv, OwedInv, Eats
    <1>. QED
        BY <1>1, <1>2, <1>4, <1>5, <1>6, <1>7, <1>8, <1>9 DEF TableInv

----------------------------------------------------------------------------
\* The table

\* What has been upset stays upset, and what a removal cuts into is upset.
LEMMA UpsetGrows ==
    ASSUME [Next]_vars
    PROVE  upset \subseteq upset'
BY DEF Next, Main, OpenFork, NewProcess, Register, MainShows, Kill, CloseFork, CountOff, Quit,
       Upset, Philosopher, SetState, WaitMutex, PostMutex, WaitFork, Show, Test, PostFork, vars

\* Every step keeps the invariant of the table, unless it upsets a section or a newcomer.
LEMMA TableStep ==
    ASSUME TableInv, [Next]_vars, "section" \notin upset', "newcomer" \notin upset'
    PROVE  TableInv'
    <1>1. CASE UNCHANGED vars
        BY <1>1 DEF vars, TableInv, Typed, MainInv, MutexInv, SeatInv, ServeInv, OwedInv, Eats,
                    Seated, Last, Inside, IsQueued
    <1>2. ASSUME NEW i \in Id, Philosopher(i) PROVE TableInv'
        <2>1. CASE SetState(i)
            BY <2>1, SetStateOutside, SetStateInside
        <2>2. CASE WaitMutex(i)
            <3>1. i \in Seated
                BY <2>2 DEF WaitMutex
            <3>. QED
                BY <2>2, <3>1, WaitMutexKeeps
        <2>3. CASE PostMutex(i)
            BY <2>3, PostMutexKeeps
        <2>4. CASE WaitFork(i)
            BY <2>4, TakeForkKeeps
        <2>5. CASE Show(i)
            BY <2>5, ShowKeeps
        <2>6. CASE Test(i)
            BY <2>6, TestFindsKeeps, TestFailsKeeps
        <2>7. CASE PostFork(i)
            BY <2>7, PostForkKeeps
        <2>. QED
            BY <1>2, <2>1, <2>2, <2>3, <2>4, <2>5, <2>6, <2>7 DEF Philosopher
    <1>3. ASSUME Main PROVE TableInv'
        <2>1. CASE OpenFork
            BY <2>1, OpenForkKeeps
        <2>2. CASE NewProcess
            BY <2>2, NewProcessKeeps
        <2>3. CASE Register
            BY <2>3, RegisterKeeps
        <2>4. CASE MainShows
            BY <2>4, MainTurnsKeep DEF MainShows, MainMoves, Removing
        <2>5. CASE Kill
            <3>1. mutex.value = 1
                BY <2>5 DEF Kill, Upset, TableInv, Typed
            <3>. QED
                BY <2>5, <3>1, KillKeeps
        <2>6. CASE CloseFork
            <3>1. mutex.value = 1
                BY <2>6 DEF CloseFork, Upset, TableInv, Typed
            <3>. QED
                BY <2>6, <3>1, CloseForkKeeps
        <2>7. CASE CountOff
            <3>1. mutex.value = 1
                BY <2>7 DEF CountOff, Upset, TableInv, Typed
            <3>. QED
                BY <2>7, <3>1, CountOffKeeps
        <2>8. CASE Quit
            BY <2>8, MainTurnsKeep DEF Quit, MainMoves, Removing, table
        <2>. QED
            BY <1>3, <2>1, <2>2, <2>3, <2>4, <2>5, <2>6, <2>7, <2>8 DEF Main
    <1>. QED
        BY <1>1, <1>2, <1>3 DEF Next

----------------------------------------------------------------------------
\* Neighbours

\* Nobody new eats: neighbours stay apart.
LEMMA ApartStays ==
    ASSUME philosopherCount' = philosopherCount, philosopherCount \in Nat, ~adjacentEating,
           \A j \in Seated : state'[j] = EATING => state[j] = EATING
    PROVE  ~adjacentEating'
    <1>1. Seated' = Seated
        BY DEF Seated
    <1>2. \A j \in Seated : left(j)' = left(j) /\ right(j)' = right(j)
        BY DEF left, right
    <1>3. \A j \in Seated : left(j) \in Seated /\ right(j) \in Seated
        BY Neighbours
    <1>. QED
        BY <1>1, <1>2, <1>3 DEF adjacentEating, Eats

\* Whoever a test lets eat has neighbours who do not.
LEMMA ApartTest ==
    ASSUME TableInv, ~adjacentEating, NEW i \in Id, Test(i), MayEat(Tested(i))
    PROVE  ~adjacentEating'
    <1>. DEFINE x == Tested(i)
    <1>1. /\ x \in Seated /\ state' = [state EXCEPT ![x] = EATING]
          /\ Seated \subseteq Id /\ philosopherCount \in Nat
        BY TestFindsKeeps, SeatedAreIds DEF TableInv
    <1>2. state'[x] = EATING /\ \A j \in Seated : j # x => state'[j] = state[j]
        BY <1>1 DEF TableInv, Typed
    <1>3. ~Eats(left(x)) /\ ~Eats(right(x))
        BY DEF MayEat
    <1>4. philosopherCount' = philosopherCount /\ Seated' = Seated
        BY DEF Test, Seated
    <1>5. \A j \in Seated : left(j)' = left(j) /\ right(j)' = right(j)
        BY <1>4 DEF left, right
    <1>6. \A j \in Seated : /\ left(j) \in Seated /\ right(j) \in Seated
                            /\ left(right(j)) = j /\ right(left(j)) = j
        BY <1>1, Neighbours
    <1>7. philosopherCount > 1 => \A j \in Seated : left(j) # j /\ right(j) # j
        BY <1>1, Neighbours DEF Seated, Last
    <1>8. SUFFICES ASSUME philosopherCount > 1, NEW j \in Seated, Eats(j)',
                          Eats(left(j))' \/ Eats(right(j))'
                   PROVE  FALSE
        BY <1>4 DEF adjacentEating
    <1>9. PICK k \in {left(j), right(j)} : state'[k] = EATING
        BY <1>5, <1>8 DEF Eats
    <1>10. k \in Seated /\ k # j /\ j \in {left(k), right(k)}
        BY <1>6, <1>7, <1>8, <1>9
    <1>11. CASE j = x
        BY <1>2, <1>3, <1>9, <1>10, <1>11 DEF Eats
    <1>12. CASE k = x
        BY <1>2, <1>3, <1>8, <1>10, <1>12 DEF Eats
    <1>13. CASE j # x /\ k # x
        BY <1>2, <1>8, <1>9, <1>10, <1>13 DEF Eats, adjacentEating
    <1>. QED
        BY <1>11, <1>12, <1>13

\* A newcomer does not eat; who eats on both sides of a leaver is upset.
LEMMA ApartRegister ==
    ASSUME TableInv, ~adjacentEating, Register
    PROVE  ~adjacentEating'
    <1>. DEFINE n == philosopherCount
    <1>1. /\ philosopherCount' = n + 1 /\ n \in Nat
          /\ \A j \in Seated : state'[j] = state[j]
          /\ state'[n] = THINKING
        BY RegisterKeeps, SeatedAreIds DEF TableInv
    <1>2. SUFFICES ASSUME n + 1 > 1, NEW j \in 0 .. n, state'[j] = EATING,
                          NEW k \in {left(j)', right(j)'}, state'[k] = EATING
                   PROVE  FALSE
        BY <1>1 DEF adjacentEating, Eats, Seated
    <1>3. /\ left(j)' = IF j = 0 THEN n ELSE j - 1
          /\ right(j)' = IF j = n THEN 0 ELSE j + 1
        <2>1. n + 1 \in Nat \ {0} /\ j \in 0 .. (n + 1) - 1
            BY <1>1, <1>2
        <2>2. /\ (j + (n + 1) - 1) % (n + 1) = IF j = 0 THEN (n + 1) - 1 ELSE j - 1
              /\ (j + 1) % (n + 1) = IF j = (n + 1) - 1 THEN 0 ELSE j + 1
            BY <2>1, Ring
        <2>3. left(j)' = (j + (n + 1) - 1) % (n + 1) /\ right(j)' = (j + 1) % (n + 1)
            BY <1>1 DEF left, right
        <2>. QED
            BY <1>1, <2>2, <2>3
    <1>4. j # n /\ k # n /\ j \in Seated
        BY <1>1, <1>2 DEF Seated, THINKING, EATING
    <1>5. k \in Seated /\ k \in {j - 1, j + 1} /\ n > 1
        BY <1>1, <1>2, <1>3, <1>4 DEF Seated
    <1>6. k \in {left(j), right(j)}
        BY <1>1, <1>4, <1>5, Neighbours DEF Seated, Last
    <1>. QED
        BY <1>1, <1>2, <1>4, <1>5, <1>6 DEF adjacentEating, Eats

\* The two that become neighbours do not both eat, or they are upset.
LEMMA ApartCountOff ==
    ASSUME TableInv, ~adjacentEating, CountOff, mutex.value = 1, "joined" \notin upset'
    PROVE  ~adjacentEating'
    <1>. DEFINE n == philosopherCount
    <1>1. philosopherCount' = n - 1 /\ n \in Nat /\ state' = state /\ n > 0
        BY CountOffKeeps, SeatedAreIds DEF TableInv
    <1>2. n - 1 > 1 => ~(Eats(0) /\ Eats(n - 2))
        <2>1. ~(Last > 1 /\ Eats(0) /\ Eats(Last - 1))
            BY DEF CountOff, Upset
        <2>2. Last - 1 = n - 2 /\ Last = n - 1
            BY <1>1 DEF Last
        <2>. QED
            BY <2>1, <2>2
    <1>3. SUFFICES ASSUME n - 1 > 1, NEW j \in 0 .. n - 2, state[j] = EATING,
                          NEW k \in {left(j)', right(j)'}, state[k] = EATING
                   PROVE  FALSE
        BY <1>1 DEF adjacentEating, Eats, Seated
    <1>4. /\ left(j)' = IF j = 0 THEN n - 2 ELSE j - 1
          /\ right(j)' = IF j = n - 2 THEN 0 ELSE j + 1
        <2>1. n - 1 \in Nat \ {0} /\ j \in 0 .. (n - 1) - 1
            BY <1>1, <1>3
        <2>2. /\ (j + (n - 1) - 1) % (n - 1) = IF j = 0 THEN (n - 1) - 1 ELSE j - 1
              /\ (j + 1) % (n - 1) = IF j = (n - 1) - 1 THEN 0 ELSE j + 1
            BY <2>1, Ring
        <2>3. left(j)' = (j + (n - 1) - 1) % (n - 1) /\ right(j)' = (j + 1) % (n - 1)
            BY <1>1 DEF left, right
        <2>. QED
            BY <1>1, <2>2, <2>3
    <1>5. ~(j = 0 /\ k = n - 2) /\ ~(j = n - 2 /\ k = 0)
        BY <1>2, <1>3 DEF Eats
    <1>6. j \in Seated /\ k \in Seated /\ k \in {left(j), right(j)}
        <2>1. j \in Seated
            BY <1>1 DEF Seated
        <2>2. /\ left(j) = IF j = 0 THEN Last ELSE j - 1
              /\ right(j) = IF j = Last THEN 0 ELSE j + 1
            BY <1>1, <2>1, Neighbours
        <2>3. k \in {j - 1, j + 1} /\ k \in 0 .. n - 2
            BY <1>1, <1>3, <1>4, <1>5
        <2>. QED
            BY <1>1, <2>1, <2>2, <2>3 DEF Seated, Last
    <1>. QED
        BY <1>1, <1>3, <1>6 DEF adjacentEating, Eats

----------------------------------------------------------------------------
\* Whoever waits for its forks

\* At a table of the same size nobody new waits, nobody ceases to eat, and who was about to
\* test somebody still is.
LEMMA HungryStays ==
    ASSUME HungryInv, philosopherCount' = philosopherCount, philosopherCount \in Nat,
           \A k \in Seated : Sleeps(k)' => Sleeps(k) \/ NeighbourEats(k)',
           \A k \in Seated : Eats(k) => Eats(k)',
           \A j, k \in Seated : WillTest(j, k) /\ Sleeps(k)' => WillTest(j, k)' \/ NeighbourEats(k)'
    PROVE  HungryInv'
    <1>1. Seated' = Seated
        BY DEF Seated
    <1>2. \A k \in Seated : /\ left(k)' = left(k) /\ right(k)' = right(k)
                            /\ left(k) \in Seated /\ right(k) \in Seated
        BY Neighbours DEF left, right
    <1>3. \A k \in Seated : NeighbourEats(k) => NeighbourEats(k)'
        BY <1>2 DEF NeighbourEats, Eats
    <1>. QED
        BY <1>1, <1>3 DEF HungryInv

\* While nobody is in a section nobody is about to test.
LEMMA NobodyTests ==
    ASSUME TableInv, mutex.value = 1
    PROVE  \A j \in Seated : \A k : ~WillTest(j, k)
    <1>1. \A j \in Seated : at[j] \notin Section
        BY SeatedAreIds DEF TableInv, MutexInv
    <1>. QED
        BY <1>1 DEF WillTest, Section, Serves, ServesOther

\* Whoever ceases to eat is about to test both its neighbours.
LEMMA HungrySetState ==
    ASSUME TableInv, HungryInv, NEW i \in Id, SetState(i)
    PROVE  HungryInv'
    <1>1. /\ philosopherCount' = philosopherCount /\ target' = target /\ Seated' = Seated
          /\ philosopherCount \in Nat /\ Seated \subseteq Id
        BY SeatedAreIds DEF SetState, TableInv, Seated
    <1>2. \A j \in Id : j # i => at'[j] = at[j]
        BY DEF SetState, Step, TableInv, Typed
    <1>3. \A j \in Seated : /\ left(j)' = left(j) /\ right(j)' = right(j)
                            /\ left(j) \in Seated /\ right(j) \in Seated
                            /\ left(right(j)) = j /\ right(left(j)) = j
        BY <1>1, Neighbours DEF left, right
    <1>4. ASSUME at[i] \in {"think", "eat"} PROVE HungryInv'
        <2>1. \A j \in Seated : state'[j] = state[j]
            BY <1>4, SetStateOutside
        <2>2. at'[i] \in {"lock", "relock"}
            BY <1>4 DEF SetState, Step, TableInv, Typed
        <2>3. \A k \in Seated : Sleeps(k)' => Sleeps(k)
            BY <1>1, <1>2, <2>1, <2>2 DEF Sleeps
        <2>4. \A k \in Seated : Eats(k) => Eats(k)'
            BY <2>1 DEF Eats
        <2>5. \A j, k \in Seated : WillTest(j, k) => WillTest(j, k)'
            BY <1>1, <1>2, <1>3, <1>4 DEF WillTest
        <2>. QED
            BY <1>1, <2>3, <2>4, <2>5, HungryStays
    <1>5. ASSUME at[i] = "locked", state[i] = THINKING, state' = [state EXCEPT ![i] = HUNGRY],
                 at' = [at EXCEPT ![i] = "showHungry"]
          PROVE  HungryInv'
        <2>1. /\ \A j \in Id : j # i => state'[j] = state[j]
              /\ at'[i] = "showHungry"
            BY <1>5 DEF TableInv, Typed
        <2>3. \A k \in Seated : Sleeps(k)' => Sleeps(k)
            BY <1>1, <1>2, <2>1 DEF Sleeps
        <2>4. \A k \in Seated : Eats(k) => Eats(k)'
            BY <1>1, <1>5, <2>1 DEF Eats, THINKING, EATING
        <2>5. \A j, k \in Seated : WillTest(j, k) => WillTest(j, k)'
            BY <1>1, <1>2, <1>3, <1>5 DEF WillTest
        <2>. QED
            BY <1>1, <2>3, <2>4, <2>5, HungryStays
    <1>6. ASSUME at[i] = "relocked", state' = [state EXCEPT ![i] = THINKING],
                 at' = [at EXCEPT ![i] = "showThinking"], i \in Seated
          PROVE  HungryInv'
        <2>1. /\ \A j \in Id : j # i => state'[j] = state[j]
              /\ at'[i] = "showThinking" /\ state'[i] = THINKING
            BY <1>6 DEF TableInv, Typed
        <2>2. SUFFICES ASSUME NEW k \in Seated, Sleeps(k)'
                       PROVE  NeighbourEats(k)' \/ \E j \in Seated : WillTest(j, k)'
            BY <1>1 DEF HungryInv
        <2>3. Sleeps(k) /\ k # i
            BY <1>1, <1>2, <2>1, <2>2 DEF Sleeps, THINKING, HUNGRY
        <2>4. CASE \E j \in Seated : WillTest(j, k)
            BY <2>4, <1>1, <1>2, <1>3, <1>6 DEF WillTest
        <2>5. CASE i \in {left(k), right(k)}
            <3>1. k \in {left(i), right(i)}
                BY <2>5, <1>3
            <3>. QED
                BY <2>1, <3>1, <1>3, <1>6 DEF WillTest
        <2>6. CASE NeighbourEats(k) /\ i \notin {left(k), right(k)}
            BY <2>6, <1>1, <1>3, <2>1 DEF NeighbourEats, Eats
        <2>. QED
            BY <2>3, <2>4, <2>5, <2>6 DEF HungryInv
    <1>. QED
        BY <1>4, <1>5, <1>6, SetStateInside

\* The semaphores change no state, and nobody who is about to test comes to one.
LEMMA HungryMutex ==
    ASSUME TableInv, HungryInv, NEW i \in Id, WaitMutex(i) \/ PostMutex(i) \/ WaitFork(i)
    PROVE  HungryInv'
    <1>1. /\ philosopherCount' = philosopherCount /\ target' = target /\ state' = state
          /\ philosopherCount \in Nat /\ Seated \subseteq Id
        BY SeatedAreIds DEF WaitMutex, PostMutex, WaitFork, TableInv, table
    <1>2. /\ \A j \in Id : j # i => at'[j] = at[j]
          /\ at[i] \in {"lock", "relock", "unlock", "release", "waitFork"}
          /\ at'[i] \in {"locked", "relocked", "waitFork", "think", "eat"}
          /\ at'[i] = "waitFork" => at[i] = "unlock"
        BY DEF WaitMutex, PostMutex, WaitFork, Step, TableInv, Typed
    <1>3. \A j \in Seated : left(j)' = left(j) /\ right(j)' = right(j)
        BY <1>1 DEF left, right
    <1>4. \A k \in Seated : Sleeps(k)' => Sleeps(k)
        BY <1>1, <1>2 DEF Sleeps
    <1>5. \A k \in Seated : Eats(k) => Eats(k)'
        BY <1>1 DEF Eats
    <1>6. \A j, k \in Seated : WillTest(j, k) => WillTest(j, k)'
        BY <1>1, <1>2, <1>3 DEF WillTest
    <1>. QED
        BY <1>1, <1>4, <1>5, <1>6, HungryStays

\* A line on the screen brings the next test, of the same philosopher.
LEMMA HungryShow ==
    ASSUME TableInv, HungryInv, NEW i \in Id, Show(i)
    PROVE  HungryInv'
    <1>1. /\ philosopherCount' = philosopherCount /\ state' = state
          /\ philosopherCount \in Nat /\ Seated \subseteq Id
        BY SeatedAreIds DEF Show, TableInv
    <1>2. /\ \A j \in Id : j # i => at'[j] = at[j] /\ target'[j] = target[j]
          /\ \/ at[i] = "showHungry" /\ at'[i] = "test1"
             \/ at[i] = "showThinking" /\ at'[i] = "test2" /\ target'[i] = left(i)
             \/ at[i] = "show1" /\ at'[i] = "post1"
             \/ at[i] = "show2" /\ at'[i] = "post2"
             \/ at[i] = "show3" /\ at'[i] = "post3"
        <2>1. \A j \in Id : j # i => at'[j] = at[j]
            BY DEF Show, Step, TableInv, Typed
        <2>2. at' = [at EXCEPT ![i] = at'[i]]
            BY ShowKeeps DEF TableInv, Typed
        <2>. QED
            BY <2>1, ShowKeeps DEF TableInv, Typed, PostAfter
    <1>3. \A j \in Seated : left(j)' = left(j) /\ right(j)' = right(j)
        BY <1>1 DEF left, right
    <1>4. \A k \in Seated : Sleeps(k)' => Sleeps(k)
        BY <1>1, <1>2 DEF Sleeps
    <1>5. \A k \in Seated : Eats(k) => Eats(k)'
        BY <1>1 DEF Eats
    <1>6. \A j, k \in Seated : WillTest(j, k) => WillTest(j, k)'
        BY <1>1, <1>2, <1>3 DEF WillTest
    <1>. QED
        BY <1>1, <1>4, <1>5, <1>6, HungryStays

\* Who is found fit to eat waits no more.
LEMMA HungryTestFinds ==
    ASSUME TableInv, HungryInv, NEW i \in Id, Test(i), MayEat(Tested(i))
    PROVE  HungryInv'
    <1>. DEFINE x == Tested(i)
    <1>1. /\ philosopherCount' = philosopherCount /\ philosopherCount \in Nat /\ Seated \subseteq Id
          /\ at[i] \in {"test1", "test2", "test3"} /\ x \in Seated
        BY TestFindsKeeps, SeatedAreIds DEF Test, TableInv
    <1>2. /\ \A j \in Id : j # i => at'[j] = at[j] /\ target'[j] = target[j]
          /\ at[i] = "test1" => at'[i] = "show1"
          /\ at[i] = "test2" => at'[i] = "show2"
          /\ at[i] = "test3" => at'[i] = "show3"
        BY TestFindsKeeps DEF TableInv, Typed, ShowAfter
    <1>3. state'[x] = EATING /\ \A j \in Id : j # x => state'[j] = state[j]
        BY <1>1, TestFindsKeeps DEF TableInv, Typed
    <1>4. \A j \in Seated : left(j)' = left(j) /\ right(j)' = right(j)
        BY <1>1 DEF left, right
    <1>5. \A k \in Seated : Sleeps(k)' => Sleeps(k) /\ k # x
        BY <1>1, <1>2, <1>3 DEF Sleeps, HUNGRY, EATING
    <1>6. \A k \in Seated : Eats(k) => Eats(k)'
        BY <1>1, <1>3 DEF Eats
    <1>7. /\ at[i] = "test2" => x = target[i]
          /\ at[i] = "test3" => x = right(i)
        BY DEF Tested
    <1>8. \A j, k \in Seated : WillTest(j, k) /\ k # x => WillTest(j, k)'
        BY <1>1, <1>2, <1>4, <1>7 DEF WillTest
    <1>. QED
        BY <1>1, <1>5, <1>6, <1>8, HungryStays

\* Who is not has a neighbour who eats.
LEMMA HungryTestFails ==
    ASSUME TableInv, HungryInv, NEW i \in Id, Test(i), ~MayEat(Tested(i))
    PROVE  HungryInv'
    <1>1. /\ philosopherCount' = philosopherCount /\ philosopherCount \in Nat /\ Seated \subseteq Id
          /\ at[i] \in {"test1", "test2", "test3"} /\ state' = state /\ i \in Seated /\ Inside(i)
        BY TestFailsKeeps, SeatedAreIds DEF Test, TableInv
    <1>2. /\ \A j \in Id : j # i => at'[j] = at[j] /\ target'[j] = target[j]
          /\ at[i] = "test1" => at'[i] = "unlock"
          /\ at[i] = "test2" => at'[i] = "test3"
          /\ at[i] = "test3" => at'[i] = "release"
        BY TestFailsKeeps DEF TableInv, Typed, AfterTest
    <1>3. \A j \in Seated : left(j)' = left(j) /\ right(j)' = right(j)
        BY <1>1 DEF left, right
    <1>4. PICK x \in Seated : x = Tested(i) /\ (at[i] = "test1" => x = i)
        BY <1>1, TestedFacts
    <1>5. state[x] = HUNGRY => NeighbourEats(x)'
        <2>1. state[x] = HUNGRY => Eats(left(x)) \/ Eats(right(x))
            BY <1>4 DEF MayEat
        <2>. QED
            BY <1>1, <1>3, <1>4, <2>1 DEF NeighbourEats, Eats
    <1>6. \A k \in Seated : Sleeps(k)' => Sleeps(k) \/ NeighbourEats(k)'
        BY <1>1, <1>2, <1>4, <1>5 DEF Sleeps
    <1>7. \A k \in Seated : Eats(k) => Eats(k)'
        BY <1>1 DEF Eats
    <1>8. /\ at[i] = "test2" => x = target[i]
          /\ at[i] = "test3" => x = right(i)
        BY <1>4 DEF Tested
    <1>9. \A j, k \in Seated : WillTest(j, k) /\ k # x => WillTest(j, k)'
        BY <1>1, <1>2, <1>3, <1>8 DEF WillTest
    <1>10. \A k \in Seated : Sleeps(k)' /\ k = x => NeighbourEats(k)'
        BY <1>1, <1>5 DEF Sleeps
    <1>. QED
        BY <1>1, <1>6, <1>7, <1>9, <1>10, HungryStays

\* The post of what was found fit to eat leads on to the other test.
LEMMA HungryPostFork ==
    ASSUME TableInv, HungryInv, NEW i \in Id, PostFork(i)
    PROVE  HungryInv'
    <1>1. /\ philosopherCount' = philosopherCount /\ state' = state /\ i \in Seated
          /\ philosopherCount \in Nat /\ Seated \subseteq Id
        BY PostForkKeeps, SeatedAreIds DEF PostFork, TableInv, table
    <1>2. /\ \A j \in Id : j # i => at'[j] = at[j] /\ target'[j] = target[j]
          /\ \/ at[i] = "post1" /\ at'[i] = "unlock"
             \/ at[i] = "post2" /\ at'[i] = "test3"
             \/ at[i] = "post3" /\ at'[i] = "release"
        <2>1. /\ at[i] \in {"post1", "post2", "post3"}
              /\ at' = [at EXCEPT ![i] = AfterPost[at[i]]]
              /\ target' = [target EXCEPT ![i] = i]
            BY PostForkKeeps DEF PostFork
        <2>. QED
            BY <2>1 DEF TableInv, Typed, AfterPost
    <1>3. \A j \in Seated : left(j)' = left(j) /\ right(j)' = right(j)
        BY <1>1 DEF left, right
    <1>4. at[i] = "post1" => Eats(i)
        BY <1>1 DEF TableInv, ServeInv, Serves, ServesSelf
    <1>5. \A k \in Seated : Sleeps(k)' => Sleeps(k)
        BY <1>1, <1>2, <1>4 DEF Sleeps, Eats, HUNGRY, EATING
    <1>6. \A k \in Seated : Eats(k) => Eats(k)'
        BY <1>1 DEF Eats
    <1>7. \A j, k \in Seated : WillTest(j, k) => WillTest(j, k)'
        BY <1>1, <1>2, <1>3 DEF WillTest
    <1>. QED
        BY <1>1, <1>5, <1>6, <1>7, HungryStays

\* The newcomer parts two who were neighbours: if one of them waits for the other, it is upset.
LEMMA HungryRegister ==
    ASSUME TableInv, HungryInv, Register, "parted" \notin upset'
    PROVE  HungryInv'
    <1>. DEFINE n == philosopherCount
    <1>1. /\ philosopherCount' = n + 1 /\ n \in Nat /\ Seated \subseteq Id
          /\ \A j \in Seated : state'[j] = state[j]
          /\ state'[n] = THINKING /\ at' = at /\ target' = target
        BY RegisterKeeps, SeatedAreIds DEF TableInv
    <1>2. ~Parted
        BY DEF Register
    <1>3. \A j \in Seated : /\ left(j)' = IF j = 0 THEN n ELSE j - 1
                            /\ right(j)' = j + 1
        <2>. SUFFICES ASSUME NEW j \in Seated
                      PROVE  left(j)' = (IF j = 0 THEN n ELSE j - 1) /\ right(j)' = j + 1
            OBVIOUS
        <2>1. n + 1 \in Nat \ {0} /\ j \in 0 .. (n + 1) - 1 /\ j # n
            BY <1>1 DEF Seated
        <2>2. /\ (j + (n + 1) - 1) % (n + 1) = IF j = 0 THEN (n + 1) - 1 ELSE j - 1
              /\ (j + 1) % (n + 1) = IF j = (n + 1) - 1 THEN 0 ELSE j + 1
            BY <2>1, Ring
        <2>3. left(j)' = (j + (n + 1) - 1) % (n + 1) /\ right(j)' = (j + 1) % (n + 1)
            BY <1>1 DEF left, right
        <2>. QED
            BY <1>1, <2>1, <2>2, <2>3
    <1>4. Seated' = Seated \cup {n}
        BY <1>1 DEF Seated
    <1>5. SUFFICES ASSUME NEW k \in Seated', Sleeps(k)'
                   PROVE  NeighbourEats(k)' \/ \E j \in Seated' : WillTest(j, k)'
        BY DEF HungryInv
    <1>6. k \in Seated /\ Sleeps(k)
        BY <1>1, <1>4, <1>5 DEF Sleeps, THINKING, HUNGRY
    <1>7. \A j \in Seated : /\ left(j) = IF j = 0 THEN Last ELSE j - 1
                            /\ right(j) = IF j = Last THEN 0 ELSE j + 1
                            /\ left(j) \in Seated /\ right(j) \in Seated
        BY <1>1, Neighbours
    <1>8. Last = n - 1 /\ (k = 0 \/ k = Last \/ (0 < k /\ k < Last))
        BY <1>1, <1>6 DEF Last, Seated
    <1>9. CASE n = 1
        <2>1. k = 0 /\ \A j \in Seated : j = 0
            BY <1>6, <1>9 DEF Seated
        <2>2. ~NeighbourEats(k)
            BY <1>6, <1>7, <2>1 DEF NeighbourEats, Eats, Sleeps, HUNGRY, EATING
        <2>3. \A j \in Seated : ~WillTest(j, k)
            BY <1>6, <2>1 DEF WillTest, Sleeps
        <2>. QED
            BY <1>6, <2>2, <2>3 DEF HungryInv
    <1>10. CASE n > 1 /\ k \in {0, Last}
        <2>1. HUNGRY \in {state[0], state[Last]}
            BY <1>6, <1>10 DEF Sleeps
        <2>2. mutex.value = 1 /\ ~Eats(0) /\ ~Eats(Last)
            BY <1>2, <1>10, <2>1 DEF Parted, TableInv, Typed
        <2>3. NeighbourEats(k)
            BY <1>6, <2>2, NobodyTests DEF HungryInv
        <2>4. CASE k = 0
            <3>1. right(k) = 1 /\ Eats(1) /\ 1 \in Seated
                BY <1>1, <1>6, <1>7, <1>8, <1>10, <2>2, <2>3, <2>4 DEF NeighbourEats
            <3>2. right(k)' = 1 /\ state'[1] = EATING
                BY <1>1, <1>3, <1>6, <2>4, <3>1 DEF Eats
            <3>. QED
                BY <3>2 DEF NeighbourEats, Eats
        <2>5. CASE k = Last
            <3>1. left(k) = k - 1 /\ Eats(k - 1) /\ k - 1 \in Seated /\ k # 0
                BY <1>1, <1>6, <1>7, <1>8, <1>10, <2>2, <2>3, <2>5 DEF NeighbourEats
            <3>2. left(k)' = k - 1 /\ state'[k - 1] = EATING
                BY <1>1, <1>3, <1>6, <3>1 DEF Eats
            <3>. QED
                BY <3>2 DEF NeighbourEats, Eats
        <2>. QED
            BY <1>10, <2>4, <2>5
    <1>11. CASE 0 < k /\ k < Last
        <2>1. /\ left(k)' = left(k) /\ right(k)' = right(k)
              /\ left(k) \in Seated /\ right(k) \in Seated
            BY <1>1, <1>3, <1>6, <1>7, <1>8, <1>11
        <2>2. NeighbourEats(k) => NeighbourEats(k)'
            BY <1>1, <2>1 DEF NeighbourEats, Eats
        <2>3. \A j \in Seated : k \in {left(j), right(j)} => k \in {left(j)', right(j)'}
            BY <1>1, <1>3, <1>6, <1>7, <1>8, <1>11 DEF Seated
        <2>4. \A j \in Seated : k = right(j) => k = right(j)'
            BY <1>1, <1>3, <1>6, <1>7, <1>8, <1>11 DEF Seated
        <2>5. \A j \in Seated : WillTest(j, k) => WillTest(j, k)'
            BY <1>1, <2>3, <2>4 DEF WillTest
        <2>. QED
            BY <1>4, <1>6, <2>2, <2>5 DEF HungryInv
    <1>12. n >= 1
        BY <1>1, <1>6 DEF Seated
    <1>. QED
        BY <1>1, <1>8, <1>9, <1>10, <1>11, <1>12

\* The leaver did not eat, or it is upset: whoever waits has its eater on the other side.
LEMMA HungryCountOff ==
    ASSUME TableInv, HungryInv, CountOff, mutex.value = 1, "eater" \notin upset'
    PROVE  HungryInv'
    <1>. DEFINE n == philosopherCount
    <1>1. /\ philosopherCount' = n - 1 /\ n \in Nat /\ n > 0 /\ state' = state /\ at' = at
          /\ target' = target
        BY CountOffKeeps, SeatedAreIds DEF TableInv
    <1>2. ~Eats(Last) /\ Last = n - 1
        BY <1>1 DEF CountOff, Upset, Last
    <1>3. SUFFICES ASSUME NEW k \in 0 .. n - 2, Sleeps(k)
                   PROVE  NeighbourEats(k)'
        BY <1>1 DEF HungryInv, Seated, Sleeps
    <1>4. k \in Seated /\ NeighbourEats(k)
        BY <1>1, <1>3, NobodyTests DEF HungryInv, Seated
    <1>5. /\ left(k) = IF k = 0 THEN Last ELSE k - 1
          /\ right(k) = k + 1
        BY <1>1, <1>2, <1>3, <1>4, Neighbours
    <1>6. /\ left(k)' = IF k = 0 THEN n - 2 ELSE k - 1
          /\ right(k)' = IF k = n - 2 THEN 0 ELSE k + 1
        <2>1. n - 1 \in Nat \ {0} /\ k \in 0 .. (n - 1) - 1
            BY <1>1, <1>3
        <2>2. /\ (k + (n - 1) - 1) % (n - 1) = IF k = 0 THEN (n - 1) - 1 ELSE k - 1
              /\ (k + 1) % (n - 1) = IF k = (n - 1) - 1 THEN 0 ELSE k + 1
            BY <2>1, Ring
        <2>3. left(k)' = (k + (n - 1) - 1) % (n - 1) /\ right(k)' = (k + 1) % (n - 1)
            BY <1>1 DEF left, right
        <2>. QED
            BY <1>1, <2>2, <2>3
    <1>7. \/ Eats(left(k)) /\ left(k)' = left(k)
          \/ Eats(right(k)) /\ right(k)' = right(k)
        BY <1>1, <1>2, <1>3, <1>4, <1>5, <1>6 DEF NeighbourEats
    <1>. QED
        BY <1>1, <1>7 DEF NeighbourEats, Eats

----------------------------------------------------------------------------
\* The invariant

\* Every step keeps neighbours apart, unless it upsets two who eat.
LEMMA ApartStep ==
    ASSUME TableInv, ~adjacentEating, [Next]_vars, TableInv',
           "section" \notin upset', "joined" \notin upset'
    PROVE  ~adjacentEating'
    <1>0. philosopherCount \in Nat /\ Seated \subseteq Id
        BY SeatedAreIds DEF TableInv
    <1>1. CASE UNCHANGED vars
        BY <1>0, <1>1, ApartStays DEF vars
    <1>2. ASSUME NEW i \in Id, Philosopher(i) PROVE ~adjacentEating'
        <2>1. CASE SetState(i)
            <3>1. \A j \in Seated : state'[j] = EATING => state[j] = EATING
                <4>1. CASE at[i] \in {"think", "eat"}
                    BY <2>1, <4>1, SetStateOutside
                <4>2. CASE at[i] \notin {"think", "eat"}
                    BY <1>0, <2>1, <4>2, SetStateInside
                       DEF TableInv, Typed, THINKING, HUNGRY, EATING
                <4>. QED
                    BY <4>1, <4>2
            <3>. QED
                BY <1>0, <2>1, <3>1, ApartStays DEF SetState
        <2>2. CASE WaitMutex(i) \/ PostMutex(i) \/ WaitFork(i) \/ Show(i) \/ PostFork(i)
            BY <1>0, <2>2, ApartStays DEF WaitMutex, PostMutex, WaitFork, Show, PostFork, table
        <2>3. CASE Test(i)
            <3>1. CASE MayEat(Tested(i))
                BY <2>3, <3>1, ApartTest
            <3>2. CASE ~MayEat(Tested(i))
                <4>1. state' = state /\ philosopherCount' = philosopherCount
                    BY <2>3, <3>2, TestFailsKeeps DEF Test
                <4>. QED
                    BY <1>0, <4>1, ApartStays
            <3>. QED
                BY <3>1, <3>2
        <2>. QED
            BY <1>2, <2>1, <2>2, <2>3 DEF Philosopher
    <1>3. ASSUME Main PROVE ~adjacentEating'
        <2>1. CASE OpenFork \/ NewProcess \/ MainShows \/ Kill \/ CloseFork \/ Quit
            BY <1>0, <2>1, ApartStays
               DEF OpenFork, NewProcess, MainShows, Kill, CloseFork, Quit, table
        <2>2. CASE Register
            BY <2>2, ApartRegister
        <2>3. CASE CountOff
            <3>1. mutex.value = 1
                BY <2>3 DEF CountOff, Upset, TableInv, Typed
            <3>. QED
                BY <2>3, <3>1, ApartCountOff
        <2>. QED
            BY <1>3, <2>1, <2>2, <2>3 DEF Main
    <1>. QED
        BY <1>1, <1>2, <1>3 DEF Next

\* Every step keeps the waiting covered, unless it upsets an eater or one who waits.
LEMMA HungryStep ==
    ASSUME TableInv, HungryInv, [Next]_vars,
           "section" \notin upset', "eater" \notin upset', "parted" \notin upset'
    PROVE  HungryInv'
    <1>0. philosopherCount \in Nat /\ Seated \subseteq Id
        BY SeatedAreIds DEF TableInv
    <1>1. ASSUME philosopherCount' = philosopherCount, state' = state, at' = at, target' = target
          PROVE  HungryInv'
        BY <1>1 DEF HungryInv, Sleeps, NeighbourEats, WillTest, Eats, left, right, Seated
    <1>2. CASE UNCHANGED vars
        BY <1>1, <1>2 DEF vars
    <1>3. ASSUME NEW i \in Id, Philosopher(i) PROVE HungryInv'
        BY <1>3, HungrySetState, HungryMutex, HungryShow, HungryTestFinds, HungryTestFails,
           HungryPostFork DEF Philosopher
    <1>4. ASSUME Main PROVE HungryInv'
        <2>1. CASE OpenFork \/ MainShows \/ CloseFork \/ Quit
            BY <1>1, <2>1 DEF OpenFork, MainShows, CloseFork, Quit, table
        <2>2. CASE NewProcess
            <3>1. /\ philosopherCount' = philosopherCount /\ state' = state /\ target' = target
                  /\ at' = [at EXCEPT ![philosopherCount] = "think"]
                BY <2>2 DEF NewProcess, table
            <3>2. \A j \in Seated : at'[j] = at[j]
                BY <1>0, <3>1 DEF TableInv, Typed, Seated
            <3>. QED
                BY <3>1, <3>2
                   DEF HungryInv, Sleeps, NeighbourEats, WillTest, Eats, left, right, Seated
        <2>3. CASE Register
            BY <2>3, HungryRegister
        <2>4. CASE Kill
            <3>1. mutex.value = 1
                BY <2>4 DEF Kill, Upset, TableInv, Typed
            <3>2. /\ philosopherCount' = philosopherCount /\ state' = state
                  /\ at' = [at EXCEPT ![Last] = "absent"]
                BY <2>4 DEF Kill, table
            <3>3. \A k \in Seated : Sleeps(k)' => Sleeps(k)
                BY <1>0, <3>2 DEF Sleeps, TableInv, Typed
            <3>4. \A k \in Seated : Eats(k) => Eats(k)'
                BY <3>2 DEF Eats
            <3>. QED
                BY <1>0, <3>1, <3>2, <3>3, <3>4, NobodyTests, HungryStays
        <2>5. CASE CountOff
            <3>1. mutex.value = 1
                BY <2>5 DEF CountOff, Upset, TableInv, Typed
            <3>. QED
                BY <2>5, <3>1, HungryCountOff
        <2>. QED
            BY <1>4, <2>1, <2>2, <2>3, <2>4, <2>5 DEF Main
    <1>. QED
        BY <1>2, <1>3, <1>4 DEF Next

\* Nobody is at the table when phylo starts.
LEMMA InitIInv ==
    ASSUME Init
    PROVE  IInv
    <1>1. Seated = {} /\ \A i \in Id : at[i] = "absent" /\ at[i] \notin Section
        BY DEF Init, Seated, Section, Asked, Serves, ServesSelf, ServesOther
    <1>2. Typed
        BY MaxAssumption DEF Init, Typed, Place
    <1>3. MainInv
        BY <1>1 DEF Init, MainInv, Removing
    <1>4. MutexInv
        BY <1>1 DEF Init, MutexInv, Inside
    <1>5. SeatInv /\ ServeInv /\ OwedInv /\ HungryInv /\ ~adjacentEating
        BY <1>1 DEF SeatInv, ServeInv, OwedInv, HungryInv, adjacentEating
    <1>. QED
        BY <1>2, <1>3, <1>4, <1>5 DEF IInv, TableInv

\* Every step keeps the invariant: what it upsets it no longer promises.
LEMMA StepIInv ==
    ASSUME IInv, [Next]_vars
    PROVE  IInv'
    <1>1. \A h : Spared(h)' => Spared(h)
        BY UpsetGrows DEF Spared
    <1>2. ASSUME Spared({"section", "newcomer"})' PROVE TableInv /\ TableInv'
        <2>1. "section" \notin upset' /\ "newcomer" \notin upset'
            BY <1>2 DEF Spared
        <2>2. TableInv
            BY <1>1, <1>2 DEF IInv
        <2>. QED
            BY <2>1, <2>2, TableStep
    <1>3. ASSUME Spared({"section", "joined", "newcomer"})' PROVE ~adjacentEating'
        <2>1. "section" \notin upset' /\ "joined" \notin upset' /\ Spared({"section", "newcomer"})'
            BY <1>3 DEF Spared
        <2>2. ~adjacentEating
            BY <1>1, <1>3 DEF IInv
        <2>. QED
            BY <1>2, <2>1, <2>2, ApartStep
    <1>4. ASSUME Spared({"section", "eater", "parted", "newcomer"})' PROVE HungryInv'
        <2>1. /\ "section" \notin upset' /\ "eater" \notin upset' /\ "parted" \notin upset'
              /\ Spared({"section", "newcomer"})'
            BY <1>4 DEF Spared
        <2>2. HungryInv
            BY <1>1, <1>4 DEF IInv
        <2>. QED
            BY <1>2, <2>1, <2>2, HungryStep
    <1>. QED
        BY <1>2, <1>3, <1>4 DEF IInv

\* The invariant holds in every state of every behaviour of phylo.
THEOREM Invariance == Spec => []IInv
BY InitIInv, StepIInv, PTL DEF Spec

\* Neighbours never eat together, at a table of any size that grows and shrinks, unless a
\* removal cut into a section or joined two who were eating (test, removePhilosopher).
THEOREM NeighboursApart == Spec => []NeighboursNeverEat
    <1>1. IInv => NeighboursNeverEat
        BY DEF IInv, NeighboursNeverEat
    <1>. QED
        BY <1>1, Invariance, PTL

\* Whoever gets past semWait(semNames[i]) was found fit to eat, by one finding and one token
\* (test, take_forks).
THEOREM TokensAreMeals == Spec => []EatersWereServed
    <1>1. IInv => EatersWereServed
        <2>1. SUFFICES ASSUME TableInv, NEW i \in Seated
                       PROVE  /\ at[i] = "eat" => Eats(i) /\ fork[i] = 0
                              /\ fork[i] > 0 =>
                                     Eats(i) /\ at[i] \in {"unlock", "waitFork", "absent"}
            BY DEF IInv, EatersWereServed
        <2>2. i \in Id /\ fork[i] \in {-1, 0, 1} /\ state[i] \in {THINKING, HUNGRY, EATING}
            BY <2>1, SeatedAreIds DEF TableInv, Typed
        <2>. QED
            BY <2>1, <2>2 DEF TableInv, SeatInv, PlacesOf, Eats, THINKING, HUNGRY, EATING
    <1>. QED
        BY <1>1, Invariance, PTL

\* A philosopher sleeps for its forks only beside one who eats and will test it, unless phylo
\* removed that one or moved it away (take_forks, put_forks).
THEOREM SleepersHaveEaters == Spec => []WaitsForAnEater
    <1>1. IInv => WaitsForAnEater
        <2>1. SUFFICES ASSUME TableInv, HungryInv, mutex.value = 1, NEW i \in Seated,
                              at[i] = "waitFork", fork[i] = 0
                       PROVE  NeighbourEats(i)
            BY DEF IInv, WaitsForAnEater, NeighbourEats, Spared
        <2>2. i \in Id /\ state[i] \in {HUNGRY, EATING}
            BY <2>1, SeatedAreIds
               DEF TableInv, Typed, SeatInv, PlacesOf, THINKING, HUNGRY, EATING
        <2>3. state[i] # EATING
            <3>1. \A j \in Seated : at[j] \notin Serves
                BY <2>1, NobodyServes, SeatedAreIds DEF TableInv
            <3>. QED
                BY <2>1, <3>1 DEF TableInv, OwedInv, Eats
        <2>. QED
            BY <2>1, <2>2, <2>3, NobodyTests DEF HungryInv, Sleeps
    <1>. QED
        BY <1>1, Invariance, PTL
====
