---- MODULE SemaphoresProofs ----
(***************************************************************************)
(* Proofs about the semaphores, for every number of names and of processes *)
(* that fits a ring with a cell to spare (init never waits) and that       *)
(* nobody unblocks in semWait.  MutualExclusion follows from a count of    *)
(* tokens, kept in sets: a mutex has at most one carrier, a process that   *)
(* holds it or has been woken with it, and none while its value is 1.      *)
(***************************************************************************)
EXTENDS Semaphores, FiniteSetTheorems, TLAPS

----------------------------------------------------------------------------
(***************************************************************************)
(* What the operations on a ring of waiters do to what the ring holds, for *)
(* every capacity: Added puts a pid after the last entry, Popped takes     *)
(* the first, Without closes the hole of the entry it removes.  An entry   *)
(* is At(q, i) for i in 0 .. q.size - 1.                                   *)
(***************************************************************************)
At(q, i) == q.v[CellAt(q.readIndex, i)]
Entries(q) == 0 .. q.size - 1

\* A ring as the code leaves it: writeIndex is size cells after readIndex, a cell is free, and
\* the entries are processes, each of them once.
GoodRing(q) ==
    /\ q \in Ring
    /\ q.size < QUEUE_SIZE
    /\ q.writeIndex = CellAt(q.readIndex, q.size)
    /\ \A i \in Entries(q) : At(q, i) \in Pid
    /\ \A i, j \in Entries(q) : At(q, i) = At(q, j) => i = j

\* Indices wrap at most once.
LEMMA Wraps ==
    ASSUME NEW a \in Cell, NEW b \in 0 .. QUEUE_SIZE
    PROVE  /\ CellAt(a, b) \in Cell
           /\ CellAt(a, b) = IF a + b < QUEUE_SIZE THEN a + b ELSE a + b - QUEUE_SIZE
    <1>1. \A x \in Nat : x < QUEUE_SIZE => x % QUEUE_SIZE = x
        BY QueueSizeAssumption
    <1>2. \A x \in Nat : x >= QUEUE_SIZE /\ x < 2 * QUEUE_SIZE
                            => x % QUEUE_SIZE = x - QUEUE_SIZE
        BY QueueSizeAssumption
    <1>3. a + b \in Nat /\ a + b < 2 * QUEUE_SIZE
        BY QueueSizeAssumption DEF Cell
    <1>. QED BY <1>1, <1>2, <1>3, QueueSizeAssumption DEF CellAt, Cell

\* Different offsets below the capacity are different cells.
LEMMA CellsDiffer ==
    ASSUME NEW a \in Cell, NEW i \in 0 .. QUEUE_SIZE - 1, NEW j \in 0 .. QUEUE_SIZE - 1,
           CellAt(a, i) = CellAt(a, j)
    PROVE  i = j
    <1>1. i \in 0 .. QUEUE_SIZE /\ j \in 0 .. QUEUE_SIZE
        BY QueueSizeAssumption
    <1>2. /\ CellAt(a, i) = IF a + i < QUEUE_SIZE THEN a + i ELSE a + i - QUEUE_SIZE
          /\ CellAt(a, j) = IF a + j < QUEUE_SIZE THEN a + j ELSE a + j - QUEUE_SIZE
        BY <1>1, Wraps
    <1>3. \A k, l, n \in Int : \A b \in 0 .. n - 1 :
              /\ k \in 0 .. n - 1 /\ l \in 0 .. n - 1
              /\ (IF b + k < n THEN b + k ELSE b + k - n) = (IF b + l < n THEN b + l ELSE b + l - n)
              => k = l
        OBVIOUS
    <1>4. (IF a + i < QUEUE_SIZE THEN a + i ELSE a + i - QUEUE_SIZE)
              = (IF a + j < QUEUE_SIZE THEN a + j ELSE a + j - QUEUE_SIZE)
        BY <1>2, Zenon
    <1>5. QUEUE_SIZE \in Int /\ i \in Int /\ j \in Int /\ a \in 0 .. QUEUE_SIZE - 1
        BY QueueSizeAssumption DEF Cell
    <1>. QED BY <1>3, <1>4, <1>5

\* One cell on is one offset more, from wherever it is counted; one back is one less.
LEMMA CellsFollow ==
    ASSUME NEW a \in Cell, NEW i \in 0 .. QUEUE_SIZE - 1
    PROVE  /\ CellAt(CellAt(a, i), 1) = CellAt(a, i + 1)
           /\ CellAt(CellAt(a, 1), i) = CellAt(a, i + 1)
           /\ i > 0 => CellAt(CellAt(a, i), QUEUE_SIZE - 1) = CellAt(a, i - 1)
    <1>1. /\ i \in 0 .. QUEUE_SIZE /\ i + 1 \in 0 .. QUEUE_SIZE /\ 1 \in 0 .. QUEUE_SIZE
          /\ QUEUE_SIZE - 1 \in 0 .. QUEUE_SIZE
          /\ i > 0 => i - 1 \in 0 .. QUEUE_SIZE
        BY QueueSizeAssumption
    <1>2. /\ CellAt(a, i) \in Cell
          /\ CellAt(a, i) = IF a + i < QUEUE_SIZE THEN a + i ELSE a + i - QUEUE_SIZE
        BY <1>1, Wraps
    <1>3. /\ CellAt(a, 1) \in Cell
          /\ CellAt(a, 1) = IF a + 1 < QUEUE_SIZE THEN a + 1 ELSE a + 1 - QUEUE_SIZE
        BY <1>1, Wraps
    <1>4. CellAt(a, i + 1) =
              IF a + (i + 1) < QUEUE_SIZE THEN a + (i + 1) ELSE a + (i + 1) - QUEUE_SIZE
        BY <1>1, Wraps
    <1>5. CellAt(CellAt(a, i), 1) = CellAt(a, i + 1)
        <2>1. CellAt(CellAt(a, i), 1) = IF CellAt(a, i) + 1 < QUEUE_SIZE THEN CellAt(a, i) + 1
                                        ELSE CellAt(a, i) + 1 - QUEUE_SIZE
            BY <1>1, <1>2, Wraps
        <2>. QED BY <1>2, <1>4, <2>1, QueueSizeAssumption DEF Cell
    <1>6. CellAt(CellAt(a, 1), i) = CellAt(a, i + 1)
        <2>1. CellAt(CellAt(a, 1), i) = IF CellAt(a, 1) + i < QUEUE_SIZE THEN CellAt(a, 1) + i
                                        ELSE CellAt(a, 1) + i - QUEUE_SIZE
            BY <1>1, <1>3, Wraps
        <2>. QED BY <1>3, <1>4, <2>1, QueueSizeAssumption DEF Cell
    <1>7. ASSUME i > 0 PROVE CellAt(CellAt(a, i), QUEUE_SIZE - 1) = CellAt(a, i - 1)
        <2>1. CellAt(CellAt(a, i), QUEUE_SIZE - 1) =
                  IF CellAt(a, i) + (QUEUE_SIZE - 1) < QUEUE_SIZE
                  THEN CellAt(a, i) + (QUEUE_SIZE - 1)
                  ELSE CellAt(a, i) + (QUEUE_SIZE - 1) - QUEUE_SIZE
            BY <1>1, <1>2, Wraps
        <2>2. CellAt(a, i - 1) =
                  IF a + (i - 1) < QUEUE_SIZE THEN a + (i - 1) ELSE a + (i - 1) - QUEUE_SIZE
            BY <1>1, <1>7, Wraps
        <2>. QED BY <1>2, <1>7, <2>1, <2>2, QueueSizeAssumption DEF Cell
    <1>. QED BY <1>5, <1>6, <1>7

LEMMA Fields ==
    ASSUME NEW q, GoodRing(q)
    PROVE  /\ q = [v |-> q.v, readIndex |-> q.readIndex, writeIndex |-> q.writeIndex,
                   size |-> q.size]
           /\ q.v \in [Cell -> Pid \cup {NULL}]
           /\ q.readIndex \in Cell /\ q.writeIndex \in Cell
           /\ q.size \in 0 .. QUEUE_SIZE - 1
           /\ q.writeIndex = CellAt(q.readIndex, q.size)
           /\ \A i \in Entries(q) : i \in 0 .. QUEUE_SIZE - 1
    <1>1. q.size \in 0 .. QUEUE_SIZE - 1
        BY QueueSizeAssumption DEF GoodRing, Ring
    <1>. QED BY <1>1, QueueSizeAssumption DEF GoodRing, Ring, Entries

\* The fields of a ring after the operations at its ends.
LEMMA SizeExcept ==
    ASSUME NEW q \in Ring, NEW y \in Nat
    PROVE  [q EXCEPT !.size = y] = [v |-> q.v, readIndex |-> q.readIndex,
                                    writeIndex |-> q.writeIndex, size |-> y]
    BY DEF Ring

LEMMA FieldsPopped ==
    ASSUME NEW q \in Ring, CellAt(q.readIndex, 1) \in Cell, q.size > 0
    PROVE  Popped(q) = [v |-> q.v, readIndex |-> CellAt(q.readIndex, 1),
                        writeIndex |-> q.writeIndex, size |-> q.size - 1]
    <1>. DEFINE read == [q EXCEPT !.readIndex = CellAt(q.readIndex, 1)]
    <1>1. q.size - 1 \in Nat
        BY DEF Ring
    <1>2. /\ read \in Ring
          /\ read.v = q.v /\ read.readIndex = CellAt(q.readIndex, 1)
          /\ read.writeIndex = q.writeIndex
        BY DEF Ring
    <1>. HIDE DEF read
    <1>3. [read EXCEPT !.size = q.size - 1] =
              [v |-> q.v, readIndex |-> CellAt(q.readIndex, 1),
               writeIndex |-> q.writeIndex, size |-> q.size - 1]
        BY <1>1, <1>2, SizeExcept
    <1>. QED BY <1>3, Zenon DEF Popped, read

LEMMA WriteExcept ==
    ASSUME NEW q \in Ring, NEW cells \in [Cell -> Pid \cup {NULL}], NEW x \in Cell, NEW y \in Nat
    PROVE  [q EXCEPT !.v = cells, !.writeIndex = x, !.size = y] =
               [v |-> cells, readIndex |-> q.readIndex, writeIndex |-> x, size |-> y]
    <1>. DEFINE written == [q EXCEPT !.v = cells, !.writeIndex = x]
    <1>1. /\ written \in Ring
          /\ written.v = cells /\ written.readIndex = q.readIndex /\ written.writeIndex = x
        BY DEF Ring
    <1>. HIDE DEF written
    <1>2. [written EXCEPT !.size = y] =
              [v |-> cells, readIndex |-> q.readIndex, writeIndex |-> x, size |-> y]
        BY <1>1, SizeExcept
    <1>. QED BY <1>2, Zenon DEF written

LEMMA FieldsAdded ==
    ASSUME NEW q \in Ring, CellAt(q.writeIndex, 1) \in Cell, NEW p \in Pid
    PROVE  Added(q, p) = [v |-> [q.v EXCEPT ![q.writeIndex] = p], readIndex |-> q.readIndex,
                          writeIndex |-> CellAt(q.writeIndex, 1), size |-> q.size + 1]
    <1>1. [q.v EXCEPT ![q.writeIndex] = p] \in [Cell -> Pid \cup {NULL}] /\ q.size + 1 \in Nat
        BY DEF Ring
    <1>. QED BY <1>1, WriteExcept, Zenon DEF Added

LEMMA EmptyIsGood == GoodRing(EmptyRing) /\ EmptyRing.size = 0
    <1>1. 0 \in Cell /\ CellAt(0, 0) = 0
        BY QueueSizeAssumption, Wraps DEF Cell
    <1>2. EmptyRing \in Ring
        BY <1>1 DEF EmptyRing, Ring
    <1>. QED BY <1>1, <1>2, QueueSizeAssumption DEF GoodRing, EmptyRing, Entries

\* addToQueue: the new entry comes after the others.
LEMMA AddedAtEnd ==
    ASSUME NEW q, GoodRing(q), NEW p \in Pid
    PROVE  LET r == Added(q, p)
           IN  /\ r \in Ring
               /\ r.size = q.size + 1
               /\ r.writeIndex = CellAt(r.readIndex, r.size)
               /\ \A i \in Entries(q) : At(r, i) = At(q, i)
               /\ At(r, q.size) = p
    <1>. DEFINE r == Added(q, p)
    <1>2. CellAt(q.writeIndex, 1) \in Cell
        BY Fields, Wraps, QueueSizeAssumption
    <1>1. r = [v |-> [q.v EXCEPT ![q.writeIndex] = p], readIndex |-> q.readIndex,
               writeIndex |-> CellAt(q.writeIndex, 1), size |-> q.size + 1]
        BY <1>2, FieldsAdded DEF GoodRing
    <1>3. r \in Ring
        BY <1>1, <1>2, Fields, QueueSizeAssumption DEF Ring
    <1>4. CellAt(q.writeIndex, 1) = CellAt(q.readIndex, q.size + 1)
        BY Fields, CellsFollow
    <1>5. ASSUME NEW i \in Entries(q)
          PROVE  CellAt(q.readIndex, i) \in Cell /\ CellAt(q.readIndex, i) # q.writeIndex
        <2>1. i # q.size /\ i \in 0 .. QUEUE_SIZE
            BY Fields, QueueSizeAssumption DEF Entries
        <2>. QED BY <2>1, Fields, CellsDiffer, Wraps
    <1>6. \A i \in Entries(q) : At(r, i) = At(q, i)
        BY <1>1, <1>5, Fields DEF At
    <1>7. At(r, q.size) = p
        BY <1>1, Fields DEF At
    <1>. QED BY <1>1, <1>3, <1>4, <1>6, <1>7

\* popFromQueue: the other entries move up by one.
LEMMA PoppedFirst ==
    ASSUME NEW q, GoodRing(q), q.size > 0
    PROVE  LET r == Popped(q)
           IN  /\ GoodRing(r)
               /\ r.size = q.size - 1
               /\ \A i \in Entries(r) : At(r, i) = At(q, i + 1)
               /\ First(q) = At(q, 0) /\ First(q) \in Pid
    <1>. DEFINE r == Popped(q)
    <1>2. CellAt(q.readIndex, 1) \in Cell
        BY Fields, Wraps, QueueSizeAssumption
    <1>1. r = [v |-> q.v, readIndex |-> CellAt(q.readIndex, 1),
               writeIndex |-> q.writeIndex, size |-> q.size - 1]
        BY <1>2, FieldsPopped DEF GoodRing
    <1>3. r \in Ring
        BY <1>1, <1>2, Fields, QueueSizeAssumption DEF Ring
    <1>4. ASSUME NEW i \in 0 .. QUEUE_SIZE - 1
          PROVE  CellAt(r.readIndex, i) = CellAt(q.readIndex, i + 1)
        BY <1>1, Fields, CellsFollow
    <1>5. \A i \in Entries(r) : At(r, i) = At(q, i + 1) /\ i + 1 \in Entries(q)
        <2>. SUFFICES ASSUME NEW i \in Entries(r)
                      PROVE  At(r, i) = At(q, i + 1) /\ i + 1 \in Entries(q)
            OBVIOUS
        <2>1. i \in 0 .. QUEUE_SIZE - 1 /\ i + 1 \in Entries(q)
            BY <1>1, Fields, QueueSizeAssumption DEF Entries
        <2>. QED BY <1>1, <1>4, <2>1 DEF At
    <1>6. r.writeIndex = CellAt(r.readIndex, r.size)
        <2>1. r.size \in 0 .. QUEUE_SIZE - 1 /\ r.size + 1 = q.size
            BY <1>1, Fields, QueueSizeAssumption
        <2>. QED BY <1>1, <1>4, <2>1, Fields
    <1>7. First(q) = At(q, 0) /\ First(q) \in Pid
        <2>1. CellAt(q.readIndex, 0) = q.readIndex
            BY Fields, Wraps, QueueSizeAssumption DEF Cell
        <2>2. 0 \in Entries(q)
            BY Fields DEF Entries
        <2>. QED BY <2>1, <2>2 DEF First, At, GoodRing
    <1>8. GoodRing(r)
        <2>1. r.size < QUEUE_SIZE
            BY <1>1, Fields, QueueSizeAssumption
        <2>2. \A i \in Entries(r) : At(r, i) \in Pid
            BY <1>5 DEF GoodRing
        <2>3. \A i, j \in Entries(r) : At(r, i) = At(r, j) => i = j
            <3>. SUFFICES ASSUME NEW i \in Entries(r), NEW j \in Entries(r), At(r, i) = At(r, j)
                          PROVE  i = j
                OBVIOUS
            <3>1. i + 1 = j + 1
                BY <1>5 DEF GoodRing
            <3>2. i \in Int /\ j \in Int
                BY DEF Entries
            <3>. QED BY <3>1, <3>2
        <2>. QED BY <1>3, <1>6, <2>1, <2>2, <2>3 DEF GoodRing
    <1>. QED BY <1>1, <1>5, <1>7, <1>8
\* The shifting loop runs over the entries behind the hole, in a ring that is not full.
LEMMA ShiftsTheRest ==
    ASSUME NEW q, GoodRing(q), NEW j \in Entries(q)
    PROVE  Shifts(q, j) = q.size - j
    <1>1. \A x \in Nat : x < QUEUE_SIZE => x % QUEUE_SIZE = x
        BY QueueSizeAssumption
    <1>2. \A x \in Int : x < 0 /\ x >= -QUEUE_SIZE => x % QUEUE_SIZE = x + QUEUE_SIZE
        BY QueueSizeAssumption
    <1>. DEFINE a == q.readIndex
                w == q.writeIndex
                c == CellAt(a, j)
                n == q.size
    <1>3. /\ a \in Int /\ 0 <= a /\ a < QUEUE_SIZE
          /\ n \in Int /\ n < QUEUE_SIZE
          /\ j \in Int /\ 0 <= j /\ j < n
          /\ a \in Cell /\ j \in 0 .. QUEUE_SIZE /\ n \in 0 .. QUEUE_SIZE
        BY Fields, QueueSizeAssumption DEF Cell, Entries
    <1>4. c = IF a + j < QUEUE_SIZE THEN a + j ELSE a + j - QUEUE_SIZE
        BY <1>3, Wraps
    <1>5. w = IF a + n < QUEUE_SIZE THEN a + n ELSE a + n - QUEUE_SIZE
        BY <1>3, Wraps, Fields
    <1>6. Shifts(q, j) = (w - c) % QUEUE_SIZE
        BY DEF Shifts
    <1>. HIDE DEF a, w, c, n
    <1>7. (w - c) % QUEUE_SIZE = n - j
        <2>1. CASE w >= c
            <3>1. w - c = n - j /\ w - c \in Nat /\ w - c < QUEUE_SIZE
                BY <1>3, <1>4, <1>5, <2>1, QueueSizeAssumption
            <3>. QED BY <1>1, <3>1
        <2>2. CASE w < c
            <3>1. /\ w - c \in Int /\ w - c < 0 /\ w - c >= -QUEUE_SIZE
                  /\ w - c + QUEUE_SIZE = n - j
                BY <1>3, <1>4, <1>5, <2>2, QueueSizeAssumption
            <3>. QED BY <1>2, <3>1
        <2>3. w \in Int /\ c \in Int
            BY <1>3, <1>4, <1>5, QueueSizeAssumption
        <2>. QED BY <2>1, <2>2, <2>3
    <1>. QED BY <1>6, <1>7 DEF n

\* remove_process_from_queue: the entry of the process leaves, wherever it is, and no other; the
\* later ones move up.
LEMMA WithoutCloses ==
    ASSUME NEW q, GoodRing(q), NEW p \in Pid
    PROVE  LET r == Without(q, p)
           IN  /\ GoodRing(r)
               /\ \A i \in Entries(r) : At(r, i) # p /\ \E k \in Entries(q) : At(r, i) = At(q, k)
               /\ \/ r = q /\ \A i \in Entries(q) : At(q, i) # p
                  \/ \E j \in Entries(q) :
                        /\ At(q, j) = p /\ r.size = q.size - 1
                        /\ \A i \in Entries(r) : At(r, i) = At(q, IF i >= j THEN i + 1 ELSE i)
    <1>. DEFINE r == Without(q, p)
                found == {j \in 0 .. q.size - 1 :
                             /\ q.v[CellAt(q.readIndex, j)] = p
                             /\ \A i \in 0 .. j - 1 : q.v[CellAt(q.readIndex, i)] # p}
                Shifted(j) == {CellAt(q.readIndex, j + i) : i \in 0 .. Shifts(q, j) - 1}
                cells(j) == [c \in Cell |-> IF c \in Shifted(j) THEN q.v[CellAt(c, 1)] ELSE q.v[c]]
    <1>1. CASE found = {}
        <2>1. r = q
            BY <1>1 DEF Without
        <2>2. ASSUME NEW i \in Entries(q), At(q, i) = p PROVE FALSE
            <3>1. \A k \in 0 .. i - 1 : k \in Entries(q) /\ k # i
                BY Fields DEF Entries
            <3>2. \A k \in 0 .. i - 1 : At(q, k) # p
                BY <2>2, <3>1 DEF GoodRing
            <3>3. i \in found
                BY <2>2, <3>2 DEF At, Entries
            <3>. QED BY <1>1, <3>3
        <2>. QED BY <2>1, <2>2
    <1>2. CASE found # {}
        <2>. DEFINE j == CHOOSE k \in found : TRUE
        <2>1. j \in found
            BY <1>2, Zenon
        <2>2. j \in Entries(q) /\ At(q, j) = p
            BY <2>1 DEF Entries, At
        <2>3. r = [q EXCEPT !.v = cells(j), !.writeIndex = CellAt(@, QUEUE_SIZE - 1), !.size = @ - 1]
            BY <1>2, Zenon DEF Without
        <2>. HIDE DEF j, r, found
        <2>4. /\ j \in Int /\ 0 <= j /\ j < q.size /\ q.size \in 0 .. QUEUE_SIZE - 1
              /\ q.size - 1 \in Nat
            BY <2>2, Fields, QueueSizeAssumption DEF Entries
        <2>5. \A c \in Cell : CellAt(c, 1) \in Cell
            BY Wraps, QueueSizeAssumption
        <2>6. cells(j) \in [Cell -> Pid \cup {NULL}]
            BY <2>5, Fields
        <2>7. CellAt(q.writeIndex, QUEUE_SIZE - 1) = CellAt(q.readIndex, q.size - 1)
            BY <2>4, Fields, CellsFollow
        <2>8. CellAt(q.readIndex, q.size - 1) \in Cell
            <3>1. q.size - 1 \in 0 .. QUEUE_SIZE
                BY <2>4, QueueSizeAssumption
            <3>. QED BY <3>1, Fields, Wraps
        <2>9. r = [v |-> cells(j), readIndex |-> q.readIndex,
                   writeIndex |-> CellAt(q.readIndex, q.size - 1), size |-> q.size - 1]
            <3>1. q \in Ring
                BY DEF GoodRing
            <3>. HIDE DEF cells
            <3>2. [q EXCEPT !.v = cells(j), !.writeIndex = CellAt(q.readIndex, q.size - 1),
                            !.size = q.size - 1] =
                      [v |-> cells(j), readIndex |-> q.readIndex,
                       writeIndex |-> CellAt(q.readIndex, q.size - 1), size |-> q.size - 1]
                BY <2>4, <2>6, <2>8, <3>1, WriteExcept
            <3>. QED BY <2>3, <2>7, <3>2, Zenon
        <2>10. ASSUME NEW i \in Entries(r)
               PROVE  /\ i \in Int /\ i + 1 \in Entries(q) /\ i \in Entries(q) /\ i \in 0 .. QUEUE_SIZE - 1
                      /\ At(r, i) = At(q, IF i >= j THEN i + 1 ELSE i)
            <3>1. /\ i \in Int /\ i + 1 \in Entries(q) /\ i \in Entries(q)
                  /\ i \in 0 .. QUEUE_SIZE - 1 /\ i \in 0 .. QUEUE_SIZE
                BY <2>4, <2>9, QueueSizeAssumption DEF Entries
            <3>2. CellAt(q.readIndex, i) \in Cell
                BY <3>1, Fields, Wraps
            <3>3. At(r, i) = cells(j)[CellAt(q.readIndex, i)]
                BY <2>9 DEF At
            <3>4. At(r, i) = IF CellAt(q.readIndex, i) \in Shifted(j)
                             THEN q.v[CellAt(CellAt(q.readIndex, i), 1)]
                             ELSE q.v[CellAt(q.readIndex, i)]
                BY <3>2, <3>3
            <3>5. Shifts(q, j) = q.size - j
                BY <2>2, ShiftsTheRest
            <3>6. CASE i >= j
                <4>1. i - j \in 0 .. Shifts(q, j) - 1 /\ j + (i - j) = i
                    BY <2>4, <3>1, <3>5, <3>6 DEF Entries
                <4>2. CellAt(q.readIndex, i) \in Shifted(j)
                    BY <4>1
                <4>3. CellAt(CellAt(q.readIndex, i), 1) = CellAt(q.readIndex, i + 1)
                    BY <3>1, Fields, CellsFollow
                <4>. QED BY <3>1, <3>4, <3>6, <4>2, <4>3 DEF At
            <3>7. CASE ~(i >= j)
                <4>1. ASSUME NEW k \in 0 .. Shifts(q, j) - 1
                      PROVE  CellAt(q.readIndex, i) # CellAt(q.readIndex, j + k)
                    <5>1. j + k \in 0 .. QUEUE_SIZE - 1 /\ i # j + k
                        BY <2>4, <3>1, <3>5, <3>7, QueueSizeAssumption
                    <5>. QED BY <3>1, <5>1, Fields, CellsDiffer
                <4>2. CellAt(q.readIndex, i) \notin Shifted(j)
                    BY <4>1
                <4>. QED BY <3>1, <3>4, <3>7, <4>2 DEF At
            <3>. QED BY <3>1, <3>6, <3>7
        <2>11. ASSUME NEW i \in Entries(r), NEW k \in Entries(r), At(r, i) = At(r, k)
               PROVE  i = k
            <3>1. (IF i >= j THEN i + 1 ELSE i) = (IF k >= j THEN k + 1 ELSE k)
                BY <2>10, <2>11 DEF GoodRing
            <3>. QED BY <2>4, <2>10, <3>1
        <2>12. ASSUME NEW i \in Entries(r)
               PROVE  /\ At(r, i) # p /\ At(r, i) \in Pid
                      /\ \E k \in Entries(q) : At(r, i) = At(q, k)
            <3>. DEFINE k == IF i >= j THEN i + 1 ELSE i
            <3>1. k \in Entries(q) /\ At(r, i) = At(q, k) /\ k # j
                BY <2>4, <2>10
            <3>. HIDE DEF k
            <3>. QED BY <2>2, <3>1 DEF GoodRing
        <2>13. r \in Ring /\ r.size < QUEUE_SIZE /\ r.writeIndex = CellAt(r.readIndex, r.size)
            <3>. HIDE DEF cells
            <3>1. r \in Ring
                BY <2>4, <2>6, <2>8, <2>9, Fields DEF Ring
            <3>. QED BY <2>4, <2>9, <3>1, QueueSizeAssumption
        <2>14. GoodRing(r)
            BY <2>11, <2>12, <2>13 DEF GoodRing
        <2>15. r.size = q.size - 1
            BY <2>9
        <2>. QED BY <2>2, <2>10, <2>12, <2>14, <2>15 DEF r
    <1>. QED BY <1>1, <1>2

----------------------------------------------------------------------------
\* The inductive invariant

RoomInRings == IsFiniteSet(Pid) /\ Cardinality(Pid) < QUEUE_SIZE

TypeOK ==
    /\ used \subseteq Names
    /\ semaphores \in [Names -> Semaphore \cup {NULL}]
    /\ status \in [Pid -> {"ABSENT", "READY", "BLOCKED"}]
    /\ waits \in [Pid -> Names \cup {NULL}]
    /\ opened \in [Pid -> SUBSET Names]
    /\ holds \in [Pid -> SUBSET Names]

\* A process holds, and waits for, what it has opened; an empty slot waits for nothing.
ClientsOK ==
    \A p \in Pid : /\ holds[p] \subseteq opened[p]
                   /\ waits[p] # NULL => waits[p] \in opened[p]
                   /\ status[p] = "ABSENT" => waits[p] = NULL

\* Whoever is in a ring is blocked in semWait of that name.
RingOK(n) ==
    LET q == semaphores[n].queue
    IN  /\ GoodRing(q)
        /\ \A k \in Entries(q) : status[At(q, k)] = "BLOCKED" /\ waits[At(q, k)] = n
RingsOK == \A n \in Names : Exists(n) => RingOK(n)

Openers(n) == {p \in Pid : n \in opened[p]}

\* A token of a mutex is its value or has a carrier.
TokenOK(n) ==
    Exists(n) =>
        /\ semaphores[n].value <= 1
        /\ semaphores[n].value = 1 => \A p \in Pid : ~Carries(p, n)
        /\ \A p, q \in Pid : Carries(p, n) /\ Carries(q, n) => p = q
OneToken == \A n \in Mutexes : TokenOK(n)

IInv == TypeOK /\ ClientsOK /\ RingsOK /\ OpenersKeepIt /\ OneToken

----------------------------------------------------------------------------
\* Users are counted: the sets of openers

LEMMA OpenersFinite ==
    ASSUME RoomInRings, NEW n
    PROVE  IsFiniteSet(Openers(n)) /\ Cardinality(Openers(n)) \in Nat
    BY FS_Subset, FS_CardinalityType DEF RoomInRings, Openers

\* A name counts as kept when its openers are.
Kept(n) == Openers(n) # {} => Exists(n) /\ semaphores[n].using >= Cardinality(Openers(n))

LEMMA KeptIsKept == OpenersKeepIt <=> \A n \in Names : Kept(n)
    BY DEF OpenersKeepIt, Kept, Openers

\* Fewer openers of a semaphore that is still used as much are kept.
LEMMA KeptWithFewer ==
    ASSUME RoomInRings, TypeOK, NEW n \in Names, Kept(n), Openers(n)' \subseteq Openers(n),
           Exists(n) => Exists(n)' /\ semaphores'[n].using = semaphores[n].using
    PROVE  Kept(n)'
    <1>. SUFFICES ASSUME Openers(n)' # {}
                  PROVE  Exists(n)' /\ semaphores'[n].using >= Cardinality(Openers(n)')
        BY DEF Kept
    <1>1. Exists(n) /\ semaphores[n].using >= Cardinality(Openers(n))
        BY DEF Kept
    <1>2. /\ Cardinality(Openers(n)') <= Cardinality(Openers(n))
          /\ Cardinality(Openers(n)') \in Nat /\ Cardinality(Openers(n)) \in Nat
        BY OpenersFinite, FS_Subset, FS_CardinalityType
    <1>3. semaphores[n].using \in Nat
        BY <1>1 DEF TypeOK, Exists, Semaphore
    <1>. QED BY <1>1, <1>2, <1>3

LEMMA OpenKeeps ==
    ASSUME RoomInRings, IInv, NEW p \in Pid, NEW n \in Names, Open(p, n)
    PROVE  OpenersKeepIt'
    <1>1. \A m \in Names : Kept(m)
        BY KeptIsKept DEF IInv
    <1>2. /\ opened' = [opened EXCEPT ![p] = @ \cup {n}] /\ n \notin opened[p]
          /\ opened \in [Pid -> SUBSET Names]
          /\ semaphores \in [Names -> Semaphore \cup {NULL}]
        BY DEF Open, IInv, TypeOK
    <1>3. ASSUME NEW m \in Names, m # n PROVE Kept(m)'
        <2>1. Openers(m)' = Openers(m)
            BY <1>2, <1>3 DEF Openers
        <2>2. semaphores'[m] = semaphores[m]
            BY <1>2, <1>3 DEF Open
        <2>. QED BY <1>1, <2>1, <2>2 DEF Kept, Exists
    <1>4. Kept(n)'
        <2>1. Openers(n)' = Openers(n) \cup {p} /\ p \notin Openers(n)
            BY <1>2 DEF Openers
        <2>2. Cardinality(Openers(n)') = Cardinality(Openers(n)) + 1
            BY <2>1, OpenersFinite, FS_AddElement
        <2>3. CASE Exists(n)
            <3>. DEFINE s == IF semaphores[n] = NULL
                             THEN [value |-> InitialValue(n), using |-> 1, queue |-> EmptyRing]
                             ELSE AddUsers(semaphores[n], 1)
            <3>6. semaphores' = [semaphores EXCEPT ![n] = s]
                BY Zenon DEF Open
            <3>7. s = AddUsers(semaphores[n], 1)
                BY <2>3, Zenon DEF Exists
            <3>. HIDE DEF s
            <3>1. semaphores'[n] = AddUsers(semaphores[n], 1)
                BY <1>2, <3>6, <3>7
            <3>2. semaphores[n] \in Semaphore
                BY <1>2, <2>3 DEF Exists
            <3>3. semaphores'[n] \in Semaphore /\ semaphores'[n].using = semaphores[n].using + 1
                BY <3>1, <3>2 DEF Semaphore, AddUsers
            <3>4. Exists(n)'
                BY <3>3, NullIsNoSemaphore DEF Exists
            <3>5. semaphores[n].using >= Cardinality(Openers(n))
                <4>1. CASE Openers(n) = {}
                    BY <3>2, <4>1, FS_EmptySet DEF Semaphore
                <4>. QED BY <1>1, <4>1 DEF Kept
            <3>. QED BY <2>2, <3>2, <3>3, <3>4, <3>5, OpenersFinite DEF Kept, Semaphore
        <2>4. CASE ~Exists(n)
            <3>1. Cardinality(Openers(n)) = 0
                BY <1>1, <2>4, FS_EmptySet DEF Kept
            <3>2. semaphores'[n] = [value |-> InitialValue(n), using |-> 1, queue |-> EmptyRing]
                BY <1>2, <2>4 DEF Open, Exists
            <3>3. semaphores'[n] \in Semaphore /\ semaphores'[n].using = 1
                BY <3>2, EmptyIsGood DEF Semaphore, InitialValue, GoodRing
            <3>. QED BY <2>2, <3>1, <3>3, NullIsNoSemaphore DEF Kept, Exists
        <2>. QED BY <2>3, <2>4
    <1>5. \A m \in Names : Kept(m)'
        BY <1>3, <1>4
    <1>. QED BY <1>5 DEF OpenersKeepIt, Kept, Openers

LEMMA CloseKeeps ==
    ASSUME RoomInRings, IInv, NEW p \in Pid, NEW n \in Names, Close(p, n)
    PROVE  OpenersKeepIt'
    <1>1. \A m \in Names : Kept(m)
        BY KeptIsKept DEF IInv
    <1>2. /\ opened' = [opened EXCEPT ![p] = @ \ {n}] /\ n \in opened[p] /\ Exists(n)
          /\ opened \in [Pid -> SUBSET Names]
          /\ semaphores \in [Names -> Semaphore \cup {NULL}]
        BY DEF Close, IInv, TypeOK
    <1>3. ASSUME NEW m \in Names, m # n PROVE Kept(m)'
        <2>1. Openers(m)' = Openers(m)
            BY <1>2, <1>3 DEF Openers
        <2>2. semaphores'[m] = semaphores[m]
            BY <1>2, <1>3 DEF Close
        <2>. QED BY <1>1, <2>1, <2>2 DEF Kept, Exists
    <1>4. Kept(n)'
        <2>1. Openers(n)' = Openers(n) \ {p} /\ p \in Openers(n)
            BY <1>2 DEF Openers
        <2>2. /\ Cardinality(Openers(n)') = Cardinality(Openers(n)) - 1
              /\ IsFiniteSet(Openers(n)')
            BY <2>1, OpenersFinite, FS_RemoveElement
        <2>3. semaphores[n] \in Semaphore /\ semaphores[n].using >= Cardinality(Openers(n))
            BY <1>1, <1>2, <2>1 DEF Kept, Exists
        <2>4. CASE semaphores[n].using > 1
            <3>. DEFINE s == IF semaphores[n].using > 1 THEN AddUsers(semaphores[n], -1)
                             ELSE NULL
            <3>3. semaphores' = [semaphores EXCEPT ![n] = s]
                BY Zenon DEF Close
            <3>4. s = AddUsers(semaphores[n], -1)
                BY <2>4, Zenon
            <3>. HIDE DEF s
            <3>1. semaphores'[n] = AddUsers(semaphores[n], -1)
                BY <1>2, <3>3, <3>4
            <3>2. semaphores'[n] \in Semaphore /\ semaphores'[n].using = semaphores[n].using - 1
                BY <2>3, <2>4, <3>1 DEF Semaphore, AddUsers
            <3>. QED BY <2>2, <2>3, <3>2, NullIsNoSemaphore, OpenersFinite DEF Kept, Exists, Semaphore
        <2>5. CASE ~(semaphores[n].using > 1)
            <3>1. Cardinality(Openers(n)') = 0
                BY <2>2, <2>3, <2>5, OpenersFinite, FS_CardinalityType DEF Semaphore
            <3>2. Openers(n)' = {}
                BY <2>2, <3>1, FS_EmptySet
            <3>. QED BY <3>2 DEF Kept
        <2>. QED BY <2>4, <2>5
    <1>5. \A m \in Names : Kept(m)'
        BY <1>3, <1>4
    <1>. QED BY <1>5 DEF OpenersKeepIt, Kept, Openers

\* All other steps leave the use counts alone and open nothing.
LEMMA OthersKeep ==
    ASSUME RoomInRings, IInv,
           \A n \in Names : /\ Openers(n)' \subseteq Openers(n)
                            /\ Exists(n) => Exists(n)' /\ semaphores'[n].using = semaphores[n].using
    PROVE  OpenersKeepIt'
    <1>1. \A m \in Names : Kept(m)'
        BY KeptIsKept, KeptWithFewer DEF IInv
    <1>. QED BY <1>1 DEF OpenersKeepIt, Kept, Openers
----------------------------------------------------------------------------
\* What steps that leave a semaphore alone leave true

LEMMA SemaphoreFields ==
    ASSUME NEW s \in Semaphore
    PROVE  /\ \A d \in Int : s.value + d >= 0 =>
                  /\ AddTokens(s, d) \in Semaphore
                  /\ AddTokens(s, d).value = s.value + d
                  /\ AddTokens(s, d).using = s.using /\ AddTokens(s, d).queue = s.queue
           /\ \A d \in Int : s.using + d >= 0 =>
                  /\ AddUsers(s, d) \in Semaphore
                  /\ AddUsers(s, d).value = s.value /\ AddUsers(s, d).queue = s.queue
           /\ \A q \in Ring :
                  /\ WithQueue(s, q) \in Semaphore
                  /\ WithQueue(s, q).value = s.value
                  /\ WithQueue(s, q).using = s.using /\ WithQueue(s, q).queue = q
    BY DEF Semaphore, AddTokens, AddUsers, WithQueue

LEMMA Exist ==
    ASSUME TypeOK, NEW n \in Names, Exists(n)
    PROVE  semaphores[n] \in Semaphore /\ semaphores[n].value \in Nat
           /\ semaphores[n].using \in Nat
    BY DEF TypeOK, Exists, Semaphore

LEMMA RingStays ==
    ASSUME NEW n \in Names, RingOK(n), semaphores'[n].queue = semaphores[n].queue,
           \A p \in Pid : status[p] = "BLOCKED" /\ waits[p] = n
                            => status'[p] = "BLOCKED" /\ waits'[p] = n
    PROVE  RingOK(n)'
    <1>. DEFINE q == semaphores[n].queue
    <1>1. /\ GoodRing(q)
          /\ \A k \in Entries(q) : status[At(q, k)] = "BLOCKED" /\ waits[At(q, k)] = n
        BY DEF RingOK
    <1>2. \A k \in Entries(q) : At(q, k) \in Pid
        BY <1>1 DEF GoodRing
    <1>3. \A k \in Entries(q) : status'[At(q, k)] = "BLOCKED" /\ waits'[At(q, k)] = n
        BY <1>1, <1>2
    <1>. QED BY <1>1, <1>3 DEF RingOK

LEMMA TokenStays ==
    ASSUME NEW n, TokenOK(n),
           Exists(n)' => Exists(n) /\ semaphores'[n].value = semaphores[n].value,
           \A p \in Pid : Carries(p, n)' => Carries(p, n)
    PROVE  TokenOK(n)'
    BY DEF TokenOK

LEMMA Opened ==
    ASSUME IInv, NEW p \in Pid, NEW n \in Names, n \in opened[p]
    PROVE  Exists(n)
    BY DEF IInv, OpenersKeepIt

LEMMA CarriersOpened ==
    ASSUME IInv, NEW p \in Pid, NEW n \in Names, Carries(p, n)
    PROVE  n \in opened[p] /\ Exists(n)
    <1>1. n # NULL
        BY NamesAssumption DEF Names
    <1>2. n \in opened[p]
        BY <1>1 DEF IInv, ClientsOK, Carries
    <1>. QED BY <1>2, Opened

----------------------------------------------------------------------------
\* The actions

LEMMA OpenStep ==
    ASSUME RoomInRings, IInv, NEW p \in Pid, NEW n \in Names, Open(p, n), UNCHANGED used
    PROVE  IInv'
    <1>. USE DEF IInv
    <1>1. OpenersKeepIt'
        BY OpenKeeps
    <1>2. /\ opened' = [opened EXCEPT ![p] = @ \cup {n}]
          /\ status' = status /\ waits' = waits /\ holds' = holds
        BY DEF Open
    <1>. DEFINE s == IF semaphores[n] = NULL
                     THEN [value |-> InitialValue(n), using |-> 1, queue |-> EmptyRing]
                     ELSE AddUsers(semaphores[n], 1)
    <1>3. semaphores' = [semaphores EXCEPT ![n] = s]
        BY Zenon DEF Open
    <1>4. CASE Exists(n)
        <2>1. s = AddUsers(semaphores[n], 1)
            BY <1>4, Zenon DEF Exists
        <2>2. /\ s \in Semaphore /\ s.value = semaphores[n].value
              /\ s.queue = semaphores[n].queue
            BY <1>4, <2>1, Exist, SemaphoreFields
        <2>. HIDE DEF s
        <2>3. /\ semaphores' \in [Names -> Semaphore \cup {NULL}]
              /\ semaphores'[n] = s
              /\ \A m \in Names : m # n => semaphores'[m] = semaphores[m]
            BY <1>3, <2>2 DEF TypeOK
        <2>4. \A m \in Names : Exists(m)' => /\ Exists(m) /\ semaphores'[m].value = semaphores[m].value
                                            /\ semaphores'[m].queue = semaphores[m].queue
            BY <1>4, <2>2, <2>3 DEF Exists
        <2>5. RingsOK'
            BY <1>2, <2>4, RingStays DEF RingsOK
        <2>6. OneToken'
            BY <1>2, <2>4, TokenStays DEF OneToken, Carries, Runs, Names
        <2>. QED BY <1>1, <1>2, <2>3, <2>5, <2>6 DEF TypeOK, ClientsOK
    <1>5. CASE ~Exists(n)
        <2>1. s = [value |-> InitialValue(n), using |-> 1, queue |-> EmptyRing]
            BY <1>5, Zenon DEF Exists
        <2>2. s \in Semaphore /\ s.value = InitialValue(n) /\ s.queue = EmptyRing
            BY <2>1, EmptyIsGood DEF Semaphore, InitialValue, GoodRing
        <2>. HIDE DEF s
        <2>3. /\ semaphores' \in [Names -> Semaphore \cup {NULL}]
              /\ semaphores'[n] = s
              /\ \A m \in Names : m # n => semaphores'[m] = semaphores[m]
            BY <1>3, <2>2 DEF TypeOK
        <2>4. ASSUME NEW m \in Names, Exists(m)' PROVE RingOK(m)'
            <3>1. CASE m = n
                <4>1. semaphores'[m].queue = EmptyRing
                    BY <2>2, <2>3, <3>1
                <4>2. Entries(EmptyRing) = {}
                    BY EmptyIsGood DEF Entries
                <4>. QED BY <4>1, <4>2, EmptyIsGood DEF RingOK
            <3>2. CASE m # n
                <4>1. Exists(m) /\ semaphores'[m].queue = semaphores[m].queue
                    BY <2>3, <2>4, <3>2 DEF Exists
                <4>. QED BY <1>2, <4>1, RingStays DEF RingsOK
            <3>. QED BY <3>1, <3>2
        <2>5. ASSUME NEW m \in Mutexes PROVE TokenOK(m)'
            <3>1. CASE m = n
                <4>1. semaphores'[m].value = 1
                    BY <2>2, <2>3, <3>1 DEF InitialValue
                <4>2. \A q \in Pid : ~Carries(q, m)
                    BY <1>5, <3>1, CarriersOpened
                <4>3. \A q \in Pid : ~Carries(q, m)'
                    BY <1>2, <4>2 DEF Carries, Runs
                <4>. QED BY <4>1, <4>3 DEF TokenOK
            <3>2. CASE m # n
                <4>1. Exists(m)' => Exists(m) /\ semaphores'[m].value = semaphores[m].value
                    BY <2>3, <3>2 DEF Exists, Names
                <4>. QED BY <1>2, <4>1, TokenStays DEF OneToken, Carries, Runs
            <3>. QED BY <3>1, <3>2
        <2>. QED BY <1>1, <1>2, <2>3, <2>4, <2>5 DEF TypeOK, ClientsOK, RingsOK, OneToken
    <1>. QED BY <1>4, <1>5

LEMMA CloseStep ==
    ASSUME RoomInRings, IInv, NEW p \in Pid, NEW n \in Names, Close(p, n), UNCHANGED used
    PROVE  IInv'
    <1>. USE DEF IInv
    <1>1. OpenersKeepIt'
        BY CloseKeeps
    <1>2. /\ opened' = [opened EXCEPT ![p] = @ \ {n}] /\ n \notin holds[p] /\ Exists(n)
          /\ status' = status /\ waits' = waits /\ holds' = holds /\ waits[p] = NULL
        BY DEF Close, RunsUserCode
    <1>. DEFINE s == IF semaphores[n].using > 1 THEN AddUsers(semaphores[n], -1) ELSE NULL
    <1>3. semaphores' = [semaphores EXCEPT ![n] = s]
        BY Zenon DEF Close
    <1>4. s # NULL => s.value = semaphores[n].value /\ s.queue = semaphores[n].queue
        BY <1>2, Exist, SemaphoreFields
    <1>5. s \in Semaphore \cup {NULL}
        BY <1>2, Exist, SemaphoreFields
    <1>. HIDE DEF s
    <1>6. /\ semaphores' \in [Names -> Semaphore \cup {NULL}]
          /\ semaphores'[n] = s
          /\ \A m \in Names : m # n => semaphores'[m] = semaphores[m]
        BY <1>3, <1>5 DEF TypeOK
    <1>7. \A m \in Names : Exists(m)' => /\ Exists(m) /\ semaphores'[m].value = semaphores[m].value
                                        /\ semaphores'[m].queue = semaphores[m].queue
        BY <1>2, <1>4, <1>5, <1>6 DEF Exists
    <1>8. RingsOK'
        BY <1>2, <1>7, RingStays DEF RingsOK
    <1>9. OneToken'
        BY <1>2, <1>7, TokenStays DEF OneToken, Carries, Runs, Names
    <1>10. ClientsOK'
        BY <1>2 DEF ClientsOK, TypeOK
    <1>. QED BY <1>1, <1>2, <1>6, <1>8, <1>9, <1>10 DEF TypeOK
\* Pigeonhole: a ring whose entries are different processes has a cell to spare.
LEMMA NeverFull ==
    ASSUME RoomInRings, NEW q, q.size \in Nat,
           \A i \in Entries(q) : At(q, i) \in Pid,
           \A i, j \in Entries(q) : At(q, i) = At(q, j) => i = j
    PROVE  q.size < QUEUE_SIZE
    <1>. DEFINE f == [i \in Entries(q) |-> At(q, i)]
    <1>1. f \in [Entries(q) -> Pid]
        OBVIOUS
    <1>2. IsFiniteSet(Entries(q)) /\ Cardinality(Entries(q)) = q.size
        <2>1. /\ IsFiniteSet(0 .. q.size - 1)
              /\ Cardinality(0 .. q.size - 1) = IF 0 > q.size - 1 THEN 0 ELSE q.size - 1 - 0 + 1
            BY SMTT(40), FS_Interval
        <2>. QED BY <2>1 DEF Entries
    <1>3. ~ \E x, y \in Entries(q) : x # y /\ f[x] = f[y]
        OBVIOUS
    <1>. HIDE DEF f
    <1>4. ~(Cardinality(Pid) < Cardinality(Entries(q)))
        BY <1>1, <1>2, <1>3, FS_PigeonHole DEF RoomInRings
    <1>5. Cardinality(Pid) \in Nat
        BY FS_CardinalityType DEF RoomInRings
    <1>. QED BY <1>2, <1>4, <1>5, QueueSizeAssumption DEF RoomInRings

LEMMA WaitAtOnceStep ==
    ASSUME RoomInRings, IInv, NEW p \in Pid, NEW n \in Names, WaitReturnsAtOnce(p, n),
           UNCHANGED used
    PROVE  IInv'
    <1>. USE DEF IInv
    <1>1. /\ n \in opened[p] /\ status[p] = "READY" /\ waits[p] = NULL /\ Exists(n)
          /\ status' = status /\ waits' = waits /\ opened' = opened
          /\ holds' = [holds EXCEPT ![p] = IF n \in Mutexes THEN @ \cup {n} ELSE @]
        BY Opened DEF WaitReturnsAtOnce, RunsUserCode, Runs, Enters
    <1>2. ~IsFull(semaphores[n].queue)
        <2>1. semaphores[n].queue.size < QUEUE_SIZE /\ semaphores[n].queue.size \in Nat
            BY <1>1 DEF RingsOK, RingOK, GoodRing, Ring
        <2>. QED BY <2>1, QueueSizeAssumption DEF IsFull
    <1>3. semaphores[n].value > 0 /\ semaphores[n].value \in Nat
        BY <1>1, <1>2, Exist DEF WaitReturnsAtOnce
    <1>. DEFINE s == AddTokens(semaphores[n], -1)
    <1>4. semaphores' = [semaphores EXCEPT ![n] = s]
        <2>1. semaphores' = [semaphores EXCEPT ![n] =
                  IF semaphores[n] = NULL \/ semaphores[n].value <= 0 THEN semaphores[n] ELSE s]
            BY Zenon DEF WaitReturnsAtOnce
        <2>2. ~(semaphores[n] = NULL \/ semaphores[n].value <= 0)
            BY <1>1, <1>3 DEF Exists
        <2>. QED BY <2>1, <2>2, Zenon
    <1>5. /\ s \in Semaphore /\ s.value = semaphores[n].value - 1
          /\ s.queue = semaphores[n].queue /\ s.using = semaphores[n].using
        BY <1>1, <1>3, Exist, SemaphoreFields
    <1>. HIDE DEF s
    <1>6. /\ semaphores' \in [Names -> Semaphore \cup {NULL}]
          /\ semaphores'[n] = s
          /\ \A m \in Names : m # n => semaphores'[m] = semaphores[m]
        BY <1>4, <1>5 DEF TypeOK
    <1>7. \A m \in Names : /\ Exists(m)' <=> Exists(m)
                           /\ Exists(m) => /\ semaphores'[m].queue = semaphores[m].queue
                                           /\ semaphores'[m].using = semaphores[m].using
        BY <1>1, <1>5, <1>6, NullIsNoSemaphore DEF Exists
    <1>8. OpenersKeepIt'
        BY <1>1, <1>7, OthersKeep DEF Openers
    <1>9. RingsOK'
        BY <1>1, <1>7, RingStays DEF RingsOK
    <1>10. ASSUME NEW m \in Mutexes PROVE TokenOK(m)'
        <2>1. m \in Names /\ TokenOK(m)
            BY DEF Names, OneToken
        <2>2. CASE m = n
            <3>1. semaphores[m].value = 1 /\ semaphores'[m].value = 0
                BY <1>1, <1>3, <1>5, <1>6, <2>1, <2>2 DEF TokenOK
            <3>2. \A q \in Pid : ~Carries(q, m)
                BY <1>1, <2>1, <2>2, <3>1 DEF TokenOK
            <3>3. \A q \in Pid : Carries(q, m)' => q = p
                BY <1>1, <3>2 DEF Carries, Runs, TypeOK
            <3>. QED BY <3>1, <3>3 DEF TokenOK
        <2>3. CASE m # n
            <3>1. \A q \in Pid : Carries(q, m)' => Carries(q, m)
                BY <1>1, <2>3 DEF Carries, Runs, TypeOK
            <3>. QED BY <1>6, <1>7, <2>1, <2>3, <3>1, TokenStays
        <2>. QED BY <2>2, <2>3
    <1>11. ClientsOK'
        BY <1>1 DEF ClientsOK, TypeOK
    <1>12. holds' \in [Pid -> SUBSET Names]
        BY <1>1 DEF TypeOK
    <1>. QED BY <1>1, <1>6, <1>8, <1>9, <1>10, <1>11, <1>12 DEF TypeOK, OneToken

LEMMA WaitBlocksStep ==
    ASSUME RoomInRings, IInv, NEW p \in Pid, NEW n \in Names, WaitBlocks(p, n), UNCHANGED used
    PROVE  IInv'
    <1>. USE DEF IInv
    <1>1. /\ n \in opened[p] /\ status[p] = "READY" /\ waits[p] = NULL /\ Exists(n)
          /\ status' = [status EXCEPT ![p] = "BLOCKED"] /\ waits' = [waits EXCEPT ![p] = n]
          /\ opened' = opened /\ holds' = holds
        BY DEF WaitBlocks, RunsUserCode, Runs
    <1>. DEFINE q == semaphores[n].queue
                r == Added(q, p)
                s == WithQueue(semaphores[n], r)
    <1>2. semaphores' = [semaphores EXCEPT ![n] = s]
        BY Zenon DEF WaitBlocks
    <1>3. /\ GoodRing(q)
          /\ \A k \in Entries(q) : status[At(q, k)] = "BLOCKED" /\ waits[At(q, k)] = n
          /\ \A k \in Entries(q) : At(q, k) \in Pid
        BY <1>1 DEF RingsOK, RingOK, GoodRing
    <1>4. /\ r \in Ring /\ r.size = q.size + 1 /\ q.size \in Nat
          /\ r.writeIndex = CellAt(r.readIndex, r.size)
          /\ \A i \in Entries(q) : At(r, i) = At(q, i)
          /\ At(r, q.size) = p
        BY <1>3, AddedAtEnd DEF GoodRing, Ring
    <1>5. /\ s \in Semaphore /\ s.value = semaphores[n].value
          /\ s.using = semaphores[n].using /\ s.queue = r
        BY <1>1, <1>4, Exist, SemaphoreFields
    <1>. HIDE DEF q, r, s
    <1>6. \A i \in Entries(r) : i \in Entries(q) \/ i = q.size
        BY <1>4 DEF Entries
    <1>7. \A k \in Entries(q) : At(q, k) # p
        BY <1>1, <1>3
    <1>8. /\ \A i \in Entries(r) : At(r, i) \in Pid
          /\ \A i, j \in Entries(r) : At(r, i) = At(r, j) => i = j
        BY <1>3, <1>4, <1>6, <1>7 DEF GoodRing
    <1>9. r.size < QUEUE_SIZE
        BY <1>4, <1>8, NeverFull
    <1>10. /\ semaphores' \in [Names -> Semaphore \cup {NULL}]
           /\ semaphores'[n] = s
           /\ \A m \in Names : m # n => semaphores'[m] = semaphores[m]
        BY <1>2, <1>5 DEF TypeOK
    <1>11. \A m \in Names : /\ Exists(m)' <=> Exists(m)
                            /\ Exists(m) => /\ semaphores'[m].value = semaphores[m].value
                                            /\ semaphores'[m].using = semaphores[m].using
        BY <1>1, <1>5, <1>10, NullIsNoSemaphore DEF Exists
    <1>12. OpenersKeepIt'
        BY <1>1, <1>11, OthersKeep DEF Openers
    <1>13. ASSUME NEW m \in Names, Exists(m)' PROVE RingOK(m)'
        <2>1. CASE m = n
            <3>1. semaphores'[m].queue = r /\ GoodRing(r)
                BY <1>4, <1>5, <1>8, <1>9, <1>10, <2>1 DEF GoodRing
            <3>2. \A k \in Entries(r) : status'[At(r, k)] = "BLOCKED" /\ waits'[At(r, k)] = n
                BY <1>1, <1>3, <1>4, <1>6 DEF TypeOK
            <3>. QED BY <2>1, <3>1, <3>2 DEF RingOK
        <2>2. CASE m # n
            <3>1. Exists(m) /\ semaphores'[m].queue = semaphores[m].queue
                BY <1>10, <1>11, <1>13, <2>2
            <3>2. \A o \in Pid : status[o] = "BLOCKED" /\ waits[o] = m
                                 => status'[o] = "BLOCKED" /\ waits'[o] = m
                BY <1>1 DEF TypeOK
            <3>. QED BY <3>1, <3>2, RingStays DEF RingsOK
        <2>. QED BY <2>1, <2>2
    <1>14. \A m \in Names, o \in Pid : Carries(o, m)' => Carries(o, m)
        BY <1>1 DEF Carries, Runs, TypeOK
    <1>15. OneToken'
        BY <1>11, <1>14, TokenStays DEF OneToken, Names
    <1>16. ClientsOK'
        BY <1>1 DEF ClientsOK, TypeOK
    <1>. QED BY <1>1, <1>10, <1>12, <1>13, <1>15, <1>16 DEF TypeOK, RingsOK

LEMMA WaitResumesStep ==
    ASSUME RoomInRings, IInv, NEW p \in Pid, WaitResumes(p), UNCHANGED used
    PROVE  IInv'
    <1>. USE DEF IInv
    <1>1. /\ status[p] = "READY" /\ waits[p] \in Names /\ waits[p] \in opened[p]
          /\ holds' = [holds EXCEPT ![p] = IF waits[p] \in Mutexes THEN @ \cup {waits[p]} ELSE @]
          /\ waits' = [waits EXCEPT ![p] = NULL]
          /\ semaphores' = semaphores /\ status' = status /\ opened' = opened
        BY DEF WaitResumes, Runs, Enters, TypeOK, ClientsOK
    <1>2. OpenersKeepIt'
        BY <1>1 DEF OpenersKeepIt, Exists
    <1>3. \A m \in Names, o \in Pid : status[o] = "BLOCKED" /\ waits[o] = m
                                     => status'[o] = "BLOCKED" /\ waits'[o] = m
        BY <1>1 DEF TypeOK
    <1>4. RingsOK'
        BY <1>1, <1>3, RingStays DEF RingsOK, Exists
    <1>5. \A m \in Names, o \in Pid : Carries(o, m)' => Carries(o, m)
        <2>1. \A m \in Names : m # NULL
            BY NamesAssumption DEF Names
        <2>. QED BY <1>1, <2>1 DEF Carries, Runs, TypeOK
    <1>6. OneToken'
        BY <1>1, <1>5, TokenStays DEF OneToken, Names, Exists
    <1>7. ClientsOK'
        BY <1>1 DEF ClientsOK, TypeOK
    <1>8. holds' \in [Pid -> SUBSET Names] /\ waits' \in [Pid -> Names \cup {NULL}]
        BY <1>1 DEF TypeOK
    <1>. QED BY <1>1, <1>2, <1>4, <1>6, <1>7, <1>8 DEF TypeOK
\* semPost keeps a token, or wakes one process that waits for it and nobody else.
LEMMA PostDoes ==
    ASSUME IInv, NEW n \in Names, Exists(n), SemPost(n), waits' = waits
    PROVE  /\ semaphores' \in [Names -> Semaphore \cup {NULL}]
           /\ \A m \in Names : /\ Exists(m)' <=> Exists(m)
                               /\ Exists(m) => semaphores'[m].using = semaphores[m].using
                               /\ m # n => semaphores'[m] = semaphores[m]
           /\ RingsOK'
           /\ \/ /\ semaphores'[n].value = semaphores[n].value
                 /\ \E w \in Pid : /\ status[w] = "BLOCKED" /\ waits[w] = n
                                   /\ status' = [status EXCEPT ![w] = "READY"]
              \/ semaphores'[n].value = semaphores[n].value + 1 /\ status' = status
    <1>. USE DEF IInv
    <1>. DEFINE q == semaphores[n].queue
    <1>1. /\ GoodRing(q) /\ q.size \in Nat
          /\ \A k \in Entries(q) : status[At(q, k)] = "BLOCKED" /\ waits[At(q, k)] = n
        BY DEF RingsOK, RingOK, GoodRing, Ring
    <1>2. CASE q.size > 0
        <2>. DEFINE s == WithQueue(semaphores[n], Popped(q))
                    w == First(q)
        <2>1. semaphores' = [semaphores EXCEPT ![n] = s] /\ status' = Woken(w)
            BY <1>2, Zenon DEF SemPost
        <2>2. /\ GoodRing(Popped(q)) /\ Popped(q).size = q.size - 1
              /\ \A i \in Entries(Popped(q)) : At(Popped(q), i) = At(q, i + 1)
              /\ w = At(q, 0) /\ w \in Pid /\ Popped(q) \in Ring
            BY <1>1, <1>2, PoppedFirst DEF GoodRing
        <2>3. /\ s \in Semaphore /\ s.value = semaphores[n].value
              /\ s.using = semaphores[n].using /\ s.queue = Popped(q)
            BY <2>2, Exist, SemaphoreFields
        <2>4. 0 \in Entries(q)
            BY <1>1, <1>2 DEF Entries
        <2>5. status[w] = "BLOCKED" /\ waits[w] = n
            BY <1>1, <2>2, <2>4
        <2>6. \A i \in Entries(Popped(q)) : i + 1 \in Entries(q) /\ i + 1 # 0
            BY <1>1, <2>2 DEF Entries
        <2>7. \A i \in Entries(Popped(q)) : /\ At(q, i + 1) # w
                                            /\ At(q, i + 1) \in Pid
            BY <1>1, <2>2, <2>4, <2>6 DEF GoodRing
        <2>. HIDE DEF s, w, q
        <2>8. status' = [status EXCEPT ![w] = "READY"]
            BY <2>1, <2>5 DEF Woken
        <2>9. /\ semaphores' \in [Names -> Semaphore \cup {NULL}]
              /\ semaphores'[n] = s
              /\ \A m \in Names : m # n => semaphores'[m] = semaphores[m]
            BY <2>1, <2>3 DEF TypeOK
        <2>10. \A m \in Names : /\ Exists(m)' <=> Exists(m)
                                /\ Exists(m) => semaphores'[m].using = semaphores[m].using
            BY <2>3, <2>9, NullIsNoSemaphore DEF Exists
        <2>11. ASSUME NEW m \in Names, Exists(m)' PROVE RingOK(m)'
            <3>1. CASE m = n
                <4>1. semaphores'[m].queue = Popped(q)
                    BY <2>3, <2>9, <3>1
                <4>2. \A k \in Entries(Popped(q)) : /\ status'[At(Popped(q), k)] = "BLOCKED"
                                                    /\ waits'[At(Popped(q), k)] = n
                    BY <1>1, <2>2, <2>6, <2>7, <2>8 DEF TypeOK
                <4>. QED BY <2>2, <3>1, <4>1, <4>2 DEF RingOK
            <3>2. CASE m # n
                <4>1. Exists(m) /\ semaphores'[m].queue = semaphores[m].queue
                    BY <2>9, <2>10, <2>11, <3>2
                <4>2. \A o \in Pid : status[o] = "BLOCKED" /\ waits[o] = m
                                     => status'[o] = "BLOCKED" /\ waits'[o] = m
                    BY <2>2, <2>5, <2>8, <3>2 DEF TypeOK
                <4>. QED BY <4>1, <4>2, RingStays DEF RingsOK
            <3>. QED BY <3>1, <3>2
        <2>. QED BY <2>2, <2>3, <2>5, <2>8, <2>9, <2>10, <2>11 DEF RingsOK
    <1>3. CASE ~(q.size > 0)
        <2>. DEFINE s == AddTokens(semaphores[n], 1)
        <2>1. semaphores' = [semaphores EXCEPT ![n] = s] /\ status' = status
            BY <1>3, Zenon DEF SemPost
        <2>2. /\ s \in Semaphore /\ s.value = semaphores[n].value + 1
              /\ s.using = semaphores[n].using /\ s.queue = semaphores[n].queue
            BY Exist, SemaphoreFields
        <2>. HIDE DEF s, q
        <2>3. /\ semaphores' \in [Names -> Semaphore \cup {NULL}]
              /\ semaphores'[n] = s
              /\ \A m \in Names : m # n => semaphores'[m] = semaphores[m]
            BY <2>1, <2>2 DEF TypeOK
        <2>4. \A m \in Names : /\ Exists(m)' <=> Exists(m)
                               /\ Exists(m) => /\ semaphores'[m].using = semaphores[m].using
                                               /\ semaphores'[m].queue = semaphores[m].queue
            BY <2>2, <2>3, NullIsNoSemaphore DEF Exists
        <2>5. RingsOK'
            BY <2>1, <2>4, RingStays DEF RingsOK
        <2>. QED BY <2>1, <2>2, <2>3, <2>4, <2>5
    <1>. QED BY <1>2, <1>3

LEMMA ReleaseStep ==
    ASSUME RoomInRings, IInv, NEW p \in Pid, NEW n \in Names, Release(p, n), UNCHANGED used
    PROVE  IInv'
    <1>. USE DEF IInv
    <1>1. /\ n \in holds[p] /\ status[p] = "READY" /\ waits[p] = NULL
          /\ holds' = [holds EXCEPT ![p] = @ \ {n}]
          /\ waits' = waits /\ opened' = opened
        BY DEF Release, RunsUserCode, Runs
    <1>2. Exists(n) /\ SemPost(n)
        <2>1. n \in opened[p]
            BY <1>1 DEF ClientsOK
        <2>2. Exists(n)
            BY <2>1, Opened
        <2>. QED BY <2>2 DEF Release
    <1>3. /\ semaphores' \in [Names -> Semaphore \cup {NULL}]
          /\ \A m \in Names : /\ Exists(m)' <=> Exists(m)
                              /\ Exists(m) => semaphores'[m].using = semaphores[m].using
                              /\ m # n => semaphores'[m] = semaphores[m]
          /\ RingsOK'
          /\ \/ /\ semaphores'[n].value = semaphores[n].value
                /\ \E w \in Pid : /\ status[w] = "BLOCKED" /\ waits[w] = n
                                  /\ status' = [status EXCEPT ![w] = "READY"]
             \/ semaphores'[n].value = semaphores[n].value + 1 /\ status' = status
        BY <1>1, <1>2, PostDoes
    <1>4. status' \in [Pid -> {"ABSENT", "READY", "BLOCKED"}]
        BY <1>3 DEF TypeOK
    <1>5. OpenersKeepIt'
        BY <1>1, <1>3, OthersKeep DEF Openers
    <1>6. ASSUME NEW m \in Mutexes PROVE TokenOK(m)'
        <2>1. m \in Names /\ TokenOK(m)
            BY DEF Names, OneToken
        <2>2. CASE m # n
            <3>1. \A o \in Pid : Carries(o, m)' => Carries(o, m)
                BY <1>1, <1>3, <2>2 DEF Carries, Runs, TypeOK
            <3>. QED BY <1>3, <2>1, <2>2, <3>1, TokenStays
        <2>3. CASE m = n
            <3>1. Carries(p, m)
                BY <1>1, <2>3 DEF Carries
            <3>2. semaphores[m].value = 0 /\ \A o \in Pid : Carries(o, m) => o = p
                <4>1. semaphores[m].value \in Nat
                    BY <1>2, <2>3, Exist
                <4>. QED BY <1>2, <2>3, <3>1, <4>1, <2>1 DEF TokenOK
            <3>3. \A o \in Pid : Carries(o, m)' => o # p \/ ~(status' = status)
                BY <1>1, <2>1, <2>3, NamesAssumption DEF Carries, Runs, TypeOK, Names
            <3>4. CASE status' = status /\ semaphores'[n].value = semaphores[n].value + 1
                <4>1. \A o \in Pid : ~Carries(o, m)'
                    <5>1. \A o \in Pid : Carries(o, m)' => Carries(o, m)
                        BY <1>1, <3>4 DEF Carries, Runs, TypeOK
                    <5>. QED BY <3>2, <3>3, <3>4, <5>1
                <4>. QED BY <2>3, <3>2, <3>4, <4>1 DEF TokenOK
            <3>5. ASSUME NEW w \in Pid, semaphores'[n].value = semaphores[n].value,
                         status[w] = "BLOCKED", waits[w] = n,
                         status' = [status EXCEPT ![w] = "READY"]
                  PROVE  TokenOK(m)'
                <4>1. \A o \in Pid : Carries(o, m)' => o = w
                    <5>1. n # NULL
                        BY NamesAssumption DEF Names
                    <5>2. \A o \in Pid : Carries(o, m)' => Carries(o, m) \/ o = w
                        BY <1>1, <3>5 DEF Carries, Runs, TypeOK
                    <5>3. ~Carries(p, m)'
                        BY <1>1, <2>3, <3>5, <5>1 DEF Carries, Runs, TypeOK
                    <5>. QED BY <3>2, <5>2, <5>3
                <4>. QED BY <2>3, <3>2, <3>5, <4>1 DEF TokenOK
            <3>. QED BY <1>3, <3>4, <3>5
        <2>. QED BY <2>2, <2>3
    <1>7. ClientsOK'
        BY <1>1, <1>3 DEF ClientsOK, TypeOK
    <1>8. holds' \in [Pid -> SUBSET Names]
        BY <1>1 DEF TypeOK
    <1>. QED BY <1>1, <1>3, <1>4, <1>5, <1>6, <1>7, <1>8 DEF TypeOK, OneToken

LEMMA SignalStep ==
    ASSUME RoomInRings, IInv, NEW p \in Pid, NEW n \in Names, Signal(p, n), UNCHANGED used
    PROVE  IInv'
    <1>. USE DEF IInv
    <1>1. /\ n \notin Mutexes /\ Exists(n) /\ SemPost(n)
          /\ waits' = waits /\ opened' = opened /\ holds' = holds
        BY NamesAssumption DEF Signal, client
    <1>2. /\ semaphores' \in [Names -> Semaphore \cup {NULL}]
          /\ \A m \in Names : /\ Exists(m)' <=> Exists(m)
                              /\ Exists(m) => semaphores'[m].using = semaphores[m].using
                              /\ m # n => semaphores'[m] = semaphores[m]
          /\ RingsOK'
          /\ \/ \E w \in Pid : /\ status[w] = "BLOCKED" /\ waits[w] = n
                               /\ status' = [status EXCEPT ![w] = "READY"]
             \/ status' = status
        BY <1>1, PostDoes
    <1>3. status' \in [Pid -> {"ABSENT", "READY", "BLOCKED"}]
        BY <1>2 DEF TypeOK
    <1>4. OpenersKeepIt'
        BY <1>1, <1>2, OthersKeep DEF Openers
    <1>5. \A m \in Mutexes, o \in Pid : Carries(o, m)' => Carries(o, m)
        BY <1>1, <1>2 DEF Carries, Runs, TypeOK
    <1>6. OneToken'
        BY <1>1, <1>2, <1>5, TokenStays DEF OneToken, Names
    <1>7. ClientsOK'
        BY <1>1, <1>2 DEF ClientsOK, TypeOK
    <1>. QED BY <1>1, <1>2, <1>3, <1>4, <1>6, <1>7 DEF TypeOK

\* Steps that leave every semaphore alone: what matters is that nobody in a ring moves and
\* nobody becomes a carrier.
LEMMA OutsideStep ==
    ASSUME RoomInRings, IInv, TypeOK', ClientsOK', semaphores' = semaphores,
           \A p \in Pid : opened'[p] \subseteq opened[p],
           \A p \in Pid : status[p] = "BLOCKED" /\ waits[p] # NULL
                            => status'[p] = "BLOCKED" /\ waits'[p] = waits[p],
           \A p \in Pid, n \in Names : Carries(p, n)' => Carries(p, n)
    PROVE  IInv'
    <1>. USE DEF IInv
    <1>1. OpenersKeepIt'
        BY OthersKeep DEF Openers, Exists
    <1>2. \A m \in Names : m # NULL
        BY NamesAssumption DEF Names
    <1>3. RingsOK'
        BY <1>2, RingStays DEF RingsOK, Exists
    <1>4. OneToken'
        BY TokenStays DEF OneToken, Names, Exists
    <1>. QED BY <1>1, <1>3, <1>4

LEMMA CreatedStep ==
    ASSUME RoomInRings, IInv, NEW p \in Pid, Created(p), UNCHANGED used
    PROVE  IInv'
    <1>1. /\ status' = [status EXCEPT ![p] = "READY"] /\ status[p] = "ABSENT"
          /\ waits[p] = NULL /\ semaphores' = semaphores
          /\ waits' = waits /\ opened' = opened /\ holds' = holds
        BY DEF Created, client, IInv, ClientsOK
    <1>2. TypeOK' /\ ClientsOK'
        BY <1>1 DEF IInv, TypeOK, ClientsOK
    <1>3. \A m \in Names : m # NULL
        BY NamesAssumption DEF Names
    <1>4. \A o \in Pid, n \in Names : Carries(o, n)' => Carries(o, n)
        BY <1>1, <1>3 DEF Carries, Runs, IInv, TypeOK
    <1>5. \A o \in Pid : status[o] = "BLOCKED" /\ waits[o] # NULL
                         => status'[o] = "BLOCKED" /\ waits'[o] = waits[o]
        BY <1>1 DEF IInv, TypeOK
    <1>. QED BY <1>1, <1>2, <1>4, <1>5, OutsideStep

LEMMA ExitsStep ==
    ASSUME RoomInRings, IInv, NEW p \in Pid, Exits(p), UNCHANGED used
    PROVE  IInv'
    <1>1. /\ status[p] = "READY" /\ waits[p] = NULL /\ semaphores' = semaphores
          /\ status' = [status EXCEPT ![p] = "ABSENT"]
          /\ waits' = [waits EXCEPT ![p] = NULL]
          /\ opened' = [opened EXCEPT ![p] = {}]
          /\ holds' = [holds EXCEPT ![p] = {}]
        BY DEF Exits, RunsUserCode, Runs, Gone
    <1>2. TypeOK' /\ ClientsOK'
        BY <1>1 DEF IInv, TypeOK, ClientsOK
    <1>3. \A o \in Pid, n \in Names : Carries(o, n)' => Carries(o, n)
        BY <1>1 DEF Carries, Runs, IInv, TypeOK
    <1>4. \A o \in Pid : opened'[o] \subseteq opened[o]
        BY <1>1 DEF IInv, TypeOK
    <1>5. \A o \in Pid : status[o] = "BLOCKED" /\ waits[o] # NULL
                         => status'[o] = "BLOCKED" /\ waits'[o] = waits[o]
        BY <1>1 DEF IInv, TypeOK
    <1>. QED BY <1>1, <1>2, <1>3, <1>4, <1>5, OutsideStep

\* The block command keeps away from processes in semWait.
LEMMA BlockedStep ==
    ASSUME RoomInRings, IInv, ~BlocksWaiters, NEW p \in Targets, Blocked(p) \/ Unblocked(p),
           UNCHANGED used
    PROVE  IInv'
    <1>1. /\ p \in Pid /\ waits[p] = NULL /\ status[p] # "ABSENT" /\ semaphores' = semaphores
          /\ \E t \in {"BLOCKED", "READY"} : status' = [status EXCEPT ![p] = t]
          /\ waits' = waits /\ opened' = opened /\ holds' = holds
        BY DEF Targets, Blocked, Unblocked, Woken, client, Runs
    <1>2. TypeOK' /\ ClientsOK'
        BY <1>1 DEF IInv, TypeOK, ClientsOK
    <1>3. \A m \in Names : m # NULL
        BY NamesAssumption DEF Names
    <1>4. \A o \in Pid, n \in Names : Carries(o, n)' => Carries(o, n)
        BY <1>1, <1>3 DEF Carries, Runs, IInv, TypeOK
    <1>5. \A o \in Pid : status[o] = "BLOCKED" /\ waits[o] # NULL
                         => status'[o] = "BLOCKED" /\ waits'[o] = waits[o]
        BY <1>1 DEF IInv, TypeOK
    <1>. QED BY <1>1, <1>2, <1>4, <1>5, OutsideStep
LEMMA KilledStep ==
    ASSUME RoomInRings, IInv, NEW p \in Pid, Killed(p), UNCHANGED used
    PROVE  IInv'
    <1>. USE DEF IInv
    <1>1. /\ semaphores' = [n \in Names |->
                 IF Exists(n) THEN WithQueue(semaphores[n], Without(semaphores[n].queue, p))
                 ELSE NULL]
          /\ status' = [status EXCEPT ![p] = "ABSENT"]
          /\ waits' = [waits EXCEPT ![p] = NULL]
          /\ opened' = [opened EXCEPT ![p] = {}]
          /\ holds' = [holds EXCEPT ![p] = {}]
        BY DEF Killed, Gone
    <1>2. ASSUME NEW n \in Names, Exists(n)
          PROVE  LET r == Without(semaphores[n].queue, p)
                 IN  /\ GoodRing(r)
                     /\ \A i \in Entries(r) : /\ At(r, i) # p /\ At(r, i) \in Pid
                                              /\ status[At(r, i)] = "BLOCKED" /\ waits[At(r, i)] = n
                     /\ WithQueue(semaphores[n], r) \in Semaphore
                     /\ WithQueue(semaphores[n], r).value = semaphores[n].value
                     /\ WithQueue(semaphores[n], r).using = semaphores[n].using
                     /\ WithQueue(semaphores[n], r).queue = r
        <2>. DEFINE q == semaphores[n].queue
                    r == Without(q, p)
        <2>1. /\ GoodRing(q)
              /\ \A k \in Entries(q) : status[At(q, k)] = "BLOCKED" /\ waits[At(q, k)] = n
            BY <1>2 DEF RingsOK, RingOK
        <2>2. /\ GoodRing(r)
              /\ \A i \in Entries(r) : At(r, i) # p /\ \E k \in Entries(q) : At(r, i) = At(q, k)
            BY <2>1, WithoutCloses
        <2>3. r \in Ring /\ \A i \in Entries(r) : At(r, i) \in Pid
            BY <2>2 DEF GoodRing
        <2>. HIDE DEF q, r
        <2>4. /\ WithQueue(semaphores[n], r) \in Semaphore
              /\ WithQueue(semaphores[n], r).value = semaphores[n].value
              /\ WithQueue(semaphores[n], r).using = semaphores[n].using
              /\ WithQueue(semaphores[n], r).queue = r
            BY <1>2, <2>3, Exist, SemaphoreFields
        <2>5. \A i \in Entries(r) : status[At(r, i)] = "BLOCKED" /\ waits[At(r, i)] = n
            BY <2>1, <2>2
        <2>. QED BY <2>2, <2>3, <2>4, <2>5 DEF q, r
    <1>3. ASSUME NEW n \in Names
          PROVE  /\ semaphores'[n] \in Semaphore \cup {NULL}
                 /\ Exists(n)' <=> Exists(n)
                 /\ Exists(n) => /\ semaphores'[n].value = semaphores[n].value
                                 /\ semaphores'[n].using = semaphores[n].using
                                 /\ RingOK(n)'
        <2>1. CASE Exists(n)
            <3>. DEFINE r == Without(semaphores[n].queue, p)
            <3>1. semaphores'[n] = WithQueue(semaphores[n], r)
                BY <1>1, <2>1
            <3>2. /\ GoodRing(r)
                  /\ \A i \in Entries(r) : /\ At(r, i) # p /\ At(r, i) \in Pid
                                           /\ status[At(r, i)] = "BLOCKED" /\ waits[At(r, i)] = n
                  /\ semaphores'[n] \in Semaphore
                  /\ semaphores'[n].value = semaphores[n].value
                  /\ semaphores'[n].using = semaphores[n].using
                  /\ semaphores'[n].queue = r
                BY <1>2, <2>1, <3>1
            <3>. HIDE DEF r
            <3>3. \A i \in Entries(r) : status'[At(r, i)] = "BLOCKED" /\ waits'[At(r, i)] = n
                BY <1>1, <3>2 DEF TypeOK
            <3>4. RingOK(n)'
                BY <3>2, <3>3 DEF RingOK
            <3>. QED BY <2>1, <3>2, <3>4, NullIsNoSemaphore DEF Exists
        <2>2. CASE ~Exists(n)
            BY <1>1, <2>2 DEF Exists
        <2>. QED BY <2>1, <2>2
    <1>4. TypeOK'
        <2>1. semaphores' = [n \in Names |-> semaphores'[n]]
            BY <1>1
        <2>2. semaphores' \in [Names -> Semaphore \cup {NULL}]
            BY <1>3, <2>1
        <2>. QED BY <1>1, <2>2 DEF TypeOK
    <1>5. OpenersKeepIt'
        <2>1. \A n \in Names : Openers(n)' \subseteq Openers(n)
            BY <1>1 DEF Openers, TypeOK
        <2>. QED BY <1>3, <2>1, OthersKeep
    <1>6. RingsOK'
        BY <1>3 DEF RingsOK
    <1>7. OneToken'
        <2>1. \A m \in Names : m # NULL
            BY NamesAssumption DEF Names
        <2>2. \A m \in Names, o \in Pid : Carries(o, m)' => Carries(o, m)
            BY <1>1, <2>1 DEF Carries, Runs, TypeOK
        <2>. QED BY <1>3, <2>2, TokenStays DEF OneToken, Names
    <1>8. ClientsOK'
        BY <1>1 DEF ClientsOK, TypeOK
    <1>. QED BY <1>4, <1>5, <1>6, <1>7, <1>8

----------------------------------------------------------------------------
\* The invariant

LEMMA IInvInit == ASSUME RoomInRings PROVE Init => IInv
    <1>. SUFFICES ASSUME Init PROVE IInv
        OBVIOUS
    <1>1. TypeOK
        BY NamesAssumption DEF Init, TypeOK, Names
    <1>2. \A n \in Names : ~Exists(n) /\ \A p \in Pid : n \notin opened[p]
        BY DEF Init, Exists
    <1>3. OpenersKeepIt
        BY <1>2 DEF OpenersKeepIt
    <1>4. OneToken /\ RingsOK /\ ClientsOK
        BY <1>2 DEF OneToken, TokenOK, RingsOK, ClientsOK, Init, Names
    <1>. QED BY <1>1, <1>3, <1>4 DEF IInv

LEMMA IInvNext ==
    ASSUME RoomInRings, ~BlocksWaiters, IInv, [Next]_vars
    PROVE  IInv'
    <1>1. CASE UNCHANGED vars
        <2>1. /\ TypeOK' /\ ClientsOK' /\ semaphores' = semaphores /\ status' = status
              /\ waits' = waits /\ opened' = opened /\ holds' = holds
            BY <1>1 DEF vars, IInv, TypeOK, ClientsOK
        <2>. QED BY <2>1, OutsideStep DEF Carries, Runs
    <1>2. CASE Next
        <2>1. Call /\ UNCHANGED used /\ used \subseteq Names
            BY <1>2 DEF Next, IInv, TypeOK
        <2>2. ASSUME NEW p \in Pid, NEW n \in used,
                     \/ Open(p, n) \/ Close(p, n)
                     \/ WaitReturnsAtOnce(p, n) \/ WaitBlocks(p, n)
                     \/ Release(p, n) \/ Signal(p, n)
              PROVE  IInv'
            BY <2>1, <2>2, OpenStep, CloseStep, WaitAtOnceStep, WaitBlocksStep, ReleaseStep, SignalStep
        <2>3. ASSUME NEW p \in Pid, WaitResumes(p) \/ Created(p) \/ Killed(p) \/ Exits(p)
              PROVE  IInv'
            BY <2>1, <2>3, WaitResumesStep, CreatedStep, KilledStep, ExitsStep
        <2>4. ASSUME NEW p \in Targets, Blocked(p) \/ Unblocked(p)
              PROVE  IInv'
            BY <2>1, <2>4, BlockedStep
        <2>. QED BY <2>1, <2>2, <2>3, <2>4 DEF Call
    <1>. QED BY <1>1, <1>2

LEMMA IInvExcludes == ASSUME IInv PROVE MutualExclusion
    <1>. SUFFICES ASSUME NEW n \in Mutexes, NEW p \in Pid, NEW q \in Pid,
                         n \in holds[p], n \in holds[q]
                  PROVE  p = q
        BY DEF MutualExclusion
    <1>1. n \in Names /\ Carries(p, n) /\ Carries(q, n)
        BY DEF Names, Carries
    <1>2. Exists(n)
        BY <1>1, CarriersOpened
    <1>. QED BY <1>1, <1>2 DEF IInv, OneToken, TokenOK

\* A mutex lets one process at a time past semWait, for any number of processes and of names,
\* through kills, reused pids, closes and reopens (semWait, semPost, semClose,
\* remove_process_from_all_semaphore_queues).
THEOREM MutexExcludes ==
    ASSUME RoomInRings, ~BlocksWaiters
    PROVE  Spec => []MutualExclusion
    <1>1. Init => IInv
        BY IInvInit
    <1>2. IInv /\ [Next]_vars => IInv'
        BY IInvNext
    <1>3. IInv => MutualExclusion
        BY IInvExcludes
    <1>. QED BY <1>1, <1>2, <1>3, PTL DEF Spec

\* No semaphore is freed while a process that has opened it lives, whoever closes it
\* (semOpen, semClose).
THEOREM OpenersAlwaysKeepIt ==
    ASSUME RoomInRings, ~BlocksWaiters
    PROVE  Spec => []OpenersKeepIt
    <1>1. Init => IInv
        BY IInvInit
    <1>2. IInv /\ [Next]_vars => IInv'
        BY IInvNext
    <1>3. IInv => OpenersKeepIt
        BY DEF IInv
    <1>. QED BY <1>1, <1>2, <1>3, PTL DEF Spec

----------------------------------------------------------------------------
(***************************************************************************)
(* The semaphores with their rings are FIFO semaphores, under the same     *)
(* assumptions: every step of synchro.c and its clients is one of          *)
(* FifoSemaphores, or changes nothing there.  First, what a ring stands    *)
(* for.                                                                    *)
(***************************************************************************)

LEMMA ContentsAre ==
    ASSUME NEW q, GoodRing(q)
    PROVE  /\ Contents(q) \in Seq(Pid) /\ Len(Contents(q)) = q.size
           /\ DOMAIN Contents(q) = 1 .. q.size
           /\ q.size \in Nat
           /\ \A i \in 1 .. q.size : i - 1 \in Entries(q) /\ Contents(q)[i] = At(q, i - 1)
    <1>1. q.size \in Nat
        BY DEF GoodRing, Ring
    <1>2. \A i \in 1 .. q.size : i - 1 \in Entries(q)
        BY <1>1 DEF Entries
    <1>3. \A i \in 1 .. q.size : Contents(q)[i] = At(q, i - 1)
        BY DEF Contents, At
    <1>4. Contents(q) \in [1 .. q.size -> Pid]
        <2>1. Contents(q) = [i \in 1 .. q.size |-> Contents(q)[i]]
            BY DEF Contents
        <2>2. \A i \in 1 .. q.size : Contents(q)[i] \in Pid
            BY <1>2, <1>3 DEF GoodRing
        <2>. QED BY <2>1, <2>2
    <1>. QED BY <1>1, <1>2, <1>3, <1>4

LEMMA EmptyContents ==
    ASSUME NEW q, GoodRing(q)
    PROVE  Contents(q) = <<>> <=> q.size = 0
    BY ContentsAre

\* addToQueue, popFromQueue and remove_process_from_queue.
LEMMA AddedIsAppended ==
    ASSUME NEW q, GoodRing(q), NEW p \in Pid, GoodRing(Added(q, p))
    PROVE  Contents(Added(q, p)) = Append(Contents(q), p)
    <1>. DEFINE r == Added(q, p)
    <1>1. /\ r.size = q.size + 1 /\ At(r, q.size) = p
          /\ \A i \in Entries(q) : At(r, i) = At(q, i)
        BY AddedAtEnd
    <1>2. /\ Contents(q) \in Seq(Pid) /\ Len(Contents(q)) = q.size /\ q.size \in Nat
          /\ \A i \in 1 .. q.size : i - 1 \in Entries(q) /\ Contents(q)[i] = At(q, i - 1)
        BY ContentsAre
    <1>3. /\ Contents(r) \in Seq(Pid) /\ Len(Contents(r)) = q.size + 1
          /\ \A i \in 1 .. q.size + 1 : Contents(r)[i] = At(r, i - 1)
        BY <1>1, ContentsAre
    <1>. HIDE DEF r
    <1>4. \A i \in 1 .. q.size : Contents(r)[i] = Contents(q)[i]
        BY <1>1, <1>2, <1>3
    <1>5. ASSUME NEW i \in 1 .. q.size + 1, i = q.size + 1 PROVE Contents(r)[i] = p
        <2>1. i - 1 = q.size
            BY <1>2, <1>5
        <2>. QED BY <1>1, <1>3, <2>1
    <1>6. Contents(r)[q.size + 1] = p
        BY <1>2, <1>5
    <1>7. Contents(r) = Append(Contents(q), p)
        BY <1>2, <1>3, <1>4, <1>6
    <1>. QED BY <1>7 DEF r

LEMMA PoppedIsTail ==
    ASSUME NEW q, GoodRing(q), q.size > 0
    PROVE  Contents(Popped(q)) = Tail(Contents(q))
    <1>. DEFINE r == Popped(q)
    <1>1. GoodRing(r) /\ r.size = q.size - 1 /\ \A i \in Entries(r) : At(r, i) = At(q, i + 1)
        BY PoppedFirst
    <1>2. /\ Contents(q) \in Seq(Pid) /\ Len(Contents(q)) = q.size /\ q.size \in Nat
          /\ \A i \in 1 .. q.size : Contents(q)[i] = At(q, i - 1)
        BY ContentsAre
    <1>3. /\ Contents(r) \in Seq(Pid) /\ Len(Contents(r)) = q.size - 1
          /\ \A i \in 1 .. q.size - 1 : i - 1 \in Entries(r) /\ Contents(r)[i] = At(r, i - 1)
        BY <1>1, ContentsAre
    <1>. HIDE DEF r
    <1>4. ASSUME NEW i \in 1 .. q.size - 1 PROVE Contents(r)[i] = Contents(q)[i + 1]
        <2>1. i - 1 + 1 = i /\ i + 1 - 1 = i /\ i + 1 \in 1 .. q.size
            BY <1>2
        <2>. QED BY <1>1, <1>2, <1>3, <2>1
    <1>5. /\ Tail(Contents(q)) \in Seq(Pid) /\ Len(Tail(Contents(q))) = q.size - 1
          /\ \A i \in 1 .. q.size - 1 : Tail(Contents(q))[i] = Contents(q)[i + 1]
        BY <1>2
    <1>6. Contents(r) = Tail(Contents(q))
        BY <1>2, <1>3, <1>4, <1>5
    <1>. QED BY <1>6 DEF r

LEMMA WithoutIsDropped ==
    ASSUME NEW q, GoodRing(q), NEW p \in Pid
    PROVE  Contents(Without(q, p)) = Fifo!Dropped(Contents(q), p)
    <1>. DEFINE r == Without(q, p)
                s == Contents(q)
    <1>1. /\ s \in Seq(Pid) /\ Len(s) = q.size /\ DOMAIN s = 1 .. q.size /\ q.size \in Nat
          /\ \A i \in 1 .. q.size : i - 1 \in Entries(q) /\ s[i] = At(q, i - 1)
        BY ContentsAre
    <1>. HIDE DEF s
    <1>2. CASE r = q /\ \A i \in Entries(q) : At(q, i) # p
        <2>1. \A i \in DOMAIN s : s[i] # p
            BY <1>1, <1>2
        <2>. QED BY <1>2, <2>1 DEF Fifo!Dropped, s
    <1>3. ASSUME NEW j \in Entries(q), At(q, j) = p, r.size = q.size - 1, GoodRing(r),
                 \A i \in Entries(r) : At(r, i) = At(q, IF i >= j THEN i + 1 ELSE i)
          PROVE  Contents(r) = Fifo!Dropped(s, p)
        <2>1. j \in Int /\ j + 1 \in 1 .. q.size /\ j + 1 - 1 = j
            BY <1>1 DEF Entries
        <2>2. s[j + 1] = p
            BY <1>1, <1>3, <2>1
        <2>3. \A i \in DOMAIN s : s[i] = p => i = j + 1
            <3>. SUFFICES ASSUME NEW i \in 1 .. q.size, s[i] = p PROVE i = j + 1
                BY <1>1
            <3>1. i - 1 = j
                BY <1>1, <1>3 DEF GoodRing
            <3>. QED BY <1>1, <3>1
        <2>4. (CHOOSE k \in DOMAIN s : s[k] = p) = j + 1
            BY <1>1, <2>1, <2>2, <2>3
        <2>5. Fifo!Dropped(s, p) =
                  [i \in 1 .. q.size - 1 |-> IF i < j + 1 THEN s[i] ELSE s[i + 1]]
            BY <1>1, <2>1, <2>2, <2>4 DEF Fifo!Dropped
        <2>6. /\ Contents(r) = [i \in 1 .. q.size - 1 |-> Contents(r)[i]]
              /\ \A i \in 1 .. q.size - 1 : i - 1 \in Entries(r) /\ Contents(r)[i] = At(r, i - 1)
            <3>1. /\ DOMAIN Contents(r) = 1 .. q.size - 1
                  /\ \A i \in 1 .. q.size - 1 : i - 1 \in Entries(r) /\ Contents(r)[i] = At(r, i - 1)
                BY <1>3, ContentsAre
            <3>2. Contents(r) = [i \in 1 .. r.size |-> Contents(r)[i]]
                BY DEF Contents
            <3>. QED BY <1>3, <3>1, <3>2
        <2>7. ASSUME NEW i \in 1 .. q.size - 1
              PROVE  Contents(r)[i] = IF i < j + 1 THEN s[i] ELSE s[i + 1]
            <3>1. Contents(r)[i] = At(q, IF i - 1 >= j THEN i - 1 + 1 ELSE i - 1)
                BY <1>3, <2>6
            <3>2. i \in 1 .. q.size /\ i + 1 \in 1 .. q.size /\ i + 1 - 1 = i - 1 + 1
                BY <1>1
            <3>3. s[i] = At(q, i - 1) /\ s[i + 1] = At(q, i - 1 + 1)
                BY <1>1, <3>2
            <3>. QED BY <2>1, <3>1, <3>2, <3>3
        <2>. QED BY <2>5, <2>6, <2>7
    <1>. QED BY <1>2, <1>3, WithoutCloses DEF s

----------------------------------------------------------------------------
\* Steps and what they are to the abstract semaphores

FifoStep == [Fifo!FifoNext]_<<Tokens, Queues>>

LEMMA Fits ==
    ASSUME IInv, NEW n \in Names, Exists(n)
    PROVE  /\ semaphores[n] \in Semaphore /\ semaphores[n].value \in Nat
           /\ GoodRing(semaphores[n].queue)
           /\ n \in Existing /\ Tokens[n] = semaphores[n].value
           /\ Queues[n] = Contents(semaphores[n].queue)
    BY Exist DEF IInv, RingsOK, RingOK, Existing, Tokens, Queues

\* Calls that leave every value and every queue alone.
LEMMA Unseen ==
    ASSUME \A n \in Names : /\ Exists(n)' <=> Exists(n)
                            /\ Exists(n) => /\ semaphores'[n].value = semaphores[n].value
                                            /\ semaphores'[n].queue = semaphores[n].queue
    PROVE  FifoStep
    <1>1. Existing' = Existing
        BY DEF Existing
    <1>2. Tokens' = Tokens
        BY <1>1 DEF Tokens, Existing
    <1>3. Queues' = Queues
        BY <1>1 DEF Queues, Existing
    <1>. QED BY <1>2, <1>3 DEF FifoStep

\* A call that assigns to one semaphore.
LEMMA OneChanges ==
    ASSUME IInv, NEW n \in Names, NEW s \in Semaphore, semaphores' = [semaphores EXCEPT ![n] = s]
    PROVE  /\ Existing' = Existing \cup {n}
           /\ Tokens' = [m \in Existing \cup {n} |-> IF m = n THEN s.value ELSE Tokens[m]]
           /\ Queues' = [m \in Existing \cup {n} |-> IF m = n THEN Contents(s.queue) ELSE Queues[m]]
    <1>1. semaphores'[n] = s /\ \A m \in Names \ {n} : semaphores'[m] = semaphores[m]
        BY DEF IInv, TypeOK
    <1>2. Existing' = Existing \cup {n}
        BY <1>1, NullIsNoSemaphore DEF Existing, Exists
    <1>3. \A m \in Existing' : semaphores'[m].value = IF m = n THEN s.value ELSE Tokens[m]
        BY <1>1, <1>2 DEF Existing, Tokens
    <1>4. \A m \in Existing' : Contents(semaphores'[m].queue) =
                                  IF m = n THEN Contents(s.queue) ELSE Queues[m]
        BY <1>1, <1>2 DEF Existing, Queues
    <1>5. Tokens' = [m \in Existing' |-> semaphores'[m].value]
        BY DEF Tokens
    <1>6. Queues' = [m \in Existing' |-> Contents(semaphores'[m].queue)]
        BY DEF Queues, Contents, CellAt
    <1>. QED BY <1>2, <1>3, <1>4, <1>5, <1>6

\* A new value, the same queue; and a new queue, the same value.
LEMMA ValueChanges ==
    ASSUME IInv, NEW n \in Names, Exists(n), NEW s \in Semaphore,
           semaphores' = [semaphores EXCEPT ![n] = s], s.queue = semaphores[n].queue
    PROVE  Tokens' = [Tokens EXCEPT ![n] = s.value] /\ Queues' = Queues
    <1>1. n \in Existing /\ Contents(s.queue) = Queues[n] /\ Existing \cup {n} = Existing
        BY Fits
    <1>2. /\ Tokens' = [m \in Existing |-> IF m = n THEN s.value ELSE Tokens[m]]
          /\ Queues' = [m \in Existing |-> IF m = n THEN Contents(s.queue) ELSE Queues[m]]
        BY ZenonT(60), <1>1, OneChanges
    <1>3. DOMAIN Tokens = Existing /\ Queues = [m \in Existing |-> Queues[m]]
        BY DEF Tokens, Queues
    <1>4. Queues' = [m \in Existing |-> Queues[m]]
        BY <1>1, <1>2
    <1>5. [Tokens EXCEPT ![n] = s.value] = [m \in Existing |-> IF m = n THEN s.value ELSE Tokens[m]]
        BY <1>1, <1>3
    <1>. QED BY <1>2, <1>3, <1>4, <1>5

LEMMA QueueChanges ==
    ASSUME IInv, NEW n \in Names, Exists(n), NEW s \in Semaphore,
           semaphores' = [semaphores EXCEPT ![n] = s], s.value = semaphores[n].value
    PROVE  Tokens' = Tokens /\ Queues' = [Queues EXCEPT ![n] = Contents(s.queue)]
    <1>1. n \in Existing /\ s.value = Tokens[n] /\ Existing \cup {n} = Existing
        BY Fits
    <1>2. /\ Tokens' = [m \in Existing |-> IF m = n THEN s.value ELSE Tokens[m]]
          /\ Queues' = [m \in Existing |-> IF m = n THEN Contents(s.queue) ELSE Queues[m]]
        BY <1>1, OneChanges
    <1>3. DOMAIN Queues = Existing /\ Tokens = [m \in Existing |-> Tokens[m]]
        BY DEF Tokens, Queues
    <1>4. Tokens' = [m \in Existing |-> Tokens[m]]
        BY <1>1, <1>2
    <1>5. [Queues EXCEPT ![n] = Contents(s.queue)] =
              [m \in Existing |-> IF m = n THEN Contents(s.queue) ELSE Queues[m]]
        BY <1>1, <1>3
    <1>. QED BY <1>2, <1>3, <1>4, <1>5

LEMMA NextIs ==
    ASSUME NEW n \in Names,
           \/ Fifo!Create(n) \/ Fifo!Destroy(n) \/ Fifo!Take(n) \/ Fifo!Give(n)
           \/ \E p \in Pid : Fifo!Enqueue(n, p)
    PROVE  FifoStep
    BY DEF FifoStep, Fifo!FifoNext

\* semOpen: the first makes the semaphore.
LEMMA OpenFifo ==
    ASSUME IInv, NEW p \in Pid, NEW n \in Names, Open(p, n)
    PROVE  FifoStep
    <1>. DEFINE s == IF semaphores[n] = NULL
                     THEN [value |-> InitialValue(n), using |-> 1, queue |-> EmptyRing]
                     ELSE AddUsers(semaphores[n], 1)
    <1>1. semaphores' = [semaphores EXCEPT ![n] = s]
        BY Zenon DEF Open
    <1>2. CASE Exists(n)
        <2>1. s = AddUsers(semaphores[n], 1)
            BY <1>2, Zenon DEF Exists
        <2>2. /\ s \in Semaphore /\ s.value = semaphores[n].value
              /\ s.queue = semaphores[n].queue
            BY <1>2, <2>1, Exist, SemaphoreFields DEF IInv
        <2>. HIDE DEF s
        <2>3. semaphores'[n] = s /\ \A m \in Names \ {n} : semaphores'[m] = semaphores[m]
            BY <1>1 DEF IInv, TypeOK
        <2>. QED BY <1>2, <2>2, <2>3, Unseen, NullIsNoSemaphore DEF Exists
    <1>3. CASE ~Exists(n)
        <2>1. s = [value |-> InitialValue(n), using |-> 1, queue |-> EmptyRing]
            BY <1>3, Zenon DEF Exists
        <2>2. s \in Semaphore /\ s.value = InitialValue(n) /\ s.queue = EmptyRing
            BY <2>1, EmptyIsGood DEF Semaphore, InitialValue, GoodRing
        <2>3. Contents(EmptyRing) = <<>>
            BY EmptyIsGood, EmptyContents
        <2>. HIDE DEF s
        <2>4. /\ Tokens' = [m \in Existing \cup {n} |-> IF m = n THEN InitialValue(n) ELSE Tokens[m]]
              /\ Queues' = [m \in Existing \cup {n} |-> IF m = n THEN <<>> ELSE Queues[m]]
            <3>1. /\ Tokens' = [m \in Existing \cup {n} |-> IF m = n THEN s.value ELSE Tokens[m]]
                  /\ Queues' = [m \in Existing \cup {n} |->
                                    IF m = n THEN Contents(s.queue) ELSE Queues[m]]
                BY <1>1, <2>2, OneChanges, Zenon
            <3>2. s.value = InitialValue(n) /\ Contents(s.queue) = <<>>
                BY <2>2, <2>3, Zenon
            <3>. QED BY <3>1, <3>2, Zenon
        <2>5. n \notin Existing /\ DOMAIN Tokens = Existing /\ DOMAIN Queues = Existing
            BY <1>3 DEF Existing, Tokens, Queues
        <2>6. Fifo!Create(n)
            BY <2>4, <2>5 DEF Fifo!Create, Fifo!Existing, Fifo!With
        <2>. QED BY <2>6, NextIs
    <1>. QED BY <1>2, <1>3

\* semClose: when the last user leaves nobody waits, since a waiter is a user too.
LEMMA NobodyWaits ==
    ASSUME RoomInRings, IInv, NEW p \in Pid, NEW n \in Names, Close(p, n),
           ~(semaphores[n].using > 1)
    PROVE  semaphores[n].queue.size = 0
    <1>. DEFINE q == semaphores[n].queue
    <1>1. /\ n \in opened[p] /\ Exists(n) /\ status[p] = "READY"
          /\ GoodRing(q) /\ RingOK(n)
        BY DEF Close, RunsUserCode, Runs, IInv, RingsOK, RingOK
    <1>2. SUFFICES ASSUME q.size > 0 PROVE FALSE
        BY <1>1 DEF GoodRing, Ring
    <1>. DEFINE o == At(q, 0)
    <1>3. 0 \in Entries(q)
        BY <1>1, <1>2 DEF Entries, GoodRing, Ring
    <1>4. o \in Pid /\ status[o] = "BLOCKED" /\ waits[o] = n
        BY <1>1, <1>3 DEF RingOK, GoodRing
    <1>. HIDE DEF o, q
    <1>5. n # NULL
        BY NamesAssumption DEF Names
    <1>6. o \in Openers(n) /\ p \in Openers(n) /\ o # p
        BY <1>1, <1>4, <1>5 DEF Openers, IInv, ClientsOK
    <1>7. {p} \cup {o} \subseteq Openers(n) /\ IsFiniteSet(Openers(n))
        BY <1>6, OpenersFinite
    <1>8. Cardinality({p} \cup {o}) = 2
        <2>1. IsFiniteSet({p}) /\ Cardinality({p}) = 1
            BY FS_Singleton
        <2>2. Cardinality({p} \cup {o}) = Cardinality({p}) + 1
            BY <1>6, <2>1, FS_AddElement
        <2>. QED BY <2>1, <2>2
    <1>9. Cardinality(Openers(n)) >= 2
        BY <1>7, <1>8, FS_Subset, OpenersFinite
    <1>10. semaphores[n].using >= Cardinality(Openers(n)) /\ semaphores[n].using \in Nat
        BY <1>1, <1>6, Exist DEF IInv, OpenersKeepIt, Openers
    <1>. QED BY <1>9, <1>10, OpenersFinite

LEMMA CloseFifo ==
    ASSUME RoomInRings, IInv, NEW p \in Pid, NEW n \in Names, Close(p, n)
    PROVE  FifoStep
    <1>. DEFINE s == IF semaphores[n].using > 1 THEN AddUsers(semaphores[n], -1) ELSE NULL
    <1>1. semaphores' = [semaphores EXCEPT ![n] = s] /\ Exists(n)
        BY Zenon DEF Close
    <1>2. semaphores' = [m \in Names |-> IF m = n THEN s ELSE semaphores[m]]
        BY <1>1 DEF IInv, TypeOK
    <1>3. CASE semaphores[n].using > 1
        <2>1. s = AddUsers(semaphores[n], -1)
            BY <1>3, Zenon
        <2>2. semaphores[n] \in Semaphore /\ semaphores[n].using + (-1) >= 0
            BY <1>1, <1>3, Exist DEF IInv
        <2>3. /\ s \in Semaphore /\ s.value = semaphores[n].value
              /\ s.queue = semaphores[n].queue
            BY <2>1, <2>2, SemaphoreFields
        <2>. HIDE DEF s
        <2>. QED BY <1>1, <1>2, <2>3, Unseen, NullIsNoSemaphore DEF Exists
    <1>4. CASE ~(semaphores[n].using > 1)
        <2>1. s = NULL
            BY <1>4, Zenon
        <2>2. n \in Existing /\ Queues[n] = <<>>
            BY <1>1, <1>4, NobodyWaits, Fits, EmptyContents
        <2>. HIDE DEF s
        <2>3. Existing' = Existing \ {n}
            BY <1>2, <2>1 DEF Existing, Exists
        <2>4. \A m \in Existing \ {n} : semaphores'[m] = semaphores[m]
            BY <1>2 DEF Existing
        <2>5. Tokens' = [m \in Existing \ {n} |-> Tokens[m]]
            <3>1. Tokens' = [m \in Existing' |-> semaphores'[m].value]
                BY DEF Tokens
            <3>2. \A m \in Existing \ {n} : semaphores'[m].value = Tokens[m]
                BY <2>4 DEF Tokens
            <3>. QED BY <2>3, <3>1, <3>2
        <2>6. Queues' = [m \in Existing \ {n} |-> Queues[m]]
            <3>1. Queues' = [m \in Existing' |-> Contents(semaphores'[m].queue)]
                BY DEF Queues, Contents, CellAt
            <3>2. \A m \in Existing \ {n} : Contents(semaphores'[m].queue) = Queues[m]
                BY <2>4 DEF Queues
            <3>. QED BY <2>3, <3>1, <3>2
        <2>7. DOMAIN Tokens = Existing /\ DOMAIN Queues = Existing
            BY DEF Tokens, Queues
        <2>8. Fifo!Destroy(n)
            BY <2>2, <2>5, <2>6, <2>7 DEF Fifo!Destroy, Fifo!Existing, Fifo!Without
        <2>. QED BY <2>8, NextIs
    <1>. QED BY <1>3, <1>4

\* semWait: a token is taken, or the caller goes to the end of the queue.
LEMMA WaitAtOnceFifo ==
    ASSUME IInv, NEW p \in Pid, NEW n \in Names, WaitReturnsAtOnce(p, n)
    PROVE  FifoStep
    <1>. DEFINE s == AddTokens(semaphores[n], -1)
    <1>1. CASE semaphores[n] = NULL \/ semaphores[n].value <= 0
        <2>1. semaphores' = [semaphores EXCEPT ![n] = semaphores[n]]
            BY <1>1, Zenon DEF WaitReturnsAtOnce
        <2>2. semaphores' = semaphores
            BY <2>1 DEF IInv, TypeOK
        <2>. QED BY <2>2, Unseen DEF Exists
    <1>2. CASE ~(semaphores[n] = NULL \/ semaphores[n].value <= 0)
        <2>1. semaphores' = [semaphores EXCEPT ![n] = s] /\ Exists(n)
            <3>1. semaphores' = [semaphores EXCEPT ![n] =
                      IF semaphores[n] = NULL \/ semaphores[n].value <= 0 THEN semaphores[n] ELSE s]
                BY Zenon DEF WaitReturnsAtOnce
            <3>. QED BY <1>2, <3>1, Zenon DEF Exists
        <2>2. semaphores[n] \in Semaphore /\ semaphores[n].value + (-1) >= 0
              /\ semaphores[n].value \in Nat /\ n \in Existing /\ Tokens[n] = semaphores[n].value
            BY <1>2, <2>1, Fits
        <2>3. s \in Semaphore /\ s.value = semaphores[n].value - 1 /\ s.queue = semaphores[n].queue
            BY <2>2, SemaphoreFields
        <2>. HIDE DEF s
        <2>4. Tokens' = [Tokens EXCEPT ![n] = s.value] /\ Queues' = Queues
            BY <2>1, <2>3, ValueChanges
        <2>5. Fifo!Take(n)
            BY <1>2, <2>2, <2>3, <2>4 DEF Fifo!Take, Fifo!Existing, Tokens
        <2>. QED BY <2>5, NextIs
    <1>. QED BY <1>1, <1>2

LEMMA WaitBlocksFifo ==
    ASSUME IInv, IInv', NEW p \in Pid, NEW n \in Names, WaitBlocks(p, n)
    PROVE  FifoStep
    <1>. DEFINE q == semaphores[n].queue
                s == WithQueue(semaphores[n], Added(q, p))
    <1>1. /\ semaphores' = [semaphores EXCEPT ![n] = s]
          /\ Exists(n) /\ semaphores[n].value <= 0 /\ status[p] = "READY"
        BY Zenon DEF WaitBlocks, RunsUserCode, Runs
    <1>2. /\ semaphores[n] \in Semaphore /\ semaphores[n].value \in Nat /\ GoodRing(q)
          /\ n \in Existing /\ Tokens[n] = semaphores[n].value /\ Queues[n] = Contents(q)
        BY <1>1, Fits
    <1>3. Added(q, p) \in Ring
        BY <1>2, AddedAtEnd
    <1>4. s \in Semaphore /\ s.value = semaphores[n].value /\ s.queue = Added(q, p)
        BY <1>2, <1>3, SemaphoreFields
    <1>. HIDE DEF s, q
    <1>5. Tokens' = Tokens /\ Queues' = [Queues EXCEPT ![n] = Contents(s.queue)]
        BY <1>1, <1>4, QueueChanges
    <1>6. GoodRing(Added(q, p))
        <2>1. semaphores'[n] = s
            BY <1>1 DEF IInv, TypeOK
        <2>2. Exists(n)'
            BY <1>4, <2>1, NullIsNoSemaphore DEF Exists
        <2>3. GoodRing(semaphores'[n].queue)
            BY <2>2 DEF IInv, RingsOK, RingOK
        <2>. QED BY <1>4, <2>1, <2>3
    <1>7. Contents(s.queue) = Append(Queues[n], p)
        BY <1>2, <1>4, <1>6, AddedIsAppended
    <1>8. ASSUME NEW m \in Existing, NEW i \in DOMAIN Queues[m] PROVE Queues[m][i] # p
        <2>1. m \in Names /\ Exists(m)
            BY DEF Existing
        <2>2. GoodRing(semaphores[m].queue) /\ Queues[m] = Contents(semaphores[m].queue) /\ RingOK(m)
            BY <2>1, Fits DEF IInv, RingsOK
        <2>3. i - 1 \in Entries(semaphores[m].queue) /\ Queues[m][i] = At(semaphores[m].queue, i - 1)
            BY <2>2, ContentsAre
        <2>. QED BY <1>1, <2>2, <2>3 DEF RingOK
    <1>9. DOMAIN Tokens = Existing
        BY DEF Tokens
    <1>10. Fifo!Enqueue(n, p)
        BY <1>1, <1>2, <1>5, <1>7, <1>8, <1>9 DEF Fifo!Enqueue, Fifo!Existing
    <1>. QED BY <1>10, NextIs

\* semPost: to the longest waiter, or to nobody yet.
LEMMA PostFifo ==
    ASSUME IInv, NEW n \in Names, Exists(n), SemPost(n)
    PROVE  FifoStep
    <1>. DEFINE q == semaphores[n].queue
    <1>1. /\ semaphores[n] \in Semaphore /\ semaphores[n].value \in Nat /\ GoodRing(q)
          /\ n \in Existing /\ Tokens[n] = semaphores[n].value /\ Queues[n] = Contents(q)
          /\ DOMAIN Tokens = Existing
        BY Fits DEF Tokens
    <1>2. CASE q.size > 0
        <2>. DEFINE s == WithQueue(semaphores[n], Popped(q))
        <2>1. semaphores' = [semaphores EXCEPT ![n] = s]
            BY <1>2, Zenon DEF SemPost
        <2>2. Popped(q) \in Ring
            BY <1>1, <1>2, PoppedFirst DEF GoodRing
        <2>3. s \in Semaphore /\ s.value = semaphores[n].value /\ s.queue = Popped(q)
            BY <1>1, <2>2, SemaphoreFields
        <2>. HIDE DEF s, q
        <2>4. Tokens' = Tokens /\ Queues' = [Queues EXCEPT ![n] = Contents(s.queue)]
            BY <2>1, <2>3, QueueChanges
        <2>5. Contents(s.queue) = Tail(Queues[n]) /\ Queues[n] # <<>>
            BY <1>1, <1>2, <2>3, PoppedIsTail, EmptyContents
        <2>6. Fifo!Give(n)
            BY <1>1, <2>4, <2>5 DEF Fifo!Give, Fifo!Existing
        <2>. QED BY <2>6, NextIs
    <1>3. CASE ~(q.size > 0)
        <2>. DEFINE s == AddTokens(semaphores[n], 1)
        <2>1. semaphores' = [semaphores EXCEPT ![n] = s]
            BY <1>3, Zenon DEF SemPost
        <2>2. s \in Semaphore /\ s.value = semaphores[n].value + 1 /\ s.queue = q
            BY <1>1, SemaphoreFields
        <2>3. q.size = 0
            BY <1>1, <1>3 DEF GoodRing, Ring
        <2>. HIDE DEF s, q
        <2>4. Tokens' = [Tokens EXCEPT ![n] = s.value] /\ Queues' = Queues
            BY <2>1, <2>2, ValueChanges DEF q
        <2>5. Queues[n] = <<>>
            BY <1>1, <2>3, EmptyContents
        <2>6. Fifo!Give(n)
            BY <1>1, <2>2, <2>4, <2>5 DEF Fifo!Give, Fifo!Existing
        <2>. QED BY <2>6, NextIs
    <1>. QED BY <1>2, <1>3

\* killProcess: the process leaves every queue.
LEMMA KilledFifo ==
    ASSUME IInv, NEW p \in Pid, Killed(p)
    PROVE  FifoStep
    <1>1. semaphores' = [n \in Names |->
              IF Exists(n) THEN WithQueue(semaphores[n], Without(semaphores[n].queue, p)) ELSE NULL]
        BY DEF Killed
    <1>2. ASSUME NEW n \in Names, Exists(n)
          PROVE  /\ Exists(n)' /\ semaphores'[n].value = Tokens[n]
                 /\ Contents(semaphores'[n].queue) = Fifo!Dropped(Queues[n], p)
        <2>. DEFINE q == semaphores[n].queue
                    s == WithQueue(semaphores[n], Without(q, p))
        <2>1. /\ semaphores[n] \in Semaphore /\ GoodRing(q)
              /\ Tokens[n] = semaphores[n].value /\ Queues[n] = Contents(q)
            BY <1>2, Fits
        <2>2. Without(q, p) \in Ring /\ Contents(Without(q, p)) = Fifo!Dropped(Contents(q), p)
            BY <2>1, WithoutCloses, WithoutIsDropped DEF GoodRing
        <2>3. s \in Semaphore /\ s.value = semaphores[n].value /\ s.queue = Without(q, p)
            BY <2>1, <2>2, SemaphoreFields
        <2>4. semaphores'[n] = s
            BY <1>1, <1>2
        <2>. QED BY <2>1, <2>2, <2>3, <2>4, NullIsNoSemaphore DEF Exists
    <1>3. \A n \in Names : ~Exists(n) => ~Exists(n)'
        BY <1>1 DEF Exists
    <1>4. Existing' = Existing /\ DOMAIN Tokens = Existing
        BY <1>2, <1>3 DEF Existing, Tokens
    <1>5. Tokens' = Tokens
        <2>1. \A n \in Existing : semaphores'[n].value = Tokens[n]
            BY <1>2 DEF Existing
        <2>2. Tokens' = [n \in Existing' |-> semaphores'[n].value] /\ Tokens = [n \in Existing |-> Tokens[n]]
            BY DEF Tokens
        <2>. QED BY <1>4, <2>1, <2>2
    <1>6. Queues' = [n \in Existing |-> Fifo!Dropped(Queues[n], p)]
        <2>1. \A n \in Existing : Contents(semaphores'[n].queue) = Fifo!Dropped(Queues[n], p)
            BY <1>2 DEF Existing
        <2>2. Queues' = [n \in Existing' |-> Contents(semaphores'[n].queue)]
            BY DEF Queues, Contents, CellAt
        <2>. QED BY <1>4, <2>1, <2>2
    <1>7. Fifo!Leave(p)
        BY <1>4, <1>5, <1>6 DEF Fifo!Leave, Fifo!Existing
    <1>. QED BY <1>7 DEF FifoStep, Fifo!FifoNext

----------------------------------------------------------------------------
\* The refinement

LEMMA FifoStarts == ASSUME Init PROVE Fifo!FifoInit
    <1>1. Existing = {}
        BY DEF Init, Existing, Exists
    <1>. QED BY <1>1 DEF Fifo!FifoInit, Tokens, Queues

LEMMA FifoSteps ==
    ASSUME RoomInRings, IInv, IInv', [Next]_vars
    PROVE  FifoStep
    <1>1. CASE semaphores' = semaphores
        BY <1>1, Unseen DEF Exists
    <1>2. CASE Next
        <2>1. Call /\ used \subseteq Names
            BY <1>2 DEF Next, IInv, TypeOK
        <2>2. ASSUME NEW p \in Pid, NEW n \in used,
                     \/ Open(p, n) \/ Close(p, n) \/ WaitReturnsAtOnce(p, n) \/ WaitBlocks(p, n)
              PROVE  FifoStep
            BY <2>1, <2>2, OpenFifo, CloseFifo, WaitAtOnceFifo, WaitBlocksFifo
        <2>3. ASSUME NEW p \in Pid, NEW n \in used, Release(p, n) \/ Signal(p, n)
              PROVE  FifoStep
            <3>1. CASE Exists(n) /\ SemPost(n)
                BY <2>1, <3>1, PostFifo
            <3>2. CASE semaphores' = semaphores
                BY <3>2, <1>1
            <3>. QED BY <2>3, <3>1, <3>2 DEF Release, Signal
        <2>4. ASSUME NEW p \in Pid, WaitResumes(p) \/ Created(p) \/ Exits(p) PROVE FifoStep
            BY <1>1, <2>4 DEF WaitResumes, Created, Exits
        <2>5. ASSUME NEW p \in Pid, Killed(p) PROVE FifoStep
            BY <2>5, KilledFifo
        <2>6. ASSUME NEW p \in Targets, Blocked(p) \/ Unblocked(p) PROVE FifoStep
            BY <1>1, <2>6 DEF Blocked, Unblocked
        <2>. QED BY <2>1, <2>2, <2>3, <2>4, <2>5, <2>6 DEF Call
    <1>3. CASE UNCHANGED vars
        BY <1>1, <1>3 DEF vars
    <1>. QED BY <1>2, <1>3

\* For any number of processes and names, with kills in the middle of a ring, closes and reopens:
\* tokens are neither made nor lost inside the kernel, a post goes to the longest waiter, a kill
\* keeps the order of the others, and what is freed has no waiters (synchro.c).
THEOREM SemaphoresAreFifo ==
    ASSUME RoomInRings, ~BlocksWaiters
    PROVE  Spec => ImplementsFifo
    <1>1. Init => IInv
        BY IInvInit
    <1>2. IInv /\ [Next]_vars => IInv'
        BY IInvNext
    <1>3. Init => Fifo!FifoInit
        BY FifoStarts
    <1>4. IInv /\ IInv' /\ [Next]_vars => [Fifo!FifoNext]_<<Tokens, Queues>>
        BY FifoSteps DEF FifoStep
    <1>. QED BY <1>1, <1>2, <1>3, <1>4, PTL DEF Spec, ImplementsFifo, Fifo!FifoSpec
====
