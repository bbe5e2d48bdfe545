---- MODULE WaitRing ----
(***************************************************************************)
(* circular_buffer_t of 3_Kernel/2_libraries/synchro.c, the queue of the   *)
(* pids that wait for a semaphore, as values.  Contents is what a ring     *)
(* stands for; the cells outside it keep whatever was there.               *)
(***************************************************************************)
EXTENDS Integers, Sequences

CONSTANTS
    Pid,          \* the processes that use semaphores
    QUEUE_SIZE,   \* MAX_PROCESSES of processInc.h, the capacity of a ring
    NULL

ASSUME QueueSizeAssumption == QUEUE_SIZE \in Nat \ {0}
ASSUME NullIsNoPid == NULL \notin Pid

Cell == 0 .. QUEUE_SIZE - 1

Ring == [v : [Cell -> Pid \cup {NULL}], readIndex : Cell, writeIndex : Cell, size : Nat]

EmptyRing == [v |-> [i \in Cell |-> NULL], readIndex |-> 0, writeIndex |-> 0, size |-> 0]

\* Cell i of the ring, counted from the cell "from" on.
CellAt(from, i) == (from + i) % QUEUE_SIZE

Contents(q) == [i \in 1 .. q.size |-> q.v[CellAt(q.readIndex, i - 1)]]

IsFull(q) == q.size >= QUEUE_SIZE

\* addToQueue, for a ring that is not full.
Added(q, pid) ==
    [q EXCEPT !.v[q.writeIndex] = pid, !.writeIndex = CellAt(@, 1), !.size = @ + 1]

\* popFromQueue, for a ring that is not empty.
First(q) == q.v[q.readIndex]

Popped(q) == [q EXCEPT !.readIndex = CellAt(@, 1), !.size = @ - 1]

\* How many cells the shifting loop of remove_process_from_queue copies when it starts at
\* offset j: it runs until writeIndex, so not at all in a full ring with j = 0.
Shifts(q, j) == (q.writeIndex - CellAt(q.readIndex, j)) % QUEUE_SIZE

\* Variant with a bug: the hole is closed but writeIndex stays.
WithoutStaleIndex(q, pid) ==
    LET found == {j \in 0 .. q.size - 1 :
                     /\ q.v[CellAt(q.readIndex, j)] = pid
                     /\ \A i \in 0 .. j - 1 : q.v[CellAt(q.readIndex, i)] # pid}
        Shifted(j) == {CellAt(q.readIndex, j + i) : i \in 0 .. Shifts(q, j) - 1}
    IN  IF found = {} THEN q
        ELSE LET j == CHOOSE j \in found : TRUE
             IN  [q EXCEPT !.v = [c \in Cell |-> IF c \in Shifted(j) THEN q.v[CellAt(c, 1)]
                                                 ELSE q.v[c]],
                           !.size = @ - 1]

\* remove_process_from_queue: the first entry of pid leaves, the later ones move up.
Without(q, pid) ==
    LET found == {j \in 0 .. q.size - 1 :
                     /\ q.v[CellAt(q.readIndex, j)] = pid
                     /\ \A i \in 0 .. j - 1 : q.v[CellAt(q.readIndex, i)] # pid}
        Shifted(j) == {CellAt(q.readIndex, j + i) : i \in 0 .. Shifts(q, j) - 1}
    IN  IF found = {} THEN q
        ELSE LET j == CHOOSE j \in found : TRUE
             IN  [q EXCEPT !.v = [c \in Cell |-> IF c \in Shifted(j) THEN q.v[CellAt(c, 1)]
                                                 ELSE q.v[c]],
                           !.writeIndex = CellAt(@, QUEUE_SIZE - 1),
                           !.size = @ - 1]
====
