---- MODULE FreeListHeap ----
(***************************************************************************)
(* 3_Kernel/2_libraries/memoryManager.c, the heap of the default build: a  *)
(* list of blocks, first fit, neighbours merged by my_free.  Addresses are *)
(* offsets from heap_start.                                                *)
(***************************************************************************)
EXTENDS Integers, Sequences, SequencesExt

CONSTANTS
    HEAP_SIZE,
    BLOCK_HEADER_SIZE,   \* sizeof(block_header_t), 16
    WORD,                \* 2^32, the range of uint32_t
    Request              \* the sizes clients ask for

VARIABLES
    blocks,     \* free_list, in the order of the links
    used_mem,   \* mem_info.used_mem
    live        \* what the clients have: data pointer -> bytes asked for

heapVars == <<blocks, used_mem, live>>

DataOf(b) == b.at + BLOCK_HEADER_SIZE
EndOf(b) == DataOf(b) + b.size

Init ==
    /\ blocks = <<[at |-> 0, size |-> HEAP_SIZE - BLOCK_HEADER_SIZE, free |-> TRUE]>>
    /\ used_mem = 0
    /\ live = <<>>

ALIGN4(x) == ((((x - 1) % WORD) \div 4) * 4 + 4) % WORD

Fits(b, n) == b.free /\ b.size >= n
FirstFit(n) ==
    {i \in DOMAIN blocks : Fits(blocks[i], n) /\ \A j \in 1 .. i - 1 : ~Fits(blocks[j], n)}

\* Block b, taken for n bytes: split if the rest can hold a header and four bytes.
Taken(b, n) ==
    IF b.size >= n + BLOCK_HEADER_SIZE + 4
    THEN <<[b EXCEPT !.size = n, !.free = FALSE],
           [at |-> DataOf(b) + n, size |-> b.size - n - BLOCK_HEADER_SIZE, free |-> TRUE]>>
    ELSE <<[b EXCEPT !.free = FALSE]>>

Malloc(request) ==
    \E i \in FirstFit(ALIGN4(request)) :
        LET taken == Taken(blocks[i], ALIGN4(request))
        IN  /\ blocks' = SubSeq(blocks, 1, i - 1) \o taken \o SubSeq(blocks, i + 1, Len(blocks))
            /\ used_mem' = used_mem + taken[1].size + BLOCK_HEADER_SIZE
            /\ live' = [p \in DOMAIN live \cup {DataOf(blocks[i])} |->
                            IF p = DataOf(blocks[i]) THEN request ELSE live[p]]

MallocReturnsNull(request) == FirstFit(ALIGN4(request)) = {} /\ UNCHANGED heapVars

\* Variant with a bug: neighbours in the list merge whoever owns the second.
MergedIntoAny(done, b) ==
    LET last == done[Len(done)]
    IN  IF done # <<>> /\ last.free /\ EndOf(last) = b.at
        THEN [done EXCEPT ![Len(done)].size = @ + BLOCK_HEADER_SIZE + b.size]
        ELSE Append(done, b)

\* One step of the pass of my_free: b is merged into the block before it or kept.
MergedInto(done, b) ==
    LET last == done[Len(done)]
    IN  IF done # <<>> /\ last.free /\ b.free /\ EndOf(last) = b.at
        THEN [done EXCEPT ![Len(done)].size = @ + BLOCK_HEADER_SIZE + b.size]
        ELSE Append(done, b)

\* The whole pass: done[k] is what it leaves of the first k blocks.
Merged(list) ==
    LET done[k \in 0 .. Len(list)] ==
            IF k = 0 THEN <<>> ELSE MergedInto(done[k - 1], list[k])
    IN  done[Len(list)]

\* my_free of a pointer that my_malloc returned and nobody has freed, up to its end and
\* with no other call in its middle (MemoryManager: Quiet, FreeBegins, Disturb).
Free(p) ==
    \E i \in DOMAIN blocks :
        /\ DataOf(blocks[i]) = p
        /\ blocks' = Merged([blocks EXCEPT ![i].free = TRUE])
        /\ used_mem' = used_mem - (blocks[i].size + BLOCK_HEADER_SIZE)
        /\ live' = [q \in DOMAIN live \ {p} |-> live[q]]

Next ==
    \/ \E request \in Request : Malloc(request) \/ MallocReturnsNull(request)
    \/ \E p \in DOMAIN live : Free(p)

----------------------------------------------------------------------------
\* Properties, combined with those of BuddyHeap in MemoryManager

\* The blocks follow each other without a gap from the first byte of the heap to its last.
BlocksTileHeap ==
    /\ blocks[1].at = 0
    /\ \A i \in 1 .. Len(blocks) - 1 : EndOf(blocks[i]) = blocks[i + 1].at
    /\ EndOf(blocks[Len(blocks)]) = HEAP_SIZE

InUse == {i \in DOMAIN blocks : ~blocks[i].free}
UsedIsCounted ==
    used_mem = MapThenSumSet(LAMBDA b : b.size + BLOCK_HEADER_SIZE, {blocks[i] : i \in InUse})

\* A request fails only if no stretch of the heap between used blocks could hold it.  A
\* stretch can always be moved down to the start of the heap or the end of a used block.
RoomIsFound ==
    \A request \in Request : \A from \in {0} \cup {EndOf(blocks[i]) : i \in InUse} :
        LET end == from + BLOCK_HEADER_SIZE + ALIGN4(request)
        IN  /\ end <= HEAP_SIZE
            /\ \A i \in InUse : EndOf(blocks[i]) <= from \/ end <= blocks[i].at
            => FirstFit(ALIGN4(request)) # {}

Owned ==
    [p \in {DataOf(blocks[i]) : i \in InUse} |->
        LET b == CHOOSE b \in {blocks[i] : i \in InUse} : DataOf(b) = p
        IN  [first |-> b.at, end |-> EndOf(b), size |-> IF p \in DOMAIN live THEN live[p] ELSE -1]]
====
