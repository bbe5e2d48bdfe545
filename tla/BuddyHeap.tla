---- MODULE BuddyHeap ----
(***************************************************************************)
(* 3_Kernel/2_libraries/buddyMemoryManager.c, the heap of the USE_BUDDY    *)
(* build: blocks of 2^order bytes, a list of the free ones for each order. *)
(* Addresses are offsets from heap_start, a doubly linked list is the      *)
(* sequence of its members.                                                *)
(***************************************************************************)
EXTENDS Integers, Sequences, SequencesExt

CONSTANTS
    HEAP_SIZE,
    HEADER_SIZE,   \* sizeof(alloc_header_t), 8
    MIN_ORDER,     \* 5
    WORD,          \* 2^32, the range of uint32_t
    Request        \* the sizes clients ask for

VARIABLES
    free_lists,    \* per order, the free blocks from the head of the list on
    headers,       \* the blocks whose header has ALLOC_MAGIC, with their order
    used_mem,      \* mem_info.used_mem
    live           \* what the clients have: data pointer -> bytes asked for

buddyVars == <<free_lists, headers, used_mem, live>>

\* 1UL << n
Pow2[n \in Nat] == IF n = 0 THEN 1 ELSE 2 * Pow2[n - 1]

Log2Ceil(n) == CHOOSE o \in 0 .. n : Pow2[o] >= n /\ \A m \in 0 .. o - 1 : Pow2[m] < n

max_order == IF Pow2[Log2Ceil(HEAP_SIZE)] > HEAP_SIZE THEN Log2Ceil(HEAP_SIZE) - 1
             ELSE Log2Ceil(HEAP_SIZE)
Orders == 0 .. max_order

Init ==
    /\ free_lists = [o \in Orders |-> IF o = max_order THEN <<0>> ELSE <<>>]
    /\ headers = <<>>
    /\ used_mem = 0
    /\ live = <<>>

\* The order of a block for a request; the sum is a uint32_t.
OrderFor(request) ==
    LET order == Log2Ceil((request + HEADER_SIZE) % WORD)
    IN  IF order < MIN_ORDER THEN MIN_ORDER ELSE order

\* The lowest order with a free block, from the one asked for on.
AllocOrder(order) ==
    {a \in order .. max_order :
        free_lists[a] # <<>> /\ \A b \in order .. a - 1 : free_lists[b] = <<>>}

\* Variant with a bug: the buddy split off a block larger than asked for is forgotten.
AfterSplitsLost(a, order, block) ==
    [o \in Orders |-> IF o = a THEN Tail(free_lists[o]) ELSE free_lists[o]]

\* The block leaves the list of order a, and is halved down to the order asked for: the
\* upper half of each split stays behind in its list.
AfterSplits(a, order, block) ==
    [o \in Orders |-> CASE o = a -> Tail(free_lists[o])
                        [] order <= o /\ o < a -> <<block + Pow2[o]>> \o free_lists[o]
                        [] OTHER -> free_lists[o]]

Malloc(request) ==
    LET order == OrderFor(request)
    IN  /\ request # 0
        /\ \E a \in AllocOrder(order) :
               LET block == Head(free_lists[a])
                   data == block + HEADER_SIZE
               IN  /\ free_lists' = AfterSplits(a, order, block)
                   /\ headers' = [b \in DOMAIN headers \cup {block} |->
                                      IF b = block THEN order ELSE headers[b]]
                   /\ used_mem' = used_mem + Pow2[order]
                   /\ live' = [p \in DOMAIN live \cup {data} |->
                                   IF p = data THEN request ELSE live[p]]

MallocReturnsNull(request) ==
    /\ request = 0 \/ AllocOrder(OrderFor(request)) = {}
    /\ UNCHANGED buddyVars

\* get_buddy_offset: the offset XOR 1UL << order.
BuddyOf(block, order) ==
    IF (block \div Pow2[order]) % 2 = 0 THEN block + Pow2[order] ELSE block - Pow2[order]

\* The block of the given order that "block" is part of.
Around(block, order) == (block \div Pow2[order]) * Pow2[order]

BuddyIsFree(block, order) ==
    \E i \in DOMAIN free_lists[order] :
        free_lists[order][i] = BuddyOf(Around(block, order), order)

\* Variant with a bug: a block merges with its buddy, the result with nobody.
MergedOnce(block, order) ==
    IF order < max_order /\ BuddyIsFree(block, order) THEN order + 1 ELSE order

\* The order at which merging stops: the heap is whole, or the buddy is not free.
MergedOrder(block, order) ==
    CHOOSE m \in order .. max_order :
        /\ m = max_order \/ ~BuddyIsFree(block, m)
        /\ \A o \in order .. m - 1 : BuddyIsFree(block, o)

\* remove_from_free_list: a block is in a list once.
Unlinked(list, block) ==
    LET k == CHOOSE k \in DOMAIN list : list[k] = block
    IN  [i \in 1 .. Len(list) - 1 |-> IF i < k THEN list[i] ELSE list[i + 1]]

\* Variant with a bug: the merged block goes back at the address of the one that was freed.
AfterMergesAt(block, order) ==
    LET m == MergedOrder(block, order)
    IN  [o \in Orders |->
            CASE o = m -> <<block>> \o free_lists[o]
              [] order <= o /\ o < m ->
                     Unlinked(free_lists[o], BuddyOf(Around(block, o), o))
              [] OTHER -> free_lists[o]]

AfterMerges(block, order) ==
    LET m == MergedOrder(block, order)
    IN  [o \in Orders |->
            CASE o = m -> <<Around(block, m)>> \o free_lists[o]
              [] order <= o /\ o < m ->
                     Unlinked(free_lists[o], BuddyOf(Around(block, o), o))
              [] OTHER -> free_lists[o]]

\* my_free of a pointer that my_malloc returned and nobody has freed, up to its end and
\* with no other call in its middle (MemoryManager: Quiet, FreeBegins, Disturb).
Free(p) ==
    LET block == p - HEADER_SIZE
    IN  /\ block \in DOMAIN headers
        /\ free_lists' = AfterMerges(block, headers[block])
        /\ headers' = [b \in DOMAIN headers \ {block} |-> headers[b]]
        /\ used_mem' = used_mem - Pow2[headers[block]]
        /\ live' = [q \in DOMAIN live \ {p} |-> live[q]]

Next ==
    \/ \E request \in Request : Malloc(request) \/ MallocReturnsNull(request)
    \/ \E p \in DOMAIN live : Free(p)

----------------------------------------------------------------------------
\* Properties, combined with those of FreeListHeap in MemoryManager

UsedBlocks == {<<b, headers[b]>> : b \in DOMAIN headers}
FreeBlocks == UNION {{<<free_lists[o][i], o>> : i \in DOMAIN free_lists[o]} : o \in Orders}
Bytes(b) == b[1] .. b[1] + Pow2[b[2]] - 1

\* Every byte is in exactly one block, used or free, and no list holds a block twice.
BlocksTileHeap ==
    LET all == UsedBlocks \cup FreeBlocks
    IN  /\ UNION {Bytes(b) : b \in all} = 0 .. Pow2[max_order] - 1
        /\ \A b, c \in all : b # c => Bytes(b) \cap Bytes(c) = {}
        /\ UsedBlocks \cap FreeBlocks = {}
        /\ \A o \in Orders : IsInjective(free_lists[o])

UsedIsCounted == used_mem = MapThenSumSet(LAMBDA b : Pow2[b[2]], UsedBlocks)

\* A request fails only if no aligned block of its order is free of used bytes.
RoomIsFound ==
    \A request \in Request \ {0} :
        LET order == OrderFor(request)
            aligned == {i * Pow2[order] : i \in 0 .. Pow2[max_order] \div Pow2[order] - 1}
            empty == {from \in aligned :
                         \A b \in UsedBlocks : Bytes(b) \cap Bytes(<<from, order>>) = {}}
        IN  order <= max_order /\ empty # {} => AllocOrder(order) # {}

Owned ==
    [p \in {b + HEADER_SIZE : b \in DOMAIN headers} |->
        LET b == p - HEADER_SIZE
        IN  [first |-> b, end |-> b + Pow2[headers[b]],
             size |-> IF p \in DOMAIN live THEN live[p] ELSE -1]]
====
