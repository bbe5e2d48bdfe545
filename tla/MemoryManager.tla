---- MODULE MemoryManager ----
(***************************************************************************)
(* The memory manager as it is built: with the free list, or with          *)
(* -DUSE_BUDDY (compile.sh), under the same interface.  The build is       *)
(* chosen in the initial state; the variables of the other heap rest.      *)
(*                                                                         *)
(* my_malloc, and my_free in a system call, run with interrupts off.  But  *)
(* destroyProcess frees with interrupts on in a myExit that a process      *)
(* reaches by returning from main, and in init's reaper (removeProcess):   *)
(* such a my_free has a beginning and an end between which others run.  If *)
(* one of them calls the memory manager there, it finds a list or a merge  *)
(* half-way, and the my_free then goes on with what it had read, or, after *)
(* a myExit, never: its process is TERMINATED, and whoever removes it      *)
(* frees the same blocks a second time.  What the heap is then depends on  *)
(* the instruction; "disturbed" records such a call, and behaviours are    *)
(* followed up to it and no further.                                       *)
(***************************************************************************)
EXTENDS Integers

CONSTANTS HEAP_SIZE, BLOCK_HEADER_SIZE, HEADER_SIZE, MIN_ORDER, WORD, Request

ASSUME SizeAssumption ==
    /\ HEAP_SIZE \in Nat /\ BLOCK_HEADER_SIZE \in 1 .. HEAP_SIZE
    /\ WORD \in Nat /\ WORD > 4 /\ WORD % 4 = 0
    /\ HEADER_SIZE \in 1 .. WORD \div 2 /\ MIN_ORDER \in Nat

\* Requests for which the sums of my_malloc do not leave uint32_t.
ASSUME RequestAssumption ==
    Request \subseteq 0 .. WORD \div 2 - BLOCK_HEADER_SIZE

VARIABLES
    build, blocks, free_lists, headers, used_mem, live,
    freeing,     \* the pointer whose my_free is under way with interrupts on, in a set
    disturbed    \* history: somebody has called in the middle of it

heap == <<build, blocks, free_lists, headers, used_mem, live>>
vars == <<heap, freeing, disturbed>>

List == INSTANCE FreeListHeap
Buddy == INSTANCE BuddyHeap

UsesList == build = "default"

Init ==
    /\ freeing = {} /\ disturbed = FALSE
    /\ \/ /\ build = "default" /\ List!Init
          /\ free_lists = <<>> /\ headers = <<>>
       \/ /\ build = "USE_BUDDY" /\ Buddy!Init
          /\ blocks = <<>>

\* Nobody is in the middle of a my_free.
Quiet == freeing = {} /\ ~disturbed /\ UNCHANGED <<freeing, disturbed>>

\* A my_free with interrupts on begins.  Nobody sees what it has done before it ends.
FreeBegins(p) ==
    /\ freeing = {} /\ ~disturbed
    /\ freeing' = {p} /\ UNCHANGED <<heap, disturbed>>

\* It ends; or one with interrupts off begins and ends.
FreeEnds(p) == ~disturbed /\ freeing \subseteq {p} /\ freeing' = {} /\ UNCHANGED disturbed

\* Another call of my_malloc, my_free or mem_dump comes in the middle.
Disturb == freeing # {} /\ ~disturbed /\ disturbed' = TRUE /\ UNCHANGED <<heap, freeing>>
NotFollowed == disturbed /\ UNCHANGED vars

ListMalloc(request) ==
    Quiet /\ UsesList /\ List!Malloc(request) /\ UNCHANGED <<build, free_lists, headers>>
ListMallocReturnsNull(request) ==
    /\ Quiet /\ UsesList /\ List!MallocReturnsNull(request)
    /\ UNCHANGED <<build, free_lists, headers>>
ListFree(p) ==
    FreeEnds(p) /\ UsesList /\ List!Free(p) /\ UNCHANGED <<build, free_lists, headers>>

BuddyMalloc(request) ==
    Quiet /\ ~UsesList /\ Buddy!Malloc(request) /\ UNCHANGED <<build, blocks>>
BuddyMallocReturnsNull(request) ==
    Quiet /\ ~UsesList /\ Buddy!MallocReturnsNull(request) /\ UNCHANGED <<build, blocks>>
BuddyFree(p) ==
    FreeEnds(p) /\ ~UsesList /\ Buddy!Free(p) /\ UNCHANGED <<build, blocks>>

Next ==
    \/ \E request \in Request :
          \/ ListMalloc(request) \/ ListMallocReturnsNull(request)
          \/ BuddyMalloc(request) \/ BuddyMallocReturnsNull(request)
    \/ \E p \in DOMAIN live : FreeBegins(p) \/ ListFree(p) \/ BuddyFree(p)
    \/ Disturb \/ NotFollowed

Spec == Init /\ [][Next]_vars

----------------------------------------------------------------------------
\* Properties: of the heap that a call finds, as long as none has come in the middle of a
\* my_free that runs with interrupts on and no pointer has been freed twice (destroyProcess
\* of a process that was preempted in its own destroyProcess does both)

\* After any such sequence of calls the blocks cover the heap exactly once: splitting and
\* merging (my_malloc, my_free) neither lose bytes nor hand them out twice.
BlocksTileHeap == IF UsesList THEN List!BlocksTileHeap ELSE Buddy!BlocksTileHeap

\* mem_dump reports as used exactly the blocks that are allocated.
UsedIsCounted == IF UsesList THEN List!UsedIsCounted ELSE Buddy!UsedIsCounted

\* my_malloc returns NULL only when nothing large enough is free: a my_free that ends
\* undisturbed merges all there is to merge, whatever the order of the frees.
RoomIsFound == IF UsesList THEN List!RoomIsFound ELSE Buddy!RoomIsFound

\* The mapping to Allocator: the blocks in use, with what their owners asked for.
Interface == INSTANCE Allocator WITH owned <- IF UsesList THEN List!Owned ELSE Buddy!Owned

\* Both heaps are allocators: what is in use is disjoint, large enough, and only changed
\* by its owner's my_free, as long as none is disturbed.
ImplementsAllocator == Interface!AllocatorSpec
====
