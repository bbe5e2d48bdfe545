---- MODULE Allocator ----
(***************************************************************************)
(* What my_malloc and my_free promise whatever the build: a block belongs  *)
(* to one owner from the call that returns it to the call that frees it,   *)
(* it holds what was asked for, and no other call touches it.              *)
(***************************************************************************)
EXTENDS Naturals

CONSTANTS HEAP_SIZE, Request

\* By data pointer: the block's first byte, the byte after its last one, the bytes asked for.
VARIABLE owned

Disjoint(a, b) == a.end <= b.first \/ b.end <= a.first

AllocatorInit == owned = <<>>

Grant ==
    \E p \in DOMAIN owned' \ DOMAIN owned :
        LET new == owned'[p]
        IN  /\ owned' = [q \in DOMAIN owned \cup {p} |-> IF q = p THEN new ELSE owned[q]]
            /\ new.size \in Request
            /\ new.first < p /\ p + new.size <= new.end /\ new.end <= HEAP_SIZE
            /\ \A q \in DOMAIN owned : Disjoint(new, owned[q])

Release == \E p \in DOMAIN owned : owned' = [q \in DOMAIN owned \ {p} |-> owned[q]]

AllocatorSpec == AllocatorInit /\ [][Grant \/ Release]_owned
====
