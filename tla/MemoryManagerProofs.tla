---- MODULE MemoryManagerProofs ----
(***************************************************************************)
(* Theorems about MemoryManager, for both builds and for a heap, a header  *)
(* and requests of any size: the blocks tile the heap, mem_dump is right,  *)
(* my_malloc fails only when there is no room, and the two calls implement *)
(* Allocator.  All of it until a call comes in the middle of a my_free     *)
(* that runs with interrupts on, and for pointers that are freed once, as  *)
(* MemoryManager says.  First the list of blocks, then powers of two and   *)
(* the heap of USE_BUDDY, then the four theorems.                          *)
(***************************************************************************)
EXTENDS MemoryManager, WaitQueueProofs, SequenceTheorems, FiniteSetTheorems,
        WellFoundedInduction, TLAPS

Block == [at : Nat, size : Nat, free : BOOLEAN]

\* The blocks of a list follow each other from 0 to end.  The last part follows from the others
\* by induction; as a part of its own it is kept by each change instead.
Tiles(s, end) ==
    /\ s \in Seq(Block) /\ s # <<>>
    /\ s[1].at = 0 /\ List!EndOf(s[Len(s)]) = end
    /\ \A i \in 1 .. Len(s) - 1 : List!EndOf(s[i]) = s[i + 1].at
    /\ \A i, j \in DOMAIN s : i < j => List!EndOf(s[i]) <= s[j].at

\* No two free blocks touch, and what is in use.
Coalesced(s) == \A i \in 1 .. Len(s) - 1 : ~(s[i].free /\ s[i + 1].free)
Used(s) == {s[i] : i \in {j \in DOMAIN s : ~s[j].free}}

----------------------------------------------------------------------------
\* What a request is rounded up to.
LEMMA Aligned ==
    ASSUME NEW r \in Request
    PROVE  /\ r \in Nat /\ List!ALIGN4(r) \in Nat /\ r <= List!ALIGN4(r)
<1> DEFINE h == WORD \div 2
<1>0. WORD \in Nat /\ WORD > 4 /\ WORD % 4 = 0 /\ h \in Nat /\ h >= 4 /\ h + h <= WORD
    BY SizeAssumption
<1>1. r \in Nat /\ r < h
    BY SizeAssumption, RequestAssumption, <1>0
<1> HIDE DEF h
<1>2. CASE r = 0
    <2>1. (r - 1) % WORD = WORD - 1
        BY <1>0, <1>2
    <2>2. ((WORD - 1) \div 4) * 4 + 4 = WORD
        BY <1>0
    <2>3. List!ALIGN4(r) = 0
        BY <1>0, <2>1, <2>2 DEF List!ALIGN4
    <2>4. QED
        BY <1>2, <2>3
<1>3. CASE r # 0
    <2>1. (r - 1) % WORD = r - 1
        <3>1. r - 1 \in 0 .. WORD - 1
            BY <1>0, <1>1, <1>3
        <3>2. QED
            BY <1>0, <3>1
    <2> DEFINE a == ((r - 1) \div 4) * 4 + 4
    <2>2. a \in Nat /\ r <= a /\ a <= r + 3
        BY <1>1, <1>3
    <2>3. a < WORD
        BY <1>0, <1>1, <2>2
    <2>4. a % WORD = a
        BY <1>0, <2>2, <2>3
    <2>5. List!ALIGN4(r) = a
        BY <2>1, <2>4 DEF List!ALIGN4
    <2>6. QED
        BY <1>1, <2>2, <2>5
<1>4. QED
    BY <1>2, <1>3

----------------------------------------------------------------------------
(***************************************************************************)
(* The pass of my_free.  Its definition is recursive: that there is such a *)
(* function is shown first.                                                *)
(***************************************************************************)
IsPass(f, s, n) ==
    f = [k \in 0 .. n |-> IF k = 0 THEN <<>> ELSE List!MergedInto(f[k - 1], s[k])]
Pass(s) == CHOOSE f : IsPass(f, s, Len(s))

LEMMA MergedIsPass ==
    ASSUME NEW s
    PROVE  List!Merged(s) = Pass(s)[Len(s)]
    BY DEF List!Merged, Pass, IsPass

LEMMA PassExists ==
    ASSUME NEW s, Len(s) \in Nat
    PROVE  IsPass(Pass(s), s, Len(s))
<1> DEFINE S == {n \in 0 .. Len(s) : \E f : IsPass(f, s, n)}
<1>1. 0 \in S
    <2> DEFINE f == [k \in 0 .. 0 |-> <<>>]
    <2>1. IsPass(f, s, 0)
        BY DEF IsPass
    <2> HIDE DEF f
    <2>2. QED
        BY <2>1
<1>2. ASSUME NEW n \in 0 .. Len(s) - 1, n \in S PROVE n + 1 \in S
    <2>1. PICK f : IsPass(f, s, n)
        BY <1>2
    <2> DEFINE g == [k \in 0 .. n + 1 |->
                        IF k = n + 1 THEN List!MergedInto(f[n], s[n + 1]) ELSE f[k]]
    <2>2. \A k \in 0 .. n : f[k] = IF k = 0 THEN <<>> ELSE List!MergedInto(f[k - 1], s[k])
        BY <2>1 DEF IsPass
    <2>3. /\ \A k \in 0 .. n : g[k] = f[k]
          /\ g[n + 1] = List!MergedInto(f[n], s[n + 1])
        OBVIOUS
    <2>4. \A k \in 0 .. n + 1 : g[k] = IF k = 0 THEN <<>> ELSE List!MergedInto(g[k - 1], s[k])
        <3> SUFFICES ASSUME NEW k \in 0 .. n + 1
                     PROVE  g[k] = IF k = 0 THEN <<>> ELSE List!MergedInto(g[k - 1], s[k])
            OBVIOUS
        <3> HIDE DEF g
        <3>1. CASE k = n + 1
            <4>1. g[n] = f[n] /\ n + 1 # 0 /\ (n + 1) - 1 = n
                BY <2>3
            <4>2. QED
                BY <3>1, <2>3, <4>1
        <3>2. CASE k \in 0 .. n
            <4>1. g[k] = f[k] /\ (k # 0 => g[k - 1] = f[k - 1])
                BY <3>2, <2>3
            <4>2. QED
                BY <3>2, <2>2, <4>1
        <3>3. QED
            BY <3>1, <3>2
    <2>5. g = [k \in 0 .. n + 1 |-> g[k]]
        OBVIOUS
    <2> HIDE DEF g
    <2>6. IsPass(g, s, n + 1)
        BY <2>4, <2>5 DEF IsPass
    <2>7. QED
        BY <2>6
<1>3. \A k \in 0 .. Len(s) : k \in S
    BY <1>1, <1>2, UpTo
<1>4. \E f : IsPass(f, s, Len(s))
    BY <1>3
<1>5. QED
    BY <1>4 DEF Pass

\* One block more is merged into the last one, or put behind it.
LEMMA MergeGrows ==
    ASSUME NEW d, NEW e, NEW b \in Block, Tiles(d, e), Coalesced(d), b.at = e
    PROVE  LET r == List!MergedInto(d, b)
           IN  /\ Tiles(r, List!EndOf(b)) /\ Coalesced(r)
               /\ Used(r) = Used(d) \cup (IF b.free THEN {} ELSE {b})
               /\ r[Len(r)].free = b.free
<1> DEFINE r == List!MergedInto(d, b)
           n == Len(d)
           last == d[n]
<1>1. /\ d \in Seq(Block) /\ n \in Nat \ {0} /\ DOMAIN d = 1 .. n /\ last \in Block
      /\ d # <<>> /\ List!EndOf(last) = b.at
    BY DEF Tiles
<1>2. BLOCK_HEADER_SIZE \in Nat
    BY SizeAssumption
<1>3. ASSUME last.free, b.free
      PROVE  /\ Tiles(r, List!EndOf(b)) /\ Coalesced(r)
             /\ Used(r) = Used(d) /\ r[Len(r)].free
    <2> DEFINE m == [last EXCEPT !.size = @ + BLOCK_HEADER_SIZE + b.size]
    <2>1. r = [d EXCEPT ![n] = m]
        <3>1. r = [d EXCEPT ![n].size = @ + BLOCK_HEADER_SIZE + b.size]
            BY <1>1, <1>3 DEF List!MergedInto
        <3>2. QED
            BY <3>1
    <2>2. m \in Block /\ m.at = last.at /\ m.free /\ List!EndOf(m) = List!EndOf(b)
        <3>1. last.at \in Nat /\ last.size \in Nat /\ b.at \in Nat /\ b.size \in Nat
            BY <1>1 DEF Block
        <3>2. b.at = last.at + BLOCK_HEADER_SIZE + last.size
            BY <1>1 DEF List!EndOf, List!DataOf
        <3>3. m \in Block /\ m.at = last.at /\ m.free
              /\ m.size = last.size + BLOCK_HEADER_SIZE + b.size
            BY SMTT(40), <1>1, <1>2, <1>3, <3>1 DEF Block
        <3>4. List!EndOf(m) = m.at + BLOCK_HEADER_SIZE + m.size
              /\ List!EndOf(b) = b.at + BLOCK_HEADER_SIZE + b.size
            BY DEF List!EndOf, List!DataOf
        <3> HIDE DEF m
        <3>5. QED
            BY SMTT(40), <1>2, <3>1, <3>2, <3>3, <3>4
    <2> HIDE DEF m
    <2>3. /\ r \in Seq(Block) /\ Len(r) = n /\ DOMAIN r = 1 .. n /\ r[n] = m
          /\ \A i \in 1 .. n - 1 : r[i] = d[i]
        BY <1>1, <2>1, <2>2
    <2> HIDE DEF r
    <2>4. Tiles(r, List!EndOf(b))
        <3>1. r # <<>> /\ r[1].at = 0
            BY <1>1, <2>2, <2>3 DEF Tiles
        <3>2. \A i \in 1 .. n : r[i].at = d[i].at
            BY <1>1, <2>2, <2>3
        <3>3. \A i \in 1 .. n - 1 : List!EndOf(r[i]) = r[i + 1].at
            <4>1. \A i \in 1 .. n - 1 : List!EndOf(d[i]) = d[i + 1].at
                BY <1>1 DEF Tiles
            <4>2. \A i \in 1 .. n - 1 : r[i + 1].at = d[i + 1].at
                BY <1>1, <3>2
            <4>3. QED
                BY <2>3, <4>1, <4>2
        <3>4. \A i, j \in DOMAIN r : i < j => List!EndOf(r[i]) <= r[j].at
            BY <1>1, <2>3, <3>2 DEF Tiles
        <3>5. QED
            BY <2>2, <2>3, <3>1, <3>3, <3>4 DEF Tiles
    <2>5. Coalesced(r)
        BY <1>1, <1>3, <2>2, <2>3 DEF Coalesced
    <2>6. Used(r) = Used(d)
        BY <1>1, <1>3, <2>2, <2>3 DEF Used
    <2>7. QED
        BY <2>2, <2>3, <2>4, <2>5, <2>6
<1>4. ASSUME ~(last.free /\ b.free)
      PROVE  /\ Tiles(r, List!EndOf(b)) /\ Coalesced(r)
             /\ Used(r) = Used(d) \cup (IF b.free THEN {} ELSE {b})
             /\ r[Len(r)].free = b.free
    <2>1. r = Append(d, b)
        BY <1>1, <1>4 DEF List!MergedInto
    <2>2. /\ r \in Seq(Block) /\ Len(r) = n + 1 /\ DOMAIN r = 1 .. n + 1 /\ r[n + 1] = b
          /\ \A i \in 1 .. n : r[i] = d[i]
        BY <1>1, <2>1
    <2> HIDE DEF r
    <2>3. Tiles(r, List!EndOf(b))
        <3>1. \A i \in 1 .. n : List!EndOf(d[i]) <= b.at
            <4>1. \A i \in 1 .. n : d[i] \in Block
                BY <1>1
            <4>2. \A i \in 1 .. n : List!EndOf(d[i]) \in Nat
                BY <1>2, <4>1 DEF Block, List!EndOf, List!DataOf
            <4>3. \A i \in 1 .. n - 1 : List!EndOf(d[i]) <= last.at
                BY <1>1 DEF Tiles
            <4>4. last.at <= List!EndOf(last)
                BY <1>1, <1>2 DEF Block, List!EndOf, List!DataOf
            <4>5. last.at \in Nat
                BY <1>1 DEF Block
            <4>6. QED
                BY <1>1, <4>2, <4>3, <4>4, <4>5
        <3>2. r # <<>> /\ r[1].at = 0 /\ r[Len(r)] = b
            BY <1>1, <2>2 DEF Tiles
        <3>3. \A i \in 1 .. Len(r) - 1 : List!EndOf(r[i]) = r[i + 1].at
            BY <1>1, <2>2 DEF Tiles
        <3>4. \A i, j \in DOMAIN r : i < j => List!EndOf(r[i]) <= r[j].at
            BY <1>1, <2>2, <3>1 DEF Tiles
        <3>5. QED
            BY <2>2, <3>2, <3>3, <3>4 DEF Tiles
    <2>4. Coalesced(r)
        BY <1>1, <1>4, <2>2 DEF Coalesced
    <2>5. Used(r) = Used(d) \cup (IF b.free THEN {} ELSE {b})
        BY <1>1, <2>2 DEF Used
    <2>6. QED
        BY SMTT(40), <2>2, <2>3, <2>4, <2>5
<1>5. QED
    BY <1>1, <1>3, <1>4 DEF Block

\* What the pass makes of the first blocks of a list that tiles the heap.
UsedUpTo(s, k) == {s[i] : i \in {j \in 1 .. k : ~s[j].free}}
PassGood(s, k, d) ==
    /\ Tiles(d, List!EndOf(s[k])) /\ Coalesced(d)
    /\ Used(d) = UsedUpTo(s, k)
    /\ d[Len(d)].free = s[k].free

\* The pass keeps the heap tiled, merges all there is to merge, and leaves used blocks alone.
LEMMA PassMerges ==
    ASSUME NEW s, NEW end, Tiles(s, end)
    PROVE  /\ Tiles(List!Merged(s), end) /\ Coalesced(List!Merged(s))
           /\ Used(List!Merged(s)) = Used(s)
<1> DEFINE n == Len(s)
           p == Pass(s)
           Done == {k \in 0 .. n : k = 0 \/ PassGood(s, k, p[k])}
<1>1. /\ s \in Seq(Block) /\ n \in Nat \ {0} /\ DOMAIN s = 1 .. n
      /\ \A k \in 1 .. n : s[k] \in Block
      /\ List!EndOf(s[n]) = end
    BY DEF Tiles
<1>2. \A k \in 0 .. n : p[k] = IF k = 0 THEN <<>> ELSE List!MergedInto(p[k - 1], s[k])
    BY <1>1, PassExists DEF IsPass
<1> HIDE DEF p
<1>3. p[0] = <<>> /\ \A k \in 0 .. n - 1 : p[k + 1] = List!MergedInto(p[k], s[k + 1])
    BY <1>1, <1>2
<1>4. PassGood(s, 1, p[1])
    <2>1. s[1] \in Block /\ s[1].at = 0
        BY <1>1 DEF Tiles
    <2>2. p[1] = <<s[1]>>
        <3>1. p[1] = List!MergedInto(<<>>, s[1])
            BY <1>1, <1>3
        <3>2. List!MergedInto(<<>>, s[1]) = Append(<<>>, s[1])
            BY DEF List!MergedInto
        <3>3. QED
            BY <3>1, <3>2
    <2>3. Tiles(p[1], List!EndOf(s[1])) /\ Coalesced(p[1])
        BY <2>1, <2>2 DEF Tiles, Coalesced
    <2>4. Used(p[1]) = UsedUpTo(s, 1)
        BY <2>2 DEF Used, UsedUpTo
    <2>5. QED
        BY <2>2, <2>3, <2>4 DEF PassGood
<1>5. ASSUME NEW k \in 0 .. n - 1, k \in Done PROVE k + 1 \in Done
    <2>1. CASE k = 0
        BY <2>1, <1>1, <1>4
    <2>2. CASE k # 0
        <3>1. PassGood(s, k, p[k])
            BY <1>5, <2>2
        <3>2. s[k + 1] \in Block /\ s[k + 1].at = List!EndOf(s[k])
            BY <1>1, <2>2 DEF Tiles
        <3>3. /\ Tiles(p[k + 1], List!EndOf(s[k + 1])) /\ Coalesced(p[k + 1])
              /\ Used(p[k + 1]) = Used(p[k]) \cup (IF s[k + 1].free THEN {} ELSE {s[k + 1]})
              /\ p[k + 1][Len(p[k + 1])].free = s[k + 1].free
            BY <1>3, <3>1, <3>2, MergeGrows DEF PassGood
        <3>4. UsedUpTo(s, k + 1) = UsedUpTo(s, k) \cup (IF s[k + 1].free THEN {} ELSE {s[k + 1]})
            BY <1>1, <2>2 DEF UsedUpTo
        <3>5. PassGood(s, k + 1, p[k + 1])
            BY <3>1, <3>3, <3>4 DEF PassGood
        <3>6. QED
            BY <3>5
    <2>3. QED
        BY <2>1, <2>2
<1>6. n \in Done
    <2>1. 0 \in Done
        BY <1>1
    <2> HIDE DEF Done
    <2>2. \A k \in 0 .. n : k \in Done
        BY <1>1, <1>5, <2>1, UpTo
    <2>3. QED
        BY <1>1, <2>2
<1>7. PassGood(s, n, p[n])
    BY <1>1, <1>6
<1>8. List!Merged(s) = p[n]
    BY MergedIsPass DEF p
<1>9. UsedUpTo(s, n) = Used(s)
    BY <1>1 DEF UsedUpTo, Used
<1>10. QED
    BY <1>1, <1>7, <1>8, <1>9 DEF PassGood

----------------------------------------------------------------------------
(***************************************************************************)
(* my_malloc puts one or two blocks in the place of the free one it takes. *)
(***************************************************************************)
Splice(s, i, t) == SubSeq(s, 1, i - 1) \o t \o SubSeq(s, i + 1, Len(s))

LEMMA SpliceAt ==
    ASSUME NEW S, NEW s \in Seq(S), NEW i \in 1 .. Len(s), NEW t \in Seq(S)
    PROVE  LET u == Splice(s, i, t)
           IN  /\ u \in Seq(S) /\ Len(u) = Len(s) - 1 + Len(t)
               /\ \A j \in 1 .. i - 1 : u[j] = s[j]
               /\ \A j \in 1 .. Len(t) : u[i - 1 + j] = t[j]
               /\ \A j \in i + 1 .. Len(s) : u[j - 1 + Len(t)] = s[j]
<1> DEFINE a == SubSeq(s, 1, i - 1)
           b == SubSeq(s, i + 1, Len(s))
           c == a \o t
           u == c \o b
<1>1. Len(s) \in Nat /\ Len(t) \in Nat
    OBVIOUS
<1>2. a \in Seq(S) /\ Len(a) = i - 1 /\ \A j \in 1 .. i - 1 : a[j] = s[j]
    OBVIOUS
<1>3. b \in Seq(S) /\ Len(b) = Len(s) - i /\ \A j \in 1 .. Len(s) - i : b[j] = s[i + j]
    OBVIOUS
<1> HIDE DEF a, b
<1>4. /\ c \in Seq(S) /\ Len(c) = i - 1 + Len(t)
      /\ \A j \in 1 .. i - 1 : c[j] = s[j]
      /\ \A j \in 1 .. Len(t) : c[i - 1 + j] = t[j]
    BY <1>1, <1>2
<1> HIDE DEF c
<1>5. u \in Seq(S) /\ Len(u) = Len(s) - 1 + Len(t)
    <2>1. u \in Seq(S)
        BY <1>3, <1>4
    <2>2. Len(u) = Len(c) + Len(b)
        BY <1>3, <1>4, ConcatProperties
    <2>3. QED
        BY <1>1, <1>3, <1>4, <2>1, <2>2
<1>6. \A j \in 1 .. Len(c) : u[j] = c[j]
    BY <1>1, <1>3, <1>4
<1>7. \A j \in 1 .. Len(b) : u[Len(c) + j] = b[j]
    BY <1>1, <1>3, <1>4
<1>8. u = Splice(s, i, t)
    BY DEF Splice, u, a, b, c
<1> HIDE DEF u
<1>9. \A j \in 1 .. i - 1 : u[j] = s[j]
    <2>1. \A j \in 1 .. i - 1 : j \in 1 .. Len(c)
        BY <1>1, <1>4
    <2>2. QED
        BY <1>4, <1>6, <2>1
<1>10. \A j \in 1 .. Len(t) : u[i - 1 + j] = t[j]
    BY <1>1, <1>4, <1>6
<1>11. ASSUME NEW j \in i + 1 .. Len(s) PROVE u[j - 1 + Len(t)] = s[j]
    <2>1. j - i \in 1 .. Len(b) /\ i + (j - i) = j /\ Len(c) + (j - i) = j - 1 + Len(t)
        BY <1>1, <1>3, <1>4
    <2>2. b[j - i] = s[j]
        BY <1>3, <2>1
    <2>3. QED
        BY <1>7, <2>1, <2>2
<1>12. QED
    BY <1>5, <1>8, <1>9, <1>10, <1>11

\* What is left of the block is again a block, and so is the rest that is split off.
LEMMA TakenBlocks ==
    ASSUME NEW b \in Block, b.free, NEW n \in Nat, n <= b.size
    PROVE  LET t == List!Taken(b, n)
           IN  /\ t \in Seq(Block) /\ Len(t) \in {1, 2}
               /\ t[1] \in Block /\ t[1].at = b.at /\ ~t[1].free /\ n <= t[1].size
               /\ List!EndOf(t[1]) <= List!EndOf(b)
               /\ List!EndOf(t[Len(t)]) = List!EndOf(b)
               /\ Len(t) = 2 => t[2].free /\ List!EndOf(t[1]) = t[2].at
<1>1. b.at \in Nat /\ b.size \in Nat /\ BLOCK_HEADER_SIZE \in Nat
    BY SizeAssumption DEF Block
<1> DEFINE B == BLOCK_HEADER_SIZE
           t == List!Taken(b, n)
<1>2. ASSUME NEW c \in Block PROVE List!EndOf(c) = c.at + B + c.size
    BY DEF List!EndOf, List!DataOf
<1>3. CASE b.size >= n + B + 4
    <2> DEFINE x == [b EXCEPT !.size = n, !.free = FALSE]
               y == [at |-> b.at + B + n, size |-> b.size - n - B, free |-> TRUE]
    <2>1. t = <<x, y>>
        BY <1>3 DEF List!Taken, List!DataOf
    <2>2. x \in Block /\ x.at = b.at /\ x.size = n /\ ~x.free
        BY DEF Block
    <2>3. y \in Block /\ y.at = b.at + B + n /\ y.size = b.size - n - B /\ y.free
        BY <1>1, <1>3 DEF Block
    <2> HIDE DEF x, y, t
    <2>4. /\ List!EndOf(x) = b.at + B + n /\ List!EndOf(y) = List!EndOf(b)
          /\ List!EndOf(x) <= List!EndOf(b)
        BY <1>1, <1>2, <1>3, <2>2, <2>3
    <2>5. t \in Seq(Block) /\ Len(t) = 2 /\ t[1] = x /\ t[2] = y
        BY <2>1, <2>2, <2>3
    <2>6. QED
        BY <2>2, <2>3, <2>4, <2>5 DEF t
<1>4. CASE ~(b.size >= n + B + 4)
    <2> DEFINE x == [b EXCEPT !.free = FALSE]
    <2>1. t = <<x>>
        BY <1>4 DEF List!Taken
    <2>2. x \in Block /\ x.at = b.at /\ x.size = b.size /\ ~x.free
        BY DEF Block
    <2> HIDE DEF x, t
    <2>3. List!EndOf(x) = List!EndOf(b)
        BY <1>2, <2>2
    <2>4. List!EndOf(b) \in Nat
        BY <1>1, <1>2
    <2>5. t \in Seq(Block) /\ Len(t) = 1 /\ t[1] = x
        BY <2>1, <2>2
    <2>6. QED
        BY <2>2, <2>3, <2>4, <2>5 DEF t
<1>5. QED
    BY <1>3, <1>4

\* What holds of any list that tiles the heap.
LEMMA TileBounds ==
    ASSUME NEW s, NEW end, Tiles(s, end)
    PROVE  /\ Len(s) \in Nat \ {0} /\ DOMAIN s = 1 .. Len(s) /\ end \in Nat
           /\ \A i \in DOMAIN s :
                 /\ s[i] \in Block /\ s[i].at \in Nat /\ List!EndOf(s[i]) \in Nat
                 /\ s[i].at < List!EndOf(s[i]) /\ List!EndOf(s[i]) <= end
                 /\ List!EndOf(s[i]) = List!DataOf(s[i]) + s[i].size
                 /\ List!DataOf(s[i]) = s[i].at + BLOCK_HEADER_SIZE
<1>1. Len(s) \in Nat \ {0} /\ DOMAIN s = 1 .. Len(s) /\ \A i \in DOMAIN s : s[i] \in Block
    BY DEF Tiles
<1>2. BLOCK_HEADER_SIZE \in Nat \ {0}
    BY SizeAssumption
<1>3. ASSUME NEW i \in DOMAIN s
      PROVE  /\ s[i].at \in Nat /\ List!EndOf(s[i]) \in Nat
             /\ s[i].at < List!EndOf(s[i])
             /\ List!EndOf(s[i]) = List!DataOf(s[i]) + s[i].size
             /\ List!DataOf(s[i]) = s[i].at + BLOCK_HEADER_SIZE
    <2>1. s[i].at \in Nat /\ s[i].size \in Nat
        BY <1>1 DEF Block
    <2>2. QED
        BY <1>2, <2>1 DEF List!EndOf, List!DataOf
<1>4. List!EndOf(s[Len(s)]) = end /\ \A i \in 1 .. Len(s) - 1 : List!EndOf(s[i]) <= s[Len(s)].at
    BY <1>1 DEF Tiles
<1>5. end \in Nat /\ s[Len(s)].at < end
    BY <1>1, <1>3, <1>4
<1>6. \A i \in DOMAIN s : List!EndOf(s[i]) <= end
    BY <1>1, <1>3, <1>4, <1>5
<1>7. QED
    BY <1>1, <1>3, <1>5, <1>6

\* No two blocks begin at the same place.
LEMMA OneBlockThere ==
    ASSUME NEW s, NEW end, Tiles(s, end), NEW i \in DOMAIN s, NEW j \in DOMAIN s,
           List!DataOf(s[i]) = List!DataOf(s[j])
    PROVE  i = j
<1>1. BLOCK_HEADER_SIZE \in Nat
    BY SizeAssumption
<1>2. s[i].at = s[j].at
    BY <1>1, TileBounds
<1>3. i \in Nat /\ j \in Nat
    BY TileBounds
<1>4. s[i].at < List!EndOf(s[i]) /\ s[j].at < List!EndOf(s[j])
      /\ s[i].at \in Nat /\ s[j].at \in Nat
      /\ List!EndOf(s[i]) \in Nat /\ List!EndOf(s[j]) \in Nat
    BY TileBounds
<1>5. ~(i < j) /\ ~(j < i)
    BY <1>2, <1>4 DEF Tiles
<1>6. QED
    BY <1>3, <1>5

\* The block taken is used from now on, and nothing else changes hands.
LEMMA TakenKeeps ==
    ASSUME NEW s, NEW end, Tiles(s, end), Coalesced(s),
           NEW i \in DOMAIN s, s[i].free, NEW n \in Nat, n <= s[i].size
    PROVE  LET t == List!Taken(s[i], n)
               u == Splice(s, i, t)
           IN  /\ Tiles(u, end) /\ Coalesced(u)
               /\ Used(u) = Used(s) \cup {t[1]}
<1> DEFINE t == List!Taken(s[i], n)
           u == Splice(s, i, t)
           l == Len(s)
           E(b) == List!EndOf(b)
<1>1. /\ l \in Nat \ {0} /\ DOMAIN s = 1 .. l /\ i \in 1 .. l /\ s \in Seq(Block)
      /\ s[i] \in Block
    BY TileBounds DEF Tiles
<1>2. /\ t \in Seq(Block) /\ Len(t) \in {1, 2}
      /\ t[1] \in Block /\ t[1].at = s[i].at /\ ~t[1].free
      /\ E(t[1]) <= E(s[i]) /\ E(t[Len(t)]) = E(s[i])
      /\ Len(t) = 2 => t[2].free /\ E(t[1]) = t[2].at
    BY <1>1, TakenBlocks
<1>3. /\ u \in Seq(Block) /\ Len(u) = l - 1 + Len(t)
      /\ \A j \in 1 .. i - 1 : u[j] = s[j]
      /\ \A j \in 1 .. Len(t) : u[i - 1 + j] = t[j]
      /\ \A j \in i + 1 .. l : u[j - 1 + Len(t)] = s[j]
    <2> HIDE DEF t
    <2>1. t \in Seq(Block) /\ s \in Seq(Block) /\ i \in 1 .. Len(s)
        BY <1>1, <1>2
    <2>2. QED
        BY <2>1, SpliceAt
<1> HIDE DEF t, u
<1>4. \A j \in 1 .. l : s[j].at \in Nat /\ E(s[j]) \in Nat /\ s[j].at < E(s[j])
    BY <1>1, TileBounds
<1>5. E(t[1]) \in Nat /\ t[1].at \in Nat /\ t[1].at < E(t[1])
    <2>1. BLOCK_HEADER_SIZE \in Nat \ {0} /\ t[1].at \in Nat /\ t[1].size \in Nat
        BY <1>2, SizeAssumption DEF Block
    <2>2. QED
        BY <2>1 DEF List!EndOf, List!DataOf
<1>6. /\ \A j \in 1 .. l - 1 : E(s[j]) = s[j + 1].at
      /\ \A j, k \in 1 .. l : j < k => E(s[j]) <= s[k].at
      /\ s[1].at = 0 /\ E(s[l]) = end
    BY <1>1 DEF Tiles
<1>7. \A j \in 1 .. l - 1 : ~(s[j].free /\ s[j + 1].free)
    BY DEF Coalesced
<1> HIDE DEF E, l
<1>8. ASSUME Len(t) = 1
      PROVE  Tiles(u, end) /\ Coalesced(u) /\ Used(u) = Used(s) \cup {t[1]}
    <2>1. /\ Len(u) = l /\ DOMAIN u = 1 .. l /\ u[i] = t[1]
          /\ \A j \in 1 .. l : j # i => u[j] = s[j]
        BY <1>1, <1>3, <1>8
    <2>2. \A j \in 1 .. l : u[j].at = s[j].at
        BY <1>2, <2>1
    <2>3. \A j \in 1 .. l : E(u[j]) = E(s[j])
        BY <1>2, <1>8, <2>1
    <2>4. Tiles(u, end)
        <3>1. \A j \in 1 .. l - 1 : E(u[j]) = u[j + 1].at
            BY <1>1, <1>6, <2>2, <2>3
        <3>2. \A j, k \in 1 .. l : j < k => E(u[j]) <= u[k].at
            BY <1>6, <2>2, <2>3
        <3>3. u # <<>> /\ u[1].at = 0 /\ E(u[Len(u)]) = end
            BY <1>1, <1>6, <2>1, <2>2, <2>3
        <3>4. QED
            BY <1>3, <2>1, <3>1, <3>2, <3>3 DEF Tiles, E
    <2>5. Coalesced(u)
        BY <1>1, <1>2, <1>7, <2>1 DEF Coalesced
    <2>6. Used(u) = Used(s) \cup {t[1]}
        BY <1>1, <1>2, <2>1 DEF Used
    <2>7. QED
        BY <2>4, <2>5, <2>6
<1>9. ASSUME Len(t) = 2
      PROVE  Tiles(u, end) /\ Coalesced(u) /\ Used(u) = Used(s) \cup {t[1]}
    <2>1. Len(u) = l + 1 /\ DOMAIN u = 1 .. l + 1 /\ u[i] = t[1] /\ u[i + 1] = t[2]
        BY <1>1, <1>3, <1>9
    <2>2. \A j \in 1 .. i - 1 : u[j] = s[j]
        BY <1>3
    <2>3. \A j \in i + 1 .. l : u[j + 1] = s[j]
        <3>1. \A j \in i + 1 .. l : (j - 1) + 2 = j + 1
            BY <1>1
        <3>2. QED
            BY <1>3, <1>9, <3>1
    <2>4. \A j \in i + 2 .. l + 1 : u[j] = s[j - 1]
        BY <1>1, <2>3
    <2>5. E(t[2]) = E(s[i]) /\ t[2].at = E(t[1])
        BY <1>2, <1>9
    <2>6. Tiles(u, end)
        <3>1. ASSUME NEW j \in 1 .. l PROVE E(u[j]) = u[j + 1].at
            <4>1. CASE j < i - 1
                <5>1. j \in 1 .. i - 1 /\ j + 1 \in 1 .. i - 1 /\ j \in 1 .. l - 1
                    BY <4>1, <1>1
                <5>2. QED
                    BY <5>1, <1>6, <2>2
            <4>2. CASE j = i - 1
                BY SMTT(40), <4>2, <1>1, <1>2, <1>6, <2>1, <2>2
            <4>3. CASE j = i
                BY <4>3, <2>1, <2>5
            <4>4. CASE j = i + 1
                <5>1. i \in 1 .. l - 1 /\ i + 2 \in i + 2 .. l + 1 /\ (i + 2) - 1 = i + 1
                      /\ j + 1 = i + 2
                    BY <4>4, <1>1
                <5>2. u[j + 1] = s[i + 1] /\ E(s[i]) = s[i + 1].at
                    BY <5>1, <1>6, <2>4
                <5>3. QED
                    BY <4>4, <5>2, <2>1, <2>5
            <4>5. CASE j > i + 1
                <5>1. j \in i + 2 .. l + 1 /\ j + 1 \in i + 2 .. l + 1 /\ (j + 1) - 1 = j
                      /\ j - 1 \in 1 .. l - 1 /\ (j - 1) + 1 = j
                    BY <4>5, <1>1
                <5>2. QED
                    BY <5>1, <1>6, <2>4
            <4>6. QED
                BY <1>1, <4>1, <4>2, <4>3, <4>4, <4>5
        <3>2. \A j \in 1 .. i - 1 : E(s[j]) <= t[1].at /\ E(s[j]) \in Nat
            BY SMTT(40), <1>1, <1>2, <1>4, <1>6
        <3>3. \A j \in i + 1 .. l : E(s[i]) <= s[j].at /\ s[j].at \in Nat /\ E(s[i]) \in Nat
            BY <1>1, <1>4, <1>6
        <3>4. ASSUME NEW j \in 1 .. l + 1, NEW k \in 1 .. l + 1, j < k
              PROVE  E(u[j]) <= u[k].at
            <4>1. CASE j < i /\ k < i
                BY <4>1, <3>4, <1>1, <1>6, <2>2
            <4>2. CASE j < i /\ k = i
                BY <4>2, <1>1, <2>1, <2>2, <3>2
            <4>3. CASE j < i /\ k = i + 1
                <5>1. E(u[j]) = E(s[j]) /\ u[k].at = E(t[1]) /\ j \in 1 .. i - 1
                    BY <4>3, <1>1, <2>1, <2>2, <2>5
                <5>2. QED
                    BY <5>1, <1>5, <3>2
            <4>4. CASE j < i /\ k > i + 1
                <5>1. j \in 1 .. i - 1 /\ k \in i + 2 .. l + 1 /\ k - 1 \in 1 .. l /\ j < k - 1
                      /\ j \in 1 .. l
                    BY <4>4, <1>1
                <5>2. QED
                    BY <5>1, <1>6, <2>2, <2>4
            <4>5. CASE j = i /\ k = i + 1
                BY <4>5, <1>5, <2>1, <2>5
            <4>6. CASE j = i /\ k > i + 1
                <5>1. k \in i + 2 .. l + 1 /\ k - 1 \in i + 1 .. l
                    BY <4>6, <1>1
                <5>2. E(u[j]) <= E(s[i]) /\ E(u[j]) \in Nat /\ u[k] = s[k - 1]
                    BY <4>6, <5>1, <1>2, <1>5, <2>1, <2>4
                <5>3. QED
                    BY <5>1, <5>2, <3>3
            <4>7. CASE j = i + 1
                <5>1. k \in i + 2 .. l + 1 /\ k - 1 \in i + 1 .. l
                    BY <4>7, <3>4, <1>1
                <5>2. E(u[j]) = E(s[i]) /\ u[k] = s[k - 1]
                    BY <4>7, <5>1, <2>1, <2>4, <2>5
                <5>3. QED
                    BY <5>1, <5>2, <3>3
            <4>8. CASE j > i + 1
                <5>1. j \in i + 2 .. l + 1 /\ k \in i + 2 .. l + 1 /\ j - 1 \in 1 .. l
                      /\ k - 1 \in 1 .. l /\ j - 1 < k - 1
                    BY <4>8, <3>4, <1>1
                <5>2. QED
                    BY <5>1, <1>6, <2>4
            <4>9. QED
                BY <3>4, <1>1, <4>1, <4>2, <4>3, <4>4, <4>5, <4>6, <4>7, <4>8
        <3>5. u[1].at = 0
            BY <1>1, <1>2, <1>6, <2>1, <2>2
        <3>6. E(u[l + 1]) = end
            <4>1. CASE i = l
                BY <4>1, <1>6, <2>1, <2>5
            <4>2. CASE i # l
                <5>1. l + 1 \in i + 2 .. l + 1 /\ (l + 1) - 1 = l
                    BY <4>2, <1>1
                <5>2. QED
                    BY <5>1, <1>6, <2>4
            <4>3. QED
                BY <4>1, <4>2
        <3>7. u # <<>> /\ Len(u) - 1 = l
            BY <1>1, <2>1
        <3>8. QED
            BY <1>3, <2>1, <3>1, <3>4, <3>5, <3>6, <3>7 DEF Tiles, E
    <2>7. Coalesced(u)
        <3>1. ASSUME NEW j \in 1 .. l PROVE ~(u[j].free /\ u[j + 1].free)
            <4>1. CASE j < i - 1
                BY <4>1, <1>1, <1>7, <2>2
            <4>2. CASE j = i - 1 \/ j = i
                BY <4>2, <1>1, <1>2, <2>1
            <4>3. CASE j = i + 1
                <5>1. u[j + 1] = s[i + 1] /\ i \in 1 .. l - 1
                    BY <4>3, <1>1, <2>4
                <5>2. QED
                    BY <5>1, <1>7
            <4>4. CASE j > i + 1
                <5>1. j \in i + 2 .. l + 1 /\ j + 1 \in i + 2 .. l + 1 /\ (j + 1) - 1 = j
                      /\ j - 1 \in 1 .. l - 1 /\ (j - 1) + 1 = j
                    BY <4>4, <1>1
                <5>2. QED
                    BY <5>1, <1>7, <2>4
            <4>5. QED
                BY <1>1, <4>1, <4>2, <4>3, <4>4
        <3>2. Len(u) - 1 = l
            BY <1>1, <2>1
        <3>3. QED
            BY <3>1, <3>2 DEF Coalesced
    <2>8. Used(u) = Used(s) \cup {t[1]}
        <3>1. ASSUME NEW b \in Used(u) PROVE b \in Used(s) \cup {t[1]}
            <4>1. PICK j \in 1 .. l + 1 : u[j] = b /\ ~b.free
                BY <2>1 DEF Used
            <4>2. CASE j < i
                BY <4>1, <4>2, <1>1, <2>2 DEF Used
            <4>3. CASE j = i \/ j = i + 1
                BY <4>1, <4>3, <1>2, <1>9, <2>1
            <4>4. CASE j > i + 1
                <5>1. j \in i + 2 .. l + 1 /\ j - 1 \in 1 .. l
                    BY <4>4, <1>1
                <5>2. QED
                    BY <4>1, <5>1, <1>1, <2>4 DEF Used
            <4>5. QED
                BY <1>1, <4>2, <4>3, <4>4
        <3>2. t[1] \in Used(u)
            BY <1>1, <1>2, <2>1 DEF Used
        <3>3. ASSUME NEW b \in Used(s) PROVE b \in Used(u)
            <4>1. PICK j \in 1 .. l : s[j] = b /\ ~b.free
                BY <1>1 DEF Used
            <4>2. j # i
                BY <4>1
            <4>3. CASE j < i
                BY SMTT(40), <4>1, <4>3, <1>1, <2>1, <2>2 DEF Used
            <4>4. CASE j > i
                <5>1. j \in i + 1 .. l /\ j + 1 \in 1 .. l + 1
                    BY <4>4, <1>1
                <5>2. QED
                    BY <4>1, <5>1, <2>1, <2>3 DEF Used
            <4>5. QED
                BY <1>1, <4>2, <4>3, <4>4
        <3>4. QED
            BY <3>1, <3>2, <3>3
    <2>9. QED
        BY <2>6, <2>7, <2>8
<1>10. QED
    BY <1>2, <1>8, <1>9 DEF t, u

----------------------------------------------------------------------------
\* A block that is marked free: the list still tiles the heap, and the others are used as before.
LEMMA MarkedFree ==
    ASSUME NEW s, NEW end, Tiles(s, end), NEW i \in DOMAIN s
    PROVE  LET f == [s EXCEPT ![i].free = TRUE]
           IN  /\ Tiles(f, end) /\ Used(f) = Used(s) \ {s[i]}
<1> DEFINE m == [s[i] EXCEPT !.free = TRUE]
           f == [s EXCEPT ![i] = m]
           E(b) == List!EndOf(b)
           l == Len(s)
<1>1. /\ l \in Nat \ {0} /\ DOMAIN s = 1 .. l /\ i \in 1 .. l /\ s \in Seq(Block)
      /\ s[i] \in Block
    BY TileBounds DEF Tiles
<1>2. m \in Block /\ m.at = s[i].at /\ m.size = s[i].size /\ m.free
    BY <1>1 DEF Block
<1>3. E(m) = E(s[i])
    BY <1>2 DEF List!EndOf, List!DataOf
<1> HIDE DEF m
<1>4. /\ f \in Seq(Block) /\ Len(f) = l /\ DOMAIN f = 1 .. l /\ f[i] = m
      /\ \A j \in 1 .. l : j # i => f[j] = s[j]
    BY <1>1, <1>2
<1>5. f = [s EXCEPT ![i].free = TRUE]
    BY DEF f, m
<1> HIDE DEF f
<1>6. \A j \in 1 .. l : f[j].at = s[j].at /\ E(f[j]) = E(s[j])
    BY <1>2, <1>3, <1>4
<1>7. /\ \A j \in 1 .. l - 1 : E(s[j]) = s[j + 1].at
      /\ \A j, k \in 1 .. l : j < k => E(s[j]) <= s[k].at
      /\ s[1].at = 0 /\ E(s[l]) = end
    BY <1>1 DEF Tiles
<1> HIDE DEF E, l
<1>8. Tiles(f, end)
    <2>1. \A j \in 1 .. l - 1 : E(f[j]) = f[j + 1].at
        BY <1>1, <1>6, <1>7
    <2>2. \A j, k \in 1 .. l : j < k => E(f[j]) <= f[k].at
        BY <1>6, <1>7
    <2>3. f # <<>> /\ f[1].at = 0 /\ E(f[l]) = end
        BY <1>1, <1>4, <1>6, <1>7
    <2>4. QED
        BY <1>4, <2>1, <2>2, <2>3 DEF Tiles, E
<1>9. \A j \in 1 .. l : s[j] = s[i] => j = i
    BY <1>1, OneBlockThere
<1>10. Used(f) = Used(s) \ {s[i]}
    BY <1>1, <1>2, <1>4, <1>9 DEF Used
<1>11. QED
    BY <1>5, <1>8, <1>10

----------------------------------------------------------------------------
(***************************************************************************)
(* The invariant of the default build.                                     *)
(***************************************************************************)
\* The clients have the used blocks and no other, each large enough for what it was asked for.
Served(s, l) ==
    /\ DOMAIN l = {List!DataOf(b) : b \in Used(s)}
    /\ \A b \in Used(s) : l[List!DataOf(b)] \in Request /\ l[List!DataOf(b)] <= b.size

Sound(s, l) == Tiles(s, HEAP_SIZE) /\ Coalesced(s) /\ Served(s, l)
HeapInv == UsesList => Sound(blocks, live)

\* What the clients own, of a list of blocks rather than of the variables.
Row(b, l) == [first |-> b.at, end |-> List!EndOf(b), size |-> l[List!DataOf(b)]]

OwnsRows ==
    /\ DOMAIN List!Owned = {List!DataOf(b) : b \in Used(blocks)}
    /\ \A b \in Used(blocks) : List!Owned[List!DataOf(b)] = Row(b, live)

LEMMA OwnedRows == Sound(blocks, live) => OwnsRows
<1> SUFFICES ASSUME Sound(blocks, live) PROVE OwnsRows
    OBVIOUS
<1> DEFINE U == {blocks[i] : i \in List!InUse}
<1>1. U = Used(blocks)
    BY DEF List!InUse, Used
<1>2. {List!DataOf(blocks[i]) : i \in List!InUse} = {List!DataOf(b) : b \in U}
    OBVIOUS
<1>3. \A b, c \in U : List!DataOf(b) = List!DataOf(c) => b = c
    BY OneBlockThere DEF Sound, List!InUse
<1>4. DOMAIN List!Owned = {List!DataOf(b) : b \in Used(blocks)}
    BY <1>1, <1>2 DEF List!Owned
<1>5. ASSUME NEW b \in Used(blocks) PROVE List!Owned[List!DataOf(b)] = Row(b, live)
    <2>1. List!DataOf(b) \in {List!DataOf(blocks[i]) : i \in List!InUse}
        BY <1>1, <1>2
    <2>2. (CHOOSE c \in U : List!DataOf(c) = List!DataOf(b)) = b
        BY <1>1, <1>3
    <2>3. List!DataOf(b) \in DOMAIN live
        BY DEF Sound, Served
    <2>4. QED
        BY <2>1, <2>2, <2>3 DEF List!Owned, Row
<1>6. QED
    BY <1>4, <1>5 DEF OwnsRows

LEMMA InitSound ==
    ASSUME Init, UsesList PROVE Sound(blocks, live)
<1>1. List!Init
    BY DEF Init, UsesList
<1> DEFINE b == [at |-> 0, size |-> HEAP_SIZE - BLOCK_HEADER_SIZE, free |-> TRUE]
<1>2. blocks = <<b>> /\ live = <<>>
    BY <1>1 DEF List!Init
<1>3. /\ HEAP_SIZE - BLOCK_HEADER_SIZE \in Nat
      /\ 0 + BLOCK_HEADER_SIZE + (HEAP_SIZE - BLOCK_HEADER_SIZE) = HEAP_SIZE
    BY SizeAssumption
<1>4. b \in Block /\ List!EndOf(b) = HEAP_SIZE /\ b.free /\ b.at = 0
    BY <1>3 DEF Block, List!EndOf, List!DataOf
<1> HIDE DEF b
<1>5. Tiles(blocks, HEAP_SIZE) /\ Coalesced(blocks)
    BY <1>2, <1>4 DEF Tiles, Coalesced
<1>6. Used(blocks) = {}
    BY <1>2, <1>4 DEF Used
<1>7. Served(blocks, live)
    BY <1>2, <1>6 DEF Served
<1>8. QED
    BY <1>5, <1>7 DEF Sound

\* A block of my_malloc.
LEMMA MallocSound ==
    ASSUME Sound(blocks, live), NEW r \in Request, List!Malloc(r)
    PROVE  \E b \in Block :
              /\ Sound(blocks', live')
              /\ Used(blocks') = Used(blocks) \cup {b}
              /\ List!DataOf(b) \notin DOMAIN live
              /\ live' = [p \in DOMAIN live \cup {List!DataOf(b)} |->
                              IF p = List!DataOf(b) THEN r ELSE live[p]]
<1> DEFINE n == List!ALIGN4(r)
<1>1. PICK i \in List!FirstFit(n) :
          /\ blocks' = Splice(blocks, i, List!Taken(blocks[i], n))
          /\ live' = [p \in DOMAIN live \cup {List!DataOf(blocks[i])} |->
                          IF p = List!DataOf(blocks[i]) THEN r ELSE live[p]]
    BY DEF List!Malloc, Splice
<1>2. n \in Nat /\ r <= n /\ r \in Nat
    BY Aligned
<1> HIDE DEF n
<1>3. i \in DOMAIN blocks /\ blocks[i].free /\ blocks[i].size >= n /\ blocks[i] \in Block
    BY <1>1, TileBounds DEF Sound, List!FirstFit, List!Fits
<1>4. n <= blocks[i].size
    BY <1>2, <1>3 DEF Block
<1> DEFINE b == List!Taken(blocks[i], n)[1]
<1>5. b \in Block /\ b.at = blocks[i].at /\ ~b.free /\ n <= b.size
    BY <1>2, <1>3, <1>4, TakenBlocks
<1>6. /\ Tiles(blocks', HEAP_SIZE) /\ Coalesced(blocks')
      /\ Used(blocks') = Used(blocks) \cup {b}
    BY <1>1, <1>2, <1>3, <1>4, TakenKeeps DEF Sound
<1> HIDE DEF b
<1>7. List!DataOf(b) = List!DataOf(blocks[i])
    BY <1>5 DEF List!DataOf
<1>8. \A c \in Used(blocks) : List!DataOf(c) # List!DataOf(b)
    BY <1>3, <1>7, OneBlockThere DEF Sound, Used
<1>9. List!DataOf(b) \notin DOMAIN live
    BY <1>8 DEF Sound, Served
<1>10. live' = [p \in DOMAIN live \cup {List!DataOf(b)} |->
                    IF p = List!DataOf(b) THEN r ELSE live[p]]
    BY <1>1, <1>7
<1>11. Served(blocks', live')
    <2>1. DOMAIN live' = {List!DataOf(c) : c \in Used(blocks')}
        BY <1>6, <1>10 DEF Sound, Served
    <2>2. live'[List!DataOf(b)] \in Request /\ live'[List!DataOf(b)] <= b.size
        BY <1>2, <1>5, <1>10 DEF Block
    <2>3. ASSUME NEW c \in Used(blocks)
          PROVE  live'[List!DataOf(c)] \in Request /\ live'[List!DataOf(c)] <= c.size
        <3>1. List!DataOf(c) \in DOMAIN live /\ List!DataOf(c) # List!DataOf(b)
            BY <1>8 DEF Sound, Served
        <3>2. live'[List!DataOf(c)] = live[List!DataOf(c)]
            BY <1>10, <3>1
        <3>3. QED
            BY <3>2 DEF Sound, Served
    <2>4. QED
        BY <1>6, <2>1, <2>2, <2>3 DEF Served
<1>12. QED
    BY <1>5, <1>6, <1>9, <1>10, <1>11 DEF Sound

\* A block that my_free takes back.
LEMMA FreeSound ==
    ASSUME Sound(blocks, live), NEW p \in DOMAIN live, List!Free(p)
    PROVE  \E b \in Used(blocks) :
              /\ Sound(blocks', live')
              /\ Used(blocks') = Used(blocks) \ {b}
              /\ List!DataOf(b) = p
              /\ live' = [q \in DOMAIN live \ {p} |-> live[q]]
<1>1. PICK i \in DOMAIN blocks :
          /\ List!DataOf(blocks[i]) = p
          /\ blocks' = List!Merged([blocks EXCEPT ![i].free = TRUE])
          /\ live' = [q \in DOMAIN live \ {p} |-> live[q]]
    BY DEF List!Free
<1>2. \A j \in DOMAIN blocks : List!DataOf(blocks[j]) = p => j = i
    BY <1>1, OneBlockThere DEF Sound
<1>3. blocks[i] \in Used(blocks)
    <2>1. PICK b \in Used(blocks) : List!DataOf(b) = p
        BY DEF Sound, Served
    <2>2. PICK j \in DOMAIN blocks : blocks[j] = b
        BY DEF Used
    <2>3. QED
        BY <1>2, <2>1, <2>2
<1> DEFINE f == [blocks EXCEPT ![i].free = TRUE]
<1>4. Tiles(f, HEAP_SIZE) /\ Used(f) = Used(blocks) \ {blocks[i]}
    BY MarkedFree DEF Sound
<1> HIDE DEF f
<1>5. /\ Tiles(blocks', HEAP_SIZE) /\ Coalesced(blocks')
      /\ Used(blocks') = Used(blocks) \ {blocks[i]}
    BY <1>1, <1>4, PassMerges DEF f
<1>6. Served(blocks', live')
    <2>1. \A c \in Used(blocks) : List!DataOf(c) = p => c = blocks[i]
        BY <1>2 DEF Used
    <2>2. DOMAIN live' = {List!DataOf(c) : c \in Used(blocks')}
        BY <1>1, <1>5, <2>1 DEF Sound, Served
    <2>3. \A c \in Used(blocks') : live'[List!DataOf(c)] = live[List!DataOf(c)]
        BY <1>1, <2>2
    <2>4. QED
        BY <1>5, <2>2, <2>3 DEF Sound, Served
<1>7. QED
    BY <1>1, <1>3, <1>5, <1>6 DEF Sound

----------------------------------------------------------------------------
LEMMA InitGood == Init => HeapInv
    BY InitSound DEF HeapInv

LEMMA NextGood == HeapInv /\ [Next]_vars => HeapInv'
<1> SUFFICES ASSUME HeapInv, [Next]_vars, UsesList' PROVE Sound(blocks', live')
    BY DEF HeapInv
<1>1. UsesList /\ Sound(blocks, live)
    BY DEF HeapInv, UsesList, Next, vars, heap, ListMalloc, ListMallocReturnsNull, ListFree,
           BuddyMalloc, BuddyMallocReturnsNull, BuddyFree, FreeBegins, Disturb, NotFollowed
<1>2. CASE UNCHANGED heap
    BY <1>1, <1>2 DEF heap
<1>3. ASSUME NEW r \in Request, ListMalloc(r) PROVE Sound(blocks', live')
    BY <1>1, <1>3, MallocSound DEF ListMalloc
<1>4. ASSUME NEW r \in Request, ListMallocReturnsNull(r) PROVE Sound(blocks', live')
    BY <1>1, <1>4 DEF ListMallocReturnsNull, List!MallocReturnsNull, List!heapVars
<1>5. ASSUME NEW p \in DOMAIN live, ListFree(p) PROVE Sound(blocks', live')
    BY <1>1, <1>5, FreeSound DEF ListFree
<1>6. QED
    BY <1>1, <1>2, <1>3, <1>4, <1>5
    DEF Next, vars, BuddyMalloc, BuddyMallocReturnsNull, BuddyFree,
        FreeBegins, Disturb, NotFollowed

\* The invariant of the default build holds of every behaviour.
THEOREM HeapInvariance == Spec => []HeapInv
    BY InitGood, NextGood, PTL DEF Spec

\* A list in which some block fits has a first one that does.
LEMMA FirstThatFits ==
    ASSUME NEW n, NEW i \in DOMAIN blocks, List!Fits(blocks[i], n),
           DOMAIN blocks = 1 .. Len(blocks), Len(blocks) \in Nat
    PROVE  List!FirstFit(n) # {}
<1> DEFINE F == {j \in DOMAIN blocks : List!Fits(blocks[j], n)}
<1>1. F \in SUBSET Nat /\ F # {}
    OBVIOUS
<1>2. PICK m \in F : \A j \in F : m <= j
    BY <1>1, Least
<1>3. m \in DOMAIN blocks /\ List!Fits(blocks[m], n)
    BY <1>2
<1>4. \A j \in 1 .. m - 1 : j \in DOMAIN blocks /\ ~(m <= j)
    BY <1>3
<1>5. \A j \in 1 .. m - 1 : ~List!Fits(blocks[j], n)
    BY <1>2, <1>4
<1>6. m \in List!FirstFit(n)
    BY <1>3, <1>5 DEF List!FirstFit
<1>7. QED
    BY <1>6

\* Because no two free blocks touch, my_malloc of the default build finds room wherever
\* there is any between the blocks in use.
LEMMA SoundHasRoom ==
    ASSUME Sound(blocks, live) PROVE List!RoomIsFound
<1> DEFINE E(b) == List!EndOf(b)
           l == Len(blocks)
<1>1. /\ l \in Nat \ {0} /\ DOMAIN blocks = 1 .. l
      /\ \A i \in 1 .. l : /\ blocks[i] \in Block /\ blocks[i].at \in Nat
                           /\ E(blocks[i]) \in Nat /\ blocks[i].at < E(blocks[i])
                           /\ E(blocks[i]) = blocks[i].at + BLOCK_HEADER_SIZE + blocks[i].size
    BY TileBounds DEF Sound
<1>2. /\ \A i \in 1 .. l - 1 : E(blocks[i]) = blocks[i + 1].at
      /\ blocks[1].at = 0 /\ E(blocks[l]) = HEAP_SIZE
    BY DEF Sound, Tiles
<1>3. \A i \in 1 .. l - 1 : ~(blocks[i].free /\ blocks[i + 1].free)
    BY DEF Sound, Coalesced
<1>4. BLOCK_HEADER_SIZE \in Nat \ {0} /\ HEAP_SIZE \in Nat
    BY SizeAssumption
<1> HIDE DEF E, l
<1>5. ASSUME NEW r \in Request, NEW from \in {0} \cup {E(blocks[i]) : i \in List!InUse},
             from + BLOCK_HEADER_SIZE + List!ALIGN4(r) <= HEAP_SIZE,
             \A i \in List!InUse : \/ E(blocks[i]) <= from
                                   \/ from + BLOCK_HEADER_SIZE + List!ALIGN4(r) <= blocks[i].at
      PROVE  List!FirstFit(List!ALIGN4(r)) # {}
    <2> DEFINE n == List!ALIGN4(r)
    <2>1. n \in Nat
        BY Aligned
    <2> HIDE DEF n
    <2>2. from + BLOCK_HEADER_SIZE + n <= HEAP_SIZE
        BY <1>5 DEF n
    <2>3. \A i \in 1 .. l : ~blocks[i].free =>
              E(blocks[i]) <= from \/ from + BLOCK_HEADER_SIZE + n <= blocks[i].at
        BY <1>1, <1>5 DEF n, List!InUse
    <2>4. from \in Nat
        BY <1>1 DEF List!InUse
    <2>5. PICK k \in 1 .. l : blocks[k].at = from
        <3>1. CASE from = 0
            BY <3>1, <1>1, <1>2
        <3>2. CASE from # 0
            <4>1. PICK i \in 1 .. l : from = E(blocks[i])
                BY <3>2, <1>1 DEF List!InUse
            <4>2. i # l
                BY <4>1, <1>2, <1>4, <2>1, <2>2, <2>4
            <4>3. i \in 1 .. l - 1 /\ i + 1 \in 1 .. l
                BY <4>2, <1>1
            <4>4. QED
                BY <4>1, <4>3, <1>2
        <3>3. QED
            BY <3>1, <3>2
    <2>6. blocks[k].free
        <3>1. ~(E(blocks[k]) <= from)
            BY <1>1, <2>4, <2>5
        <3>2. ~(from + BLOCK_HEADER_SIZE + n <= blocks[k].at)
            BY <1>4, <2>1, <2>4, <2>5
        <3>3. QED
            BY <2>3, <3>1, <3>2
    <2>7. from + BLOCK_HEADER_SIZE + n <= E(blocks[k])
        <3>1. CASE k = l
            BY <3>1, <1>2, <2>2
        <3>2. CASE k # l
            <4>1. k \in 1 .. l - 1 /\ k + 1 \in 1 .. l
                BY <3>2, <1>1
            <4>2. ~blocks[k + 1].free /\ blocks[k + 1].at = E(blocks[k])
                BY <4>1, <1>2, <1>3, <2>6
            <4>3. ~(E(blocks[k + 1]) <= from)
                BY <4>1, <4>2, <1>1, <2>4, <2>5
            <4>4. QED
                BY <4>1, <4>2, <4>3, <2>3
        <3>3. QED
            BY <3>1, <3>2
    <2>8. blocks[k].size >= n
        <3>1. blocks[k].size \in Nat
            BY <1>1 DEF Block
        <3>2. QED
            BY SMTT(40), <3>1, <1>1, <1>4, <2>1, <2>4, <2>5, <2>7
    <2>9. List!Fits(blocks[k], n)
        BY <2>6, <2>8 DEF List!Fits
    <2>10. Len(blocks) \in Nat /\ DOMAIN blocks = 1 .. Len(blocks) /\ k \in DOMAIN blocks
        BY <1>1 DEF l
    <2>11. QED
        BY <2>9, <2>10, FirstThatFits DEF n
<1>6. QED
    BY <1>1, <1>5 DEF List!RoomIsFound, List!InUse, E

----------------------------------------------------------------------------
(***************************************************************************)
(* The default build is an allocator.                                      *)
(***************************************************************************)
\* Blocks that are used at the same time do not overlap.
LEMMA UsedDisjoint ==
    ASSUME NEW s, NEW end, Tiles(s, end), NEW b \in Used(s), NEW c \in Used(s), b # c
    PROVE  List!EndOf(b) <= c.at \/ List!EndOf(c) <= b.at
<1>1. PICK i \in DOMAIN s : s[i] = b
    BY DEF Used
<1>2. PICK j \in DOMAIN s : s[j] = c
    BY DEF Used
<1>3. i \in Nat /\ j \in Nat /\ i # j
    BY <1>1, <1>2, TileBounds
<1>4. i < j \/ j < i
    BY <1>3
<1>5. QED
    BY <1>1, <1>2, <1>4 DEF Tiles

LEMMA MallocGrants ==
    ASSUME UsesList, UsesList', Sound(blocks, live), NEW r \in Request, List!Malloc(r)
    PROVE  Interface!Grant
<1> DEFINE O == List!Owned
           P == List!Owned'
<1>1. PICK b \in Block :
          /\ Sound(blocks', live')
          /\ Used(blocks') = Used(blocks) \cup {b}
          /\ List!DataOf(b) \notin DOMAIN live
          /\ live' = [p \in DOMAIN live \cup {List!DataOf(b)} |->
                          IF p = List!DataOf(b) THEN r ELSE live[p]]
    BY MallocSound
<1> DEFINE D(c) == List!DataOf(c)
<1>2. /\ DOMAIN O = {D(c) : c \in Used(blocks)} /\ DOMAIN O = DOMAIN live
      /\ \A c \in Used(blocks) : O[D(c)] = Row(c, live)
    BY OwnedRows DEF OwnsRows, Sound, Served
<1>3. /\ DOMAIN P = {D(c) : c \in Used(blocks')}
      /\ \A c \in Used(blocks') : P[D(c)] = Row(c, live')
    <2>1. Sound(blocks, live)'
        BY <1>1
    <2>2. OwnsRows'
        BY <2>1, OwnedRows, PTL
    <2>3. QED
        BY <2>2 DEF OwnsRows
<1>4. O = [q \in DOMAIN O |-> O[q]] /\ P = [q \in DOMAIN P |-> P[q]]
    BY DEF List!Owned
<1> HIDE DEF O, P
<1>5. D(b) \in DOMAIN P \ DOMAIN O /\ DOMAIN P = DOMAIN O \cup {D(b)}
    BY <1>1, <1>2, <1>3
<1>6. P[D(b)] = [first |-> b.at, end |-> List!EndOf(b), size |-> r]
    <2>1. live'[D(b)] = r
        BY <1>1
    <2>2. QED
        BY <2>1, <1>1, <1>3 DEF Row
<1>7. ASSUME NEW q \in DOMAIN O PROVE P[q] = O[q]
    <2>1. PICK c \in Used(blocks) : D(c) = q
        BY <1>2
    <2>2. q \in DOMAIN live /\ q # D(b)
        BY <1>1, <1>2
    <2>3. live'[q] = live[q]
        BY <1>1, <2>2
    <2>4. Row(c, live') = Row(c, live)
        BY <2>1, <2>3 DEF Row
    <2>5. QED
        BY <1>1, <1>2, <1>3, <2>1, <2>4
<1>8. P = [q \in DOMAIN O \cup {D(b)} |-> IF q = D(b) THEN P[D(b)] ELSE O[q]]
    BY <1>4, <1>5, <1>7
<1>9. /\ b.at < D(b) /\ D(b) + r <= List!EndOf(b) /\ List!EndOf(b) <= HEAP_SIZE
    <2>1. b \in Used(blocks') /\ Tiles(blocks', HEAP_SIZE) /\ Served(blocks', live')
        BY <1>1 DEF Sound
    <2>2. PICK i \in DOMAIN blocks' : blocks'[i] = b
        BY <2>1 DEF Used
    <2>3. List!EndOf(b) <= HEAP_SIZE
        BY <2>1, <2>2, TileBounds
    <2>4. live'[D(b)] = r
        BY <1>1
    <2>5. r <= b.size
        BY <2>1, <2>4 DEF Served
    <2>6. b.at \in Nat /\ b.size \in Nat /\ r \in Nat /\ BLOCK_HEADER_SIZE \in Nat \ {0}
        BY <1>1, Aligned, SizeAssumption DEF Block
    <2>7. QED
        BY <2>3, <2>5, <2>6 DEF List!EndOf, List!DataOf
<1>10. ASSUME NEW q \in DOMAIN O
       PROVE  List!EndOf(b) <= O[q].first \/ O[q].end <= b.at
    <2>1. PICK c \in Used(blocks) : D(c) = q
        BY <1>2
    <2>2. O[q].first = c.at /\ O[q].end = List!EndOf(c)
        <3>1. O[q] = Row(c, live)
            BY <1>2, <2>1
        <3>2. QED
            BY <3>1 DEF Row
    <2>3. c # b
        BY <1>1, <1>2, <2>1
    <2>4. QED
        BY <1>1, <2>2, <2>3, UsedDisjoint DEF Sound
<1>11. /\ (IF UsesList THEN List!Owned ELSE Buddy!Owned) = O
       /\ (IF UsesList THEN List!Owned ELSE Buddy!Owned)' = P
    BY DEF O, P
<1> DEFINE new == P[D(b)]
<1>12. /\ new.size \in Request
       /\ new.first < D(b) /\ D(b) + new.size <= new.end /\ new.end <= HEAP_SIZE
       /\ \A q \in DOMAIN O : Interface!Disjoint(new, O[q])
    BY <1>6, <1>9, <1>10 DEF Interface!Disjoint
<1> HIDE DEF D
<1>13. QED
    BY <1>5, <1>8, <1>11, <1>12 DEF Interface!Grant

LEMMA FreeReleases ==
    ASSUME UsesList, UsesList', Sound(blocks, live), NEW p \in DOMAIN live, List!Free(p)
    PROVE  Interface!Release
<1> DEFINE O == List!Owned
           P == List!Owned'
           D(c) == List!DataOf(c)
<1>1. PICK b \in Used(blocks) :
          /\ Sound(blocks', live')
          /\ Used(blocks') = Used(blocks) \ {b}
          /\ D(b) = p
          /\ live' = [q \in DOMAIN live \ {p} |-> live[q]]
    BY FreeSound
<1>2. /\ DOMAIN O = {D(c) : c \in Used(blocks)} /\ DOMAIN O = DOMAIN live
      /\ \A c \in Used(blocks) : O[D(c)] = Row(c, live)
    BY OwnedRows DEF OwnsRows, Sound, Served
<1>3. /\ DOMAIN P = {D(c) : c \in Used(blocks')} /\ DOMAIN P = DOMAIN live'
      /\ \A c \in Used(blocks') : P[D(c)] = Row(c, live')
    <2>1. Sound(blocks, live)'
        BY <1>1
    <2>2. OwnsRows'
        BY <2>1, OwnedRows, PTL
    <2>3. QED
        BY <2>2, <1>1 DEF OwnsRows, Sound, Served
<1>4. O = [q \in DOMAIN O |-> O[q]] /\ P = [q \in DOMAIN P |-> P[q]]
    BY DEF List!Owned
<1> HIDE DEF O, P
<1>5. DOMAIN P = DOMAIN O \ {p} /\ p \in DOMAIN O
    BY <1>1, <1>2, <1>3
<1>6. ASSUME NEW q \in DOMAIN O \ {p} PROVE P[q] = O[q]
    <2>1. PICK c \in Used(blocks') : D(c) = q
        BY <1>3, <1>5
    <2>2. live'[q] = live[q]
        BY <1>1, <1>2
    <2>3. Row(c, live') = Row(c, live)
        BY <2>1, <2>2 DEF Row
    <2>4. QED
        BY <1>1, <1>2, <1>3, <2>1, <2>3
<1>7. P = [q \in DOMAIN O \ {p} |-> O[q]]
    BY <1>4, <1>5, <1>6
<1>8. /\ (IF UsesList THEN List!Owned ELSE Buddy!Owned) = O
      /\ (IF UsesList THEN List!Owned ELSE Buddy!Owned)' = P
    BY DEF O, P
<1>9. QED
    BY <1>5, <1>7, <1>8 DEF Interface!Release

----------------------------------------------------------------------------
(***************************************************************************)
(* What mem_dump reports.  The sum is again recursive, over the subsets of *)
(* a finite set: that the recursion has a solution, and that the order in  *)
(* which the members are taken does not matter, is shown first.            *)
(***************************************************************************)
Any(s) == CHOOSE b \in s : TRUE
IsTotal(f, F, w) ==
    /\ DOMAIN f = F
    /\ \A s \in F : f[s] = IF s = {} THEN 0 ELSE w[Any(s)] + f[s \ {Any(s)}]

\* The subsets of S that have at most n members.
Small(S, n) == {s \in SUBSET S : Cardinality(s) <= n}

LEMMA AnyIn ==
    ASSUME NEW s, s # {} PROVE Any(s) \in s
    BY DEF Any

LEMMA OneLess ==
    ASSUME NEW s, IsFiniteSet(s), NEW x \in s
    PROVE  /\ IsFiniteSet(s \ {x}) /\ Cardinality(s) \in Nat /\ Cardinality(s \ {x}) \in Nat
           /\ Cardinality(s \ {x}) = Cardinality(s) - 1
    BY FS_RemoveElement, FS_CardinalityType

\* The recursion has a solution.
LEMMA TotalExists ==
    ASSUME NEW S, IsFiniteSet(S), NEW w
    PROVE  \E f : IsTotal(f, SUBSET S, w)
<1> DEFINE N == Cardinality(S)
           Has == {n \in 0 .. N : \E f : IsTotal(f, Small(S, n), w)}
<1>1. N \in Nat /\ \A s \in SUBSET S : IsFiniteSet(s) /\ Cardinality(s) \in 0 .. N
    <2>1. N \in Nat
        BY FS_CardinalityType
    <2>2. ASSUME NEW s \in SUBSET S PROVE IsFiniteSet(s) /\ Cardinality(s) \in 0 .. N
        <3>1. IsFiniteSet(s) /\ Cardinality(s) <= N
            BY FS_Subset
        <3>2. Cardinality(s) \in Nat
            BY <3>1, FS_CardinalityType
        <3>3. QED
            BY <2>1, <3>1, <3>2
    <2>3. QED
        BY <2>1, <2>2
<1> HIDE DEF N
<1>2. 0 \in Has
    <2> DEFINE f == [s \in Small(S, 0) |-> 0]
    <2>1. \A s \in Small(S, 0) : s = {}
        <3> SUFFICES ASSUME NEW s \in Small(S, 0) PROVE s = {}
            OBVIOUS
        <3>1. IsFiniteSet(s) /\ Cardinality(s) = 0
            BY <1>1 DEF Small
        <3>2. QED
            BY <3>1, FS_EmptySet
    <2>2. IsTotal(f, Small(S, 0), w)
        BY <2>1 DEF IsTotal
    <2> HIDE DEF f
    <2>3. QED
        BY <1>1, <2>2
<1>3. ASSUME NEW n \in 0 .. N - 1, n \in Has PROVE n + 1 \in Has
    <2>1. PICK f : IsTotal(f, Small(S, n), w)
        BY <1>3
    <2> DEFINE g == [s \in Small(S, n + 1) |->
                        IF s = {} THEN 0 ELSE w[Any(s)] + f[s \ {Any(s)}]]
    <2>2. ASSUME NEW s \in Small(S, n) PROVE s \in Small(S, n + 1) /\ g[s] = f[s]
        <3>1. s \in Small(S, n + 1)
            BY <1>1 DEF Small
        <3>2. QED
            BY <2>1, <3>1 DEF IsTotal
    <2>3. ASSUME NEW s \in Small(S, n + 1), s # {} PROVE s \ {Any(s)} \in Small(S, n)
        <3>1. Any(s) \in s /\ s \in SUBSET S /\ IsFiniteSet(s) /\ Cardinality(s) <= n + 1
            BY <1>1, <2>3, AnyIn DEF Small
        <3>2. Cardinality(s \ {Any(s)}) = Cardinality(s) - 1 /\ Cardinality(s) \in Nat
            BY <3>1, OneLess
        <3>3. Cardinality(s \ {Any(s)}) <= n
            BY <3>1, <3>2
        <3>4. QED
            BY <3>1, <3>3 DEF Small
    <2>4. ASSUME NEW s \in Small(S, n + 1)
          PROVE  g[s] = IF s = {} THEN 0 ELSE w[Any(s)] + g[s \ {Any(s)}]
        <3>1. CASE s = {}
            BY <3>1
        <3>2. CASE s # {}
            <4>1. g[s \ {Any(s)}] = f[s \ {Any(s)}]
                BY <3>2, <2>2, <2>3
            <4>2. g[s] = w[Any(s)] + f[s \ {Any(s)}]
                BY <3>2
            <4> HIDE DEF g
            <4>3. QED
                BY <3>2, <4>1, <4>2
        <3>3. QED
            BY <3>1, <3>2
    <2>5. DOMAIN g = Small(S, n + 1)
        OBVIOUS
    <2> HIDE DEF g
    <2>6. IsTotal(g, Small(S, n + 1), w)
        BY <2>4, <2>5 DEF IsTotal
    <2>7. n + 1 \in 0 .. N
        BY <1>1
    <2>8. QED
        BY <2>6, <2>7
<1>4. \A n \in 0 .. N : n \in Has
    <2> HIDE DEF Has
    <2>1. QED
        BY <1>1, <1>2, <1>3, UpTo
<1>5. N \in Has
    BY <1>1, <1>4
<1>6. Small(S, N) = SUBSET S
    BY <1>1 DEF Small
<1>7. QED
    BY <1>5, <1>6

\* ... whichever it is that CHOOSE takes.
IsFix(f, S, w) ==
    f = [s \in SUBSET S |-> IF s = {} THEN 0 ELSE w[Any(s)] + f[s \ {Any(s)}]]

LEMMA TotalFixes ==
    ASSUME NEW S, IsFiniteSet(S), NEW w
    PROVE  \E f : IsFix(f, S, w)
<1>1. PICK f : IsTotal(f, SUBSET S, w)
    BY TotalExists
<1> DEFINE g == [s \in SUBSET S |-> f[s]]
<1>2. \A s \in SUBSET S : s \ {Any(s)} \in SUBSET S /\ g[s] = f[s]
    OBVIOUS
<1>3. g = [s \in SUBSET S |-> g[s]]
    OBVIOUS
<1> HIDE DEF g
<1>4. \A s \in SUBSET S : g[s] = IF s = {} THEN 0 ELSE w[Any(s)] + g[s \ {Any(s)}]
    BY <1>1, <1>2 DEF IsTotal
<1>5. IsFix(g, S, w)
    BY <1>3, <1>4 DEF IsFix
<1>6. QED
    BY <1>5

LEMMA FixIsTotal ==
    ASSUME NEW S, NEW w, NEW f, IsFix(f, S, w)
    PROVE  IsTotal(f, SUBSET S, w)
<1> DEFINE g == [s \in SUBSET S |-> IF s = {} THEN 0 ELSE w[Any(s)] + f[s \ {Any(s)}]]
<1>1. DOMAIN g = SUBSET S
    OBVIOUS
<1>2. \A s \in SUBSET S : g[s] = IF s = {} THEN 0 ELSE w[Any(s)] + f[s \ {Any(s)}]
    OBVIOUS
<1>3. f = g
    BY DEF IsFix
<1> HIDE DEF g
<1>4. QED
    BY <1>1, <1>2, <1>3 DEF IsTotal

LEMMA SizesOfSubsets ==
    ASSUME NEW S, IsFiniteSet(S)
    PROVE  /\ Cardinality(S) \in Nat
           /\ \A s \in SUBSET S : IsFiniteSet(s) /\ Cardinality(s) \in Nat
                                  /\ Cardinality(s) <= Cardinality(S)
    BY FS_CardinalityType, FS_Subset

\* The order in which the members are taken does not matter.
LEMMA TotalTakesAny ==
    ASSUME NEW S, IsFiniteSet(S), NEW w, \A x \in S : w[x] \in Int,
           NEW f, IsTotal(f, SUBSET S, w)
    PROVE  \A s \in SUBSET S : f[s] \in Int /\ \A x \in s : f[s] = w[x] + f[s \ {x}]
<1> DEFINE Good(s) == f[s] \in Int /\ \A x \in s : f[s] = w[x] + f[s \ {x}]
           N == Cardinality(S)
           Has == {n \in 0 .. N : \A s \in Small(S, n) : Good(s)}
<1>1. N \in Nat /\ \A s \in SUBSET S : IsFiniteSet(s) /\ Cardinality(s) \in Nat
                                       /\ Cardinality(s) <= N
    BY SizesOfSubsets
<1>2. \A x \in S : w[x] \in Int
    OBVIOUS
<1>3. Good({})
    <2>1. {} \in SUBSET S
        OBVIOUS
    <2>2. f[{}] = 0
        BY <2>1 DEF IsTotal
    <2>3. QED
        BY <2>2
<1>4. \A s \in SUBSET S : s # {} => f[s] = w[Any(s)] + f[s \ {Any(s)}]
    BY DEF IsTotal
<1> HIDE DEF N
<1>5. 0 \in Has
    <2>1. ASSUME NEW s \in Small(S, 0) PROVE s = {}
        <3>1. IsFiniteSet(s) /\ Cardinality(s) = 0
            BY <1>1 DEF Small
        <3>2. QED
            BY <3>1, FS_EmptySet
    <2>2. ASSUME NEW s \in Small(S, 0) PROVE Good(s)
        <3>1. s = {}
            BY <2>1
        <3> HIDE DEF Good
        <3>2. QED
            BY <1>3, <3>1
    <2>3. 0 \in 0 .. N
        BY <1>1
    <2> HIDE DEF Good
    <2>4. QED
        BY <2>2, <2>3
<1>6. ASSUME NEW n \in 0 .. N - 1, n \in Has PROVE n + 1 \in Has
    <2>1. ASSUME NEW s \in Small(S, n + 1), s # {} PROVE Good(s)
        <3> DEFINE y == Any(s)
        <3>1. y \in s /\ s \in SUBSET S /\ IsFiniteSet(s) /\ Cardinality(s) <= n + 1
            BY <1>1, <2>1, AnyIn DEF Small
        <3>2. f[s] = w[y] + f[s \ {y}]
            BY <1>4, <2>1, <3>1
        <3> HIDE DEF y
        <3>3. ASSUME NEW x \in s PROVE s \ {x} \in Small(S, n) /\ Good(s \ {x})
            <4>1. Cardinality(s \ {x}) = Cardinality(s) - 1 /\ Cardinality(s) \in Nat
                BY <3>1, OneLess
            <4>2. Cardinality(s \ {x}) <= n
                BY <3>1, <4>1
            <4>3. s \ {x} \in Small(S, n)
                BY <3>1, <4>2 DEF Small
            <4>4. QED
                BY <1>6, <4>3
        <3>4. f[s] \in Int
            <4>1. f[s \ {y}] \in Int /\ w[y] \in Int
                BY <1>2, <3>1, <3>3
            <4>2. QED
                BY <3>2, <4>1
        <3>5. ASSUME NEW x \in s PROVE f[s] = w[x] + f[s \ {x}]
            <4>1. CASE x = y
                BY <3>2, <4>1
            <4>2. CASE x # y
                <5>1. f[s \ {y}] = w[x] + f[(s \ {y}) \ {x}]
                    BY <3>1, <3>3, <4>2
                <5>2. f[s \ {x}] = w[y] + f[(s \ {x}) \ {y}]
                    BY <3>1, <3>3, <4>2
                <5>3. (s \ {y}) \ {x} = (s \ {x}) \ {y}
                    OBVIOUS
                <5> DEFINE z == f[(s \ {x}) \ {y}]
                <5>4. z \in Int
                    <6>1. (s \ {x}) \ {y} \in Small(S, n)
                        <7>1. y \in s \ {x} /\ IsFiniteSet(s \ {x}) /\ s \ {x} \in SUBSET S
                            BY <1>1, <3>1, <4>2
                        <7>2. Cardinality((s \ {x}) \ {y}) = Cardinality(s \ {x}) - 1
                              /\ Cardinality(s \ {x}) \in Nat
                            BY <7>1, OneLess
                        <7>3. Cardinality(s \ {x}) <= n
                            BY <3>3 DEF Small
                        <7>4. QED
                            BY <7>1, <7>2, <7>3 DEF Small
                    <6>2. QED
                        BY <1>6, <6>1
                <5>5. f[s \ {y}] = w[x] + z /\ f[s \ {x}] = w[y] + z
                    BY <5>1, <5>2, <5>3
                <5>6. w[x] \in Int /\ w[y] \in Int
                    BY <1>2, <3>1
                <5> HIDE DEF z
                <5>7. QED
                    BY <3>2, <5>4, <5>5, <5>6
            <4>3. QED
                BY <4>1, <4>2
        <3>6. QED
            BY <3>4, <3>5
    <2>2. n + 1 \in 0 .. N
        BY <1>1
    <2>3. QED
        BY <1>3, <2>1, <2>2
<1>7. \A n \in 0 .. N : n \in Has
    <2> HIDE DEF Has
    <2>1. QED
        BY <1>1, <1>5, <1>6, UpTo
<1>8. SUBSET S = Small(S, N) /\ N \in 0 .. N
    BY <1>1 DEF Small
<1>9. QED
    BY <1>7, <1>8

\* ... nor does what else the recursion ranges over.
LEMMA TotalOfSubset ==
    ASSUME NEW T, IsFiniteSet(T), NEW S \in SUBSET T, NEW w,
           NEW f, IsTotal(f, SUBSET S, w), NEW g, IsTotal(g, SUBSET T, w)
    PROVE  f[S] = g[S]
<1> DEFINE N == Cardinality(S)
           Has == {n \in 0 .. N : \A s \in Small(S, n) : f[s] = g[s]}
<1>1. N \in Nat /\ \A s \in SUBSET S : IsFiniteSet(s) /\ Cardinality(s) \in Nat
                                       /\ Cardinality(s) <= N
    BY SizesOfSubsets, FS_Subset
<1>2. f[{}] = 0 /\ g[{}] = 0
    <2>1. {} \in SUBSET S /\ {} \in SUBSET T
        OBVIOUS
    <2>2. QED
        BY <2>1 DEF IsTotal
<1> HIDE DEF N
<1>3. 0 \in Has
    <2>1. ASSUME NEW s \in Small(S, 0) PROVE s = {}
        <3>1. IsFiniteSet(s) /\ Cardinality(s) = 0
            BY <1>1 DEF Small
        <3>2. QED
            BY <3>1, FS_EmptySet
    <2>2. ASSUME NEW s \in Small(S, 0) PROVE f[s] = g[s]
        <3>1. s = {}
            BY <2>1
        <3>2. QED
            BY <1>2, <3>1
    <2>3. 0 \in 0 .. N
        BY <1>1
    <2>4. QED
        BY <2>2, <2>3
<1>4. ASSUME NEW n \in 0 .. N - 1, n \in Has PROVE n + 1 \in Has
    <2>1. ASSUME NEW s \in Small(S, n + 1), s # {} PROVE f[s] = g[s]
        <3> DEFINE r == s \ {Any(s)}
        <3>1. Any(s) \in s /\ s \in SUBSET S /\ s \in SUBSET T /\ IsFiniteSet(s)
              /\ Cardinality(s) <= n + 1
            BY <1>1, <2>1, AnyIn DEF Small
        <3>2. Cardinality(r) = Cardinality(s) - 1 /\ Cardinality(s) \in Nat
            BY <3>1, OneLess
        <3>3. Cardinality(r) <= n
            BY <3>1, <3>2
        <3>4. r \in Small(S, n)
            BY <3>1, <3>3 DEF Small
        <3>5. f[r] = g[r]
            BY <1>4, <3>4
        <3>6. f[s] = w[Any(s)] + f[r] /\ g[s] = w[Any(s)] + g[r]
            BY <2>1, <3>1 DEF IsTotal
        <3>7. QED
            BY <3>5, <3>6
    <2>2. n + 1 \in 0 .. N
        BY <1>1
    <2>3. QED
        BY <1>2, <2>1, <2>2
<1>5. \A n \in 0 .. N : n \in Has
    <2> HIDE DEF Has
    <2>1. QED
        BY <1>1, <1>3, <1>4, UpTo
<1>6. S \in Small(S, N) /\ N \in 0 .. N
    BY <1>1 DEF Small
<1>7. QED
    BY <1>5, <1>6

\* A member more counts for its weight.
LEMMA TotalAdds ==
    ASSUME NEW T, IsFiniteSet(T), NEW w, \A y \in T : w[y] \in Int, NEW x \in T,
           NEW f, IsTotal(f, SUBSET (T \ {x}), w), NEW g, IsTotal(g, SUBSET T, w)
    PROVE  f[T \ {x}] \in Int /\ g[T] = f[T \ {x}] + w[x]
<1> DEFINE S == T \ {x}
<1>1. IsFiniteSet(S) /\ S \in SUBSET T /\ \A y \in S : w[y] \in Int
    BY FS_Subset
<1> HIDE DEF S
<1>2. IsTotal(f, SUBSET S, w)
    BY DEF S
<1>3. f[S] = g[S]
    BY <1>1, <1>2, TotalOfSubset
<1>4. f[S] \in Int
    BY <1>1, <1>2, TotalTakesAny
<1>5. g[T] = w[x] + g[S]
    BY TotalTakesAny DEF S
<1>6. QED
    BY <1>3, <1>4, <1>5 DEF S

\* The bytes of a block of the default build, header included.
Weight(b) == b.size + BLOCK_HEADER_SIZE
Total(S) == List!MapThenSumSet(LAMBDA b : b.size + BLOCK_HEADER_SIZE, S)

\* The sum over blocks of the default build is such a recursion.
LEMMA TotalIs ==
    ASSUME NEW S, IsFiniteSet(S), NEW w, \A b \in S : w[b] = Weight(b)
    PROVE  \E f : IsTotal(f, SUBSET S, w) /\ Total(S) = f[S]
<1> DEFINE Rec(f) == [s \in SUBSET S |-> IF s = {} THEN 0 ELSE Weight(Any(s)) + f[s \ {Any(s)}]]
           t == CHOOSE f : f = Rec(f)
<1>1. Total(S) = t[S]
    BY DEF Total, List!MapThenSumSet, List!MapThenFoldSet, Weight, Any
<1>2. \A f : IsFix(f, S, w) <=> f = Rec(f)
    <2>1. \A s \in SUBSET S : s # {} => w[Any(s)] = Weight(Any(s))
        BY AnyIn
    <2>2. QED
        BY <2>1 DEF IsFix
<1>3. \E f : f = Rec(f)
    <2> HIDE DEF Rec
    <2>1. QED
        BY <1>2, TotalFixes
<1>4. t = Rec(t)
    <2> HIDE DEF Rec
    <2>1. QED
        BY <1>3
<1> HIDE DEF t, Rec
<1>5. IsFix(t, S, w)
    BY <1>2, <1>4
<1>6. IsTotal(t, SUBSET S, w)
    BY <1>5, FixIsTotal
<1>7. QED
    BY <1>1, <1>6

\* One block more counts for its size and its header.
LEMMA TotalGrows ==
    ASSUME NEW S \in SUBSET Block, IsFiniteSet(S), NEW b \in Block, b \notin S
    PROVE  Total(S) \in Int /\ Total(S \cup {b}) = Total(S) + Weight(b)
<1> DEFINE T == S \cup {b}
           w == [x \in Block |-> Weight(x)]
<1>1. T \in SUBSET Block /\ IsFiniteSet(T) /\ b \in T /\ T \ {b} = S
    BY FS_AddElement
<1>2. \A x \in Block : w[x] = Weight(x) /\ w[x] \in Int
    BY SizeAssumption DEF Weight, Block
<1> HIDE DEF T, w
<1>3. PICK f : IsTotal(f, SUBSET S, w) /\ Total(S) = f[S]
    BY <1>2, TotalIs
<1>4. PICK g : IsTotal(g, SUBSET T, w) /\ Total(T) = g[T]
    <2>1. \A x \in T : w[x] = Weight(x)
        BY <1>1, <1>2
    <2>2. QED
        BY <1>1, <2>1, TotalIs
<1>5. f[S] \in Int /\ g[T] = f[S] + w[b]
    <2>1. \A x \in T : w[x] \in Int
        BY <1>1, <1>2
    <2>2. IsTotal(f, SUBSET (T \ {b}), w)
        BY <1>1, <1>3
    <2>3. f[T \ {b}] \in Int /\ g[T] = f[T \ {b}] + w[b]
        BY <1>1, <1>4, <2>1, <2>2, TotalAdds
    <2>4. QED
        BY <1>1, <2>3
<1>6. QED
    BY <1>2, <1>3, <1>4, <1>5 DEF T

\* The blocks in use are finitely many.
LEMMA UsedFinite ==
    ASSUME NEW s, NEW end, Tiles(s, end)
    PROVE  IsFiniteSet(Used(s)) /\ Used(s) \in SUBSET Block
<1> DEFINE f == [i \in DOMAIN s |-> s[i]]
           A == {f[i] : i \in DOMAIN s}
<1>1. DOMAIN s = 1 .. Len(s) /\ Len(s) \in Nat /\ \A i \in DOMAIN s : s[i] \in Block
    BY TileBounds
<1>2. IsFiniteSet(DOMAIN s)
    BY <1>1, FS_Interval
<1>3. IsFiniteSet(A)
    <2>1. f \in [DOMAIN s -> A]
        OBVIOUS
    <2>2. f \in Surjection(DOMAIN s, A)
        BY <2>1 DEF Surjection
    <2>3. QED
        BY <1>2, <2>2, FS_Surjection
<1>4. Used(s) \in SUBSET A
    BY DEF Used
<1>5. QED
    BY <1>1, <1>3, <1>4, FS_Subset DEF Used

CountInv == UsesList => used_mem = Total(Used(blocks))

\* used_mem goes up by the size of the block taken and down by that of the block freed, which
\* need not be the size that was asked for.
LEMMA NextCounts == HeapInv /\ CountInv /\ [Next]_vars => CountInv'
<1> SUFFICES ASSUME HeapInv, CountInv, [Next]_vars, UsesList'
             PROVE  used_mem' = Total(Used(blocks'))
    BY DEF CountInv
<1>1. UsesList /\ Sound(blocks, live) /\ used_mem = Total(Used(blocks))
    BY DEF HeapInv, CountInv, UsesList, Next, vars, heap, ListMalloc, ListMallocReturnsNull,
           ListFree, BuddyMalloc, BuddyMallocReturnsNull, BuddyFree,
           FreeBegins, Disturb, NotFollowed
<1>2. Used(blocks) \in SUBSET Block /\ IsFiniteSet(Used(blocks))
    BY <1>1, UsedFinite DEF Sound
<1>3. CASE UNCHANGED <<blocks, used_mem>>
    BY <1>1, <1>3
<1>4. ASSUME NEW r \in Request, ListMalloc(r) PROVE used_mem' = Total(Used(blocks'))
    <2> DEFINE n == List!ALIGN4(r)
               t(i) == List!Taken(blocks[i], n)
    <2>1. PICK i \in List!FirstFit(n) :
              /\ blocks' = Splice(blocks, i, t(i))
              /\ used_mem' = used_mem + t(i)[1].size + BLOCK_HEADER_SIZE
        BY <1>4 DEF ListMalloc, List!Malloc, Splice
    <2>2. n \in Nat
        BY Aligned
    <2> HIDE DEF n
    <2>3. i \in DOMAIN blocks /\ blocks[i].free /\ blocks[i].size >= n /\ blocks[i] \in Block
        BY <1>1, <2>1, TileBounds DEF Sound, List!FirstFit, List!Fits
    <2>4. n <= blocks[i].size
        BY <2>2, <2>3 DEF Block
    <2> DEFINE b == t(i)[1]
    <2>5. b \in Block /\ b.at = blocks[i].at /\ ~b.free
        BY <2>2, <2>3, <2>4, TakenBlocks
    <2>6. Used(blocks') = Used(blocks) \cup {b}
        BY <1>1, <2>1, <2>2, <2>3, <2>4, TakenKeeps DEF Sound
    <2> HIDE DEF b
    <2>7. List!DataOf(b) = List!DataOf(blocks[i])
        BY <2>5 DEF List!DataOf
    <2>8. b \notin Used(blocks)
        BY <1>1, <2>3, <2>7, OneBlockThere DEF Sound, Used
    <2>9. Total(Used(blocks)) \in Int /\ Total(Used(blocks')) = Total(Used(blocks)) + Weight(b)
        BY <1>2, <2>5, <2>6, <2>8, TotalGrows
    <2>10. used_mem' = used_mem + b.size + BLOCK_HEADER_SIZE
        BY <2>1 DEF b
    <2>11. b.size \in Int /\ BLOCK_HEADER_SIZE \in Int
        BY <2>5, SizeAssumption DEF Block
    <2>12. QED
        BY <1>1, <2>9, <2>10, <2>11 DEF Weight
<1>5. ASSUME NEW p \in DOMAIN live, ListFree(p) PROVE used_mem' = Total(Used(blocks'))
    <2>1. PICK i \in DOMAIN blocks :
              /\ List!DataOf(blocks[i]) = p
              /\ used_mem' = used_mem - (blocks[i].size + BLOCK_HEADER_SIZE)
        BY <1>5 DEF ListFree, List!Free
    <2>2. PICK b \in Used(blocks) :
              Used(blocks') = Used(blocks) \ {b} /\ List!DataOf(b) = p
        BY <1>1, <1>5, FreeSound DEF ListFree
    <2>3. b = blocks[i]
        BY <1>1, <2>1, <2>2, OneBlockThere DEF Sound, Used
    <2> DEFINE S == Used(blocks')
    <2>4. S \in SUBSET Block /\ IsFiniteSet(S) /\ b \in Block /\ b \notin S
          /\ S \cup {b} = Used(blocks)
        BY <1>2, <2>2, FS_RemoveElement
    <2> HIDE DEF S
    <2>5. Total(S) \in Int /\ Total(Used(blocks)) = Total(S) + Weight(b)
        BY <2>4, TotalGrows
    <2>6. Weight(b) \in Int /\ used_mem' = used_mem - Weight(b)
        BY <2>1, <2>3, <2>4, SizeAssumption DEF Weight, Block
    <2>7. QED
        BY <1>1, <2>5, <2>6 DEF S
<1>6. QED
    BY <1>1, <1>3, <1>4, <1>5
    DEF Next, vars, heap, BuddyMalloc, BuddyMallocReturnsNull, BuddyFree,
        ListMallocReturnsNull, List!MallocReturnsNull, List!heapVars,
        FreeBegins, Disturb, NotFollowed

----------------------------------------------------------------------------
(***************************************************************************)
(* Powers of two, for the build with USE_BUDDY.  That the recursion has a  *)
(* solution on the naturals is shown from its solutions on 0 .. n, which   *)
(* agree.                                                                  *)
(***************************************************************************)
IsPow(f, n) == f = [k \in 0 .. n |-> IF k = 0 THEN 1 ELSE 2 * f[k - 1]]
Pow(o) == Buddy!Pow2[o]

\* The recursion has a solution on 0 .. n.
LEMMA PowsUpTo ==
    ASSUME NEW n \in Nat
    PROVE  \E f : IsPow(f, n)
<1> DEFINE S == {k \in 0 .. n : \E f : IsPow(f, k)}
<1>1. 0 \in S
    <2> DEFINE f == [k \in 0 .. 0 |-> 1]
    <2>1. IsPow(f, 0)
        BY DEF IsPow
    <2> HIDE DEF f
    <2>2. QED
        BY <2>1
<1>2. ASSUME NEW k \in 0 .. n - 1, k \in S PROVE k + 1 \in S
    <2>1. PICK f : IsPow(f, k)
        BY <1>2
    <2> DEFINE g == [j \in 0 .. k + 1 |-> IF j = k + 1 THEN 2 * f[k] ELSE f[j]]
    <2>2. \A j \in 0 .. k : f[j] = IF j = 0 THEN 1 ELSE 2 * f[j - 1]
        BY <2>1 DEF IsPow
    <2>3. ASSUME NEW j \in 0 .. k + 1 PROVE g[j] = IF j = 0 THEN 1 ELSE 2 * g[j - 1]
        <3>1. j # 0 => j - 1 \in 0 .. k /\ g[j - 1] = f[j - 1]
            OBVIOUS
        <3>2. j # k + 1 => j \in 0 .. k /\ g[j] = f[j]
            OBVIOUS
        <3>3. g[k + 1] = 2 * f[k] /\ (k + 1) - 1 = k
            OBVIOUS
        <3>4. QED
            BY <2>2, <3>1, <3>2, <3>3
    <2>4. g = [j \in 0 .. k + 1 |-> g[j]]
        OBVIOUS
    <2> HIDE DEF g
    <2>5. IsPow(g, k + 1)
        BY <2>3, <2>4 DEF IsPow
    <2>6. QED
        BY <2>5
<1>3. \A k \in 0 .. n : k \in S
    <2> HIDE DEF S
    <2>1. QED
        BY <1>1, <1>2, UpTo
<1>4. QED
    BY <1>3

\* Two solutions agree where both are defined.
LEMMA PowsAgree ==
    ASSUME NEW n \in Nat, NEW m \in Nat, n <= m, NEW f, NEW g, IsPow(f, n), IsPow(g, m)
    PROVE  f[n] = g[n]
<1> DEFINE S == {k \in 0 .. n : f[k] = g[k]}
<1>1. /\ \A k \in 0 .. n : f[k] = IF k = 0 THEN 1 ELSE 2 * f[k - 1]
      /\ \A k \in 0 .. m : g[k] = IF k = 0 THEN 1 ELSE 2 * g[k - 1]
    BY DEF IsPow
<1>2. 0 \in S
    BY <1>1
<1>3. ASSUME NEW k \in 0 .. n - 1, k \in S PROVE k + 1 \in S
    <2>1. k + 1 \in 0 .. n /\ k + 1 \in 0 .. m /\ (k + 1) - 1 = k /\ k + 1 # 0
        OBVIOUS
    <2>2. f[k + 1] = 2 * f[k] /\ g[k + 1] = 2 * g[k]
        BY <1>1, <2>1
    <2>3. QED
        BY <1>3, <2>1, <2>2
<1>4. \A k \in 0 .. n : k \in S
    <2> HIDE DEF S
    <2>1. QED
        BY <1>2, <1>3, UpTo
<1>5. QED
    BY <1>4

\* 1UL << n, as the recursion defines it.
LEMMA PowIs ==
    /\ Pow(0) = 1
    /\ \A n \in Nat : Pow(n + 1) = 2 * Pow(n)
<1> DEFINE F(n) == CHOOSE f : IsPow(f, n)
           p == [n \in Nat |-> F(n)[n]]
<1>1. \A n \in Nat : IsPow(F(n), n)
    BY PowsUpTo
<1> HIDE DEF F
<1>2. ASSUME NEW n \in Nat PROVE p[n] = IF n = 0 THEN 1 ELSE 2 * p[n - 1]
    <2>1. F(n)[n] = IF n = 0 THEN 1 ELSE 2 * F(n)[n - 1]
        <3>1. n \in 0 .. n
            OBVIOUS
        <3>2. \A k \in 0 .. n : F(n)[k] = IF k = 0 THEN 1 ELSE 2 * F(n)[k - 1]
            BY <1>1 DEF IsPow
        <3>3. QED
            BY <3>1, <3>2
    <2>2. n # 0 => n - 1 \in Nat /\ F(n)[n - 1] = F(n - 1)[n - 1]
        <3> SUFFICES ASSUME n # 0 PROVE n - 1 \in Nat /\ F(n)[n - 1] = F(n - 1)[n - 1]
            OBVIOUS
        <3>1. n - 1 \in Nat /\ n - 1 <= n
            OBVIOUS
        <3>2. QED
            BY <1>1, <3>1, PowsAgree
    <2>3. QED
        BY <2>1, <2>2
<1>3. p = [n \in Nat |-> p[n]]
    OBVIOUS
<1> HIDE DEF p
<1>4. p = [n \in Nat |-> IF n = 0 THEN 1 ELSE 2 * p[n - 1]]
    BY <1>2, <1>3
<1>5. Buddy!Pow2 = [n \in Nat |-> IF n = 0 THEN 1 ELSE 2 * Buddy!Pow2[n - 1]]
    BY <1>4 DEF Buddy!Pow2
<1>6. \A n \in Nat : Buddy!Pow2[n] = IF n = 0 THEN 1 ELSE 2 * Buddy!Pow2[n - 1]
    BY <1>5
<1>7. \A n \in Nat : n + 1 \in Nat /\ n + 1 # 0 /\ (n + 1) - 1 = n
    OBVIOUS
<1>8. QED
    BY <1>6, <1>7 DEF Pow

\* A power is positive, and more than its exponent.
LEMMA PowPositive ==
    ASSUME NEW n \in Nat
    PROVE  Pow(n) \in Nat /\ Pow(n) > 0 /\ n < Pow(n)
<1> DEFINE S == {k \in 0 .. n : Pow(k) \in Nat /\ k < Pow(k)}
<1>1. 0 \in S
    BY PowIs
<1>2. ASSUME NEW k \in 0 .. n - 1, k \in S PROVE k + 1 \in S
    BY <1>2, PowIs
<1>3. \A k \in 0 .. n : k \in S
    <2> HIDE DEF S
    <2>1. QED
        BY <1>1, <1>2, UpTo
<1>4. QED
    BY <1>3

\* A power is a multiple of those with smaller exponents.
LEMMA PowDivides ==
    ASSUME NEW m \in Nat, NEW n \in Nat, m <= n
    PROVE  \E k \in Nat : k > 0 /\ Pow(n) = k * Pow(m)
<1> DEFINE S == {d \in 0 .. n - m : \E k \in Nat : k > 0 /\ Pow(m + d) = k * Pow(m)}
<1>1. 0 \in S
    BY PowPositive
<1>2. ASSUME NEW d \in 0 .. n - m - 1, d \in S PROVE d + 1 \in S
    <2>1. PICK k \in Nat : k > 0 /\ Pow(m + d) = k * Pow(m)
        BY <1>2
    <2>2. m + d \in Nat /\ (m + d) + 1 = m + (d + 1)
        OBVIOUS
    <2>3. Pow(m + (d + 1)) = 2 * (k * Pow(m))
        BY <2>1, <2>2, PowIs
    <2>4. 2 * k \in Nat /\ 2 * k > 0 /\ Pow(m + (d + 1)) = (2 * k) * Pow(m)
        BY <2>1, <2>3, PowPositive
    <2>5. QED
        BY <2>4
<1>3. \A d \in 0 .. n - m : d \in S
    <2> HIDE DEF S
    <2>1. QED
        BY <1>1, <1>2, UpTo
<1>4. QED
    <2>1. n - m \in 0 .. n - m /\ m + (n - m) = n
        OBVIOUS
    <2>2. n - m \in S
        BY <1>3, <2>1
    <2>3. QED
        BY <2>1, <2>2

\* Powers grow with the exponent.
LEMMA PowMonotone ==
    ASSUME NEW m \in Nat, NEW n \in Nat, m <= n
    PROVE  Pow(m) <= Pow(n)
<1>1. PICK k \in Nat : k > 0 /\ Pow(n) = k * Pow(m)
    BY PowDivides
<1>2. QED
    BY <1>1, PowPositive

\* log2_ceil is the least order whose power is not below n.
LEMMA Log2CeilIs ==
    ASSUME NEW n \in Nat
    PROVE  /\ Buddy!Log2Ceil(n) \in Nat /\ n <= Pow(Buddy!Log2Ceil(n))
           /\ \A m \in 0 .. Buddy!Log2Ceil(n) - 1 : Pow(m) < n
<1> DEFINE S == {o \in 0 .. n : Pow(o) >= n}
<1>1. n \in S
    BY PowPositive
<1>2. PICK o \in S : \A m \in S : o <= m
    <2>1. S \in SUBSET Nat /\ S # {}
        BY <1>1
    <2> HIDE DEF S
    <2>2. QED
        BY <2>1, Least
<1>3. ASSUME NEW m \in 0 .. o - 1 PROVE Pow(m) < n
    <2>1. m \in Nat /\ m \in 0 .. n /\ ~(o <= m)
        OBVIOUS
    <2>2. ~(Pow(m) >= n) /\ Pow(m) \in Nat
        BY <1>2, <2>1, PowPositive
    <2>3. QED
        BY <2>2
<1>4. \E x \in 0 .. n : Pow(x) >= n /\ \A m \in 0 .. x - 1 : Pow(m) < n
    BY <1>2, <1>3
<1>5. PICK x \in 0 .. n : /\ x = Buddy!Log2Ceil(n)
                          /\ Pow(x) >= n /\ \A m \in 0 .. x - 1 : Pow(m) < n
    BY <1>4 DEF Buddy!Log2Ceil, Pow
<1>6. x \in Nat /\ Pow(x) \in Nat
    BY PowPositive
<1>7. QED
    BY <1>5, <1>6

\* The block of the highest order fits in the heap.
LEMMA WholeFits ==
    Buddy!max_order \in Nat /\ Pow(Buddy!max_order) \in Nat /\ Pow(Buddy!max_order) <= HEAP_SIZE
<1> DEFINE L == Buddy!Log2Ceil(HEAP_SIZE)
<1>1. HEAP_SIZE \in Nat /\ HEAP_SIZE >= 1
    BY SizeAssumption
<1>2. L \in Nat /\ \A m \in 0 .. L - 1 : Pow(m) < HEAP_SIZE
    BY <1>1, Log2CeilIs
<1>3. Buddy!max_order = IF Pow(L) > HEAP_SIZE THEN L - 1 ELSE L
    BY DEF Buddy!max_order, Pow
<1> HIDE DEF L
<1>4. CASE Pow(L) > HEAP_SIZE
    <2>1. L # 0
        BY <1>1, <1>4, PowIs
    <2>2. L - 1 \in Nat /\ L - 1 \in 0 .. L - 1
        BY <1>2, <2>1
    <2>3. Pow(L - 1) < HEAP_SIZE /\ Pow(L - 1) \in Nat
        BY <1>2, <2>2, PowPositive
    <2>4. QED
        BY <1>1, <1>3, <1>4, <2>2, <2>3
<1>5. CASE ~(Pow(L) > HEAP_SIZE)
    BY <1>1, <1>2, <1>3, <1>5, PowPositive
<1>6. QED
    BY <1>4, <1>5

----------------------------------------------------------------------------
(***************************************************************************)
(* Blocks of 2^order bytes, as pairs of an address and an order.           *)
(***************************************************************************)
Top == Buddy!max_order
Heap == Pow(Top)
End(c) == c[1] + Pow(c[2])
Holds(c, x) == c[1] <= x /\ x < End(c)
Apart(c, d) == End(c) <= d[1] \/ End(d) <= c[1]

IsBlock(c) ==
    /\ c \in Nat \X (0 .. Top)
    /\ \E i \in Nat : c[1] = i * Pow(c[2])
    /\ End(c) <= Heap

\* The blocks of A cover the heap and do not overlap.
Covers(A) ==
    /\ \A c \in A : IsBlock(c)
    /\ \A c, d \in A : c # d => Apart(c, d)
    /\ \A x \in 0 .. Heap - 1 : \E c \in A : Holds(c, x)

\* The numbers that make up a block.
LEMMA BlockNumbers ==
    ASSUME NEW c, IsBlock(c)
    PROVE  /\ c[1] \in Nat /\ c[2] \in Nat /\ c[2] <= Top /\ Pow(c[2]) \in Nat /\ Pow(c[2]) > 0
           /\ End(c) \in Nat /\ c[1] < End(c) /\ End(c) <= Heap /\ Heap \in Nat /\ Holds(c, c[1])
           /\ c = <<c[1], c[2]>>
<1>1. c[1] \in Nat /\ c[2] \in Nat /\ c[2] <= Top /\ c = <<c[1], c[2]>>
    BY WholeFits DEF IsBlock, Top
<1>2. Pow(c[2]) \in Nat /\ Pow(c[2]) > 0 /\ Heap \in Nat
    BY <1>1, PowPositive, WholeFits DEF Heap, Top
<1>3. QED
    BY <1>1, <1>2 DEF End, Holds, IsBlock

\* Two blocks are apart exactly when no byte is in both.
LEMMA ApartIs ==
    ASSUME NEW c, NEW d, IsBlock(c), IsBlock(d)
    PROVE  /\ Apart(c, d) => \A x \in Nat : ~(Holds(c, x) /\ Holds(d, x))
           /\ ~Apart(c, d) => \E x \in Nat : Holds(c, x) /\ Holds(d, x)
<1>1. /\ c[1] \in Nat /\ End(c) \in Nat /\ c[1] < End(c)
      /\ d[1] \in Nat /\ End(d) \in Nat /\ d[1] < End(d)
    BY BlockNumbers
<1>2. Apart(c, d) => \A x \in Nat : ~(Holds(c, x) /\ Holds(d, x))
    BY <1>1 DEF Apart, Holds
<1>3. ASSUME ~Apart(c, d) PROVE \E x \in Nat : Holds(c, x) /\ Holds(d, x)
    <2>1. CASE c[1] <= d[1]
        BY <1>1, <1>3, <2>1 DEF Apart, Holds
    <2>2. CASE d[1] <= c[1]
        BY <1>1, <1>3, <2>2 DEF Apart, Holds
    <2>3. QED
        BY <1>1, <2>1, <2>2
<1>4. QED
    BY <1>2, <1>3

\* Blocks that are replaced by others for the same bytes.
LEMMA Exchange ==
    ASSUME NEW A, Covers(A), NEW Old, Old \subseteq A, NEW New,
           \A c \in New : IsBlock(c), \A c, d \in New : c # d => Apart(c, d),
           \A x \in Nat : (\E c \in Old : Holds(c, x)) <=> (\E c \in New : Holds(c, x))
    PROVE  Covers((A \ Old) \cup New)
<1> DEFINE B == (A \ Old) \cup New
<1>1. \A c \in B : IsBlock(c)
    BY DEF Covers
<1>2. ASSUME NEW c \in New, NEW d \in A \ Old PROVE Apart(c, d) /\ Apart(d, c)
    <2>1. IsBlock(c) /\ IsBlock(d)
        BY DEF Covers
    <2>2. Apart(c, d)
        <3> SUFFICES ASSUME ~Apart(c, d) PROVE FALSE
            OBVIOUS
        <3>1. PICK x \in Nat : Holds(c, x) /\ Holds(d, x)
            BY <2>1, ApartIs
        <3>2. PICK e \in Old : Holds(e, x)
            BY <3>1
        <3>3. IsBlock(e) /\ Apart(e, d)
            BY DEF Covers
        <3>4. QED
            BY <2>1, <3>1, <3>2, <3>3, ApartIs
    <2>3. QED
        BY <2>2 DEF Apart
<1>3. ASSUME NEW c \in B, NEW d \in B, c # d PROVE Apart(c, d)
    BY <1>2, <1>3 DEF Covers
<1>4. ASSUME NEW x \in 0 .. Heap - 1 PROVE \E c \in B : Holds(c, x)
    <2>1. Heap \in Nat /\ x \in Nat
        BY WholeFits DEF Heap, Top
    <2>2. PICK c \in A : Holds(c, x)
        BY DEF Covers
    <2>3. CASE c \in Old
        BY <2>1, <2>2, <2>3
    <2>4. QED
        BY <2>2, <2>3
<1>5. QED
    BY <1>1, <1>3, <1>4 DEF Covers

\* Two blocks of a heap that hold the same byte are one.
LEMMA OnlyOne ==
    ASSUME NEW A, Covers(A), NEW c \in A, NEW d \in A, NEW x \in Nat, Holds(c, x), Holds(d, x)
    PROVE  c = d
BY ApartIs DEF Covers

----------------------------------------------------------------------------
\* A block, halved.
LEMMA Halves ==
    ASSUME NEW b \in Nat, NEW o \in Nat, IsBlock(<<b, o + 1>>)
    PROVE  /\ IsBlock(<<b, o>>) /\ IsBlock(<<b + Pow(o), o>>)
           /\ Apart(<<b, o>>, <<b + Pow(o), o>>)
           /\ \A x \in Nat : Holds(<<b, o + 1>>, x)
                             <=> Holds(<<b, o>>, x) \/ Holds(<<b + Pow(o), o>>, x)
<1>1. Pow(o) \in Nat /\ Pow(o) > 0 /\ Pow(o + 1) = 2 * Pow(o) /\ Heap \in Nat /\ Top \in Nat
    BY PowPositive, PowIs, WholeFits DEF Heap, Top
<1>2. o + 1 <= Top /\ b + Pow(o + 1) <= Heap
    BY DEF IsBlock, End
<1>3. PICK i \in Nat : b = i * Pow(o + 1)
    BY DEF IsBlock
<1>4. b = (2 * i) * Pow(o) /\ b + Pow(o) = (2 * i + 1) * Pow(o)
    BY <1>1, <1>3
<1>5. 2 * i \in Nat /\ 2 * i + 1 \in Nat /\ o \in 0 .. Top /\ b + Pow(o) \in Nat
    BY <1>1, <1>2
<1>6. IsBlock(<<b, o>>)
    BY <1>1, <1>2, <1>4, <1>5 DEF IsBlock, End
<1>7. IsBlock(<<b + Pow(o), o>>)
    BY <1>1, <1>2, <1>4, <1>5 DEF IsBlock, End
<1>8. QED
    BY <1>1, <1>6, <1>7 DEF Apart, Holds, End

\* What the splits of a block of order a, down to order k, leave of it.
Split(b, a, k) == {<<b, k>>} \cup {<<b + Pow(o), o>> : o \in k .. a - 1}

\* What the splits leave takes the place of the block.
LEMMA SplitCovers ==
    ASSUME NEW A, Covers(A), NEW b, NEW a, <<b, a>> \in A, NEW k \in 0 .. a
    PROVE  /\ b \in Nat /\ a \in 0 .. Top
           /\ Covers((A \ {<<b, a>>}) \cup Split(b, a, k))
<1>0. b \in Nat /\ a \in 0 .. Top /\ Top \in Nat /\ IsBlock(<<b, a>>)
    BY WholeFits DEF Covers, IsBlock, Top
<1> DEFINE At(n) == (A \ {<<b, a>>}) \cup Split(b, a, a - n)
           S == {n \in 0 .. a : Covers(At(n)) /\ IsBlock(<<b, a - n>>)}
<1>1. 0 \in S
    <2>1. Split(b, a, a - 0) = {<<b, a>>}
        BY <1>0 DEF Split
    <2>2. At(0) = A
        BY <2>1
    <2>3. QED
        BY <1>0, <2>2
<1>2. ASSUME NEW n \in 0 .. a - 1, n \in S PROVE n + 1 \in S
    <2> DEFINE o == a - (n + 1)
               Old == {<<b, o + 1>>}
               New == {<<b, o>>, <<b + Pow(o), o>>}
    <2>1. o \in Nat /\ o + 1 = a - n /\ n + 1 \in 0 .. a /\ o + 1 <= a
        BY <1>0
    <2>2. Covers(At(n)) /\ IsBlock(<<b, o + 1>>)
        BY <1>2, <2>1
    <2> HIDE DEF o
    <2>3. /\ IsBlock(<<b, o>>) /\ IsBlock(<<b + Pow(o), o>>)
          /\ Apart(<<b, o>>, <<b + Pow(o), o>>)
          /\ \A x \in Nat : Holds(<<b, o + 1>>, x)
                            <=> Holds(<<b, o>>, x) \/ Holds(<<b + Pow(o), o>>, x)
        BY <1>0, <2>1, <2>2, Halves
    <2>4. Old \subseteq At(n)
        BY <2>1 DEF Split
    <2>5. Covers((At(n) \ Old) \cup New)
        <3>1. \A c \in New : IsBlock(c)
            BY <2>3
        <3>2. \A c, d \in New : c # d => Apart(c, d)
            BY <2>3 DEF Apart
        <3>3. \A x \in Nat : (\E c \in Old : Holds(c, x)) <=> (\E c \in New : Holds(c, x))
            BY <2>3
        <3> HIDE DEF At, Old, New
        <3>4. QED
            BY <2>2, <2>4, <3>1, <3>2, <3>3, Exchange
    <2>6. (At(n) \ Old) \cup New = (A \ {<<b, a>>}) \cup Split(b, a, o)
        <3>1. Split(b, a, o) = New \cup {<<b + Pow(j), j>> : j \in o + 1 .. a - 1}
            <4>1. o .. a - 1 = {o} \cup (o + 1 .. a - 1)
                BY <1>0, <2>1
            <4>2. QED
                BY <4>1 DEF Split
        <3>2. At(n) = (A \ {<<b, a>>}) \cup Old \cup {<<b + Pow(j), j>> : j \in o + 1 .. a - 1}
            BY <2>1 DEF Split
        <3>3. <<b, o + 1>> \notin A \ {<<b, a>>}
            <4> SUFFICES ASSUME <<b, o + 1>> \in A \ {<<b, a>>} PROVE FALSE
                OBVIOUS
            <4>1. Holds(<<b, o + 1>>, b) /\ Holds(<<b, a>>, b)
                <5>1. <<b, o + 1>>[1] = b /\ <<b, a>>[1] = b
                    OBVIOUS
                <5>2. QED
                    BY <1>0, <2>2, <5>1, BlockNumbers
            <4>2. QED
                BY <1>0, <4>1, OnlyOne
        <3>4. \A j \in o + 1 .. a - 1 : <<b + Pow(j), j>> # <<b, o + 1>>
            <4> TAKE j \in o + 1 .. a - 1
            <4>1. j \in Nat /\ Pow(j) \in Nat /\ Pow(j) > 0
                BY <1>0, <2>1, PowPositive
            <4>2. QED
                BY <1>0, <4>1
        <3> HIDE DEF At
        <3>5. QED
            BY <3>1, <3>2, <3>3, <3>4
    <2>7. o = a - (n + 1)
        BY DEF o
    <2>8. QED
        BY <2>1, <2>3, <2>5, <2>6, <2>7
<1>3. \A n \in 0 .. a : n \in S
    <2> HIDE DEF S
    <2>1. QED
        BY <1>0, <1>1, <1>2, UpTo
<1>4. a - k \in 0 .. a /\ a - (a - k) = k
    BY <1>0
<1>5. a - k \in S
    BY <1>3, <1>4
<1>6. QED
    BY <1>0, <1>4, <1>5

----------------------------------------------------------------------------
(***************************************************************************)
(* The block of each order around a byte, and its buddy.                   *)
(***************************************************************************)
AroundOf(x, o) == Buddy!Around(x, o)

\* The block around a byte holds it.
LEMMA AroundHolds ==
    ASSUME NEW x \in Nat, NEW o \in Nat
    PROVE  /\ AroundOf(x, o) \in Nat /\ Holds(<<AroundOf(x, o), o>>, x)
           /\ \E i \in Nat : i = x \div Pow(o) /\ AroundOf(x, o) = i * Pow(o)
<1>1. Pow(o) \in Nat /\ Pow(o) > 0
    BY PowPositive
<1> DEFINE p == Pow(o)
           i == x \div p
<1>2. AroundOf(x, o) = i * p
    BY DEF AroundOf, Buddy!Around, Pow
<1>3. i \in Nat /\ i * p \in Nat /\ i * p <= x /\ x < i * p + p
    BY <1>1
<1>4. QED
    BY <1>2, <1>3 DEF Holds, End

\* It is the only one.
LEMMA AroundOnly ==
    ASSUME NEW x \in Nat, NEW o \in Nat, NEW i \in Nat, Holds(<<i * Pow(o), o>>, x)
    PROVE  AroundOf(x, o) = i * Pow(o) /\ x \div Pow(o) = i
<1>1. Pow(o) \in Nat /\ Pow(o) > 0
    BY PowPositive
<1>2. PICK j \in Nat : j = x \div Pow(o) /\ AroundOf(x, o) = j * Pow(o)
    BY AroundHolds
<1> DEFINE p == Pow(o)
<1>3. i * p <= x /\ x < i * p + p /\ j * p <= x /\ x < j * p + p
    BY <1>2, AroundHolds DEF Holds, End
<1>4. i * p \in Nat /\ j * p \in Nat /\ p \in Nat
    BY <1>1
<1>5. i < j => i * p + p <= j * p
    BY <1>1
<1>6. j < i => j * p + p <= i * p
    BY <1>1
<1> HIDE DEF p
<1>7. i = j
    BY <1>3, <1>4, <1>5, <1>6
<1>8. QED
    BY <1>2, <1>7

\* It is a block of the heap.
LEMMA AroundIsBlock ==
    ASSUME NEW x \in 0 .. Heap - 1, NEW o \in 0 .. Top
    PROVE  IsBlock(<<AroundOf(x, o), o>>)
<1>1. Top \in Nat /\ Heap \in Nat /\ x \in Nat /\ o \in Nat /\ Pow(o) \in Nat /\ Pow(o) > 0
    BY WholeFits, PowPositive DEF Heap, Top
<1>2. PICK k \in Nat : k > 0 /\ Heap = k * Pow(o)
    BY <1>1, PowDivides DEF Heap
<1>3. PICK i \in Nat : AroundOf(x, o) = i * Pow(o)
    BY <1>1, AroundHolds
<1>4. AroundOf(x, o) \in Nat /\ AroundOf(x, o) <= x
    BY <1>1, AroundHolds DEF Holds
<1>5. i < k
    <2>1. k <= i => k * Pow(o) <= i * Pow(o)
        BY <1>1
    <2>2. i * Pow(o) < k * Pow(o)
        BY <1>1, <1>2, <1>3, <1>4
    <2>3. i * Pow(o) \in Nat /\ k * Pow(o) \in Nat
        BY <1>1
    <2>4. QED
        BY <2>1, <2>2, <2>3
<1>6. i * Pow(o) + Pow(o) <= k * Pow(o)
    BY <1>1, <1>5
<1>7. End(<<AroundOf(x, o), o>>) <= Heap
    BY <1>2, <1>3, <1>6 DEF End
<1>8. QED
    BY <1>3, <1>4, <1>7 DEF IsBlock

\* A block of one order and its buddy are the two halves of the block of the next.
LEMMA BuddiesAre ==
    ASSUME NEW x \in Nat, NEW o \in Nat
    PROVE  LET a == AroundOf(x, o)
               u == AroundOf(x, o + 1)
           IN  \/ a = u /\ Buddy!BuddyOf(a, o) = u + Pow(o)
               \/ a = u + Pow(o) /\ Buddy!BuddyOf(a, o) = u
<1> DEFINE a == AroundOf(x, o)
           p == Pow(o)
<1>1. p \in Nat /\ p > 0 /\ Pow(o + 1) = 2 * p /\ o + 1 \in Nat
    BY PowPositive, PowIs
<1>2. PICK i \in Nat : i = x \div p /\ a = i * p /\ a <= x /\ x < a + p
    BY AroundHolds DEF Holds, End
<1>3. a \div p = i
    <2>1. a \in Nat /\ i * Pow(o) = a
        BY <1>2, AroundHolds
    <2>2. Holds(<<i * Pow(o), o>>, a)
        <3> HIDE DEF a
        <3>1. QED
            BY <1>1, <2>1 DEF Holds, End
    <2>3. QED
        BY <2>1, <2>2, AroundOnly
<1>4. Buddy!BuddyOf(a, o) = IF i % 2 = 0 THEN a + p ELSE a - p
    BY <1>3 DEF Buddy!BuddyOf, Pow
<1> HIDE DEF p
<1>5. CASE i % 2 = 0
    <2>1. PICK j \in Nat : i = 2 * j
        <3>1. i = 2 * (i \div 2) /\ i \div 2 \in Nat
            BY <1>5
        <3>2. QED
            BY <3>1
    <2>2. a = j * (2 * p)
        BY <1>1, <1>2, <2>1
    <2>3. a <= x /\ x < a + 2 * p
        BY <1>1, <1>2
    <2>4. Holds(<<j * Pow(o + 1), o + 1>>, x)
        BY <1>1, <2>2, <2>3 DEF Holds, End
    <2>5. AroundOf(x, o + 1) = a
        BY <1>1, <2>2, <2>4, AroundOnly
    <2>6. QED
        BY <1>4, <1>5, <2>5 DEF p
<1>6. CASE i % 2 # 0
    <2>1. PICK j \in Nat : i = 2 * j + 1
        <3>1. i = 2 * (i \div 2) + 1 /\ i \div 2 \in Nat
            BY <1>6
        <3>2. QED
            BY <3>1
    <2>2. a = j * (2 * p) + p /\ j * (2 * p) \in Nat
        BY <1>1, <1>2, <2>1
    <2>3. j * (2 * p) <= x /\ x < j * (2 * p) + 2 * p
        BY <1>1, <1>2, <2>2
    <2>4. Holds(<<j * Pow(o + 1), o + 1>>, x)
        BY <1>1, <2>3 DEF Holds, End
    <2>5. AroundOf(x, o + 1) = j * (2 * p)
        BY <1>1, <2>4, AroundOnly
    <2>6. a = AroundOf(x, o + 1) + p /\ Buddy!BuddyOf(a, o) = AroundOf(x, o + 1)
        BY <1>1, <1>4, <1>6, <2>2, <2>5
    <2>7. QED
        BY <2>6 DEF p
<1>7. QED
    BY <1>5, <1>6

\* For a block, the block around its address is itself; its buddy's buddy is itself.
LEMMA BuddyOfBlock ==
    ASSUME NEW b, NEW o, IsBlock(<<b, o>>), o < Top
    PROVE  /\ AroundOf(b, o) = b
           /\ Buddy!BuddyOf(b, o) # b /\ Buddy!BuddyOf(Buddy!BuddyOf(b, o), o) = b
           /\ IsBlock(<<Buddy!BuddyOf(b, o), o>>)
           /\ Holds(<<AroundOf(b, o + 1), o + 1>>, Buddy!BuddyOf(b, o))
           /\ IsBlock(<<AroundOf(b, o + 1), o + 1>>)
<1>1. /\ b \in Nat /\ o \in Nat /\ Pow(o) \in Nat /\ Pow(o) > 0 /\ b < Heap /\ Heap \in Nat
      /\ Top \in Nat /\ Pow(o + 1) = 2 * Pow(o)
    <2>1. o \in Nat /\ b \in Nat
        BY WholeFits DEF IsBlock, Top
    <2>2. QED
        BY <2>1, PowPositive, PowIs, WholeFits DEF IsBlock, End, Top, Heap
<1>2. PICK i \in Nat : b = i * Pow(o)
    BY DEF IsBlock
<1>3. AroundOf(b, o) = b
    <2>1. Holds(<<i * Pow(o), o>>, b)
        BY <1>1, <1>2 DEF Holds, End
    <2>2. QED
        BY <1>1, <1>2, <2>1, AroundOnly
<1> DEFINE u == AroundOf(b, o + 1)
           d == Buddy!BuddyOf(b, o)
<1>4. u \in Nat /\ IsBlock(<<u, o + 1>>)
    BY <1>1, AroundHolds, AroundIsBlock
<1>5. (b = u /\ d = u + Pow(o)) \/ (b = u + Pow(o) /\ d = u)
    BY <1>1, <1>3, BuddiesAre
<1>6. IsBlock(<<u, o>>) /\ IsBlock(<<u + Pow(o), o>>)
    BY <1>1, <1>4, Halves
<1>7. d \in Nat /\ d # b /\ IsBlock(<<d, o>>)
    BY <1>1, <1>4, <1>5, <1>6
<1>8. Holds(<<u, o + 1>>, d)
    BY <1>1, <1>4, <1>5 DEF Holds, End
<1>9. AroundOf(d, o) = d
    <2>1. PICK j \in Nat : d = j * Pow(o)
        BY <1>7 DEF IsBlock
    <2>2. Holds(<<j * Pow(o), o>>, d)
        BY <1>1, <1>7, <2>1 DEF Holds, End
    <2>3. QED
        BY <1>1, <1>7, <2>1, <2>2, AroundOnly
<1>10. AroundOf(d, o + 1) = u
    <2>1. PICK j \in Nat : u = j * Pow(o + 1)
        BY <1>4 DEF IsBlock
    <2> HIDE DEF u, d
    <2>2. Holds(<<j * Pow(o + 1), o + 1>>, d) /\ o + 1 \in Nat
        BY <1>1, <1>8, <2>1
    <2>3. QED
        BY <1>7, <2>1, <2>2, AroundOnly
<1>11. (d = u /\ Buddy!BuddyOf(d, o) = u + Pow(o)) \/ (d = u + Pow(o) /\ Buddy!BuddyOf(d, o) = u)
    BY <1>1, <1>7, <1>9, <1>10, BuddiesAre
<1>12. Buddy!BuddyOf(d, o) = b
    BY <1>1, <1>4, <1>5, <1>7, <1>11
<1>13. QED
    BY <1>3, <1>4, <1>7, <1>8, <1>12

----------------------------------------------------------------------------
\* The buddies that are merged with what is around byte b, from order o up to order k.
Merged(b, o, k) == {<<Buddy!BuddyOf(AroundOf(b, j), j), j>> : j \in o .. k - 1}

\* What has been merged takes the place of the block and of its buddies.
LEMMA MergeCovers ==
    ASSUME NEW A, Covers(A), NEW b, NEW o, <<b, o>> \in A, NEW m \in o .. Top,
           Merged(b, o, m) \subseteq A
    PROVE  /\ b \in 0 .. Heap - 1 /\ o \in 0 .. Top /\ IsBlock(<<AroundOf(b, m), m>>)
           /\ Covers((A \ ({<<b, o>>} \cup Merged(b, o, m))) \cup {<<AroundOf(b, m), m>>})
<1>0. /\ b \in 0 .. Heap - 1 /\ b \in Nat /\ o \in 0 .. Top /\ Top \in Nat /\ IsBlock(<<b, o>>)
      /\ Holds(<<b, o>>, b) /\ Heap \in Nat
    <2>1. IsBlock(<<b, o>>)
        BY DEF Covers
    <2>2. <<b, o>>[1] = b /\ <<b, o>>[2] = o
        OBVIOUS
    <2>3. b \in Nat /\ o \in Nat /\ o <= Top /\ b < End(<<b, o>>) /\ End(<<b, o>>) <= Heap
          /\ Heap \in Nat /\ End(<<b, o>>) \in Nat /\ Holds(<<b, o>>, b)
        BY <2>1, <2>2, BlockNumbers
    <2>4. Top \in Nat
        BY WholeFits DEF Top
    <2>5. QED
        BY <2>1, <2>3, <2>4
<1> DEFINE Gone(k) == {<<b, o>>} \cup Merged(b, o, k)
           Grown(k) == <<AroundOf(b, k), k>>
           At(n) == (A \ Gone(o + n)) \cup {Grown(o + n)}
           S == {n \in 0 .. m - o : Covers(At(n))}
<1>1. 0 \in S
    <2>1. Merged(b, o, o) = {}
        BY <1>0 DEF Merged
    <2>2. AroundOf(b, o) = b
        <3>1. PICK i \in Nat : b = i * Pow(o)
            BY <1>0 DEF IsBlock
        <3>2. Holds(<<i * Pow(o), o>>, b)
            BY <1>0, <3>1
        <3>3. QED
            BY <1>0, <3>1, <3>2, AroundOnly
    <2>3. At(0) = A
        BY <1>0, <2>1, <2>2
    <2>4. QED
        BY <1>0, <2>3
<1>2. ASSUME NEW n \in 0 .. m - o - 1, n \in S PROVE n + 1 \in S
    <2> DEFINE k == o + n
               a == AroundOf(b, k)
               d == Buddy!BuddyOf(a, k)
               u == AroundOf(b, k + 1)
               Old == {<<a, k>>, <<d, k>>}
               New == {<<u, k + 1>>}
    <2>1. k \in Nat /\ k + 1 = o + (n + 1) /\ n + 1 \in 0 .. m - o /\ k + 1 <= m /\ k + 1 <= Top
          /\ o <= k /\ Top \in Nat
        BY <1>0
    <2>2. Covers(At(n)) /\ At(n) = (A \ Gone(k)) \cup {<<a, k>>}
        BY <1>2
    <2> HIDE DEF k
    <2>3. IsBlock(<<a, k>>) /\ IsBlock(<<u, k + 1>>) /\ u \in Nat
        BY <1>0, <2>1, AroundIsBlock, AroundHolds
    <2>4. (a = u /\ d = u + Pow(k)) \/ (a = u + Pow(k) /\ d = u)
        BY <1>0, <2>1, BuddiesAre
    <2>5. \A x \in Nat : Holds(<<u, k + 1>>, x) <=> Holds(<<a, k>>, x) \/ Holds(<<d, k>>, x)
        BY <2>1, <2>3, <2>4, Halves
    <2>6. a # d
        BY <2>1, <2>3, <2>4, PowPositive
    <2>7. Holds(<<a, k>>, b)
        BY <1>0, <2>1, AroundHolds
    \* What has been merged so far is one of the blocks, once.
    <2>8. <<a, k>> \notin A \ Gone(k)
        <3> SUFFICES ASSUME <<a, k>> \in A \ Gone(k) PROVE FALSE
            OBVIOUS
        <3>1. <<a, k>> = <<b, o>>
            BY <1>0, <2>7, OnlyOne
        <3>2. QED
            BY <3>1
    <2>9. Merged(b, o, k + 1) = Merged(b, o, k) \cup {<<d, k>>}
        <3>1. o .. (k + 1) - 1 = (o .. k - 1) \cup {k}
            BY <1>0, <2>1
        <3>2. QED
            BY <3>1 DEF Merged
    <2>10. <<d, k>> \in A
        <3>1. <<d, k>> \in Merged(b, o, m)
            <4>1. k \in o .. m - 1
                BY <1>0, <2>1
            <4>2. QED
                BY <4>1 DEF Merged
        <3>2. QED
            BY <3>1
    <2>11. <<d, k>> \notin Gone(k)
        <3>1. <<d, k>> \notin Merged(b, o, k)
            <4>1. \A j \in o .. k - 1 : j # k
                BY <1>0, <2>1
            <4>2. QED
                BY <4>1 DEF Merged
        <3>2. <<d, k>> # <<b, o>>
            <4> SUFFICES ASSUME <<d, k>> = <<b, o>> PROVE FALSE
                OBVIOUS
            <4>1. Holds(<<d, k>>, b)
                BY <1>0
            <4>2. IsBlock(<<d, k>>) /\ Apart(<<a, k>>, <<d, k>>)
                BY <1>0, <2>1, <2>3, <2>4, Halves DEF Apart
            <4>3. QED
                BY <1>0, <2>3, <2>7, <4>1, <4>2, ApartIs
        <3>3. QED
            BY <3>1, <3>2
    <2>12. Old \subseteq At(n)
        BY <2>2, <2>10, <2>11
    <2>13. Covers((At(n) \ Old) \cup New)
        <3>1. \A c \in New : IsBlock(c)
            BY <2>3
        <3>2. \A c, d_ \in New : c # d_ => Apart(c, d_)
            OBVIOUS
        <3>3. \A x \in Nat : (\E c \in Old : Holds(c, x)) <=> (\E c \in New : Holds(c, x))
            BY <2>5
        <3> HIDE DEF At, Old, New
        <3>4. QED
            BY <2>2, <2>12, <3>1, <3>2, <3>3, Exchange
    <2>14. (At(n) \ Old) \cup New = (A \ Gone(k + 1)) \cup {<<u, k + 1>>}
        <3>1. At(n) \ Old = A \ (Gone(k) \cup {<<d, k>>})
            BY <2>2, <2>8
        <3>2. Gone(k + 1) = Gone(k) \cup {<<d, k>>}
            BY <2>9
        <3>3. QED
            BY <3>1, <3>2
    <2>15. At(n + 1) = (A \ Gone(k + 1)) \cup {<<u, k + 1>>}
        BY <2>1
    <2>16. QED
        BY <2>1, <2>13, <2>14, <2>15
<1>3. \A n \in 0 .. m - o : n \in S
    <2>1. m - o \in Nat
        BY <1>0
    <2> HIDE DEF S
    <2>2. QED
        BY <1>1, <1>2, <2>1, UpTo
<1>4. m - o \in 0 .. m - o /\ o + (m - o) = m /\ m \in 0 .. Top
    BY <1>0
<1>5. m - o \in S
    BY <1>3, <1>4
<1>6. Covers(At(m - o)) /\ At(m - o) = (A \ Gone(m)) \cup {Grown(m)}
    BY <1>4, <1>5
<1>7. QED
    BY <1>0, <1>4, <1>6, AroundIsBlock

----------------------------------------------------------------------------
\* Of two blocks that share a byte, the one of the lower order is part of the other.
LEMMA Nested ==
    ASSUME NEW c, NEW d, IsBlock(c), IsBlock(d), c[2] <= d[2],
           NEW x \in Nat, Holds(c, x), Holds(d, x)
    PROVE  d[1] <= c[1] /\ End(c) <= End(d) /\ \A y \in Nat : Holds(c, y) => Holds(d, y)
<1> DEFINE p == Pow(c[2])
<1>1. /\ c[1] \in Nat /\ c[2] \in Nat /\ End(c) \in Nat /\ p \in Nat /\ p > 0
      /\ d[1] \in Nat /\ d[2] \in Nat /\ End(d) \in Nat
    BY BlockNumbers
<1>2. PICK i, j, k \in Nat : c[1] = i * p /\ d[1] = j * Pow(d[2]) /\ Pow(d[2]) = k * p
    BY <1>1, PowDivides DEF IsBlock
<1> DEFINE n == j * k
<1>3. n \in Nat /\ d[1] = n * p /\ End(d) = (n + k) * p /\ End(c) = (i + 1) * p /\ End(c) = c[1] + p
    <2>1. d[1] = (j * k) * p
        BY <1>1, <1>2
    <2>2. (n + k) * p = n * p + k * p /\ (i + 1) * p = i * p + p
        BY <1>1
    <2>3. QED
        BY <1>1, <1>2, <2>1, <2>2 DEF End
<1> HIDE DEF n, p
<1>4. c[1] <= x /\ x < End(c) /\ d[1] <= x /\ x < End(d)
    BY DEF Holds
<1>5. n <= i
    <2>1. i + 1 <= n => (i + 1) * p <= n * p
        BY <1>1, <1>3
    <2>2. QED
        BY <1>1, <1>3, <1>4, <2>1
<1>6. i + 1 <= n + k
    <2>1. n + k <= i => (n + k) * p <= i * p
        BY <1>1, <1>3
    <2>2. QED
        BY <1>1, <1>2, <1>3, <1>4, <2>1
<1>7. n * p <= i * p /\ (i + 1) * p <= (n + k) * p
    BY <1>1, <1>3, <1>5, <1>6
<1>8. d[1] <= c[1] /\ End(c) <= End(d)
    BY <1>2, <1>3, <1>7
<1>9. QED
    BY <1>1, <1>8 DEF Holds

\* No free block has a free buddy.
NoBuddies(F) == \A c \in F : c[2] < Top => <<Buddy!BuddyOf(c[1], c[2]), c[2]>> \notin F

\* A block's worth of bytes that are all free is in a free block: among the free blocks that
\* meet it, one of the lowest order would otherwise have a free buddy.
LEMMA RoomThere ==
    ASSUME NEW F, NEW U, Covers(U \cup F), NoBuddies(F), NEW r, IsBlock(r),
           \A c \in U : Apart(c, r)
    PROVE  \E c \in F : r[2] <= c[2]
<1> SUFFICES ASSUME \A c \in F : ~(r[2] <= c[2]) PROVE FALSE
    OBVIOUS
<1> DEFINE Meets(c) == \E x \in Nat : Holds(c, x) /\ Holds(r, x)
           Orders == {c[2] : c \in {e \in F : Meets(e)}}
<1>1. \A c \in U \cup F : IsBlock(c)
    BY DEF Covers
<1>2. ASSUME NEW x \in Nat, Holds(r, x) PROVE \E c \in F : Holds(c, x)
    <2>1. x \in 0 .. Heap - 1
        BY <1>2, BlockNumbers DEF Holds
    <2>2. PICK c \in U \cup F : Holds(c, x)
        BY <2>1 DEF Covers
    <2>3. c \notin U
        BY <1>1, <1>2, <2>2, ApartIs
    <2>4. QED
        BY <2>2, <2>3
<1>3. Orders \in SUBSET Nat /\ Orders # {}
    <2>1. PICK c \in F : Holds(c, r[1])
        BY <1>2, BlockNumbers
    <2>2. Meets(c)
        BY <2>1, BlockNumbers
    <2>3. \A e \in F : e[2] \in Nat
        BY <1>1, BlockNumbers
    <2>4. QED
        BY <2>2, <2>3
<1>4. PICK c \in F : Meets(c) /\ \A e \in F : Meets(e) => c[2] <= e[2]
    <2>1. PICK o \in Orders : \A n \in Orders : o <= n
        <3> HIDE DEF Orders
        <3>1. QED
            BY <1>3, Least
    <2>2. QED
        BY <2>1
<1>5. /\ IsBlock(c) /\ c[1] \in Nat /\ c[2] \in Nat /\ c = <<c[1], c[2]>> /\ Holds(c, c[1])
      /\ r[2] \in Nat /\ r[2] <= Top /\ Top \in Nat
    BY <1>1, BlockNumbers, WholeFits DEF Top
<1>6. c[2] < r[2] /\ c[2] < Top
    BY <1>5
<1> DEFINE b == Buddy!BuddyOf(c[1], c[2])
           u == <<AroundOf(c[1], c[2] + 1), c[2] + 1>>
<1>7. IsBlock(<<b, c[2]>>) /\ IsBlock(u) /\ Holds(u, b)
    BY <1>5, <1>6, BuddyOfBlock
<1>8. Holds(u, c[1])
    BY <1>5, AroundHolds
<1>9. b \in Nat /\ Holds(<<b, c[2]>>, b)
    <2>1. <<b, c[2]>>[1] = b
        OBVIOUS
    <2>2. QED
        BY <1>7, <2>1, BlockNumbers
<1>10. u[2] = c[2] + 1 /\ u[2] <= r[2]
    BY <1>5, <1>6
<1> HIDE DEF b, u, Meets, Orders
<1>11. Holds(r, c[1])
    <2>1. PICK x \in Nat : Holds(c, x) /\ Holds(r, x)
        BY <1>4 DEF Meets
    <2>2. QED
        BY <1>5, <1>6, <2>1, Nested
<1>12. Holds(r, b)
    BY <1>5, <1>7, <1>8, <1>9, <1>10, <1>11, Nested
<1>13. PICK e \in F : Holds(e, b)
    BY <1>2, <1>9, <1>12
<1>14. /\ IsBlock(e) /\ e[1] \in Nat /\ e[2] \in Nat /\ e = <<e[1], e[2]>> /\ Holds(e, e[1])
       /\ c[2] <= e[2]
    <2>1. Meets(e)
        BY <1>9, <1>12, <1>13 DEF Meets
    <2>2. QED
        BY <1>1, <1>4, <2>1, BlockNumbers
<1>15. CASE e[2] = c[2]
    <2> DEFINE d == <<b, c[2]>>
    <2>0. d[1] = b /\ d[2] = c[2]
        OBVIOUS
    <2>1. e[1] <= b
        BY <1>13 DEF Holds
    <2>2. d[1] <= e[1]
        <3> HIDE DEF d
        <3>1. QED
            BY <1>7, <1>9, <1>13, <1>14, <1>15, <2>0, Nested DEF d
    <2>3. e = <<b, c[2]>>
        BY <1>9, <1>14, <1>15, <2>0, <2>1, <2>2
    <2>4. QED
        BY <1>6, <2>3 DEF NoBuddies, b
<1>16. CASE e[2] # c[2]
    <2>1. u[2] <= e[2]
        BY <1>5, <1>10, <1>14, <1>16
    <2>2. Holds(e, c[1])
        BY <1>5, <1>7, <1>8, <1>9, <1>13, <1>14, <2>1, Nested
    <2>3. e = c
        BY <1>5, <2>2, OnlyOne
    <2>4. QED
        BY <1>16, <2>3
<1>17. QED
    BY <1>15, <1>16

----------------------------------------------------------------------------
(***************************************************************************)
(* The free lists, and the blocks in use, as sets of blocks.               *)
(***************************************************************************)
FreeOf(l) == {c \in Nat \X (0 .. Top) : In(l[c[2]], c[1])}
UsedOf(h) == {<<b, h[b]>> : b \in DOMAIN h}

Lists(l) == l \in [0 .. Top -> Seq(Nat)] /\ \A o \in 0 .. Top : Distinct(l[o])

\* The free blocks of the model are those of the lists.
LEMMA FreeBlocksAre ==
    ASSUME Lists(free_lists)
    PROVE  Buddy!FreeBlocks = FreeOf(free_lists)
<1>1. Buddy!Orders = 0 .. Top
    BY DEF Buddy!Orders, Top
<1>2. \A o \in 0 .. Top : \A i \in DOMAIN free_lists[o] : free_lists[o][i] \in Nat
    BY DEF Lists
<1>3. ASSUME NEW c \in Buddy!FreeBlocks PROVE c \in FreeOf(free_lists)
    <2>1. PICK o \in 0 .. Top : \E i \in DOMAIN free_lists[o] : c = <<free_lists[o][i], o>>
        BY <1>1 DEF Buddy!FreeBlocks
    <2>2. PICK i \in DOMAIN free_lists[o] : c = <<free_lists[o][i], o>>
        BY <2>1
    <2>3. c \in Nat \X (0 .. Top) /\ c[1] = free_lists[o][i] /\ c[2] = o
        BY <1>2, <2>2
    <2>4. In(free_lists[c[2]], c[1])
        BY <2>2, <2>3 DEF In
    <2>5. QED
        BY <2>3, <2>4 DEF FreeOf
<1>4. ASSUME NEW c \in FreeOf(free_lists) PROVE c \in Buddy!FreeBlocks
    <2>1. c \in Nat \X (0 .. Top) /\ In(free_lists[c[2]], c[1])
        BY DEF FreeOf
    <2>2. c = <<c[1], c[2]>> /\ c[2] \in 0 .. Top
        BY <2>1
    <2>3. PICK i \in DOMAIN free_lists[c[2]] : free_lists[c[2]][i] = c[1]
        BY <2>1 DEF In
    <2>4. c \in {<<free_lists[c[2]][k], c[2]>> : k \in DOMAIN free_lists[c[2]]}
        BY <2>2, <2>3
    <2>5. QED
        BY <1>1, <2>2, <2>4 DEF Buddy!FreeBlocks
<1>5. QED
    BY <1>3, <1>4

\* A block is free if it is in the list of its order.
LEMMA FreeIs ==
    ASSUME NEW l, NEW b, NEW o
    PROVE  <<b, o>> \in FreeOf(l) <=> b \in Nat /\ o \in 0 .. Top /\ In(l[o], b)
    BY DEF FreeOf

\* A block is put at the head of a list that does not have it.
LEMMA QueuePushed ==
    ASSUME NEW S, NEW q \in Seq(S), NEW x \in S, Distinct(q), ~In(q, x)
    PROVE  /\ <<x>> \o q \in Seq(S) /\ Distinct(<<x>> \o q)
           /\ \A r : In(<<x>> \o q, r) <=> In(q, r) \/ r = x
<1> DEFINE n == <<x>> \o q
<1>1. n \in Seq(S)
    OBVIOUS
<1>2. /\ Len(q) \in Nat /\ DOMAIN n = 1 .. Len(q) + 1 /\ DOMAIN q = 1 .. Len(q)
      /\ n[1] = x /\ \A i \in DOMAIN q : n[i + 1] = q[i]
    OBVIOUS
<1> HIDE DEF n
<1>3. \A i \in DOMAIN n : i # 1 => i - 1 \in DOMAIN q /\ n[i] = q[i - 1]
    <2> SUFFICES ASSUME NEW i \in DOMAIN n, i # 1 PROVE i - 1 \in DOMAIN q /\ n[i] = q[i - 1]
        OBVIOUS
    <2>1. i - 1 \in DOMAIN q /\ (i - 1) + 1 = i
        BY <1>2
    <2>2. QED
        BY <1>2, <2>1
<1>4. Distinct(n)
    <2> SUFFICES ASSUME NEW i \in DOMAIN n, NEW k \in DOMAIN n, n[i] = n[k] PROVE i = k
        BY DEF Distinct
    <2>1. i = 1 <=> k = 1
        BY <1>2, <1>3 DEF In
    <2>2. i # 1 => i - 1 = k - 1
        BY <1>3, <2>1 DEF Distinct
    <2>3. QED
        BY <1>2, <2>1, <2>2
<1>5. \A r : In(n, r) <=> In(q, r) \/ r = x
    <2>1. ASSUME NEW r, In(n, r) PROVE In(q, r) \/ r = x
        BY <1>2, <1>3, <2>1 DEF In
    <2>2. ASSUME NEW r, In(q, r) \/ r = x PROVE In(n, r)
        <3>1. 1 \in DOMAIN n /\ \A i \in DOMAIN q : i + 1 \in DOMAIN n
            BY <1>2
        <3>2. QED
            BY <1>2, <2>2, <3>1 DEF In
    <2>3. QED
        BY <2>1, <2>2
<1>6. QED
    BY <1>1, <1>4, <1>5 DEF n

\* remove_from_free_list takes the block out of its list.
LEMMA UnlinkedIs ==
    ASSUME NEW q, NEW x, In(q, x)
    PROVE  Buddy!Unlinked(q, x) = Without(q, x)
    BY DEF Buddy!Unlinked, Without, In

----------------------------------------------------------------------------
\* What my_malloc makes of the lists: the head of list a goes, each list from k up to a - 1,
\* empty so far, gets the upper half of a split.
SplitLists(l, a, k) ==
    [o \in 0 .. Top |-> CASE o = a -> Tail(l[o])
                          [] k <= o /\ o < a -> <<Head(l[a]) + Pow(o)>> \o l[o]
                          [] OTHER -> l[o]]

\* The free blocks after the splits.
LEMMA ListsSplit ==
    ASSUME NEW l, Lists(l), NEW a \in 0 .. Top, NEW k \in 0 .. a, l[a] # <<>>,
           \A o \in k .. a - 1 : l[o] = <<>>
    PROVE  /\ Lists(SplitLists(l, a, k)) /\ <<Head(l[a]), a>> \in FreeOf(l)
           /\ FreeOf(SplitLists(l, a, k))
                  = (FreeOf(l) \ {<<Head(l[a]), a>>})
                    \cup {<<Head(l[a]) + Pow(o), o>> : o \in k .. a - 1}
<1> DEFINE b == Head(l[a])
           n == SplitLists(l, a, k)
<1>0. Top \in Nat /\ \A o \in 0 .. Top : l[o] \in Seq(Nat) /\ Distinct(l[o])
    BY WholeFits DEF Top, Lists
<1>1. /\ b \in Nat /\ In(l[a], b) /\ Tail(l[a]) \in Seq(Nat) /\ Distinct(Tail(l[a]))
      /\ \A r : In(Tail(l[a]), r) <=> In(l[a], r) /\ r # b
    BY <1>0, QueueMoves
<1> HIDE DEF b
<1>12. n = [o \in 0 .. Top |-> CASE o = a -> Tail(l[o])
                               [] k <= o /\ o < a -> <<b + Pow(o)>> \o l[o]
                               [] OTHER -> l[o]]
    BY DEF SplitLists, b
<1> HIDE DEF n
<1>2. n[a] = Tail(l[a])
    BY <1>12
<1>3. ASSUME NEW o \in k .. a - 1
      PROVE  /\ o \in 0 .. Top /\ o # a /\ b + Pow(o) \in Nat
             /\ n[o] \in Seq(Nat) /\ Distinct(n[o]) /\ \A r : In(n[o], r) <=> r = b + Pow(o)
    <2>1. o \in 0 .. Top /\ o # a /\ k <= o /\ o < a /\ o \in Nat
        BY <1>0
    <2>2. n[o] = <<b + Pow(o)>> \o l[o] /\ l[o] = <<>>
        BY <1>12, <2>1
    <2>3. b + Pow(o) \in Nat
        <3>1. Pow(o) \in Nat
            BY <2>1, PowPositive
        <3>2. QED
            BY <1>1, <3>1
    <2>4. ~In(l[o], b + Pow(o)) /\ \A r : ~In(l[o], r)
        BY <2>2 DEF In
    <2> DEFINE q == <<b + Pow(o)>> \o l[o]
    <2>5. q \in Seq(Nat) /\ Distinct(q) /\ \A r : In(q, r) <=> In(l[o], r) \/ r = b + Pow(o)
        BY <1>0, <2>1, <2>3, <2>4, QueuePushed
    <2> HIDE DEF q
    <2>6. n[o] = q
        BY <2>2 DEF q
    <2>7. QED
        BY <2>1, <2>3, <2>4, <2>5, <2>6
<1>4. ASSUME NEW o \in 0 .. Top, o # a, o \notin k .. a - 1 PROVE n[o] = l[o]
    <2>1. ~(k <= o /\ o < a)
        BY <1>0, <1>4
    <2>2. QED
        BY <1>12, <1>4, <2>1
<1>5. DOMAIN n = 0 .. Top /\ n = [o \in 0 .. Top |-> n[o]]
    BY <1>12
<1>6. \A o \in 0 .. Top : n[o] \in Seq(Nat) /\ Distinct(n[o])
    BY <1>0, <1>1, <1>2, <1>3, <1>4
<1>7. Lists(n)
    BY <1>5, <1>6 DEF Lists
<1> DEFINE New == {<<b + Pow(o), o>> : o \in k .. a - 1}
           F == (FreeOf(l) \ {<<b, a>>}) \cup New
<1>8. ASSUME NEW r \in Nat, NEW o \in 0 .. Top
      PROVE  <<r, o>> \in FreeOf(n) <=> <<r, o>> \in F
    <2>1. CASE o = a
        <3>1. <<r, o>> \notin New
            BY <1>3, <2>1
        <3>2. QED
            BY <1>1, <1>2, <2>1, <3>1, FreeIs
    <2>2. CASE o \in k .. a - 1
        <3>1. l[o] = <<>> /\ o # a
            BY <1>3, <2>2
        <3>2. <<r, o>> \notin FreeOf(l)
            BY <3>1, FreeIs DEF In
        <3>3. <<r, o>> \in New <=> r = b + Pow(o)
            BY <2>2
        <3>4. QED
            BY <1>3, <2>2, <3>2, <3>3, FreeIs
    <2>3. CASE o # a /\ o \notin k .. a - 1
        <3>1. n[o] = l[o]
            BY <1>4, <2>3
        <3>2. <<r, o>> \notin New /\ <<r, o>> # <<b, a>>
            BY <2>3
        <3>3. QED
            BY <3>1, <3>2, FreeIs
    <2>4. QED
        BY <2>1, <2>2, <2>3
<1>9. FreeOf(n) = F
    <2>1. FreeOf(n) \subseteq Nat \X (0 .. Top) /\ FreeOf(l) \subseteq Nat \X (0 .. Top)
        BY DEF FreeOf
    <2>2. ASSUME NEW c \in New PROVE c \in Nat \X (0 .. Top)
        <3>1. PICK o \in k .. a - 1 : c = <<b + Pow(o), o>>
            OBVIOUS
        <3>2. QED
            BY <1>3, <3>1
    <2>3. F \subseteq Nat \X (0 .. Top)
        BY <2>1, <2>2
    <2> HIDE DEF F
    <2>4. ASSUME NEW c \in Nat \X (0 .. Top) PROVE c \in FreeOf(n) <=> c \in F
        <3>1. PICK r \in Nat, o \in 0 .. Top : c = <<r, o>>
            OBVIOUS
        <3>2. QED
            BY <1>8, <3>1
    <2>5. QED
        BY <2>1, <2>3, <2>4
<1>10. <<b, a>> \in FreeOf(l)
    BY <1>1, FreeIs
<1>11. QED
    BY <1>7, <1>9, <1>10 DEF b, n

\* What my_free makes of them: list m gets block u, the lists from k up to m - 1 lose the
\* buddies of what has been merged.
MergeLists(l, b, k, m) ==
    [o \in 0 .. Top |->
        CASE o = m -> <<AroundOf(b, m)>> \o l[o]
          [] k <= o /\ o < m -> Buddy!Unlinked(l[o], Buddy!BuddyOf(AroundOf(b, o), o))
          [] OTHER -> l[o]]

\* The free blocks after the merges.
LEMMA ListsMerge ==
    ASSUME NEW l, Lists(l), NEW m \in 0 .. Top, NEW k \in 0 .. m, NEW b \in Nat,
           <<AroundOf(b, m), m>> \notin FreeOf(l), Merged(b, k, m) \subseteq FreeOf(l)
    PROVE  /\ Lists(MergeLists(l, b, k, m))
           /\ FreeOf(MergeLists(l, b, k, m))
                  = (FreeOf(l) \ Merged(b, k, m)) \cup {<<AroundOf(b, m), m>>}
<1> DEFINE u == AroundOf(b, m)
           d == [o \in k .. m - 1 |-> Buddy!BuddyOf(AroundOf(b, o), o)]
           n == MergeLists(l, b, k, m)
<1>11. n = [o \in 0 .. Top |-> CASE o = m -> <<u>> \o l[o]
                               [] k <= o /\ o < m ->
                                      Buddy!Unlinked(l[o], Buddy!BuddyOf(AroundOf(b, o), o))
                               [] OTHER -> l[o]]
    BY DEF MergeLists
<1>12. Merged(b, k, m) = {<<d[o], o>> : o \in k .. m - 1}
    BY DEF Merged
<1>13. u \in Nat /\ ~In(l[m], u)
    <2>1. u \in Nat
        BY AroundHolds, WholeFits DEF Top
    <2>2. QED
        BY <2>1, FreeIs
<1>14. \A o \in k .. m - 1 : d[o] = Buddy!BuddyOf(AroundOf(b, o), o) /\ In(l[o], d[o])
    <2> SUFFICES ASSUME NEW o \in k .. m - 1 PROVE In(l[o], d[o])
        OBVIOUS
    <2>1. <<d[o], o>> \in FreeOf(l)
        BY <1>12
    <2>2. QED
        BY <2>1, FreeIs
<1> HIDE DEF n, u, d
<1>0. Top \in Nat /\ \A o \in 0 .. Top : l[o] \in Seq(Nat) /\ Distinct(l[o])
    BY WholeFits DEF Top, Lists
<1>1. n[m] \in Seq(Nat) /\ Distinct(n[m]) /\ \A r : In(n[m], r) <=> In(l[m], r) \/ r = u
    <2>1. n[m] = <<u>> \o l[m]
        BY <1>11
    <2>2. QED
        BY <1>0, <1>13, <2>1, QueuePushed
<1>3. ASSUME NEW o \in k .. m - 1
      PROVE  /\ o \in 0 .. Top /\ o # m
             /\ n[o] \in Seq(Nat) /\ Distinct(n[o])
             /\ \A r : In(n[o], r) <=> In(l[o], r) /\ r # d[o]
    <2>1. o \in 0 .. Top /\ o # m /\ k <= o /\ o < m
        BY <1>0
    <2>2. n[o] = Without(l[o], d[o])
        BY <1>11, <1>14, <2>1, UnlinkedIs
    <2>3. QED
        BY <1>0, <2>1, <2>2, QueueWithout
<1>4. ASSUME NEW o \in 0 .. Top, o # m, o \notin k .. m - 1 PROVE n[o] = l[o]
    <2>1. ~(k <= o /\ o < m)
        BY <1>0, <1>4
    <2>2. QED
        BY <1>11, <1>4, <2>1
<1>5. DOMAIN n = 0 .. Top /\ n = [o \in 0 .. Top |-> n[o]]
    BY <1>11
<1>6. \A o \in 0 .. Top : n[o] \in Seq(Nat) /\ Distinct(n[o])
    BY <1>0, <1>1, <1>3, <1>4
<1>7. Lists(n)
    BY <1>5, <1>6 DEF Lists
<1> DEFINE Old == {<<d[o], o>> : o \in k .. m - 1}
           F == (FreeOf(l) \ Old) \cup {<<u, m>>}
<1>8. ASSUME NEW r \in Nat, NEW o \in 0 .. Top
      PROVE  <<r, o>> \in FreeOf(n) <=> <<r, o>> \in F
    <2>1. CASE o = m
        <3>1. <<r, o>> \notin Old
            BY <1>3, <2>1
        <3>2. QED
            BY <1>1, <2>1, <3>1, FreeIs
    <2>2. CASE o \in k .. m - 1
        <3>1. <<r, o>> \in Old <=> r = d[o]
            BY <2>2
        <3>2. <<r, o>> # <<u, m>>
            BY <1>3, <2>2
        <3>3. QED
            BY <1>3, <2>2, <3>1, <3>2, FreeIs
    <2>3. CASE o # m /\ o \notin k .. m - 1
        <3>1. n[o] = l[o]
            BY <1>4, <2>3
        <3>2. <<r, o>> \notin Old /\ <<r, o>> # <<u, m>>
            BY <2>3
        <3>3. QED
            BY <3>1, <3>2, FreeIs
    <2>4. QED
        BY <2>1, <2>2, <2>3
<1>9. FreeOf(n) = F
    <2>1. FreeOf(n) \subseteq Nat \X (0 .. Top) /\ FreeOf(l) \subseteq Nat \X (0 .. Top)
        BY DEF FreeOf
    <2>2. {<<u, m>>} \subseteq Nat \X (0 .. Top)
        BY <1>13
    <2>3. F \subseteq Nat \X (0 .. Top)
        BY <2>1, <2>2
    <2> HIDE DEF F
    <2>4. ASSUME NEW c \in Nat \X (0 .. Top) PROVE c \in FreeOf(n) <=> c \in F
        <3>1. PICK r \in Nat, o \in 0 .. Top : c = <<r, o>>
            OBVIOUS
        <3>2. QED
            BY <1>8, <3>1
    <2>5. QED
        BY <2>1, <2>3, <2>4
<1>10. QED
    BY <1>7, <1>9, <1>12 DEF n, u

----------------------------------------------------------------------------
(***************************************************************************)
(* What every call keeps: the free blocks and those in use tile the heap,  *)
(* no two free ones are buddies, and each client has what it asked for.    *)
(***************************************************************************)
Tiled(l, h) ==
    /\ Lists(l)
    /\ Covers(UsedOf(h) \cup FreeOf(l))
    /\ UsedOf(h) \cap FreeOf(l) = {}
    /\ NoBuddies(FreeOf(l))

Granted(h, v) ==
    /\ DOMAIN v = {b + HEADER_SIZE : b \in DOMAIN h}
    /\ \A b \in DOMAIN h : /\ v[b + HEADER_SIZE] \in Request
                           /\ v[b + HEADER_SIZE] + HEADER_SIZE <= Pow(h[b])

BuddySound(l, h, v) == Tiled(l, h) /\ Granted(h, v) /\ IsFiniteSet(DOMAIN h)
BuddyInv == ~UsesList => BuddySound(free_lists, headers, live)

\* The blocks in use are one for each address.
LEMMA UsedIs ==
    ASSUME NEW l, NEW h, Tiled(l, h), NEW b \in DOMAIN h
    PROVE  <<b, h[b]>> \in UsedOf(h) /\ IsBlock(<<b, h[b]>>) /\ b \in Nat /\ h[b] \in 0 .. Top
<1>1. <<b, h[b]>> \in UsedOf(h)
    BY DEF UsedOf
<1>2. IsBlock(<<b, h[b]>>)
    BY <1>1 DEF Tiled, Covers
<1>3. QED
    BY <1>1, <1>2 DEF IsBlock

\* What is split off on the way down has the block that is left as its buddy.
LEMMA SplitBuddies ==
    ASSUME NEW A, Covers(A), NEW b, NEW a, <<b, a>> \in A, NEW k \in 0 .. a, NEW o \in k .. a - 1
    PROVE  /\ IsBlock(<<b, o>>) /\ IsBlock(<<b + Pow(o), o>>) /\ o < Top /\ b + Pow(o) # b
           /\ Buddy!BuddyOf(b + Pow(o), o) = b
           /\ Holds(<<b, o>>, b) /\ Holds(<<b + Pow(o), o>>, b + Pow(o))
           /\ Holds(<<b, a>>, b) /\ Holds(<<b, a>>, b + Pow(o))
           /\ b \in Nat /\ b + Pow(o) \in Nat
<1>1. b \in Nat /\ a \in 0 .. Top /\ Top \in Nat /\ IsBlock(<<b, a>>)
    BY WholeFits DEF Covers, IsBlock, Top
<1>2. o \in Nat /\ o + 1 \in 0 .. a /\ o < Top /\ o < a
    BY <1>1
<1>3. IsBlock(<<b, o + 1>>)
    <2>1. Covers((A \ {<<b, a>>}) \cup Split(b, a, o + 1))
        BY <1>2, SplitCovers
    <2>2. <<b, o + 1>> \in Split(b, a, o + 1)
        BY DEF Split
    <2>3. QED
        BY <2>1, <2>2 DEF Covers
<1>4. IsBlock(<<b, o>>) /\ IsBlock(<<b + Pow(o), o>>)
    BY <1>1, <1>2, <1>3, Halves
<1>5. Pow(o) \in Nat /\ Pow(o) > 0 /\ Pow(o + 1) = 2 * Pow(o) /\ Pow(a) \in Nat /\ Pow(o) < Pow(a)
    <2>1. Pow(o) \in Nat /\ Pow(o) > 0 /\ Pow(o + 1) = 2 * Pow(o) /\ Pow(a) \in Nat
        BY <1>1, <1>2, PowPositive, PowIs
    <2>2. Pow(o + 1) <= Pow(a)
        BY <1>1, <1>2, PowMonotone
    <2>3. QED
        BY <2>1, <2>2
<1>6. AroundOf(b, o) = b /\ Buddy!BuddyOf(Buddy!BuddyOf(b, o), o) = b
    BY <1>2, <1>4, BuddyOfBlock
<1>7. AroundOf(b, o + 1) = b
    <2>1. PICK i \in Nat : b = i * Pow(o + 1)
        BY <1>3 DEF IsBlock
    <2>2. Holds(<<i * Pow(o + 1), o + 1>>, b)
        BY <1>1, <1>5, <2>1 DEF Holds, End
    <2>3. o + 1 \in Nat
        BY <1>2
    <2>4. QED
        BY <1>1, <2>1, <2>2, <2>3, AroundOnly
<1>8. Buddy!BuddyOf(b, o) = b + Pow(o)
    <2>1. \/ b = b /\ Buddy!BuddyOf(b, o) = b + Pow(o)
          \/ b = b + Pow(o) /\ Buddy!BuddyOf(b, o) = b
        BY <1>1, <1>2, <1>6, <1>7, BuddiesAre
    <2>2. QED
        BY <1>1, <1>5, <2>1
<1>9. Holds(<<b, o>>, b) /\ Holds(<<b + Pow(o), o>>, b + Pow(o))
      /\ Holds(<<b, a>>, b) /\ Holds(<<b, a>>, b + Pow(o))
    BY <1>1, <1>5 DEF Holds, End
<1>10. QED
    BY <1>1, <1>2, <1>4, <1>5, <1>6, <1>8, <1>9

----------------------------------------------------------------------------
\* my_malloc: the first half of the last split is in use, the others are free.
Taken(h, b, k) == [x \in DOMAIN h \cup {b} |-> IF x = b THEN k ELSE h[x]]

\* The heap stays tiled, with one block more in use.
LEMMA TakeKeepsTiled ==
    ASSUME NEW l, NEW h, Tiled(l, h), NEW a \in 0 .. Top, NEW k \in 0 .. a, l[a] # <<>>,
           \A o \in k .. a - 1 : l[o] = <<>>
    PROVE  /\ Tiled(SplitLists(l, a, k), Taken(h, Head(l[a]), k))
           /\ Head(l[a]) \notin DOMAIN h /\ Head(l[a]) \in Nat
           /\ UsedOf(Taken(h, Head(l[a]), k)) = UsedOf(h) \cup {<<Head(l[a]), k>>}
<1> DEFINE b == Head(l[a])
           n == SplitLists(l, a, k)
           g == Taken(h, b, k)
           New == {<<b + Pow(o), o>> : o \in k .. a - 1}
           A == UsedOf(h) \cup FreeOf(l)
<1>1. /\ Lists(n) /\ <<b, a>> \in FreeOf(l)
      /\ FreeOf(n) = (FreeOf(l) \ {<<b, a>>}) \cup New
    BY ListsSplit DEF Tiled
<1>2. /\ DOMAIN g = DOMAIN h \cup {b} /\ g[b] = k
      /\ \A x \in DOMAIN h : x # b => g[x] = h[x]
    BY DEF Taken
<1> HIDE DEF b, n, g
<1>3. Covers(A) /\ <<b, a>> \in A /\ <<b, a>> \notin UsedOf(h)
    BY <1>1 DEF Tiled
<1>4. b \in Nat /\ Holds(<<b, a>>, b)
    <2>1. IsBlock(<<b, a>>) /\ <<b, a>>[1] = b
        BY <1>3 DEF Covers
    <2>2. QED
        BY <2>1, BlockNumbers
<1>5. ASSUME NEW o \in k .. a - 1
      PROVE  /\ b + Pow(o) # b /\ o < Top
             /\ Buddy!BuddyOf(b + Pow(o), o) = b
             /\ <<b, o>> \notin FreeOf(n) /\ <<b + Pow(o), o>> \notin UsedOf(h)
    <2> HIDE DEF A
    <2>1. /\ o < Top /\ b + Pow(o) # b
          /\ Buddy!BuddyOf(b + Pow(o), o) = b
          /\ Holds(<<b, o>>, b) /\ Holds(<<b + Pow(o), o>>, b + Pow(o))
          /\ Holds(<<b, a>>, b + Pow(o)) /\ b + Pow(o) \in Nat
        BY <1>3, SplitBuddies
    <2>2. <<b, o>> # <<b, a>> /\ <<b + Pow(o), o>> # <<b, a>>
        BY <2>1
    <2>3. <<b, o>> \notin A
        BY <1>3, <1>4, <2>1, <2>2, OnlyOne
    <2>4. <<b + Pow(o), o>> \notin A
        BY <1>3, <2>1, <2>2, OnlyOne
    <2>5. <<b, o>> \notin New
        <3>1. \A j \in k .. a - 1 : <<b + Pow(j), j>> = <<b, o>> => j = o
            OBVIOUS
        <3>2. QED
            BY <2>1, <3>1
    <2>6. QED
        BY <1>1, <2>1, <2>3, <2>4, <2>5 DEF A
<1>6. b \notin DOMAIN h
    <2> SUFFICES ASSUME b \in DOMAIN h PROVE FALSE
        OBVIOUS
    <2>1. <<b, h[b]>> \in UsedOf(h) /\ IsBlock(<<b, h[b]>>) /\ <<b, h[b]>>[1] = b
        BY UsedIs
    <2>2. Holds(<<b, h[b]>>, b)
        BY <2>1, BlockNumbers
    <2>3. <<b, h[b]>> = <<b, a>>
        BY <1>3, <1>4, <2>1, <2>2, OnlyOne
    <2>4. QED
        BY <1>3, <2>1, <2>3
<1>7. UsedOf(g) = UsedOf(h) \cup {<<b, k>>}
    BY <1>2, <1>6 DEF UsedOf
<1>8. Covers(UsedOf(g) \cup FreeOf(n))
    <2>1. UsedOf(g) \cup FreeOf(n) = (A \ {<<b, a>>}) \cup Split(b, a, k)
        BY <1>1, <1>3, <1>7 DEF Split
    <2> HIDE DEF A
    <2>2. QED
        BY <1>3, <2>1, SplitCovers
<1>9. UsedOf(g) \cap FreeOf(n) = {}
    <2>1. <<b, k>> \notin FreeOf(n)
        <3>1. CASE k = a
            <4>1. New = {}
                BY <3>1, WholeFits DEF Top
            <4>2. QED
                BY <1>1, <3>1, <4>1
        <3>2. CASE k # a
            <4>1. k \in k .. a - 1
                BY <3>2, WholeFits DEF Top
            <4>2. QED
                BY <1>5, <4>1
        <3>3. QED
            BY <3>1, <3>2
    <2>2. UsedOf(h) \cap FreeOf(l) = {}
        BY DEF Tiled
    <2>3. UsedOf(h) \cap New = {}
        BY <1>5
    <2>4. QED
        BY <1>1, <1>7, <2>1, <2>2, <2>3
<1>10. NoBuddies(FreeOf(n))
    <2> SUFFICES ASSUME NEW c \in FreeOf(n), c[2] < Top,
                        <<Buddy!BuddyOf(c[1], c[2]), c[2]>> \in FreeOf(n)
                 PROVE  FALSE
        BY DEF NoBuddies
    <2> DEFINE d == Buddy!BuddyOf(c[1], c[2])
    <2>1. IsBlock(c) /\ c = <<c[1], c[2]>>
        <3>1. IsBlock(c)
            BY <1>8 DEF Covers
        <3>2. QED
            BY <3>1, BlockNumbers
    <2>2. Buddy!BuddyOf(d, c[2]) = c[1]
        BY <2>1, BuddyOfBlock
    <2>3. CASE c \in New
        <3>1. PICK o \in k .. a - 1 : c = <<b + Pow(o), o>>
            BY <2>3
        <3>2. d = b /\ c[2] = o
            BY <1>5, <3>1
        <3>3. QED
            BY <1>5, <3>2
    <2>4. CASE <<d, c[2]>> \in New
        <3>1. PICK o \in k .. a - 1 : <<d, c[2]>> = <<b + Pow(o), o>>
            BY <2>4
        <3>2. d = b + Pow(o) /\ c[2] = o
            BY <3>1
        <3>3. c[1] = b
            BY <1>5, <2>2, <3>2
        <3>4. QED
            BY <1>5, <2>1, <3>2, <3>3
    <2>5. CASE c \notin New /\ <<d, c[2]>> \notin New
        BY <1>1, <2>5 DEF Tiled, NoBuddies
    <2>6. QED
        BY <2>3, <2>4, <2>5
<1>11. QED
    BY <1>1, <1>4, <1>6, <1>7, <1>8, <1>9, <1>10 DEF Tiled, b, n, g

----------------------------------------------------------------------------
\* my_free: the block and the buddies that are free make one free block.
Given(h, b) == [x \in DOMAIN h \ {b} |-> h[x]]

\* The heap stays tiled, with one block less in use.
LEMMA GiveKeepsTiled ==
    ASSUME NEW l, NEW h, Tiled(l, h), NEW b \in DOMAIN h, NEW m \in h[b] .. Top,
           Merged(b, h[b], m) \subseteq FreeOf(l),
           m < Top => <<Buddy!BuddyOf(AroundOf(b, m), m), m>> \notin FreeOf(l)
    PROVE  /\ Tiled(MergeLists(l, b, h[b], m), Given(h, b))
           /\ UsedOf(Given(h, b)) = UsedOf(h) \ {<<b, h[b]>>}
<1> DEFINE o == h[b]
           n == MergeLists(l, b, o, m)
           g == Given(h, b)
           A == UsedOf(h) \cup FreeOf(l)
           u == AroundOf(b, m)
           Old == Merged(b, o, m)
<1>1. /\ <<b, o>> \in UsedOf(h) /\ IsBlock(<<b, o>>) /\ b \in Nat /\ o \in 0 .. Top
      /\ Top \in Nat /\ m \in 0 .. Top /\ o \in 0 .. m
    <2>1. <<b, o>> \in UsedOf(h) /\ IsBlock(<<b, o>>) /\ b \in Nat /\ o \in 0 .. Top
        BY UsedIs
    <2>2. QED
        BY <2>1, WholeFits DEF Top
<1>2. Covers(A) /\ UsedOf(h) \cap FreeOf(l) = {} /\ Lists(l) /\ NoBuddies(FreeOf(l))
    BY DEF Tiled
<1>3. \A x \in DOMAIN h \ {b} : g[x] = h[x]
    BY DEF Given
<1>4. DOMAIN g = DOMAIN h \ {b}
    BY DEF Given
<1>5. Old \subseteq FreeOf(l) /\ (m < Top => <<Buddy!BuddyOf(u, m), m>> \notin FreeOf(l))
    OBVIOUS
<1>6. m \in o .. Top /\ <<b, o>> \in A
    BY <1>1
<1>7. UsedOf(g) = UsedOf(h) \ {<<b, o>>}
    BY <1>3, <1>4 DEF UsedOf
<1> HIDE DEF g, Old, o
<1>8. /\ IsBlock(<<u, m>>)
      /\ Covers((A \ ({<<b, o>>} \cup Old)) \cup {<<u, m>>})
    <2> HIDE DEF A
    <2>1. Merged(b, o, m) \subseteq A
        BY <1>5 DEF A, Old
    <2>2. QED
        BY <1>2, <1>6, <2>1, MergeCovers DEF Old
<1>9. Holds(<<u, m>>, b) /\ Holds(<<b, o>>, b) /\ u \in Nat
    <2>1. Holds(<<u, m>>, b) /\ u \in Nat
        BY <1>1, AroundHolds
    <2>2. <<b, o>>[1] = b
        OBVIOUS
    <2>3. QED
        BY <1>1, <2>1, <2>2, BlockNumbers
<1> HIDE DEF u
<1>10. <<u, m>> \in A => <<u, m>> = <<b, o>>
    <2> HIDE DEF A
    <2>1. QED
        BY <1>1, <1>2, <1>6, <1>9, OnlyOne
<1>11. <<u, m>> \notin FreeOf(l) /\ <<u, m>> \notin UsedOf(g)
    BY <1>1, <1>2, <1>7, <1>10
<1>12. Lists(n) /\ FreeOf(n) = (FreeOf(l) \ Old) \cup {<<u, m>>}
    BY <1>1, <1>2, <1>5, <1>11, ListsMerge DEF u, Old
<1> HIDE DEF n
<1>13. Covers(UsedOf(g) \cup FreeOf(n))
    <2>1. UsedOf(g) \cup FreeOf(n) = (A \ ({<<b, o>>} \cup Old)) \cup {<<u, m>>}
        BY <1>1, <1>2, <1>5, <1>7, <1>12
    <2>2. QED
        BY <1>8, <2>1
<1>14. UsedOf(g) \cap FreeOf(n) = {}
    BY <1>2, <1>7, <1>11, <1>12
<1>15. NoBuddies(FreeOf(n))
    <2> SUFFICES ASSUME NEW c \in FreeOf(n), c[2] < Top,
                        <<Buddy!BuddyOf(c[1], c[2]), c[2]>> \in FreeOf(n)
                 PROVE  FALSE
        BY DEF NoBuddies
    <2> DEFINE d == Buddy!BuddyOf(c[1], c[2])
    <2>1. IsBlock(c) /\ c = <<c[1], c[2]>>
        <3>1. IsBlock(c)
            BY <1>13 DEF Covers
        <3>2. QED
            BY <3>1, BlockNumbers
    <2>2. Buddy!BuddyOf(d, c[2]) = c[1] /\ d # c[1]
        BY <2>1, BuddyOfBlock
    <2> HIDE DEF d
    <2>3. CASE c = <<u, m>>
        <3>1. c[1] = u /\ c[2] = m
            BY <2>3
        <3>2. <<d, m>> \in FreeOf(n) /\ d # u
            BY <2>2, <3>1 DEF d
        <3>3. <<d, m>> \in FreeOf(l)
            BY <1>12, <3>2
        <3>4. QED
            BY <1>5, <3>1, <3>3 DEF d
    <2>4. CASE <<d, c[2]>> = <<u, m>>
        <3>1. d = u /\ c[2] = m
            BY <2>4
        <3>2. c = <<Buddy!BuddyOf(u, m), m>> /\ c[1] # u
            BY <2>1, <2>2, <3>1
        <3>3. c \in FreeOf(l)
            BY <1>12, <3>2
        <3>4. QED
            BY <1>5, <3>1, <3>2, <3>3
    <2>5. CASE c # <<u, m>> /\ <<d, c[2]>> # <<u, m>>
        BY <1>2, <1>12, <2>5 DEF NoBuddies, d
    <2>6. QED
        BY <2>3, <2>4, <2>5
<1>16. QED
    BY <1>7, <1>12, <1>13, <1>14, <1>15 DEF Tiled, n, g, o

----------------------------------------------------------------------------
\* The order of the block for a request: it has room for the header and what is asked for.
LEMMA OrderHolds ==
    ASSUME NEW r \in Request
    PROVE  /\ r \in Nat /\ Buddy!OrderFor(r) \in Nat /\ r + HEADER_SIZE <= Pow(Buddy!OrderFor(r))
<1> DEFINE n == r + HEADER_SIZE
           L == Buddy!Log2Ceil(n)
<1>1. r \in Nat /\ HEADER_SIZE \in Nat /\ n \in Nat /\ n < WORD /\ WORD \in Nat /\ MIN_ORDER \in Nat
    BY SizeAssumption, RequestAssumption
<1> HIDE DEF n
<1>2. n % WORD = n
    BY <1>1
<1>3. L \in Nat /\ n <= Pow(L) /\ Pow(L) \in Nat
    <2>1. L \in Nat /\ n <= Pow(L)
        BY <1>1, Log2CeilIs
    <2>2. QED
        BY <2>1, PowPositive
<1>4. Buddy!OrderFor(r) = IF L < MIN_ORDER THEN MIN_ORDER ELSE L
    BY <1>2 DEF Buddy!OrderFor, n
<1> HIDE DEF L
<1>5. L < MIN_ORDER => Pow(L) <= Pow(MIN_ORDER) /\ Pow(MIN_ORDER) \in Nat
    BY <1>1, <1>3, PowMonotone, PowPositive
<1>6. n <= Pow(Buddy!OrderFor(r)) /\ Buddy!OrderFor(r) \in Nat
    BY <1>1, <1>3, <1>4, <1>5
<1>7. QED
    BY <1>1, <1>6 DEF n

\* The order at which my_free stops merging.
LEMMA MergeStops ==
    ASSUME NEW b, NEW o \in 0 .. Top
    PROVE  LET m == Buddy!MergedOrder(b, o)
           IN  /\ m \in o .. Top /\ (m = Top \/ ~Buddy!BuddyIsFree(b, m))
               /\ \A k \in o .. m - 1 : Buddy!BuddyIsFree(b, k)
<1> DEFINE S == {k \in o .. Top : k = Top \/ ~Buddy!BuddyIsFree(b, k)}
<1>1. Top \in Nat /\ S \in SUBSET Nat /\ Top \in S
    BY WholeFits DEF Top
<1>2. PICK m \in S : \A k \in S : m <= k
    <2>1. S # {}
        BY <1>1
    <2> HIDE DEF S
    <2>2. QED
        BY <1>1, <2>1, Least
<1>3. \A k \in o .. m - 1 : Buddy!BuddyIsFree(b, k)
    <2> SUFFICES ASSUME NEW k \in o .. m - 1 PROVE Buddy!BuddyIsFree(b, k)
        OBVIOUS
    <2>1. k \in o .. Top /\ k # Top /\ ~(m <= k)
        BY <1>1
    <2>2. QED
        BY <1>2, <2>1
<1>4. \E k \in o .. Top : /\ (k = Top \/ ~Buddy!BuddyIsFree(b, k))
                          /\ \A j \in o .. k - 1 : Buddy!BuddyIsFree(b, j)
    BY <1>3
<1>5. QED
    BY <1>4 DEF Buddy!MergedOrder, Top

----------------------------------------------------------------------------
\* The heap is one free block.
LEMMA InitTiled == Init => BuddyInv
<1> SUFFICES ASSUME Init, ~UsesList PROVE BuddySound(free_lists, headers, live)
    BY DEF BuddyInv, BuddySound
<1>1. /\ free_lists = [o \in 0 .. Top |-> IF o = Top THEN <<0>> ELSE <<>>]
      /\ headers = <<>> /\ live = <<>>
    BY DEF Init, UsesList, Buddy!Init, Buddy!Orders, Top
<1>2. Top \in Nat /\ Heap \in Nat /\ Heap > 0 /\ Top \in 0 .. Top
    BY WholeFits, PowPositive DEF Top, Heap
<1>3. Lists(free_lists)
    <2>1. \A o \in 0 .. Top : free_lists[o] \in Seq(Nat) /\ Distinct(free_lists[o])
        BY <1>1 DEF Distinct
    <2>2. QED
        BY <1>1, <2>1 DEF Lists
<1>4. UsedOf(headers) = {} /\ DOMAIN headers = {} /\ DOMAIN live = {}
    BY <1>1 DEF UsedOf
<1>5. FreeOf(free_lists) = {<<0, Top>>}
    <2>1. ASSUME NEW b \in Nat, NEW o \in 0 .. Top
          PROVE  In(free_lists[o], b) <=> b = 0 /\ o = Top
        BY <1>1 DEF In
    <2>2. QED
        BY <1>2, <2>1 DEF FreeOf
<1>6. Covers({<<0, Top>>})
    <2>1. IsBlock(<<0, Top>>)
        <3>1. 0 = 0 * Pow(Top) /\ 0 + Pow(Top) <= Heap
            BY <1>2 DEF Heap
        <3>2. QED
            BY <1>2, <3>1 DEF IsBlock, End
    <2>2. \A x \in 0 .. Heap - 1 : Holds(<<0, Top>>, x)
        BY <1>2 DEF Holds, End, Heap
    <2>3. QED
        BY <2>1, <2>2 DEF Covers
<1>7. NoBuddies({<<0, Top>>})
    BY <1>2 DEF NoBuddies
<1>8. Tiled(free_lists, headers)
    BY <1>3, <1>4, <1>5, <1>6, <1>7 DEF Tiled
<1>9. Granted(headers, live) /\ IsFiniteSet(DOMAIN headers)
    BY <1>4, FS_EmptySet DEF Granted
<1>10. QED
    BY <1>8, <1>9 DEF BuddySound

\* What my_malloc changes.
LEMMA MallocKeepsTiled ==
    ASSUME BuddySound(free_lists, headers, live), NEW r \in Request, Buddy!Malloc(r)
    PROVE  \E b \in Nat :
              /\ BuddySound(free_lists', headers', live')
              /\ b \notin DOMAIN headers /\ headers' = Taken(headers, b, Buddy!OrderFor(r))
              /\ UsedOf(headers') = UsedOf(headers) \cup {<<b, Buddy!OrderFor(r)>>}
              /\ live' = [p \in DOMAIN live \cup {b + HEADER_SIZE} |->
                              IF p = b + HEADER_SIZE THEN r ELSE live[p]]
              /\ used_mem' = used_mem + Pow(Buddy!OrderFor(r))
<1> DEFINE k == Buddy!OrderFor(r)
<1>1. PICK a \in Buddy!AllocOrder(k) :
          /\ free_lists' = Buddy!AfterSplits(a, k, Head(free_lists[a]))
          /\ headers' = Taken(headers, Head(free_lists[a]), k)
          /\ used_mem' = used_mem + Pow(k)
          /\ live' = [p \in DOMAIN live \cup {Head(free_lists[a]) + HEADER_SIZE} |->
                          IF p = Head(free_lists[a]) + HEADER_SIZE THEN r ELSE live[p]]
    BY DEF Buddy!Malloc, Taken, Pow
<1>2. k \in Nat /\ r + HEADER_SIZE <= Pow(k) /\ r \in Nat
    BY OrderHolds
<1> HIDE DEF k
<1>3. /\ a \in 0 .. Top /\ k \in 0 .. a /\ free_lists[a] # <<>>
      /\ \A o \in k .. a - 1 : free_lists[o] = <<>>
    BY <1>1, <1>2, WholeFits DEF Buddy!AllocOrder, Top
<1>4. free_lists' = SplitLists(free_lists, a, k)
    BY <1>1 DEF Buddy!AfterSplits, SplitLists, Buddy!Orders, Top, Pow
<1>5. PICK b : b = Head(free_lists[a])
    OBVIOUS
<1>6. /\ Tiled(free_lists', headers') /\ b \notin DOMAIN headers /\ b \in Nat
      /\ UsedOf(headers') = UsedOf(headers) \cup {<<b, k>>}
    BY <1>1, <1>3, <1>4, <1>5, TakeKeepsTiled DEF BuddySound
<1>7. /\ headers' = Taken(headers, b, k)
      /\ live' = [p \in DOMAIN live \cup {b + HEADER_SIZE} |->
                      IF p = b + HEADER_SIZE THEN r ELSE live[p]]
    BY <1>1, <1>5
<1>8. Granted(headers', live')
    <2>0. HEADER_SIZE \in Nat
        BY SizeAssumption
    <2>8. \A x \in DOMAIN headers : x \in Nat
        BY UsedIs DEF BuddySound
    <2>1. /\ DOMAIN headers' = DOMAIN headers \cup {b} /\ headers'[b] = k
          /\ \A x \in DOMAIN headers : headers'[x] = headers[x]
        BY <1>6, <1>7 DEF Taken
    <2>2. /\ DOMAIN live = {x + HEADER_SIZE : x \in DOMAIN headers}
          /\ \A x \in DOMAIN headers : /\ live[x + HEADER_SIZE] \in Request
                                       /\ live[x + HEADER_SIZE] + HEADER_SIZE <= Pow(headers[x])
        BY DEF BuddySound, Granted
    <2>3. DOMAIN live' = {x + HEADER_SIZE : x \in DOMAIN headers'}
        BY <1>7, <2>1, <2>2
    <2>4. live'[b + HEADER_SIZE] = r
        BY <1>7
    <2>5. ASSUME NEW x \in DOMAIN headers PROVE live'[x + HEADER_SIZE] = live[x + HEADER_SIZE]
        <3>1. x + HEADER_SIZE # b + HEADER_SIZE
            <4>1. x \in Nat /\ b \in Nat /\ x # b
                BY <1>6, <2>8
            <4>2. QED
                BY <2>0, <4>1
        <3>2. x + HEADER_SIZE \in DOMAIN live
            BY <2>2
        <3>3. QED
            BY <1>7, <3>1, <3>2
    <2>6. ASSUME NEW x \in DOMAIN headers'
          PROVE  /\ live'[x + HEADER_SIZE] \in Request
                 /\ live'[x + HEADER_SIZE] + HEADER_SIZE <= Pow(headers'[x])
        <3>1. CASE x = b
            BY <1>2, <2>1, <2>4, <3>1
        <3>2. CASE x # b
            BY <2>1, <2>2, <2>5, <3>2
        <3>3. QED
            BY <3>1, <3>2
    <2>7. QED
        BY <2>3, <2>6 DEF Granted
<1>9. IsFiniteSet(DOMAIN headers')
    <2>1. DOMAIN headers' = DOMAIN headers \cup {b}
        BY <1>7 DEF Taken
    <2>2. QED
        BY <2>1, FS_AddElement DEF BuddySound
<1>10. BuddySound(free_lists', headers', live')
    BY <1>6, <1>8, <1>9 DEF BuddySound
<1>11. QED
    BY <1>1, <1>6, <1>7, <1>10 DEF k

\* What my_free changes.
LEMMA FreeKeepsTiled ==
    ASSUME BuddySound(free_lists, headers, live), NEW p \in DOMAIN live, Buddy!Free(p)
    PROVE  \E b \in DOMAIN headers :
              /\ BuddySound(free_lists', headers', live')
              /\ p = b + HEADER_SIZE /\ headers' = Given(headers, b)
              /\ UsedOf(headers') = UsedOf(headers) \ {<<b, headers[b]>>}
              /\ live' = [q \in DOMAIN live \ {p} |-> live[q]]
              /\ used_mem' = used_mem - Pow(headers[b])
<1>0. HEADER_SIZE \in Nat /\ \A x \in DOMAIN headers : x \in Nat /\ headers[x] \in 0 .. Top
    <2>1. HEADER_SIZE \in Nat
        BY SizeAssumption
    <2>2. \A x \in DOMAIN headers : x \in Nat /\ headers[x] \in 0 .. Top
        BY UsedIs DEF BuddySound
    <2>3. QED
        BY <2>1, <2>2
<1>1. PICK b : b = p - HEADER_SIZE
    OBVIOUS
<1>2. /\ b \in DOMAIN headers
      /\ free_lists' = Buddy!AfterMerges(b, headers[b])
      /\ headers' = Given(headers, b)
      /\ used_mem' = used_mem - Pow(headers[b])
      /\ live' = [q \in DOMAIN live \ {p} |-> live[q]]
    BY <1>1 DEF Buddy!Free, Given, Pow
<1>3. p = b + HEADER_SIZE
    <2>1. PICK x \in DOMAIN headers : p = x + HEADER_SIZE
        BY DEF BuddySound, Granted
    <2>2. QED
        BY <1>0, <1>1, <2>1
<1>4. PICK m : m = Buddy!MergedOrder(b, headers[b])
    OBVIOUS
<1>5. /\ m \in headers[b] .. Top /\ (m = Top \/ ~Buddy!BuddyIsFree(b, m))
      /\ \A o \in headers[b] .. m - 1 : Buddy!BuddyIsFree(b, o)
    BY <1>0, <1>2, <1>4, MergeStops
<1>6. free_lists' = MergeLists(free_lists, b, headers[b], m)
    BY <1>2, <1>4 DEF Buddy!AfterMerges, MergeLists, Buddy!Orders, Top, AroundOf
<1>7. \A o : Buddy!BuddyIsFree(b, o) <=> In(free_lists[o], Buddy!BuddyOf(AroundOf(b, o), o))
    BY DEF Buddy!BuddyIsFree, In, AroundOf
<1>8. Top \in Nat /\ Lists(free_lists) /\ Tiled(free_lists, headers)
    BY WholeFits DEF Top, BuddySound, Tiled
<1>9. Merged(b, headers[b], m) \subseteq FreeOf(free_lists)
    <2> SUFFICES ASSUME NEW o \in headers[b] .. m - 1
                 PROVE  <<Buddy!BuddyOf(AroundOf(b, o), o), o>> \in FreeOf(free_lists)
        BY DEF Merged
    <2>1. o \in 0 .. Top
        BY <1>0, <1>2, <1>5, <1>8
    <2>2. In(free_lists[o], Buddy!BuddyOf(AroundOf(b, o), o))
        BY <1>5, <1>7
    <2>3. Buddy!BuddyOf(AroundOf(b, o), o) \in Nat
        <3>1. free_lists[o] \in Seq(Nat)
            BY <1>8, <2>1 DEF Lists
        <3>2. QED
            BY <2>2, <3>1 DEF In
    <2>4. QED
        BY <2>1, <2>2, <2>3, FreeIs
<1>10. m < Top => <<Buddy!BuddyOf(AroundOf(b, m), m), m>> \notin FreeOf(free_lists)
    BY <1>5, <1>7, <1>8, FreeIs
<1>11. /\ Tiled(free_lists', headers')
       /\ UsedOf(headers') = UsedOf(headers) \ {<<b, headers[b]>>}
    BY <1>2, <1>5, <1>6, <1>8, <1>9, <1>10, GiveKeepsTiled
<1>12. Granted(headers', live')
    <2>1. /\ DOMAIN headers' = DOMAIN headers \ {b}
          /\ \A x \in DOMAIN headers \ {b} : headers'[x] = headers[x]
        BY <1>2 DEF Given
    <2>2. /\ DOMAIN live = {x + HEADER_SIZE : x \in DOMAIN headers}
          /\ \A x \in DOMAIN headers : /\ live[x + HEADER_SIZE] \in Request
                                       /\ live[x + HEADER_SIZE] + HEADER_SIZE <= Pow(headers[x])
        BY DEF BuddySound, Granted
    <2>3. \A x \in DOMAIN headers \ {b} : x + HEADER_SIZE # p
        BY <1>0, <1>2, <1>3
    <2>4. DOMAIN live' = {x + HEADER_SIZE : x \in DOMAIN headers'}
        <3>1. DOMAIN live' = DOMAIN live \ {p}
            BY <1>2
        <3>2. QED
            BY <1>2, <1>3, <2>1, <2>2, <2>3, <3>1
    <2>5. \A x \in DOMAIN headers \ {b} : live'[x + HEADER_SIZE] = live[x + HEADER_SIZE]
        BY <1>2, <2>2, <2>3
    <2>6. QED
        BY <2>1, <2>2, <2>4, <2>5 DEF Granted
<1>13. IsFiniteSet(DOMAIN headers')
    <2>1. DOMAIN headers' \subseteq DOMAIN headers
        BY <1>2 DEF Given
    <2>2. QED
        BY <2>1, FS_Subset DEF BuddySound
<1>14. BuddySound(free_lists', headers', live')
    BY <1>11, <1>12, <1>13 DEF BuddySound
<1>15. QED
    BY <1>2, <1>3, <1>11, <1>14

\* Every step keeps the invariant of the USE_BUDDY build.
LEMMA NextTiled == BuddyInv /\ [Next]_vars => BuddyInv'
<1> SUFFICES ASSUME BuddyInv, [Next]_vars, ~UsesList' PROVE BuddySound(free_lists', headers', live')
    BY DEF BuddyInv, BuddySound
<1>1. ~UsesList /\ BuddySound(free_lists, headers, live)
    BY DEF BuddyInv, BuddySound, UsesList, Next, vars, heap, ListMalloc, ListMallocReturnsNull,
           ListFree, BuddyMalloc, BuddyMallocReturnsNull, BuddyFree,
           FreeBegins, Disturb, NotFollowed
<1>2. CASE UNCHANGED <<free_lists, headers, live>>
    BY <1>1, <1>2
<1>3. ASSUME NEW r \in Request, BuddyMalloc(r)
      PROVE  BuddySound(free_lists', headers', live')
    BY <1>1, <1>3, MallocKeepsTiled DEF BuddyMalloc
<1>4. ASSUME NEW p \in DOMAIN live, BuddyFree(p)
      PROVE  BuddySound(free_lists', headers', live')
    BY <1>1, <1>4, FreeKeepsTiled DEF BuddyFree
<1>5. QED
    BY <1>1, <1>2, <1>3, <1>4
    DEF Next, vars, heap, ListMalloc, ListMallocReturnsNull, ListFree,
        BuddyMallocReturnsNull, Buddy!MallocReturnsNull, Buddy!buddyVars,
        FreeBegins, Disturb, NotFollowed

\* With USE_BUDDY free blocks and those in use tile the heap, no free block has a free
\* buddy, and each client has a block with room for what it asked for.
THEOREM BuddyInvariance == Spec => []BuddyInv
    BY InitTiled, NextTiled, PTL DEF Spec

----------------------------------------------------------------------------
\* The bytes of a block.
LEMMA BytesAre ==
    ASSUME NEW c, IsBlock(c)
    PROVE  \A x : x \in Buddy!Bytes(c) <=> x \in Nat /\ Holds(c, x)
<1>1. c[1] \in Nat /\ Pow(c[2]) \in Nat /\ End(c) \in Nat
    BY BlockNumbers
<1>2. Buddy!Bytes(c) = c[1] .. End(c) - 1
    <2>1. End(c) = c[1] + Buddy!Pow2[c[2]]
        BY DEF End, Pow
    <2>2. Buddy!Bytes(c) = c[1] .. c[1] + Buddy!Pow2[c[2]] - 1
        BY DEF Buddy!Bytes
    <2>3. QED
        BY <1>1, <2>1, <2>2 DEF Pow
<1>3. QED
    BY <1>1, <1>2 DEF Holds

\* The blocks of the USE_BUDDY build tile the heap.
LEMMA BuddyTiles == BuddySound(free_lists, headers, live) => Buddy!BlocksTileHeap
<1> SUFFICES ASSUME BuddySound(free_lists, headers, live) PROVE Buddy!BlocksTileHeap
    OBVIOUS
<1> DEFINE A == UsedOf(headers) \cup FreeOf(free_lists)
<1>1. Lists(free_lists) /\ Covers(A) /\ UsedOf(headers) \cap FreeOf(free_lists) = {}
    BY DEF BuddySound, Tiled
<1>2. /\ Buddy!UsedBlocks = UsedOf(headers) /\ Buddy!FreeBlocks = FreeOf(free_lists)
      /\ Buddy!Orders = 0 .. Top /\ Buddy!Pow2[Buddy!max_order] = Heap
    BY <1>1, FreeBlocksAre DEF Buddy!UsedBlocks, UsedOf, Buddy!Orders, Top, Heap, Pow
<1>3. Heap \in Nat
    BY WholeFits DEF Heap, Top
<1> HIDE DEF A
<1>4. \A c \in A : IsBlock(c)
    BY <1>1 DEF Covers
<1>5. UNION {Buddy!Bytes(c) : c \in A} = 0 .. Heap - 1
    <2>1. ASSUME NEW c \in A, NEW x \in Buddy!Bytes(c) PROVE x \in 0 .. Heap - 1
        <3>1. x \in Nat /\ Holds(c, x)
            BY <1>4, BytesAre
        <3>2. End(c) \in Nat /\ End(c) <= Heap
            BY <1>4, BlockNumbers
        <3>3. QED
            BY <1>3, <3>1, <3>2 DEF Holds
    <2>2. ASSUME NEW x \in 0 .. Heap - 1 PROVE \E c \in A : x \in Buddy!Bytes(c)
        <3>1. PICK c \in A : Holds(c, x)
            BY <1>1 DEF Covers
        <3>2. x \in Nat
            BY <1>3
        <3>3. QED
            BY <1>4, <3>1, <3>2, BytesAre
    <2>3. QED
        BY <2>1, <2>2
<1>6. \A c, d \in A : c # d => Buddy!Bytes(c) \cap Buddy!Bytes(d) = {}
    <2> SUFFICES ASSUME NEW c \in A, NEW d \in A, NEW x, x \in Buddy!Bytes(c), x \in Buddy!Bytes(d)
                 PROVE  c = d
        OBVIOUS
    <2>1. x \in Nat /\ Holds(c, x) /\ Holds(d, x)
        BY <1>4, BytesAre
    <2>2. QED
        BY <1>1, <2>1, OnlyOne
<1>7. \A o \in 0 .. Top : Buddy!IsInjective(free_lists[o])
    BY <1>1 DEF Lists, Distinct, Buddy!IsInjective
<1>8. QED
    BY <1>1, <1>2, <1>5, <1>6, <1>7 DEF Buddy!BlocksTileHeap, A

\* After any sequence of calls the blocks of either heap cover it exactly once: neither the
\* splits of my_malloc nor the merges of my_free lose a byte or hand it out twice, as long
\* as no call comes in the middle of a my_free and each pointer is freed once.
THEOREM HeapAlwaysTiled == Spec => []BlocksTileHeap
<1>1. HeapInv /\ BuddyInv => BlocksTileHeap
    <2>1. HeapInv => (UsesList => List!BlocksTileHeap)
        BY DEF HeapInv, Sound, Tiles, List!BlocksTileHeap
    <2>2. QED
        BY <2>1, BuddyTiles DEF BuddyInv, BuddySound, BlocksTileHeap
<1>2. QED
    BY <1>1, HeapInvariance, BuddyInvariance, PTL

----------------------------------------------------------------------------
\* If a list from order k on has a block, my_malloc finds the first one that does.
LEMMA AllocOrderThere ==
    ASSUME NEW k \in Nat, NEW o \in k .. Top, free_lists[o] # <<>>
    PROVE  Buddy!AllocOrder(k) # {}
<1> DEFINE S == {a \in k .. Top : free_lists[a] # <<>>}
<1>1. Top \in Nat /\ S \in SUBSET Nat /\ o \in S
    BY WholeFits DEF Top
<1>2. PICK a \in S : \A b \in S : a <= b
    <2>1. S # {}
        BY <1>1
    <2> HIDE DEF S
    <2>2. QED
        BY <1>1, <2>1, Least
<1>3. \A b \in k .. a - 1 : free_lists[b] = <<>>
    <2> SUFFICES ASSUME NEW b \in k .. a - 1 PROVE free_lists[b] = <<>>
        OBVIOUS
    <2>1. b \in k .. Top /\ ~(a <= b)
        BY <1>1
    <2>2. QED
        BY <1>2, <2>1
<1>4. a \in Buddy!AllocOrder(k)
    BY <1>2, <1>3 DEF Buddy!AllocOrder, Top
<1>5. QED
    BY <1>4

\* A request fails only if there is no room for it.
LEMMA BuddyHasRoom == BuddySound(free_lists, headers, live) => Buddy!RoomIsFound
<1> SUFFICES ASSUME BuddySound(free_lists, headers, live),
                    NEW r \in Request \ {0}, Buddy!OrderFor(r) <= Top,
                    NEW i \in 0 .. Heap \div Pow(Buddy!OrderFor(r)) - 1,
                    \A b \in Buddy!UsedBlocks :
                        Buddy!Bytes(b) \cap Buddy!Bytes(<<i * Pow(Buddy!OrderFor(r)),
                                                          Buddy!OrderFor(r)>>) = {}
             PROVE  Buddy!AllocOrder(Buddy!OrderFor(r)) # {}
    BY DEF Buddy!RoomIsFound, Top, Heap, Pow
<1> DEFINE k == Buddy!OrderFor(r)
           from == i * Pow(k)
           U == UsedOf(headers)
           F == FreeOf(free_lists)
           s == <<from, k>>
<1>1. k \in Nat /\ k <= Top /\ Top \in Nat /\ Heap \in Nat
    BY OrderHolds, WholeFits DEF Top, Heap
<1>2. Pow(k) \in Nat /\ Pow(k) > 0
    BY <1>1, PowPositive
<1>3. \A b \in U : Buddy!Bytes(b) \cap Buddy!Bytes(s) = {}
    BY DEF Buddy!UsedBlocks, UsedOf
<1>4. i \in 0 .. Heap \div Pow(k) - 1
    OBVIOUS
<1>5. Covers(U \cup F) /\ NoBuddies(F)
    BY DEF BuddySound, Tiled
<1>6. IsBlock(s)
    <2> DEFINE p == Pow(k)
               q == Heap \div p
    <2>1. q \in Nat /\ q * p <= Heap /\ i \in Nat /\ i + 1 <= q
        BY <1>1, <1>2, <1>4
    <2> HIDE DEF q, p
    <2>2. (i + 1) * p <= q * p /\ (i + 1) * p = i * p + p /\ p \in Nat
        BY <1>2, <2>1 DEF p
    <2>3. i * p \in Nat /\ i * p + p <= Heap
        BY <1>1, <2>1, <2>2
    <2>4. from \in Nat /\ End(s) <= Heap /\ k \in 0 .. Top
        BY <1>1, <2>3 DEF End, p
    <2>5. s \in Nat \X (0 .. Top) /\ s[1] = i * Pow(s[2])
        BY <2>4
    <2> HIDE DEF s
    <2>6. QED
        BY <2>1, <2>4, <2>5 DEF IsBlock
<1> HIDE DEF k, U, F
<1>7. \A c \in U : Apart(c, s)
    <2> SUFFICES ASSUME NEW c \in U, ~Apart(c, s) PROVE FALSE
        OBVIOUS
    <2> HIDE DEF s
    <2>1. IsBlock(c)
        BY <1>5 DEF Covers
    <2>2. PICK x \in Nat : Holds(c, x) /\ Holds(s, x)
        BY <1>6, <2>1, ApartIs
    <2>3. x \in Buddy!Bytes(c) /\ x \in Buddy!Bytes(s)
        BY <1>6, <2>1, <2>2, BytesAre
    <2>4. QED
        BY <1>3, <2>3
<1>8. PICK c \in F : s[2] <= c[2]
    <2> HIDE DEF s
    <2>1. QED
        BY <1>5, <1>6, <1>7, RoomThere
<1>9. c[2] \in 0 .. Top /\ In(free_lists[c[2]], c[1])
    BY DEF F, FreeOf
<1>10. free_lists[c[2]] # <<>> /\ c[2] \in k .. Top
    BY <1>1, <1>8, <1>9 DEF In
<1>11. QED
    BY <1>1, <1>10, AllocOrderThere DEF k

\* my_malloc of either build returns NULL only when no stretch of the heap between used
\* blocks (with USE_BUDDY: no aligned block of the order of the request) is free, in
\* whatever order blocks were freed, as long as no call comes in the middle of a my_free.
THEOREM RoomIsAlwaysFound == Spec => []RoomIsFound
<1>1. HeapInv /\ BuddyInv => RoomIsFound
    BY SoundHasRoom, BuddyHasRoom DEF HeapInv, BuddyInv, BuddySound, RoomIsFound
<1>2. QED
    BY <1>1, HeapInvariance, BuddyInvariance, PTL

----------------------------------------------------------------------------
(***************************************************************************)
(* What mem_dump reports with USE_BUDDY.                                   *)
(***************************************************************************)
BuddyTotal(S) == Buddy!MapThenSumSet(LAMBDA b : Buddy!Pow2[b[2]], S)

\* The sum over the blocks in use, as a recursion over their subsets.
LEMMA BuddyTotalIs ==
    ASSUME NEW S, IsFiniteSet(S), NEW w, \A b \in S : w[b] = Buddy!Pow2[b[2]]
    PROVE  \E f : IsTotal(f, SUBSET S, w) /\ BuddyTotal(S) = f[S]
<1> DEFINE Rec(f) == [s \in SUBSET S |->
                          IF s = {} THEN 0 ELSE Buddy!Pow2[Any(s)[2]] + f[s \ {Any(s)}]]
           t == CHOOSE f : f = Rec(f)
<1>1. BuddyTotal(S) = t[S]
    BY DEF BuddyTotal, Buddy!MapThenSumSet, Buddy!MapThenFoldSet, Any
<1>2. \A f : IsFix(f, S, w) <=> f = Rec(f)
    <2>1. \A s \in SUBSET S : s # {} => w[Any(s)] = Buddy!Pow2[Any(s)[2]]
        BY AnyIn
    <2>2. QED
        BY <2>1 DEF IsFix
<1>3. \E f : f = Rec(f)
    <2> HIDE DEF Rec
    <2>1. QED
        BY <1>2, TotalFixes
<1>4. t = Rec(t)
    <2> HIDE DEF Rec
    <2>1. QED
        BY <1>3
<1> HIDE DEF t, Rec
<1>5. IsFix(t, S, w)
    BY <1>2, <1>4
<1>6. IsTotal(t, SUBSET S, w)
    BY <1>5, FixIsTotal
<1>7. QED
    BY <1>1, <1>6

\* One block more counts for its size.
LEMMA BuddyTotalGrows ==
    ASSUME NEW T, IsFiniteSet(T), \A c \in T : IsBlock(c), NEW b \in T
    PROVE  /\ BuddyTotal(T \ {b}) \in Int
           /\ BuddyTotal(T) = BuddyTotal(T \ {b}) + Pow(b[2])
<1> DEFINE S == T \ {b}
           w == [c \in T |-> Pow(c[2])]
<1>1. IsFiniteSet(S) /\ S \subseteq T
    BY FS_Subset
<1>2. \A c \in T : w[c] = Buddy!Pow2[c[2]] /\ w[c] = Pow(c[2]) /\ w[c] \in Int
    <2>1. \A c \in T : Pow(c[2]) \in Nat
        BY BlockNumbers
    <2>2. QED
        BY <2>1 DEF Pow
<1> HIDE DEF w
<1>3. PICK f : IsTotal(f, SUBSET S, w) /\ BuddyTotal(S) = f[S]
    <2>1. \A c \in S : w[c] = Buddy!Pow2[c[2]]
        BY <1>2
    <2> HIDE DEF S
    <2>2. QED
        BY <1>1, <2>1, BuddyTotalIs
<1>4. PICK g : IsTotal(g, SUBSET T, w) /\ BuddyTotal(T) = g[T]
    BY <1>2, BuddyTotalIs
<1>5. f[S] \in Int /\ g[T] = f[S] + w[b]
    <2>1. \A c \in T : w[c] \in Int
        BY <1>2
    <2>2. IsTotal(f, SUBSET (T \ {b}), w)
        BY <1>3
    <2>3. f[T \ {b}] \in Int /\ g[T] = f[T \ {b}] + w[b]
        BY <1>4, <2>1, <2>2, TotalAdds
    <2>4. QED
        BY <2>3
<1>6. QED
    BY <1>2, <1>3, <1>4, <1>5

\* The blocks in use are finitely many ...
LEMMA UsedOfFinite ==
    ASSUME NEW h, IsFiniteSet(DOMAIN h)
    PROVE  IsFiniteSet(UsedOf(h))
<1> DEFINE f == [b \in DOMAIN h |-> <<b, h[b]>>]
<1>1. f \in [DOMAIN h -> UsedOf(h)]
    BY DEF UsedOf
<1>2. f \in Surjection(DOMAIN h, UsedOf(h))
    BY <1>1 DEF Surjection, UsedOf
<1>3. QED
    BY <1>2, FS_Surjection

BuddyCountInv == ~UsesList => used_mem = BuddyTotal(UsedOf(headers))

\* ... and are blocks of the heap.
LEMMA UsedOfSound ==
    ASSUME NEW l, NEW h, NEW v, BuddySound(l, h, v)
    PROVE  IsFiniteSet(UsedOf(h)) /\ \A c \in UsedOf(h) : IsBlock(c)
    BY UsedOfFinite DEF BuddySound, Tiled, Covers

\* used_mem goes up and down by the size of the block, a power of two.
LEMMA NextBuddyCounts == BuddyInv /\ BuddyCountInv /\ [Next]_vars => BuddyCountInv'
<1> SUFFICES ASSUME BuddyInv, BuddyCountInv, [Next]_vars, ~UsesList'
             PROVE  used_mem' = BuddyTotal(UsedOf(headers'))
    BY DEF BuddyCountInv
<1>1. ~UsesList /\ BuddySound(free_lists, headers, live) /\ used_mem = BuddyTotal(UsedOf(headers))
    BY DEF BuddyInv, BuddySound, BuddyCountInv, UsesList, Next, vars, heap, ListMalloc,
           ListMallocReturnsNull, ListFree, BuddyMalloc, BuddyMallocReturnsNull, BuddyFree,
           FreeBegins, Disturb, NotFollowed
<1>2. CASE UNCHANGED <<headers, used_mem>>
    BY <1>1, <1>2
<1>3. ASSUME NEW r \in Request, BuddyMalloc(r)
      PROVE  used_mem' = BuddyTotal(UsedOf(headers'))
    <2>1. PICK b \in Nat :
              /\ BuddySound(free_lists', headers', live') /\ b \notin DOMAIN headers
              /\ UsedOf(headers') = UsedOf(headers) \cup {<<b, Buddy!OrderFor(r)>>}
              /\ used_mem' = used_mem + Pow(Buddy!OrderFor(r))
        BY <1>1, <1>3, MallocKeepsTiled DEF BuddyMalloc
    <2> DEFINE c == <<b, Buddy!OrderFor(r)>>
               T == UsedOf(headers')
    <2>2. c \in T /\ T \ {c} = UsedOf(headers) /\ c[2] = Buddy!OrderFor(r)
        <3>1. c \notin UsedOf(headers)
            BY <2>1 DEF UsedOf
        <3>2. QED
            BY <2>1, <3>1
    <2>3. IsFiniteSet(T) /\ \A d \in T : IsBlock(d)
        BY <2>1, UsedOfSound
    <2> HIDE DEF T, c
    <2>4. BuddyTotal(T \ {c}) \in Int /\ BuddyTotal(T) = BuddyTotal(T \ {c}) + Pow(c[2])
        BY <2>2, <2>3, BuddyTotalGrows
    <2>5. QED
        BY <1>1, <2>1, <2>2, <2>4 DEF T
<1>4. ASSUME NEW p \in DOMAIN live, BuddyFree(p)
      PROVE  used_mem' = BuddyTotal(UsedOf(headers'))
    <2>1. PICK b \in DOMAIN headers :
              /\ UsedOf(headers') = UsedOf(headers) \ {<<b, headers[b]>>}
              /\ used_mem' = used_mem - Pow(headers[b])
        BY <1>1, <1>4, FreeKeepsTiled DEF BuddyFree
    <2> DEFINE c == <<b, headers[b]>>
               T == UsedOf(headers)
    <2>2. c \in T /\ c[2] = headers[b]
        BY DEF UsedOf
    <2>3. IsFiniteSet(T) /\ (\A d \in T : IsBlock(d)) /\ Pow(c[2]) \in Nat
        <3>1. IsFiniteSet(T) /\ \A d \in T : IsBlock(d)
            BY <1>1, UsedOfSound
        <3>2. QED
            BY <2>2, <3>1, BlockNumbers
    <2>4. UsedOf(headers') = T \ {c} /\ used_mem' = used_mem - Pow(c[2]) /\ used_mem = BuddyTotal(T)
        BY <1>1, <2>1, <2>2
    <2> HIDE DEF T, c
    <2>5. BuddyTotal(T \ {c}) \in Int /\ BuddyTotal(T) = BuddyTotal(T \ {c}) + Pow(c[2])
        BY <2>2, <2>3, BuddyTotalGrows
    <2>6. QED
        BY <2>3, <2>4, <2>5
<1>5. QED
    BY <1>1, <1>2, <1>3, <1>4
    DEF Next, vars, heap, ListMalloc, ListMallocReturnsNull, ListFree,
        BuddyMallocReturnsNull, Buddy!MallocReturnsNull, Buddy!buddyVars,
        FreeBegins, Disturb, NotFollowed

\* mem_dump of either build reports as used exactly the bytes of the blocks in use, after
\* any sequence of calls none of which comes in the middle of a my_free.
THEOREM UsedIsAlwaysCounted == Spec => []UsedIsCounted
<1>1. Init => CountInv /\ BuddyCountInv
    <2> SUFFICES ASSUME Init PROVE /\ UsesList => used_mem = Total(Used(blocks))
                                   /\ ~UsesList => used_mem = BuddyTotal(UsedOf(headers))
        BY DEF CountInv, BuddyCountInv
    <2>1. /\ UsesList => used_mem = 0 /\ Used(blocks) = {}
          /\ ~UsesList => used_mem = 0 /\ UsedOf(headers) = {}
        BY DEF Init, UsesList, List!Init, Used, Buddy!Init, UsedOf
    <2>2. Total({}) = 0
        <3>1. PICK f : IsTotal(f, SUBSET {}, <<>>) /\ Total({}) = f[{}]
            BY FS_EmptySet, TotalIs
        <3>2. QED
            BY <3>1 DEF IsTotal
    <2>3. BuddyTotal({}) = 0
        <3>1. PICK f : IsTotal(f, SUBSET {}, <<>>) /\ BuddyTotal({}) = f[{}]
            BY FS_EmptySet, BuddyTotalIs
        <3>2. QED
            BY <3>1 DEF IsTotal
    <2>4. QED
        BY <2>1, <2>2, <2>3
<1>2. CountInv /\ BuddyCountInv => UsedIsCounted
    <2>1. Used(blocks) = {blocks[i] : i \in List!InUse}
        BY DEF Used, List!InUse
    <2>2. UsesList /\ CountInv => List!UsedIsCounted
        BY <2>1 DEF CountInv, Total, List!UsedIsCounted
    <2>3. UsedOf(headers) = Buddy!UsedBlocks
        BY DEF UsedOf, Buddy!UsedBlocks
    <2>4. ~UsesList /\ BuddyCountInv => Buddy!UsedIsCounted
        BY <2>3 DEF BuddyCountInv, BuddyTotal, Buddy!UsedIsCounted
    <2>5. QED
        BY <2>2, <2>4 DEF UsedIsCounted
<1>3. QED
    BY <1>1, <1>2, NextCounts, NextBuddyCounts, HeapInvariance, BuddyInvariance, PTL DEF Spec

----------------------------------------------------------------------------
(***************************************************************************)
(* Both builds are allocators.                                             *)
(***************************************************************************)
BuddyRow(b, h, v) == [first |-> b, end |-> b + Pow(h[b]), size |-> v[b + HEADER_SIZE]]
BuddyOwnsRows ==
    /\ DOMAIN Buddy!Owned = DOMAIN live
    /\ \A b \in DOMAIN headers : Buddy!Owned[b + HEADER_SIZE] = BuddyRow(b, headers, live)

\* What the owners of blocks have.
LEMMA BuddyOwnedRows == BuddySound(free_lists, headers, live) => BuddyOwnsRows
<1> SUFFICES ASSUME BuddySound(free_lists, headers, live) PROVE BuddyOwnsRows
    OBVIOUS
<1>1. DOMAIN live = {b + HEADER_SIZE : b \in DOMAIN headers}
    BY DEF BuddySound, Granted
<1>2. DOMAIN Buddy!Owned = DOMAIN live
    BY <1>1 DEF Buddy!Owned
<1>3. ASSUME NEW b \in DOMAIN headers
      PROVE  Buddy!Owned[b + HEADER_SIZE] = BuddyRow(b, headers, live)
    <2>1. HEADER_SIZE \in Nat
        BY SizeAssumption
    <2>2. b \in Nat
        BY UsedIs DEF BuddySound
    <2>3. (b + HEADER_SIZE) - HEADER_SIZE = b
        BY <2>1, <2>2
    <2>4. b + HEADER_SIZE \in {x + HEADER_SIZE : x \in DOMAIN headers}
          /\ b + HEADER_SIZE \in DOMAIN live
        BY <1>1
    <2>5. QED
        BY <2>3, <2>4 DEF Buddy!Owned, BuddyRow, Pow
<1>4. QED
    BY <1>2, <1>3 DEF BuddyOwnsRows

\* my_malloc with USE_BUDDY grants a block nobody has.
LEMMA BuddyMallocGrants ==
    ASSUME ~UsesList, ~UsesList', BuddySound(free_lists, headers, live),
           NEW r \in Request, Buddy!Malloc(r)
    PROVE  Interface!Grant
<1> DEFINE O == Buddy!Owned
           P == Buddy!Owned'
<1>1. PICK b \in Nat :
          /\ BuddySound(free_lists', headers', live')
          /\ b \notin DOMAIN headers /\ headers' = Taken(headers, b, Buddy!OrderFor(r))
          /\ UsedOf(headers') = UsedOf(headers) \cup {<<b, Buddy!OrderFor(r)>>}
          /\ live' = [p \in DOMAIN live \cup {b + HEADER_SIZE} |->
                          IF p = b + HEADER_SIZE THEN r ELSE live[p]]
    BY MallocKeepsTiled
<1> DEFINE k == Buddy!OrderFor(r)
           data == b + HEADER_SIZE
<1>2. /\ DOMAIN O = DOMAIN live
      /\ \A x \in DOMAIN headers : O[x + HEADER_SIZE] = BuddyRow(x, headers, live)
    BY BuddyOwnedRows DEF BuddyOwnsRows
<1>3. /\ DOMAIN P = DOMAIN live'
      /\ \A x \in DOMAIN headers' : P[x + HEADER_SIZE] = BuddyRow(x, headers', live')
    <2>1. BuddySound(free_lists, headers, live)'
        BY <1>1
    <2>2. BuddyOwnsRows'
        BY <2>1, BuddyOwnedRows, PTL
    <2>3. QED
        BY <2>2 DEF BuddyOwnsRows
<1>4. O = [q \in DOMAIN O |-> O[q]] /\ P = [q \in DOMAIN P |-> P[q]]
    BY DEF Buddy!Owned
<1> HIDE DEF O, P
<1>5. /\ HEADER_SIZE \in Nat /\ HEADER_SIZE > 0
      /\ \A x \in DOMAIN headers : x \in Nat /\ IsBlock(<<x, headers[x]>>)
      /\ DOMAIN live = {x + HEADER_SIZE : x \in DOMAIN headers}
    <2>1. HEADER_SIZE \in Nat /\ HEADER_SIZE > 0
        BY SizeAssumption
    <2>2. \A x \in DOMAIN headers : x \in Nat /\ IsBlock(<<x, headers[x]>>)
        BY UsedIs DEF BuddySound
    <2>3. QED
        BY <2>1, <2>2 DEF BuddySound, Granted
<1>6. data \notin DOMAIN live
    <2> SUFFICES ASSUME data \in DOMAIN live PROVE FALSE
        OBVIOUS
    <2>1. PICK x \in DOMAIN headers : data = x + HEADER_SIZE
        BY <1>5
    <2>2. x \in Nat
        BY <1>5
    <2>3. x = b
        BY <1>5, <2>1, <2>2
    <2>4. QED
        BY <1>1, <2>3
<1>7. data \in DOMAIN P \ DOMAIN O /\ DOMAIN P = DOMAIN O \cup {data}
    BY <1>1, <1>2, <1>3, <1>6
<1>8. P[data] = [first |-> b, end |-> b + Pow(k), size |-> r]
    <2>1. b \in DOMAIN headers' /\ headers'[b] = k
        BY <1>1 DEF Taken
    <2>2. live'[data] = r
        BY <1>1
    <2>3. QED
        BY <1>3, <2>1, <2>2 DEF BuddyRow
<1>9. ASSUME NEW q \in DOMAIN O PROVE P[q] = O[q]
    <2>1. PICK x \in DOMAIN headers : x + HEADER_SIZE = q
        BY <1>2, <1>5
    <2>2. x # b /\ x \in DOMAIN headers' /\ headers'[x] = headers[x]
        BY <1>1 DEF Taken
    <2>3. live'[q] = live[q]
        BY <1>1, <1>2, <1>6
    <2>4. BuddyRow(x, headers', live') = BuddyRow(x, headers, live)
        BY <2>1, <2>2, <2>3 DEF BuddyRow
    <2>5. QED
        BY <1>2, <1>3, <2>1, <2>2, <2>4
<1>10. P = [q \in DOMAIN O \cup {data} |-> IF q = data THEN P[data] ELSE O[q]]
    BY <1>4, <1>7, <1>9
<1>11. IsBlock(<<b, k>>) /\ <<b, k>> \in UsedOf(headers')
    BY <1>1 DEF BuddySound, Tiled, Covers
<1>12. b < data /\ data + r <= b + Pow(k) /\ b + Pow(k) <= HEAP_SIZE
    <2>1. r \in Nat /\ r + HEADER_SIZE <= Pow(k)
        BY OrderHolds
    <2>2. b + Pow(k) <= Heap /\ Heap <= HEAP_SIZE /\ Heap \in Nat /\ HEAP_SIZE \in Nat
          /\ Pow(k) \in Nat
        <3>1. <<b, k>>[1] = b /\ <<b, k>>[2] = k
            OBVIOUS
        <3>2. Pow(k) \in Nat /\ b + Pow(k) <= Heap
            BY <1>11, <3>1, BlockNumbers DEF End
        <3>3. QED
            BY <3>2, WholeFits, SizeAssumption DEF Heap, Top
    <2>3. QED
        BY <1>5, <2>1, <2>2
<1>13. ASSUME NEW q \in DOMAIN O
       PROVE  b + Pow(k) <= O[q].first \/ O[q].end <= b
    <2>1. PICK x \in DOMAIN headers : x + HEADER_SIZE = q
        BY <1>2, <1>5
    <2>2. O[q].first = x /\ O[q].end = x + Pow(headers[x])
        <3>1. O[q] = BuddyRow(x, headers, live)
            BY <1>2, <2>1
        <3>2. QED
            BY <3>1 DEF BuddyRow
    <2>3. <<x, headers[x]>> \in UsedOf(headers') /\ <<x, headers[x]>> # <<b, k>>
        BY <1>1 DEF UsedOf
    <2>4. Apart(<<b, k>>, <<x, headers[x]>>)
        BY <1>1, <1>11, <2>3 DEF BuddySound, Tiled, Covers
    <2>5. QED
        BY <2>2, <2>4 DEF Apart, End
<1>14. /\ (IF UsesList THEN List!Owned ELSE Buddy!Owned) = O
       /\ (IF UsesList THEN List!Owned ELSE Buddy!Owned)' = P
    BY DEF O, P
<1> DEFINE new == P[data]
<1>15. /\ new.size \in Request
       /\ new.first < data /\ data + new.size <= new.end /\ new.end <= HEAP_SIZE
       /\ \A q \in DOMAIN O : Interface!Disjoint(new, O[q])
    BY <1>8, <1>12, <1>13 DEF Interface!Disjoint
<1> HIDE DEF data
<1>16. QED
    BY <1>7, <1>10, <1>14, <1>15 DEF Interface!Grant

\* my_free with USE_BUDDY releases the block it is given.
LEMMA BuddyFreeReleases ==
    ASSUME ~UsesList, ~UsesList', BuddySound(free_lists, headers, live),
           NEW p \in DOMAIN live, Buddy!Free(p)
    PROVE  Interface!Release
<1> DEFINE O == Buddy!Owned
           P == Buddy!Owned'
<1>1. PICK b \in DOMAIN headers :
          /\ BuddySound(free_lists', headers', live')
          /\ p = b + HEADER_SIZE /\ headers' = Given(headers, b)
          /\ live' = [q \in DOMAIN live \ {p} |-> live[q]]
    BY FreeKeepsTiled
<1>2. /\ DOMAIN O = DOMAIN live
      /\ \A x \in DOMAIN headers : O[x + HEADER_SIZE] = BuddyRow(x, headers, live)
    BY BuddyOwnedRows DEF BuddyOwnsRows
<1>3. /\ DOMAIN P = DOMAIN live'
      /\ \A x \in DOMAIN headers' : P[x + HEADER_SIZE] = BuddyRow(x, headers', live')
    <2>1. BuddySound(free_lists, headers, live)'
        BY <1>1
    <2>2. BuddyOwnsRows'
        BY <2>1, BuddyOwnedRows, PTL
    <2>3. QED
        BY <2>2 DEF BuddyOwnsRows
<1>4. O = [q \in DOMAIN O |-> O[q]] /\ P = [q \in DOMAIN P |-> P[q]]
    BY DEF Buddy!Owned
<1> HIDE DEF O, P
<1>5. DOMAIN live = {x + HEADER_SIZE : x \in DOMAIN headers}
    BY DEF BuddySound, Granted
<1>6. DOMAIN P = DOMAIN O \ {p} /\ p \in DOMAIN O
    BY <1>1, <1>2, <1>3
<1>7. ASSUME NEW q \in DOMAIN O \ {p} PROVE P[q] = O[q]
    <2>1. PICK x \in DOMAIN headers : x + HEADER_SIZE = q
        BY <1>2, <1>5
    <2>2. x # b /\ x \in DOMAIN headers' /\ headers'[x] = headers[x]
        BY <1>1, <2>1 DEF Given
    <2>3. live'[q] = live[q]
        BY <1>1, <1>2
    <2>4. BuddyRow(x, headers', live') = BuddyRow(x, headers, live)
        BY <2>1, <2>2, <2>3 DEF BuddyRow
    <2>5. QED
        BY <1>2, <1>3, <2>1, <2>2, <2>4
<1>8. P = [q \in DOMAIN O \ {p} |-> O[q]]
    BY <1>4, <1>6, <1>7
<1>9. /\ (IF UsesList THEN List!Owned ELSE Buddy!Owned) = O
      /\ (IF UsesList THEN List!Owned ELSE Buddy!Owned)' = P
    BY DEF O, P
<1>10. QED
    BY <1>6, <1>8, <1>9 DEF Interface!Release

\* Whatever the clients of either build ask for and give back: a block belongs to one owner
\* from the my_malloc that returns it to the my_free that takes it back, overlaps no other,
\* and holds what was asked for, as long as no call comes in the middle of a my_free and
\* each pointer is freed once.
THEOREM BothBuildsAreAllocators == Spec => ImplementsAllocator
<1>1. Init => Interface!AllocatorInit
    <2> SUFFICES ASSUME Init PROVE Interface!AllocatorInit
        OBVIOUS
    <2>1. UsesList => List!InUse = {}
        BY DEF Init, UsesList, List!Init, List!InUse
    <2>2. UsesList => List!Owned = <<>>
        BY <2>1 DEF List!Owned
    <2>3. ~UsesList => DOMAIN headers = {}
        BY DEF Init, UsesList, Buddy!Init
    <2>4. ~UsesList => Buddy!Owned = <<>>
        BY <2>3 DEF Buddy!Owned
    <2>5. QED
        BY <2>2, <2>4 DEF Interface!AllocatorInit
<1> DEFINE owned == IF UsesList THEN List!Owned ELSE Buddy!Owned
<1>2. HeapInv /\ BuddyInv /\ [Next]_vars => [Interface!Grant \/ Interface!Release]_owned
    <2> SUFFICES ASSUME HeapInv, BuddyInv, [Next]_vars
                 PROVE  Interface!Grant \/ Interface!Release \/ UNCHANGED owned
        OBVIOUS
    <2>1. /\ UsesList' <=> UsesList
          /\ UsesList => Sound(blocks, live)
          /\ ~UsesList => BuddySound(free_lists, headers, live)
        BY DEF HeapInv, BuddyInv, BuddySound, UsesList, Next, vars, heap, ListMalloc,
               ListMallocReturnsNull, ListFree, BuddyMalloc, BuddyMallocReturnsNull, BuddyFree,
               FreeBegins, Disturb, NotFollowed
    <2>2. ASSUME UNCHANGED <<blocks, headers, live>> PROVE UNCHANGED owned
        <3>1. List!Owned' = List!Owned
            BY <2>2 DEF List!Owned, List!InUse, List!DataOf, List!EndOf
        <3>2. Buddy!Owned' = Buddy!Owned
            BY <2>2 DEF Buddy!Owned
        <3>3. QED
            BY <2>1, <3>1, <3>2
    <2>3. ASSUME NEW r \in Request, ListMalloc(r) PROVE Interface!Grant
        BY <2>1, <2>3, MallocGrants DEF ListMalloc
    <2>4. ASSUME NEW p \in DOMAIN live, ListFree(p) PROVE Interface!Release
        BY <2>1, <2>4, FreeReleases DEF ListFree
    <2>5. ASSUME NEW r \in Request, BuddyMalloc(r) PROVE Interface!Grant
        BY <2>1, <2>5, BuddyMallocGrants DEF BuddyMalloc
    <2>6. ASSUME NEW p \in DOMAIN live, BuddyFree(p) PROVE Interface!Release
        BY <2>1, <2>6, BuddyFreeReleases DEF BuddyFree
    <2>7. ASSUME NEW r \in Request, ListMallocReturnsNull(r) \/ BuddyMallocReturnsNull(r)
          PROVE  UNCHANGED <<blocks, headers, live>>
        BY <2>7 DEF ListMallocReturnsNull, List!MallocReturnsNull, List!heapVars,
                    BuddyMallocReturnsNull, Buddy!MallocReturnsNull, Buddy!buddyVars
    <2>8. /\ UNCHANGED vars \/ Disturb \/ NotFollowed => UNCHANGED <<blocks, headers, live>>
          /\ \A p \in DOMAIN live : FreeBegins(p) => UNCHANGED <<blocks, headers, live>>
        BY DEF vars, heap, FreeBegins, Disturb, NotFollowed
    <2>9. QED
        BY <2>2, <2>3, <2>4, <2>5, <2>6, <2>7, <2>8 DEF Next
<1>3. QED
    BY <1>1, <1>2, HeapInvariance, BuddyInvariance, PTL
    DEF Spec, ImplementsAllocator, Interface!AllocatorSpec
====
