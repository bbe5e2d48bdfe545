---- MODULE WaitQueueProofs ----
(***************************************************************************)
(* What a queue of waiters holds after each operation on it; and two facts *)
(* about naturals that replace induction in the proofs that use them.      *)
(***************************************************************************)
EXTENDS WaitQueue, NaturalsInduction, WellFoundedInduction, TLAPS

In(q, p) == \E i \in DOMAIN q : q[i] = p
Distinct(q) == \A i, k \in DOMAIN q : q[i] = q[k] => i = k

\* A queue with one more behind, without its head, or without one that is removed.
LEMMA QueueGrows ==
    ASSUME NEW S, NEW q \in Seq(S), NEW p \in S, Distinct(q), ~In(q, p)
    PROVE  /\ Append(q, p) \in Seq(S) /\ Append(q, p) # <<>> /\ Distinct(Append(q, p))
           /\ \A r : In(Append(q, p), r) <=> In(q, r) \/ r = p
    <1>. DEFINE n == Append(q, p)
    <1>1. /\ n \in Seq(S) /\ Len(n) = Len(q) + 1 /\ Len(q) \in Nat
          /\ DOMAIN n = 1 .. Len(q) + 1 /\ DOMAIN q = 1 .. Len(q)
          /\ n[Len(q) + 1] = p /\ \A i \in DOMAIN q : n[i] = q[i]
        OBVIOUS
    <1>. HIDE DEF n
    <1>2. Distinct(n)
        BY <1>1 DEF Distinct, In
    <1>3. \A r : In(n, r) <=> In(q, r) \/ r = p
        BY <1>1 DEF In
    <1>4. n # <<>>
        BY <1>1
    <1>. QED
        BY <1>1, <1>2, <1>3, <1>4 DEF n

\* What is left of a queue when its head has gone.
LEMMA QueueMoves ==
    ASSUME NEW S, NEW q \in Seq(S), Distinct(q), q # <<>>
    PROVE  /\ Head(q) \in S /\ In(q, Head(q))
           /\ Tail(q) \in Seq(S) /\ Distinct(Tail(q))
           /\ \A r : In(Tail(q), r) <=> In(q, r) /\ r # Head(q)
    <1>. DEFINE n == Tail(q)
    <1>1. /\ n \in Seq(S) /\ Len(q) \in Nat \ {0} /\ Head(q) = q[1] /\ q[1] \in S
          /\ DOMAIN n = 1 .. Len(q) - 1 /\ DOMAIN q = 1 .. Len(q)
          /\ \A i \in DOMAIN n : n[i] = q[i + 1]
        OBVIOUS
    <1>. HIDE DEF n
    <1>2. Distinct(n)
        <2>. SUFFICES ASSUME NEW i \in DOMAIN n, NEW k \in DOMAIN n, n[i] = n[k]
                      PROVE  i = k
            BY DEF Distinct
        <2>1. i + 1 \in DOMAIN q /\ k + 1 \in DOMAIN q /\ q[i + 1] = q[k + 1]
            BY <1>1
        <2>. QED
            BY <1>1, <2>1 DEF Distinct
    <1>3. ASSUME NEW r, In(n, r) PROVE In(q, r) /\ r # q[1]
        <2>1. PICK i \in DOMAIN n : n[i] = r
            BY <1>3 DEF In
        <2>2. i + 1 \in DOMAIN q /\ q[i + 1] = r /\ 1 \in DOMAIN q /\ i + 1 # 1
            BY <1>1, <2>1
        <2>. QED
            BY <2>2 DEF In, Distinct
    <1>4. ASSUME NEW r, In(q, r), r # q[1] PROVE In(n, r)
        <2>1. PICK i \in DOMAIN q : q[i] = r
            BY <1>4 DEF In
        <2>2. i - 1 \in DOMAIN n /\ n[i - 1] = r
            BY <1>1, <1>4, <2>1
        <2>. QED
            BY <2>2 DEF In
    <1>5. In(q, q[1])
        BY <1>1 DEF In
    <1>. QED
        BY <1>1, <1>2, <1>3, <1>4, <1>5 DEF n

\* What is left of a queue when somebody has been removed from it.
LEMMA QueueWithout ==
    ASSUME NEW S, NEW q \in Seq(S), Distinct(q), NEW p
    PROVE  /\ Without(q, p) \in Seq(S) /\ Distinct(Without(q, p))
           /\ \A r : In(Without(q, p), r) <=> In(q, r) /\ r # p
           /\ q = <<>> => Without(q, p) = <<>>
    <1>1. CASE ~In(q, p)
        <2>1. Without(q, p) = q
            BY <1>1 DEF Without, In
        <2>. QED
            BY <1>1, <2>1
    <1>2. CASE In(q, p)
        <2>1. PICK k \in DOMAIN q : k = CHOOSE i \in DOMAIN q : q[i] = p
            BY <1>2 DEF In
        <2>2. q[k] = p
            BY <1>2, <2>1 DEF In
        <2>. DEFINE n == [i \in 1 .. Len(q) - 1 |-> IF i < k THEN q[i] ELSE q[i + 1]]
        <2>3. Without(q, p) = n
            BY <1>2, <2>1 DEF Without, In
        <2>4. /\ Len(q) \in Nat \ {0} /\ DOMAIN q = 1 .. Len(q) /\ k \in 1 .. Len(q)
              /\ \A i \in DOMAIN q : q[i] \in S
            BY <2>1
        <2>5. /\ DOMAIN n = 1 .. Len(q) - 1
              /\ \A i \in 1 .. Len(q) - 1 : n[i] = IF i < k THEN q[i] ELSE q[i + 1]
            OBVIOUS
        <2>6. n \in Seq(S)
            <3>1. n \in [1 .. Len(q) - 1 -> S]
                BY <2>4
            <3>. QED
                BY <2>4, <3>1
        <2>. HIDE DEF n
        <2>7. Distinct(n)
            <3>. SUFFICES ASSUME NEW i \in 1 .. Len(q) - 1, NEW j \in 1 .. Len(q) - 1, n[i] = n[j]
                          PROVE  i = j
                BY <2>5 DEF Distinct
            <3>. DEFINE c == IF i < k THEN i ELSE i + 1
                        d == IF j < k THEN j ELSE j + 1
            <3>1. c \in DOMAIN q /\ d \in DOMAIN q /\ n[i] = q[c] /\ n[j] = q[d]
                BY <2>4, <2>5
            <3>2. c = d
                BY <3>1 DEF Distinct
            <3>. QED
                BY <2>4, <3>2
        <2>8. ASSUME NEW r, In(n, r) PROVE In(q, r) /\ r # p
            <3>1. PICK i \in 1 .. Len(q) - 1 : n[i] = r
                BY <2>5, <2>8 DEF In
            <3>. DEFINE c == IF i < k THEN i ELSE i + 1
            <3>2. c \in DOMAIN q /\ q[c] = r /\ c # k
                BY <2>4, <2>5, <3>1
            <3>. QED
                BY <2>1, <2>2, <3>2 DEF In, Distinct
        <2>9. ASSUME NEW r, In(q, r), r # p PROVE In(n, r)
            <3>1. PICK c \in DOMAIN q : q[c] = r /\ c # k
                BY <2>2, <2>9 DEF In
            <3>. DEFINE i == IF c < k THEN c ELSE c - 1
            <3>2. i \in DOMAIN n /\ n[i] = r
                BY <2>4, <2>5, <3>1
            <3>. QED
                BY <3>2 DEF In
        <2>10. q # <<>>
            BY <2>4
        <2>. QED
            BY <2>3, <2>6, <2>7, <2>8, <2>9, <2>10
    <1>. QED
        BY <1>1, <1>2

----------------------------------------------------------------------------
\* A set of naturals that is not empty has a least member.
LEMMA Least ==
    ASSUME NEW S \in SUBSET Nat, S # {}
    PROVE  \E m \in S : \A n \in S : m <= n
<1>1. IsWellFoundedOn(OpToRel(<, Nat), Nat)
    BY NatLessThanWellFounded
<1> DEFINE R == OpToRel(<, Nat)
<1>2. \A x, y \in Nat : x < y => <<x, y>> \in R
    BY DEF OpToRel
<1> HIDE DEF R
<1>3. IsWellFoundedOn(R, Nat)
    BY <1>1 DEF R
<1>4. PICK m \in S : \A n \in S : ~(<<n, m>> \in R)
    BY <1>3, WFMin
<1>5. ASSUME NEW n \in S PROVE m <= n
    <2>1. m \in Nat /\ n \in Nat
        OBVIOUS
    <2>2. ~(n < m)
        BY <1>2, <1>4, <2>1
    <2>3. QED
        BY <2>1, <2>2
<1>6. QED
    BY <1>5

\* A set of naturals that has 0, and the successor of each of its members below n, has
\* every number up to n.
LEMMA UpTo ==
    ASSUME NEW n \in Nat, NEW S, 0 \in S, \A k \in 0 .. n - 1 : k \in S => k + 1 \in S
    PROVE  \A k \in 0 .. n : k \in S
<1> DEFINE Missing == {k \in 0 .. n : k \notin S}
<1> SUFFICES ASSUME Missing # {} PROVE FALSE
    OBVIOUS
<1>1. Missing \in SUBSET Nat
    OBVIOUS
<1>2. PICK m \in Missing : \A k \in Missing : m <= k
    BY <1>1, Least
<1>3. m \in 0 .. n /\ m \notin S /\ m # 0
    OBVIOUS
<1>4. m - 1 \in 0 .. n - 1 /\ m - 1 < m /\ (m - 1) + 1 = m
    BY <1>3
<1>5. m - 1 \in S
    BY <1>2, <1>4
<1>6. QED
    BY <1>3, <1>4, <1>5
====
