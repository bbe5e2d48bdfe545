---- MODULE UserlandProofs ----
(***************************************************************************)
(* Theorems about the programs of Userland: that ps ends its walks, for    *)
(* every size of the table and any number of walkers (ProcessList), that   *)
(* tsem counts to zero, for any number of workers and rounds (TestSync),   *)
(* that the snakes end a round whole, on a grid of any size (Snake), that  *)
(* ts and tp agree with the kernel on the processes they have, for any     *)
(* number of them (KernelTests), that a command line is cut into its words *)
(* and leaves nothing behind (CommandLine), that the filters tell the text *)
(* (Filters), and that the numbers and times of the library are right      *)
(* (Numbers).                                                              *)
(***************************************************************************)
EXTENDS ProcessList, TestSync, Snake, KernelTests, CommandLine, Filters, Numbers, WaitQueueProofs,
        FiniteSetTheorems, FunctionTheorems, TLAPS

----------------------------------------------------------------------------
(***************************************************************************)
(* The inductive invariant.  WalksEnd speaks of the cells from the current *)
(* entry on, and the second walk of a ps begins at cell 0 again; that the  *)
(* cells written since its listing are the first cells of the array, up to *)
(* some cell, closes the gap.                                              *)
(***************************************************************************)
ListTypeOK ==
    /\ alive \subseteq Pid
    /\ DOMAIN processInfo = Cells
    /\ walk \in [Walkers -> {"idle", "sum", "print"}]
    /\ entry \in [Walkers -> Places]
    /\ block \in [on : BOOLEAN, pid : Int, entry : Places, alone : BOOLEAN]
    /\ written \in [Walkers -> SUBSET Places]
    /\ overrun \in BOOLEAN

IsPrefix(cells) == \A c \in cells : 0 .. c \subseteq cells

\* The two halves of WalksEnd.
EndIsAhead(w) ==
    \E end \in Cells : /\ entry[w] <= end /\ processInfo[end] = NO_PID
                       /\ entry[w] .. end \subseteq written[w]
WalkersEnd == ~overrun => \A w \in Walkers : Walks(w) => EndIsAhead(w)
BlockEnds == block.alone => \E c \in Cells : block.entry <= c /\ processInfo[c] = block.pid

ListInv ==
    /\ ListTypeOK
    /\ \A w \in Walkers : IsPrefix(written[w])
    /\ WalkersEnd
    /\ BlockEnds

----------------------------------------------------------------------------
\* The entries fit the array, and unless the table is full they leave a cell for NO_PID.
LEMMA EntriesFit ==
    ASSUME alive \subseteq Pid
    PROVE  /\ IsFiniteSet(alive) /\ Entries \in Places
           /\ Entries # Behind => Entries \in Cells
<1>1. IsFiniteSet(Pid) /\ Cardinality(Pid) = MAX_PROCESSES
    BY FS_Interval, MaxProcessesAssumption DEF Pid
<1>2. IsFiniteSet(alive) /\ Cardinality(alive) <= MAX_PROCESSES
    BY <1>1, FS_Subset
<1>3. Entries \in Nat /\ Entries <= MAX_PROCESSES
    BY <1>2, FS_CardinalityType DEF Entries
<1> QED
    BY <1>2, <1>3, MaxProcessesAssumption DEF Cells, Places, Behind

LEMMA PlacesAreNumbers ==
    /\ Cells \subseteq Nat /\ Places \subseteq Nat /\ Cells \subseteq Places
    /\ 0 \in Cells /\ Behind \in Nat
    /\ \A c \in Cells : c < Behind
    /\ \A c \in Places : After1(c) \in Places /\ (c \in Cells => After1(c) = c + 1)
    /\ \A c \in Cells : \A k \in Nat : k <= c => k \in Cells
BY MaxProcessesAssumption DEF Cells, Places, Behind, After1

LEMMA FilledFits ==
    ASSUME Entries \in Places
    PROVE  FilledCells \subseteq Places
BY MaxProcessesAssumption DEF FilledCells, Places, Behind

\* processStatus puts an end behind its last entry and leaves the cells after it alone.
LEMMA ListedEnds ==
    ASSUME ListTypeOK
    PROVE  /\ DOMAIN Listed = Cells
           /\ Entries # Behind => Listed[Entries] = NO_PID
           /\ \A c \in Cells : Entries < c => Listed[c] = processInfo[c]
           /\ \A c \in Cells : c < Entries => Listed[c] = PidAt(c)
<1>1. Entries \in Places /\ (Entries # Behind => Entries \in Cells)
    BY EntriesFit DEF ListTypeOK
<1> QED
    BY <1>1, PlacesAreNumbers DEF Listed

\* Whoever is in the table has an entry: its index is the number of those before it.
LEMMA EveryoneIsListed ==
    ASSUME alive \subseteq Pid, NEW pid \in alive
    PROVE  \E c \in Cells : c < Entries /\ PidAt(c) = pid
<1> DEFINE Smaller(p) == {q \in alive : q < p}
<1> DEFINE c == Cardinality(Smaller(pid))
<1>1. IsFiniteSet(alive) /\ Entries \in Places /\ alive \subseteq Int
    BY EntriesFit, MaxProcessesAssumption DEF Pid
<1>2. \A p \in alive : IsFiniteSet(Smaller(p)) /\ Cardinality(Smaller(p)) \in Nat
    <2> SUFFICES ASSUME NEW p \in alive
                 PROVE  IsFiniteSet(Smaller(p)) /\ Cardinality(Smaller(p)) \in Nat
        OBVIOUS
    <2>1. Smaller(p) \subseteq alive
        OBVIOUS
    <2> QED
        BY <1>1, <2>1, FS_Subset, FS_CardinalityType
<1>3. ASSUME NEW T, NEW p \in alive, IsFiniteSet(T), Smaller(p) \subseteq T, p \in T
      PROVE  Cardinality(Smaller(p)) < Cardinality(T)
    <2>1. p \notin Smaller(p)
        BY <1>1
    <2>2. Smaller(p) # T
        BY <1>3, <2>1
    <2> HIDE DEF Smaller
    <2>3. Cardinality(Smaller(p)) <= Cardinality(T)
          /\ (Cardinality(Smaller(p)) = Cardinality(T) => Smaller(p) = T)
        BY <1>3, FS_Subset
    <2>4. Cardinality(Smaller(p)) \in Nat /\ Cardinality(T) \in Nat
        BY <1>2, <1>3, FS_CardinalityType
    <2> QED
        BY <2>2, <2>3, <2>4
<1>4. \A p, r \in alive : r < p => Cardinality(Smaller(r)) < Cardinality(Smaller(p))
    <2> SUFFICES ASSUME NEW p \in alive, NEW r \in alive, r < p
                 PROVE  Cardinality(Smaller(r)) < Cardinality(Smaller(p))
        OBVIOUS
    <2>1. Smaller(r) \subseteq Smaller(p) /\ r \in Smaller(p)
        <3>1. \A q \in alive : q \in Int
            BY <1>1
        <3>2. \A q \in alive : q < r => q < p
            BY <3>1
        <3> QED
            BY <3>2
    <2>2. IsFiniteSet(Smaller(p))
        BY <1>2
    <2> HIDE DEF Smaller
    <2> QED
        BY <1>3, <2>1, <2>2
<1>5. c < Entries
    <2>1. Smaller(pid) \subseteq alive
        OBVIOUS
    <2> QED
        BY <1>1, <1>3, <2>1 DEF Entries
<1>6. \A p \in alive : Cardinality(Smaller(p)) = c => p = pid
    <2> SUFFICES ASSUME NEW p \in alive, Cardinality(Smaller(p)) = c, p # pid
                 PROVE  FALSE
        OBVIOUS
    <2>1. p < pid \/ pid < p
        BY <1>1
    <2>2. Cardinality(Smaller(p)) \in Nat /\ c \in Nat
        BY <1>2
    <2> HIDE DEF Smaller
    <2> QED
        BY <1>4, <2>1, <2>2
<1>7. PidAt(c) = pid
    <2>1. PidAt(c) = CHOOSE p \in alive : Cardinality(Smaller(p)) = c
        BY DEF PidAt
    <2> HIDE DEF Smaller
    <2> QED
        BY <1>6, <2>1
<1>8. c \in Cells
    BY <1>1, <1>2, <1>5, MaxProcessesAssumption DEF Cells, Places, Behind
<1> QED
    BY <1>5, <1>7, <1>8

\* A listing in the middle of walks, by a process that may itself walk or not: whoever walks on
\* finds an end, the new one or, when it is past that, the one it had.
LEMMA ListingKeepsWalks ==
    ASSUME ListInv, processStatus, ~overrun',
           NEW v \in Walkers, Walks(v), entry'[v] = entry[v],
           written'[v] = written[v] \cup FilledCells
    PROVE  EndIsAhead(v)'
<1>1. ~overrun /\ Entries # Behind /\ processInfo' = Listed
    BY DEF processStatus
<1>2. Entries \in Cells /\ entry[v] \in Places
    BY <1>1, EntriesFit DEF ListInv, ListTypeOK
<1>3. Entries \in Nat /\ entry[v] \in Nat /\ Cells \subseteq Nat
    BY <1>2, PlacesAreNumbers
<1>4. CASE entry[v] <= Entries
    <2>1. entry[v] .. Entries \subseteq FilledCells
        BY <1>3 DEF FilledCells
    <2> QED
        BY <1>1, <1>2, <1>4, <2>1, ListedEnds DEF ListInv, EndIsAhead
<1>5. CASE Entries < entry[v]
    <2>1. PICK end \in Cells : /\ entry[v] <= end /\ processInfo[end] = NO_PID
                               /\ entry[v] .. end \subseteq written[v]
        BY <1>1 DEF ListInv, WalkersEnd, EndIsAhead
    <2>2. Entries < end
        <3>1. end \in Nat
            BY <1>3
        <3> QED
            BY <1>3, <1>5, <2>1, <3>1
    <2>3. processInfo'[end] = NO_PID
        BY <1>1, <2>1, <2>2, ListedEnds DEF ListInv
    <2> QED
        BY <2>1, <2>3 DEF EndIsAhead
<1>6. entry[v] <= Entries \/ Entries < entry[v]
    BY <1>3
<1> QED
    BY <1>4, <1>5, <1>6

\* The cells a listing fills begin with the first, and so do they with those written before.
LEMMA PrefixesJoin ==
    ASSUME Entries \in Places, NEW cells, IsPrefix(cells)
    PROVE  IsPrefix(FilledCells) /\ IsPrefix(cells \cup FilledCells) /\ IsPrefix({})
<1>1. Entries \in Nat
    BY PlacesAreNumbers
<1>2. \A c \in FilledCells : 0 .. c \subseteq FilledCells
    BY <1>1 DEF FilledCells
<1> QED
    BY <1>2 DEF IsPrefix

----------------------------------------------------------------------------
\* No process walks when the system starts.
LEMMA ListInitial == ListInit => ListInv
<1> SUFFICES ASSUME ListInit PROVE ListInv
    OBVIOUS
<1>1. alive \subseteq Pid
    BY MaxProcessesAssumption DEF ListInit, Pid, INIT_PID, SHELL_PID
<1>2. ListTypeOK
    <2>1. DOMAIN processInfo = Cells /\ overrun \in BOOLEAN
        BY DEF ListInit
    <2>2. /\ walk \in [Walkers -> {"idle", "sum", "print"}]
          /\ entry \in [Walkers -> Places] /\ written \in [Walkers -> SUBSET Places]
        BY PlacesAreNumbers DEF ListInit
    <2>3. block \in [on : BOOLEAN, pid : Int, entry : Places, alone : BOOLEAN]
        <3>1. NO_PID \in Int /\ 0 \in Places
            BY PlacesAreNumbers DEF NO_PID
        <3> QED
            BY <3>1 DEF ListInit, NotBlocking
    <2> QED
        BY <1>1, <2>1, <2>2, <2>3 DEF ListTypeOK
<1>3. BlockEnds
    BY DEF ListInit, BlockEnds, NotBlocking
<1> QED
    BY <1>2, <1>3 DEF ListInit, ListInv, WalkersEnd, Walks, IsPrefix

\* A ps that starts has its own end ahead, and those that walk already keep one.
LEMMA StartWalkKeepsInv ==
    ASSUME ListInv, NEW w \in Walkers, StartWalk(w)
    PROVE  ListInv'
<1> USE DEF ListInv
<1>1. Entries \in Places /\ (Entries # Behind => Entries \in Cells)
    BY EntriesFit DEF ListTypeOK
<1>2. ListTypeOK'
    <2>1. alive' \subseteq Pid /\ DOMAIN processInfo' = Cells /\ overrun' \in BOOLEAN
        BY ListedEnds DEF StartWalk, processStatus, ListTypeOK
    <2>2. walk' \in [Walkers -> {"idle", "sum", "print"}] /\ entry' \in [Walkers -> Places]
        BY PlacesAreNumbers DEF StartWalk, ListTypeOK
    <2>3. written' \in [Walkers -> SUBSET Places]
        BY <1>1, FilledFits DEF StartWalk, Filled, ListTypeOK
    <2>4. block' \in [on : BOOLEAN, pid : Int, entry : Places, alone : BOOLEAN]
        BY DEF StartWalk, ListTypeOK
    <2> QED
        BY <2>1, <2>2, <2>3, <2>4 DEF ListTypeOK
<1>3. \A v \in Walkers : IsPrefix(written'[v])
    <2>1. \A v \in Walkers :
              written'[v] \in {FilledCells, written[v], written[v] \cup FilledCells}
        BY DEF StartWalk, Filled
    <2> QED
        BY <2>1, <1>1, PrefixesJoin
<1>4. ASSUME NEW v \in Walkers, Walks(v)', ~overrun' PROVE EndIsAhead(v)'
    <2>1. CASE v = w
        <3>1. entry'[v] = 0 /\ written'[v] = FilledCells /\ processInfo' = Listed
              /\ Entries \in Cells
            BY <1>1, <1>4, <2>1 DEF StartWalk, processStatus, ListTypeOK
        <3>2. Entries \in Nat /\ Entries # Behind
            BY <3>1, PlacesAreNumbers
        <3>3. 0 .. Entries = FilledCells /\ 0 <= Entries
            BY <3>2 DEF FilledCells
        <3>4. processInfo'[Entries] = NO_PID
            BY <3>1, <3>2, ListedEnds
        <3> QED
            BY <3>1, <3>3, <3>4 DEF EndIsAhead
    <2>2. CASE v # w
        <3>1. Walks(v) /\ entry'[v] = entry[v] /\ written'[v] = written[v] \cup FilledCells
            BY <1>4, <2>2 DEF StartWalk, Filled, ListTypeOK, Walks
        <3> QED
            BY <3>1, <1>4, ListingKeepsWalks DEF StartWalk
    <2> QED
        BY <2>1, <2>2
<1>5. BlockEnds'
    BY DEF BlockEnds, StartWalk, ListTypeOK
<1> QED
    BY <1>2, <1>3, <1>4, <1>5 DEF WalkersEnd, IsPrefix

\* The listing of block leaves those that walk an end, and has a row for the pid it is to look
\* for, if that is in the table.
LEMMA BlockListsKeepsInv ==
    ASSUME ListInv, BlockLists
    PROVE  ListInv'
<1> USE DEF ListInv
<1>1. Entries \in Places
    BY EntriesFit DEF ListTypeOK
<1>2. ListTypeOK'
    <2>1. alive' \subseteq Pid /\ DOMAIN processInfo' = Cells /\ overrun' \in BOOLEAN
        BY ListedEnds DEF BlockLists, processStatus, ListTypeOK
    <2>2. written' \in [Walkers -> SUBSET Places]
        BY <1>1, FilledFits DEF BlockLists, Filled, ListTypeOK
    <2>3. block' \in [on : BOOLEAN, pid : Int, entry : Places, alone : BOOLEAN]
        BY PlacesAreNumbers, SoughtAssumption DEF BlockLists
    <2>4. UNCHANGED <<walk, entry>>
        BY DEF BlockLists
    <2> QED
        BY <2>1, <2>2, <2>3, <2>4 DEF ListTypeOK
<1>3. \A v \in Walkers : IsPrefix(written'[v])
    <2>1. \A v \in Walkers : written'[v] \in {written[v], written[v] \cup FilledCells}
        BY DEF BlockLists, Filled
    <2> QED
        BY <2>1, <1>1, PrefixesJoin
<1>4. ASSUME NEW v \in Walkers, Walks(v)', ~overrun' PROVE EndIsAhead(v)'
    <2>1. Walks(v) /\ entry'[v] = entry[v] /\ written'[v] = written[v] \cup FilledCells
        BY <1>4 DEF BlockLists, Filled, Walks
    <2> QED
        BY <2>1, <1>4, ListingKeepsWalks DEF BlockLists
<1>5. ASSUME block'.alone
      PROVE  \E c \in Cells : block'.entry <= c /\ processInfo'[c] = block'.pid
    <2>1. block'.pid \in alive /\ block'.entry = 0 /\ processInfo' = Listed
        <3>1. PICK pid \in Sought :
                  block' = [on |-> TRUE, pid |-> pid, entry |-> 0, alone |-> pid \in alive]
            BY DEF BlockLists
        <3>2. block'.alone = (pid \in alive) /\ block'.pid = pid /\ block'.entry = 0
            BY <3>1
        <3>3. pid \in alive
            BY <1>5, <3>2
        <3> QED
            BY <3>2, <3>3 DEF BlockLists, processStatus
    <2>2. PICK c \in Cells : c < Entries /\ PidAt(c) = block'.pid
        BY <2>1, EveryoneIsListed DEF ListTypeOK
    <2>3. Listed[c] = block'.pid /\ 0 <= c
        BY <2>2, ListedEnds, PlacesAreNumbers
    <2> QED
        BY <2>1, <2>3
<1> QED
    BY <1>2, <1>3, <1>4, <1>5 DEF WalkersEnd, BlockEnds, IsPrefix

\* block stops at its pid, so while it goes on the row is still ahead of it.
LEMMA BlockLooksKeepsInv ==
    ASSUME ListInv, BlockLooks
    PROVE  ListInv'
<1> USE DEF ListInv
<1>1. UNCHANGED <<alive, processInfo, walk, entry, written, overrun>>
    BY DEF BlockLooks
<1>2. PICK pid \in PidsAt(block.entry) :
          block' = IF pid = block.pid THEN NotBlocking
                   ELSE [block EXCEPT !.entry = After1(block.entry)]
    BY DEF BlockLooks
<1>3. block' \in [on : BOOLEAN, pid : Int, entry : Places, alone : BOOLEAN]
    BY <1>2, PlacesAreNumbers DEF ListTypeOK, NotBlocking, NO_PID
<1>4. ListTypeOK'
    BY <1>1, <1>3 DEF ListTypeOK
<1>5. ASSUME block'.alone
      PROVE  \E c \in Cells : block'.entry <= c /\ processInfo[c] = block'.pid
    <2>1. pid # block.pid /\ block' = [block EXCEPT !.entry = After1(block.entry)]
        BY <1>2, <1>5 DEF NotBlocking
    <2>2. block.alone /\ block'.pid = block.pid /\ block'.entry = After1(block.entry)
        BY <1>5, <2>1 DEF ListTypeOK
    <2>3. PICK c \in Cells : block.entry <= c /\ processInfo[c] = block.pid
        BY <2>2 DEF BlockEnds
    <2>4. block.entry \in Nat /\ c \in Nat /\ block.entry \in Places
        BY PlacesAreNumbers DEF ListTypeOK
    <2>5. block.entry \in Cells
        BY <2>3, <2>4, PlacesAreNumbers
    <2>6. pid = processInfo[block.entry] /\ After1(block.entry) = block.entry + 1
        BY <1>2, <2>4, <2>5, PlacesAreNumbers DEF PidsAt
    <2>7. block.entry # c
        BY <2>1, <2>3, <2>6
    <2>8. block.entry + 1 <= c
        BY <2>3, <2>4, <2>7
    <2> QED
        BY <2>2, <2>3, <2>6, <2>8
<1>6. WalkersEnd'
    BY <1>1 DEF WalkersEnd, EndIsAhead, Walks
<1> QED
    BY <1>1, <1>4, <1>5, <1>6 DEF BlockEnds, IsPrefix

\* A walker that stops leaves the array and the others as they are.
LEMMA StopsKeepsInv ==
    ASSUME ListInv, NEW w \in Walkers, Stops(w), UNCHANGED <<alive, processInfo, block, overrun>>
    PROVE  ListInv'
<1> USE DEF ListInv
<1>1. ListTypeOK'
    BY PlacesAreNumbers DEF Stops, ListTypeOK
<1>2. \A v \in Walkers : IsPrefix(written'[v])
    <2>1. \A v \in Walkers : written'[v] \in {written[v], {}}
        BY DEF Stops, ListTypeOK
    <2> QED
        BY <2>1 DEF IsPrefix
<1>3. \A v \in Walkers : Walks(v)' => v # w /\ Walks(v)
    BY DEF Stops, Walks, ListTypeOK
<1>4. \A v \in Walkers \ {w} : entry'[v] = entry[v] /\ written'[v] = written[v]
    BY DEF Stops, ListTypeOK
<1>5. WalkersEnd'
    BY <1>3, <1>4 DEF WalkersEnd, EndIsAhead
<1>6. BlockEnds'
    BY DEF BlockEnds
<1> QED
    BY <1>1, <1>2, <1>5, <1>6 DEF IsPrefix

\* A walker that takes a step finds the end, and begins again at cell 0, or goes on to the next
\* entry, which is no further than the end.
LEMMA WalkingKeepsInv ==
    ASSUME ListInv, NEW w \in Walkers, Walks(w),
           UNCHANGED <<alive, processInfo, block, written, overrun>>,
           walk' \in [Walkers -> {"idle", "sum", "print"}],
           \A v \in Walkers \ {w} : walk'[v] = walk[v],
           NEW pid \in PidsAt(entry[w]), NEW next \in {0, After1(entry[w])},
           entry' = [entry EXCEPT ![w] = next],
           pid = NO_PID <=> next = 0
    PROVE  ListInv'
<1> USE DEF ListInv
<1>1. entry[w] \in Places /\ next \in Places
    <2>1. entry[w] \in Places
        BY DEF ListTypeOK
    <2> QED
        BY <2>1, PlacesAreNumbers
<1>2. ListTypeOK'
    BY <1>1 DEF ListTypeOK
<1>3. ASSUME NEW v \in Walkers, Walks(v)', ~overrun' PROVE EndIsAhead(v)'
    <2>1. CASE v # w
        BY <1>3, <2>1 DEF WalkersEnd, Walks, EndIsAhead, ListTypeOK
    <2>2. CASE v = w
        <3>1. PICK end \in Cells : /\ entry[w] <= end /\ processInfo[end] = NO_PID
                                   /\ entry[w] .. end \subseteq written[w]
            BY <1>3 DEF WalkersEnd, EndIsAhead
        <3>2. entry[w] \in Nat /\ end \in Nat /\ entry[w] \in Cells
            BY <1>1, <3>1, PlacesAreNumbers
        <3>3. pid = processInfo[entry[w]] /\ After1(entry[w]) = entry[w] + 1
            BY <1>1, <3>2, PlacesAreNumbers DEF PidsAt
        <3>4. entry'[v] = next
            BY <2>2 DEF ListTypeOK
        <3>5. CASE next = 0
            <4>1. entry[w] \in written[w] /\ processInfo[entry[w]] = NO_PID
                BY <3>1, <3>2, <3>3, <3>5
            <4>2. 0 .. entry[w] \subseteq written[w] /\ 0 <= entry[w]
                BY <3>2, <4>1 DEF IsPrefix
            <4> QED
                BY <2>2, <3>2, <3>4, <3>5, <4>1, <4>2 DEF EndIsAhead
        <3>6. CASE next # 0
            <4>1. next = entry[w] + 1 /\ entry[w] # end
                BY <3>1, <3>3, <3>6
            <4>2. next <= end /\ next .. end \subseteq entry[w] .. end
                BY <3>1, <3>2, <4>1
            <4> QED
                BY <2>2, <3>1, <3>4, <4>2 DEF EndIsAhead
        <3> QED
            BY <3>5, <3>6
    <2> QED
        BY <2>1, <2>2
<1>4. WalkersEnd'
    BY <1>3 DEF WalkersEnd
<1>5. BlockEnds'
    BY DEF BlockEnds
<1> QED
    BY <1>2, <1>4, <1>5 DEF IsPrefix

\* Every step of a walker, of the block command and of the table keeps the invariant.
LEMMA ListStep == ListInv /\ [ListNext]_listVars => ListInv'
<1> SUFFICES ASSUME ListInv, [ListNext]_listVars PROVE ListInv'
    OBVIOUS
<1>1. CASE TableChanges
    <2>1. alive' \subseteq Pid
        BY <1>1 DEF TableChanges, ListInv, ListTypeOK
    <2> QED
        BY <1>1, <2>1 DEF TableChanges, ListInv, ListTypeOK, WalkersEnd, BlockEnds, EndIsAhead,
                          Walks, IsPrefix
<1>2. ASSUME NEW w \in Walkers, walk[w] \in {"sum", "print"}
      PROVE  After1(entry[w]) # 0
    <2>1. entry[w] \in Places
        BY DEF ListInv, ListTypeOK
    <2> QED
        BY <2>1, MaxProcessesAssumption DEF After1, Places, Behind
<1>3. ASSUME NEW w \in Walkers, Sum(w) PROVE ListInv'
    <2>1. PICK pid \in PidsAt(entry[w]) :
              IF pid = NO_PID
              THEN /\ walk' = [walk EXCEPT ![w] = "print"] /\ entry' = [entry EXCEPT ![w] = 0]
                   /\ UNCHANGED written
              ELSE GoesOn(w)
        BY <1>3 DEF Sum
    <2>2. /\ Walks(w) /\ UNCHANGED <<alive, processInfo, block, written, overrun>>
          /\ walk' \in [Walkers -> {"idle", "sum", "print"}]
          /\ \A v \in Walkers \ {w} : walk'[v] = walk[v]
        BY <1>3, <2>1 DEF Sum, GoesOn, Walks, ListInv, ListTypeOK
    <2>3. CASE pid = NO_PID
        BY <2>1, <2>2, <2>3, WalkingKeepsInv
    <2>4. CASE pid # NO_PID
        <3>1. entry' = [entry EXCEPT ![w] = After1(entry[w])]
            BY <2>1, <2>4 DEF GoesOn
        <3>2. After1(entry[w]) # 0
            BY <1>2, <1>3 DEF Sum
        <3> QED
            BY <2>2, <2>4, <3>1, <3>2, WalkingKeepsInv
    <2> QED
        BY <2>3, <2>4
<1>4. ASSUME NEW w \in Walkers, PrintRow(w) PROVE ListInv'
    <2>1. PICK pid \in PidsAt(entry[w]) : IF pid = NO_PID THEN Stops(w) ELSE GoesOn(w)
        BY <1>4 DEF PrintRow
    <2>2. CASE pid = NO_PID
        BY <1>4, <2>1, <2>2, StopsKeepsInv DEF PrintRow
    <2>3. CASE pid # NO_PID
        <3>1. /\ Walks(w) /\ UNCHANGED <<alive, processInfo, block, walk, written, overrun>>
              /\ entry' = [entry EXCEPT ![w] = After1(entry[w])]
            BY <1>4, <2>1, <2>3 DEF PrintRow, GoesOn, Walks
        <3>2. After1(entry[w]) # 0
            BY <1>2, <1>4 DEF PrintRow
        <3>3. walk' \in [Walkers -> {"idle", "sum", "print"}]
            BY <3>1 DEF ListInv, ListTypeOK
        <3> QED
            BY <2>3, <3>1, <3>2, <3>3, WalkingKeepsInv
    <2> QED
        BY <2>2, <2>3
<1>5. ASSUME NEW w \in Walkers, WalkerKilled(w) PROVE ListInv'
    BY <1>5, StopsKeepsInv DEF WalkerKilled
<1>6. CASE UNCHANGED listVars
    BY <1>6 DEF listVars, ListInv, ListTypeOK, WalkersEnd, BlockEnds, EndIsAhead, Walks, IsPrefix
<1> QED
    BY <1>1, <1>3, <1>4, <1>5, <1>6, StartWalkKeepsInv, BlockListsKeepsInv, BlockLooksKeepsInv
    DEF ListNext

\* However many ps run beside each other, each finds the end before it leaves the array, and shows
\* no row that an older listing has left behind, as long as no listing has found the table full;
\* and block, whose loop stops at its pid only, finds it if its process was there and nobody has
\* listed since (ps in stdLib.c, block in shellFunctions.c, processStatus in scheduler.c).
THEOREM WalksAlwaysEnd == ListSpec => []WalksEnd
<1>1. ListInv => WalksEnd
    BY DEF ListInv, WalksEnd, WalkersEnd, BlockEnds, EndIsAhead
<1> QED
    BY <1>1, ListInitial, ListStep, PTL DEF ListSpec

----------------------------------------------------------------------------
(***************************************************************************)
(* The updates of tsem.  Each worker is in the section alone, so what it   *)
(* has read is still the number when it writes; the number is then the     *)
(* updates of the adders less those of the takers, and in the end both     *)
(* have made the same number of them.                                      *)
(***************************************************************************)
SyncSteps == {"start", "wait", "asleep", "read", "write", "post", "close", "done"}
Opened == {p \in Workers : step[p] \notin {"start", "done"}}
Inside(p) == step[p] \in {"read", "write", "post"}

SyncTypeOK ==
    /\ use_sem \in BOOLEAN /\ global \in Int
    /\ aux \in [Workers -> Int]
    /\ round \in [Workers -> 0 .. Repeats]
    /\ step \in [Workers -> SyncSteps]
    /\ value \in Int /\ users \in Int /\ queue \in Seq(Workers)

\* How far each worker is with its rounds.
RoundsOK ==
    \A p \in Workers :
        /\ step[p] = "start" => round[p] = 0
        /\ step[p] \in {"close", "done"} => round[p] = Repeats
        /\ step[p] \notin {"close", "done"} => round[p] < Repeats

\* The semaphore is there while somebody has it open, who sleeps is queued, and either the
\* semaphore has its one token or one worker at most is inside.
SectionOK ==
    /\ users = Cardinality(Opened)
    /\ Distinct(queue) /\ \A p \in Workers : In(queue, p) <=> step[p] = "asleep"
    /\ value \in {0, 1}
    /\ \A p \in Workers : Inside(p) => value = 0
    /\ \A p, r \in Workers : Inside(p) /\ Inside(r) => p = r

\* The updates a worker has made, counted as pairs of a worker and a number.
Made(p) == IF step[p] = "post" THEN round[p] + 1 ELSE round[p]
Updates(S) == {u \in S \X (1 .. Repeats) : u[2] <= Made(u[1])}

NumberOK ==
    /\ \A p \in Workers : step[p] = "write" => aux[p] = global
    /\ global = Cardinality(Updates(Adders)) - Cardinality(Updates(Takers))

SyncInv == SyncTypeOK /\ RoundsOK /\ (use_sem => SectionOK /\ NumberOK)

\* There are finitely many workers, each an adder or a taker, and finitely many updates.
LEMMA WorkersAreFinite ==
    /\ IsFiniteSet(Adders) /\ IsFiniteSet(Takers) /\ IsFiniteSet(Workers)
    /\ Repeats \in Nat \ {0}
    /\ \A S : IsFiniteSet(S) => /\ IsFiniteSet(S \X (1 .. Repeats))
                                /\ Cardinality(S \X (1 .. Repeats)) = Cardinality(S) * Repeats
<1>1. IsFiniteSet(Workers)
    BY PairsAssumption, FS_Union DEF Workers
<1>2. IsFiniteSet(1 .. Repeats) /\ Cardinality(1 .. Repeats) = Repeats
    BY FS_Interval, PairsAssumption
<1>3. ASSUME NEW S, IsFiniteSet(S)
      PROVE  /\ IsFiniteSet(S \X (1 .. Repeats))
             /\ Cardinality(S \X (1 .. Repeats)) = Cardinality(S) * Repeats
    BY <1>2, <1>3, FS_Product
<1> QED
    BY <1>1, <1>3, PairsAssumption

\* What has been made is a finite set of updates, whatever the set of workers.
LEMMA UpdatesAreFinite ==
    ASSUME NEW S, IsFiniteSet(S)
    PROVE  IsFiniteSet(Updates(S)) /\ Cardinality(Updates(S)) \in Nat
<1>1. Updates(S) \in SUBSET (S \X (1 .. Repeats)) /\ IsFiniteSet(S \X (1 .. Repeats))
    BY WorkersAreFinite DEF Updates
<1> QED
    BY <1>1, FS_Subset, FS_CardinalityType

\* The queue of tsem with one more worker at its end, and without its head.
LEMMA WorkerQueued ==
    ASSUME NEW q \in Seq(Workers), NEW p \in Workers, Distinct(q), ~In(q, p)
    PROVE  /\ Append(q, p) \in Seq(Workers) /\ Distinct(Append(q, p))
           /\ \A r : In(Append(q, p), r) <=> (In(q, r) \/ r = p)
    BY QueueGrows

LEMMA WorkerLeaves ==
    ASSUME NEW q \in Seq(Workers), Distinct(q), q # <<>>
    PROVE  /\ Head(q) \in Workers /\ In(q, Head(q))
           /\ Tail(q) \in Seq(Workers) /\ Distinct(Tail(q))
           /\ \A r : In(Tail(q), r) <=> (In(q, r) /\ r # Head(q))
    BY QueueMoves

----------------------------------------------------------------------------
\* Before anybody has opened the semaphore nothing has been made.
LEMMA SyncInitial == SyncInit => SyncInv
<1> SUFFICES ASSUME SyncInit PROVE SyncInv
    OBVIOUS
<1>1. SyncTypeOK /\ RoundsOK
    BY WorkersAreFinite DEF SyncInit, SyncTypeOK, RoundsOK, SyncSteps
<1>2. SectionOK
    <2>1. Opened = {} /\ Cardinality({}) = 0
        BY FS_EmptySet DEF SyncInit, Opened
    <2> QED
        BY <2>1 DEF SyncInit, SectionOK, Distinct, In, Inside
<1>3. NumberOK
    <2>1. \A p \in Workers : Made(p) = 0
        BY DEF SyncInit, Made
    <2>2. Updates(Adders) = {} /\ Updates(Takers) = {}
        BY <2>1, WorkersAreFinite DEF Updates, Workers
    <2> QED
        BY <2>2, FS_EmptySet DEF SyncInit, NumberOK
<1> QED
    BY <1>1, <1>2, <1>3 DEF SyncInv

\* The types and the rounds, with the semaphore or without.
LEMMA RoundsStep == SyncInv /\ SyncNext => SyncTypeOK' /\ RoundsOK'
<1> SUFFICES ASSUME SyncTypeOK, RoundsOK, use_sem => SectionOK, NEW p \in Workers,
                    Open(p) \/ Wait(p) \/ Read(p) \/ Write(p) \/ Post(p) \/ Close(p)
             PROVE  SyncTypeOK' /\ RoundsOK'
    BY DEF SyncNext, SyncInv
<1> USE WorkersAreFinite
<1>1. CASE Open(p)
    BY <1>1 DEF Open, Steps, SyncTypeOK, RoundsOK, SyncSteps, semaphore
<1>2. CASE Wait(p)
    <2>1. Append(queue, p) \in Seq(Workers)
        BY DEF SyncTypeOK
    <2> QED
        <3>1. /\ step[p] = "wait" /\ UNCHANGED <<use_sem, global, aux, round, users>>
              /\ \E to \in {"read", "asleep"} : step' = [step EXCEPT ![p] = to]
            BY <1>2 DEF Wait, Steps
        <3>2. value' \in Int /\ queue' \in Seq(Workers)
            <4>1. value \in Int /\ value - 1 \in Int /\ queue \in Seq(Workers)
                BY DEF SyncTypeOK
            <4>2. value' \in {value, value - 1} /\ queue' \in {queue, Append(queue, p)}
                BY <1>2 DEF Wait
            <4> QED
                BY <2>1, <4>1, <4>2
        <3> QED
            BY <3>1, <3>2 DEF SyncTypeOK, RoundsOK, SyncSteps
<1>3. CASE Read(p)
    BY <1>3 DEF Read, Steps, SyncTypeOK, RoundsOK, SyncSteps, semaphore
<1>4. CASE Write(p)
    BY <1>4 DEF Write, Steps, SyncTypeOK, RoundsOK, SyncSteps, semaphore, Inc
<1>5. CASE Post(p)
    <2>1. round[p] \in 0 .. Repeats /\ round[p] < Repeats
        BY <1>5 DEF Post, SyncTypeOK, RoundsOK
    <2>2. round' = [round EXCEPT ![p] = round[p] + 1] /\ round[p] + 1 \in 0 .. Repeats
        BY <1>5, <2>1 DEF Post
    <2>3. use_sem /\ queue # <<>> =>
              Tail(queue) \in Seq(Workers) /\ step[Head(queue)] = "asleep"
        BY WorkerLeaves DEF SyncTypeOK, SectionOK
    <2>4. SyncTypeOK'
        <3>1. /\ UNCHANGED <<use_sem, global, aux, users>>
              /\ round' \in [Workers -> 0 .. Repeats]
            BY <1>5, <2>2 DEF Post, SyncTypeOK
        <3>9. value' \in Int /\ queue' \in Seq(Workers)
            <4>1. CASE use_sem
                <5>1. PostToken
                    BY <1>5, <4>1 DEF Post
                <5> QED
                    <6>1. value \in Int /\ value + 1 \in Int /\ queue \in Seq(Workers)
                        BY DEF SyncTypeOK
                    <6>2. \/ value' = value + 1 /\ queue' = queue
                          \/ value' = value /\ queue # <<>> /\ queue' = Tail(queue)
                        BY <5>1 DEF PostToken
                    <6> QED
                        BY <4>1, <2>3, <6>1, <6>2
            <4>2. CASE ~use_sem
                BY <1>5, <4>2 DEF Post, SyncTypeOK
            <4> QED
                BY <4>1, <4>2
        <3>2. step' \in [Workers -> SyncSteps]
            BY <1>5 DEF Post, AfterPost, SyncTypeOK, SyncSteps
        <3> QED
            BY <3>1, <3>9, <3>2 DEF SyncTypeOK
    <2>5. ASSUME NEW r \in Workers, r # p
          PROVE  /\ round'[r] = round[r]
                 /\ step'[r] = step[r] \/ (step[r] = "asleep" /\ step'[r] = "read")
        BY <1>5, <2>2, <2>3, <2>5 DEF Post, SyncTypeOK
    <2>6. round'[p] = round[p] + 1 /\ step'[p] = AfterPost(p)
        BY <1>5, <2>2 DEF Post, SyncTypeOK
    <2> QED
        BY <2>1, <2>4, <2>5, <2>6 DEF RoundsOK, AfterPost
<1>6. CASE Close(p)
    BY <1>6 DEF Close, Steps, SyncTypeOK, RoundsOK, SyncSteps
<1> QED
    BY <1>1, <1>2, <1>3, <1>4, <1>5, <1>6

\* One worker at most is inside, while others open, close and so destroy the semaphore.
LEMMA SectionStep == SyncInv /\ SyncNext /\ use_sem => SectionOK'
<1> SUFFICES ASSUME SyncTypeOK, RoundsOK, SectionOK, use_sem, NEW p \in Workers,
                    Open(p) \/ Wait(p) \/ Read(p) \/ Write(p) \/ Post(p) \/ Close(p)
             PROVE  SectionOK'
    BY DEF SyncNext, SyncInv
<1>0. Opened \subseteq Workers /\ IsFiniteSet(Opened) /\ Cardinality(Opened) \in Nat
    BY WorkersAreFinite, FS_Subset, FS_CardinalityType DEF Opened
<1>1. CASE Open(p)
    <2>1. Opened' = Opened \cup {p} /\ p \notin Opened
        BY <1>1 DEF Open, Steps, Opened, SyncTypeOK
    <2>2. Cardinality(Opened') = Cardinality(Opened) + 1
        BY <1>0, <2>1, FS_AddElement
    <2>3. users = 0 => Opened = {}
        BY <1>0, FS_EmptySet DEF SectionOK
    <2>4. users' = Cardinality(Opened')
        BY <1>1, <2>2 DEF Open, SectionOK
    <2>5. /\ step[p] = "start" /\ step' = [step EXCEPT ![p] = "wait"] /\ queue' = queue
          /\ value' = IF users = 0 THEN 1 ELSE value
        BY <1>1 DEF Open, Steps
    <2>6. \A r \in Workers : /\ Inside(r)' <=> Inside(r)
                             /\ step'[r] = "asleep" <=> step[r] = "asleep"
        BY <2>5 DEF Inside, SyncTypeOK
    <2>7. users = 0 => \A r \in Workers : ~Inside(r)
        BY <2>3 DEF Inside, Opened
    <2> QED
        BY <2>4, <2>5, <2>6, <2>7 DEF SectionOK
<1>2. CASE Wait(p)
    <2>1. Opened' = Opened /\ users' = users
        BY <1>2 DEF Wait, Steps, Opened, SyncTypeOK
    <2>2. CASE value > 0
        <3>1. /\ step[p] = "wait" /\ step' = [step EXCEPT ![p] = "read"] /\ queue' = queue
              /\ value = 1 /\ value' = 0
            BY <1>2, <2>2 DEF Wait, Steps, SectionOK
        <3>2. \A r \in Workers : /\ Inside(r)' => r = p
                                 /\ step'[r] = "asleep" <=> step[r] = "asleep"
            BY <3>1 DEF Inside, SyncTypeOK, SectionOK
        <3> QED
            BY <2>1, <3>1, <3>2 DEF SectionOK
    <2>3. CASE ~(value > 0)
        <3>1. /\ step[p] = "wait" /\ step' = [step EXCEPT ![p] = "asleep"]
              /\ queue' = Append(queue, p) /\ value' = value
            BY <1>2, <2>3 DEF Wait, Steps, SectionOK
        <3>2. \A r \in Workers : /\ Inside(r)' <=> Inside(r)
                                 /\ step'[r] = "asleep" <=> (step[r] = "asleep" \/ r = p)
            BY <3>1 DEF Inside, SyncTypeOK, SectionOK
        <3>3. Distinct(queue') /\ \A r : In(queue', r) <=> (In(queue, r) \/ r = p)
            BY <3>1, WorkerQueued DEF SyncTypeOK, SectionOK
        <3> QED
            BY <2>1, <3>1, <3>2, <3>3 DEF SectionOK
    <2> QED
        BY <2>2, <2>3
<1>3. CASE Read(p) \/ Write(p)
    <2>1. /\ Inside(p) /\ UNCHANGED semaphore
          /\ \E to \in {"write", "post"} : step' = [step EXCEPT ![p] = to]
        BY <1>3 DEF Read, Write, Steps, Inside
    <2>2. \A r \in Workers : /\ Inside(r)' <=> Inside(r)
                             /\ step'[r] = "asleep" <=> step[r] = "asleep"
        BY <2>1 DEF Inside, SyncTypeOK
    <2>3. Opened' = Opened
        BY <2>1 DEF Opened, Inside, SyncTypeOK
    <2> QED
        BY <2>1, <2>2, <2>3 DEF SectionOK, semaphore
<1>4. CASE Post(p)
    <2>1. /\ Inside(p) /\ users' = users /\ AfterPost(p) \in {"wait", "close"} /\ PostToken
          /\ step[p] = "post"
          /\ step' = [q \in Workers |->
                        IF q = p THEN AfterPost(p)
                        ELSE IF queue # <<>> /\ q = Head(queue) THEN "read" ELSE step[q]]
        BY <1>4 DEF Post, Inside, AfterPost
    <2>2. value = 0 /\ \A r \in Workers : Inside(r) => r = p
        BY <2>1 DEF SectionOK
    <2>3. CASE queue = <<>>
        <3>1. step' = [step EXCEPT ![p] = AfterPost(p)] /\ queue' = queue /\ value' = 1
            <4>1. step' = [q \in Workers |-> IF q = p THEN AfterPost(p) ELSE step[q]]
                BY <2>1, <2>3
            <4>2. step' = [step EXCEPT ![p] = AfterPost(p)]
                BY <4>1 DEF SyncTypeOK
            <4> QED
                <5>1. value' = value + 1 /\ queue' = queue /\ value = 0
                    BY <2>1, <2>2, <2>3 DEF PostToken
                <5> QED
                    BY <4>2, <5>1
        <3>2. \A r \in Workers : ~Inside(r)' /\ (step'[r] = "asleep" <=> step[r] = "asleep")
            BY <2>1, <2>2, <3>1 DEF Inside, SyncTypeOK
        <3>3. Opened' = Opened
            BY <2>1, <3>1 DEF Opened, SyncTypeOK
        <3> QED
            BY <2>1, <3>1, <3>2, <3>3 DEF SectionOK
    <2>4. CASE queue # <<>>
        <3>1. PICK h \in Workers : h = Head(queue) /\ In(queue, h)
            BY <2>4, WorkerLeaves DEF SyncTypeOK, SectionOK
        <3>2. step[h] = "asleep" /\ h # p
            BY <2>1, <3>1 DEF SectionOK
        <3>3. /\ step'[p] = AfterPost(p) /\ step'[h] = "read"
              /\ \A r \in Workers : r # p /\ r # h => step'[r] = step[r]
            BY <2>1, <2>4, <3>1, <3>2
        <3>4. queue' = Tail(queue) /\ value' = value
            BY <2>1, <2>4 DEF PostToken
        <3>5. Distinct(queue') /\ \A r : In(queue', r) <=> (In(queue, r) /\ r # h)
            BY <2>4, <3>1, <3>4, WorkerLeaves DEF SyncTypeOK, SectionOK
        <3>6. \A r \in Workers : /\ Inside(r)' => r = h
                                 /\ step'[r] = "asleep" <=> (step[r] = "asleep" /\ r # h)
            BY <2>1, <2>2, <3>2, <3>3 DEF Inside
        <3>7. Opened' = Opened
            BY <2>1, <3>2, <3>3 DEF Opened
        <3> QED
            BY <2>1, <2>2, <3>4, <3>5, <3>6, <3>7 DEF SectionOK
    <2> QED
        BY <2>3, <2>4
<1>5. CASE Close(p)
    <2>1. /\ step[p] = "close" /\ step' = [step EXCEPT ![p] = "done"] /\ queue' = queue
          /\ users' = users - 1 /\ value' = IF users' = 0 THEN 0 ELSE value
        BY <1>5 DEF Close, Steps
    <2>2. Opened' = Opened \ {p} /\ p \in Opened
        BY <2>1 DEF Opened, SyncTypeOK
    <2>3. Cardinality(Opened') = Cardinality(Opened) - 1
        BY <1>0, <2>2, FS_RemoveElement
    <2>4. \A r \in Workers : /\ Inside(r)' <=> Inside(r)
                             /\ step'[r] = "asleep" <=> step[r] = "asleep"
        BY <2>1 DEF Inside, SyncTypeOK
    <2> QED
        BY <2>1, <2>3, <2>4 DEF SectionOK
<1> QED
    BY <1>1, <1>2, <1>3, <1>4, <1>5

\* The number is what has been added less what has been taken.
LEMMA NumberStep == SyncInv /\ SyncNext /\ use_sem => NumberOK'
<1> SUFFICES ASSUME SyncTypeOK, RoundsOK, SectionOK, NumberOK, use_sem, NEW p \in Workers,
                    Open(p) \/ Wait(p) \/ Read(p) \/ Write(p) \/ Post(p) \/ Close(p)
             PROVE  NumberOK'
    BY DEF SyncNext, SyncInv
<1>1. ASSUME \A r \in Workers : Made(r)' = Made(r), global' = global,
             \A r \in Workers : step'[r] = "write" => aux'[r] = global
      PROVE  NumberOK'
    <2>1. \A S \in SUBSET Workers : Updates(S)' = Updates(S)
        BY <1>1 DEF Updates
    <2>2. Updates(Adders)' = Updates(Adders) /\ Updates(Takers)' = Updates(Takers)
        BY <2>1 DEF Workers
    <2> QED
        BY <1>1, <2>2 DEF NumberOK
<1>2. CASE Open(p) \/ Wait(p) \/ Close(p)
    <2>1. /\ UNCHANGED <<global, aux, round>> /\ step[p] \notin {"write", "post"}
          /\ \E to \in {"wait", "read", "asleep", "done"} : step' = [step EXCEPT ![p] = to]
        BY <1>2 DEF Open, Wait, Close, Steps
    <2>2. \A r \in Workers : Made(r)' = Made(r) /\ (step'[r] = "write" => step[r] = "write")
        BY <2>1 DEF Made, SyncTypeOK
    <2> QED
        BY <1>1, <2>1, <2>2 DEF NumberOK
<1>3. CASE Read(p)
    <2>1. /\ UNCHANGED <<global, round>> /\ step[p] = "read"
          /\ step' = [step EXCEPT ![p] = "write"] /\ aux' = [aux EXCEPT ![p] = global]
        BY <1>3 DEF Read, Steps
    <2>2. \A r \in Workers : Made(r)' = Made(r)
        BY <2>1 DEF Made, SyncTypeOK
    <2>3. \A r \in Workers : step'[r] = "write" => aux'[r] = global
        BY <2>1 DEF SyncTypeOK, NumberOK
    <2> QED
        BY <1>1, <2>1, <2>2, <2>3
<1>4. CASE Post(p)
    <2>1. UNCHANGED <<global, aux>> /\ step[p] = "post" /\ AfterPost(p) \in {"wait", "close"}
        BY <1>4 DEF Post, AfterPost
    <2>2. step'[p] = AfterPost(p) /\ round'[p] = round[p] + 1
        BY <1>4 DEF Post, SyncTypeOK
    <2>3. queue # <<>> => Head(queue) \in Workers /\ step[Head(queue)] = "asleep"
        BY WorkerLeaves DEF SyncTypeOK, SectionOK
    <2>4. ASSUME NEW r \in Workers, r # p
          PROVE  /\ round'[r] = round[r]
                 /\ step'[r] = step[r] \/ (step[r] = "asleep" /\ step'[r] = "read")
        BY <1>4, <2>3, <2>4 DEF Post, SyncTypeOK
    <2>5. \A r \in Workers : Made(r)' = Made(r) /\ (step'[r] = "write" => step[r] = "write")
        BY <2>1, <2>2, <2>4 DEF Made
    <2> QED
        BY <1>1, <2>1, <2>5 DEF NumberOK
<1>5. CASE Write(p)
    <2> DEFINE new == <<p, round[p] + 1>>
    <2>1. /\ step[p] = "write" /\ step' = [step EXCEPT ![p] = "post"] /\ round' = round
          /\ global' = global + Inc(p)
        BY <1>5 DEF Write, Steps, NumberOK
    <2>2. /\ round[p] \in Nat /\ round[p] + 1 \in 1 .. Repeats
          /\ Made(p) = round[p] /\ Made(p)' = round[p] + 1
        <3>1. round[p] \in 0 .. Repeats /\ round[p] < Repeats /\ step'[p] = "post"
            BY <2>1 DEF SyncTypeOK, RoundsOK
        <3> QED
            BY <2>1, <3>1, WorkersAreFinite DEF Made
    <2>3. \A r \in Workers : r # p => step'[r] = step[r] /\ Made(r)' = Made(r)
        BY <2>1 DEF Made, SyncTypeOK
    <2>4. \A r \in Workers : step'[r] # "write"
        <3>1. Inside(p)
            BY <2>1 DEF Inside
        <3>2. \A r \in Workers : step[r] = "write" => r = p
            BY <3>1 DEF Inside, SectionOK
        <3> QED
            BY <2>1, <2>3, <3>2 DEF SyncTypeOK
    <2>5. ASSUME NEW S \in SUBSET Workers, p \notin S PROVE Updates(S)' = Updates(S)
        BY <2>3, <2>5 DEF Updates
    <2>6. ASSUME NEW S \in SUBSET Workers, p \in S, IsFiniteSet(S)
          PROVE  Cardinality(Updates(S)') = Cardinality(Updates(S)) + 1
        <3>1. new \notin Updates(S)
            BY <2>2 DEF Updates
        <3>2. ASSUME NEW u \in S \X (1 .. Repeats)
              PROVE  u \in Updates(S)' <=> (u \in Updates(S) \/ u = new)
            <4>1. CASE u[1] = p
                <5>1. u[2] \in Nat /\ (u[2] = round[p] + 1 <=> u = new)
                    BY <4>1, WorkersAreFinite
                <5> QED
                    BY <4>1, <5>1, <2>2 DEF Updates
            <4>2. CASE u[1] # p
                BY <4>2, <2>3 DEF Updates
            <4> QED
                BY <4>1, <4>2
        <3>3. Updates(S)' = Updates(S) \cup {new}
            <4>1. new \in S \X (1 .. Repeats)
                BY <2>2, <2>6
            <4> QED
                BY <4>1, <3>2 DEF Updates
        <3> QED
            BY <2>6, <3>1, <3>3, UpdatesAreFinite, FS_AddElement
    <2>7. /\ Cardinality(Updates(Adders)) \in Nat /\ Cardinality(Updates(Takers)) \in Nat
          /\ Adders \in SUBSET Workers /\ Takers \in SUBSET Workers
        BY WorkersAreFinite, UpdatesAreFinite DEF Workers
    <2>8. CASE p \in Adders
        <3>1. /\ p \notin Takers /\ global' = global + 1
              /\ Cardinality(Updates(Adders)') = Cardinality(Updates(Adders)) + 1
              /\ Updates(Takers)' = Updates(Takers)
            BY <2>1, <2>5, <2>6, <2>7, <2>8, WorkersAreFinite, PairsAssumption DEF Inc
        <3> QED
            BY <2>4, <2>7, <3>1 DEF NumberOK
    <2>9. CASE p \notin Adders
        <3>1. /\ p \in Takers /\ global' = global - 1
              /\ Cardinality(Updates(Takers)') = Cardinality(Updates(Takers)) + 1
              /\ Updates(Adders)' = Updates(Adders)
            BY <2>1, <2>5, <2>6, <2>7, <2>9, WorkersAreFinite DEF Inc, Workers, SyncTypeOK
        <3> QED
            BY <2>4, <2>7, <3>1 DEF NumberOK
    <2> QED
        BY <2>8, <2>9
<1> QED
    BY <1>2, <1>3, <1>4, <1>5

\* A step keeps the invariant.
LEMMA SyncStep == SyncInv /\ [SyncNext]_syncVars => SyncInv'
<1>1. SyncInv /\ SyncNext => SyncInv'
    <2>1. SyncNext => use_sem' = use_sem
        BY DEF SyncNext, Open, Wait, Read, Write, Post, Close
    <2> QED
        BY <2>1, RoundsStep, SectionStep, NumberStep DEF SyncInv
<1>2. SyncInv /\ UNCHANGED syncVars => SyncInv'
    BY DEF SyncInv, syncVars, SyncTypeOK, RoundsOK, SectionOK, NumberOK, Opened, Inside, Made,
           Updates
<1> QED
    BY <1>1, <1>2

\* When all workers are done, both kinds have made all their updates.
LEMMA AllMade == SyncInv => FinalIsZero
<1> SUFFICES ASSUME SyncInv, use_sem, \A p \in Workers : step[p] = "done"
             PROVE  global = 0
    BY DEF FinalIsZero
<1>1. \A p \in Workers : Made(p) = Repeats
    BY DEF SyncInv, RoundsOK, Made
<1>2. /\ Updates(Adders) = Adders \X (1 .. Repeats)
      /\ Updates(Takers) = Takers \X (1 .. Repeats)
    BY <1>1, WorkersAreFinite DEF Updates, Workers
<1>3. Cardinality(Updates(Adders)) = Cardinality(Updates(Takers))
    BY <1>2, WorkersAreFinite, PairsAssumption
<1>4. Cardinality(Updates(Adders)) \in Nat
    BY WorkersAreFinite, UpdatesAreFinite
<1> QED
    BY <1>3, <1>4 DEF SyncInv, NumberOK

\* With the semaphore tsem prints "FINAL = 0", for any number of workers and of rounds, although
\* workers come, close and so destroy the semaphore while others have not opened it yet
\* (my_process_inc in testSynchro.c).
THEOREM FinalIsAlwaysZero == SyncSpec => []FinalIsZero
<1> QED
    BY SyncInitial, SyncStep, AllMade, PTL DEF SyncSpec

----------------------------------------------------------------------------
(***************************************************************************)
(* The snake.  A round has a step for each snake and one that checks the   *)
(* heads: the invariant follows a round by saying of a snake that has      *)
(* moved all but what is checked of its head (Checked).                    *)
(***************************************************************************)
Cell == Int \X Int
Snakes == [positions : Seq(Cell), direction : Directions, score : Nat]
Pieces(s, first) == {s.positions[j] : j \in first .. Len(s.positions)}

\* A snake in one piece, of which the pieces from the given one on are in the grid and distinct.
Sound(s, first) ==
    /\ s \in Snakes
    /\ Len(s.positions) = INITIAL_SNAKE_LENGTH + s.score
    /\ \A j \in first .. Len(s.positions) : s.positions[j] \in Grid
    /\ \A j, k \in first .. Len(s.positions) : s.positions[j] = s.positions[k] => j = k
    /\ \A j \in 2 .. Len(s.positions) :
          <<s.positions[j - 1][1] - s.positions[j][1],
            s.positions[j - 1][2] - s.positions[j][2]>> \in Directions

\* In the middle of a round the head of a snake that has moved may be anywhere.
Checked(p, m) == IF p < m THEN 2 ELSE 1
Board(ss, f, m) ==
    /\ ss \in Seq(Snakes) /\ Len(ss) \in {1, 2}
    /\ f \in Free(ss)
    /\ \A p \in DOMAIN ss : Sound(ss[p], Checked(p, m))
    /\ \A p, q \in DOMAIN ss :
          p # q => Pieces(ss[p], Checked(p, m)) \cap Pieces(ss[q], Checked(q, m)) = {}

SnakeInv ==
    /\ game = "key" => Board(snakes, food, 1)
    /\ game = "move" => mover \in 1 .. Len(snakes) + 1 /\ Board(snakes, food, mover)

LEMMA BoardNumbers ==
    /\ GRID_SIZE \in Nat \ {0} /\ INITIAL_SNAKE_LENGTH \in Nat /\ INITIAL_SNAKE_LENGTH >= 2
    /\ Grid \subseteq Cell
    /\ \A d \in Directions : d \in Cell
    BY GridAssumption DEF Grid, Cell, Directions

\* A cell next to another one, in a direction.
LEMMA StepAway ==
    ASSUME NEW c \in Cell, NEW d \in Directions
    PROVE  /\ <<c[1] + d[1], c[2] + d[2]>> \in Cell
           /\ <<<<c[1] + d[1], c[2] + d[2]>>[1] - c[1], <<c[1] + d[1], c[2] + d[2]>>[2] - c[2]>> = d
<1>1. c[1] \in Int /\ c[2] \in Int /\ d[1] \in Int /\ d[2] \in Int /\ d = <<d[1], d[2]>>
    BY DEF Cell, Directions
<1>2. (c[1] + d[1]) - c[1] = d[1] /\ (c[2] + d[2]) - c[2] = d[2]
    BY <1>1
<1>3. QED
    BY <1>1, <1>2 DEF Cell

\* A snake after one step: its head is next to where it was, and the rest is where it has been.
LEMMA MovedSound ==
    ASSUME NEW s, Sound(s, 1)
    PROVE  /\ Sound(Moved(s), 2) /\ Pieces(Moved(s), 2) \subseteq Body(s)
           /\ Moved(s).positions[1] \in Cell
           /\ \A j \in 2 .. Len(s.positions) : Moved(s).positions[j] = s.positions[j - 1]
           /\ Len(Moved(s).positions) = Len(s.positions)
<1> DEFINE P == s.positions
           L == Len(P)
           d == s.direction
           h == <<P[1][1] + d[1], P[1][2] + d[2]>>
           Q == [j \in 1 .. L |-> IF j > 1 THEN P[j - 1] ELSE h]
           m == Moved(s)
<1>1. /\ P \in Seq(Cell) /\ d \in Directions /\ s.score \in Nat /\ L \in Nat /\ L >= 2
      /\ L = INITIAL_SNAKE_LENGTH + s.score /\ DOMAIN P = 1 .. L /\ P[1] \in Cell
    BY BoardNumbers DEF Sound, Snakes
<1>2. m = [s EXCEPT !.positions = Q]
    BY <1>1 DEF Moved
<1>3. h \in Cell /\ <<h[1] - P[1][1], h[2] - P[1][2]>> = d
    BY <1>1, StepAway
<1>4. Q \in Seq(Cell) /\ Len(Q) = L /\ Q[1] = h /\ \A j \in 2 .. L : Q[j] = P[j - 1]
    <2>1. \A j \in 1 .. L : Q[j] \in Cell
        BY <1>1, <1>3
    <2>2. Q[1] = h /\ \A j \in 2 .. L : Q[j] = P[j - 1]
        BY <1>1
    <2> HIDE DEF h, P
    <2>3. Q \in Seq(Cell) /\ Len(Q) = L
        <3>1. Q \in [1 .. L -> Cell] /\ L \in Nat
            BY <1>1, <2>1
        <3> HIDE DEF Q, L
        <3>2. QED
            BY <3>1
    <2>4. QED
        BY <2>2, <2>3
<1>5. m \in Snakes /\ m.positions = Q /\ m.score = s.score /\ m.direction = d
    BY <1>1, <1>2, <1>4 DEF Sound, Snakes
<1>6. /\ \A j \in 1 .. L : P[j] \in Grid
      /\ \A j, k \in 1 .. L : P[j] = P[k] => j = k
      /\ \A j \in 2 .. L : <<P[j - 1][1] - P[j][1], P[j - 1][2] - P[j][2]>> \in Directions
    BY DEF Sound
<1> HIDE DEF P, L, d, h, Q, m
<1>7. \A j \in 2 .. L : j - 1 \in 1 .. L
    BY <1>1
<1>8. \A j \in 2 .. L : Q[j] \in Grid
    BY <1>4, <1>6, <1>7
<1>9. \A j, k \in 2 .. L : Q[j] = Q[k] => j = k
    <2> SUFFICES ASSUME NEW j \in 2 .. L, NEW k \in 2 .. L, Q[j] = Q[k] PROVE j = k
        OBVIOUS
    <2>1. j - 1 = k - 1
        BY ZenonT(60), <1>4, <1>6, <1>7
    <2>2. QED
        BY <1>1, <2>1
<1>10. ASSUME NEW j \in 2 .. L
       PROVE <<Q[j - 1][1] - Q[j][1], Q[j - 1][2] - Q[j][2]>> \in Directions
    <2>1. CASE j = 2
        <3>1. Q[j - 1] = h /\ Q[j] = P[1]
            BY <2>1, <1>1, <1>4
        <3>2. QED
            BY <3>1, <1>1, <1>3
    <2>2. CASE j # 2
        <3>1. j - 1 \in 2 .. L
            BY <2>2, <1>1
        <3>2. Q[j - 1] = P[(j - 1) - 1] /\ Q[j] = P[j - 1]
            BY <3>1, <1>4
        <3>3. QED
            BY <3>1, <3>2, <1>6
    <2>3. QED
        BY <2>1, <2>2
<1>11. Sound(m, 2)
    BY <1>1, <1>4, <1>5, <1>8, <1>9, <1>10 DEF Sound
<1>12. Pieces(m, 2) \subseteq Body(s)
    <2>1. \A j \in 2 .. L : Q[j] \in {P[k] : k \in DOMAIN P}
        BY <1>1, <1>4, <1>7
    <2>2. QED
        BY <2>1, <1>4, <1>5 DEF Pieces, Body, P
<1>13. QED
    BY <1>3, <1>4, <1>5, <1>11, <1>12 DEF m, L, P

\* A snake that eats moves once more, and its last piece stays where it is.
LEMMA FedSound ==
    ASSUME NEW s, Sound(s, 1), NEW f \in Grid, f \notin Body(s), Moved(s).positions[1] = f
    PROVE  /\ Sound(Fed(Moved(s)), 2) /\ Pieces(Fed(Moved(s)), 2) \subseteq Body(s) \cup {f}
<1> DEFINE m == Moved(s)
           M == m.positions
           L == Len(M)
           d == m.direction
           h == <<M[1][1] + d[1], M[1][2] + d[2]>>
           A == Append(M, M[L])
           R == [j \in 1 .. L + 1 |-> IF j > 1 THEN M[j - 1] ELSE h]
           r == Fed(m)
<1>1. /\ M \in Seq(Cell) /\ d \in Directions /\ m.score \in Nat /\ L \in Nat /\ L >= 2
      /\ L = INITIAL_SNAKE_LENGTH + m.score /\ DOMAIN M = 1 .. L
      /\ M[1] \in Cell /\ M[L] \in Cell /\ m \in Snakes
    BY BoardNumbers, MovedSound DEF Sound, Snakes
<1>2. /\ \A j \in 2 .. L : M[j] \in Grid /\ M[j] \in Body(s)
      /\ \A j, k \in 2 .. L : M[j] = M[k] => j = k
      /\ \A j \in 2 .. L : <<M[j - 1][1] - M[j][1], M[j - 1][2] - M[j][2]>> \in Directions
    BY MovedSound DEF Sound, Pieces
<1>3. M[1] = f /\ f \in Grid /\ f \notin Body(s)
    OBVIOUS
<1>4. \A j, k \in 1 .. L : M[j] = M[k] => j = k
    <2> HIDE DEF M
    <2>1. \A j \in 1 .. L : j = 1 \/ j \in 2 .. L
        BY <1>1
    <2>2. QED
        BY <1>2, <1>3, <2>1
<1> HIDE DEF m
<1>5. r = [m EXCEPT !.positions = R, !.score = @ + 1]
    <2>1. A \in Seq(Cell) /\ Len(A) = L + 1 /\ DOMAIN A = 1 .. L + 1
          /\ \A j \in 1 .. L : A[j] = M[j]
        BY <1>1
    <2> DEFINE g == [m EXCEPT !.positions = A]
    <2>2. g = Grown(m)
        BY DEF Grown
    <2>3. g \in Snakes /\ g.positions = A /\ g.direction = d /\ g.score = m.score
        BY <1>1, <2>1 DEF Snakes
    <2> DEFINE V == [j \in DOMAIN A |->
                        IF j > 1 THEN A[j - 1] ELSE <<A[1][1] + d[1], A[1][2] + d[2]>>]
    <2>4. Moved(g) = [g EXCEPT !.positions = V]
        <3> HIDE DEF g, A
        <3> DEFINE W == [j \in DOMAIN g.positions |->
                            IF j > 1 THEN g.positions[j - 1]
                            ELSE <<g.positions[1][1] + g.direction[1],
                                   g.positions[1][2] + g.direction[2]>>]
        <3>1. Moved(g) = [g EXCEPT !.positions = W]
            BY DEF Moved
        <3>2. W = V
            BY <2>3
        <3> HIDE DEF W, V
        <3>3. QED
            BY <3>1, <3>2
    <2>5. V = R
        <3>1. \A j \in 1 .. L + 1 : j > 1 => A[j - 1] = M[j - 1]
            BY <1>1, <2>1
        <3>2. A[1] = M[1]
            BY <1>1, <2>1
        <3> HIDE DEF A
        <3>3. QED
            BY <2>1, <3>1, <3>2
    <2>6. r = [[g EXCEPT !.positions = V] EXCEPT !.score = @ + 1]
        BY <2>2, <2>4 DEF Fed
    <2> HIDE DEF V, A, R
    <2>7. QED
        BY <1>1, <2>3, <2>5, <2>6 DEF Snakes
<1>6. h \in Cell /\ <<h[1] - M[1][1], h[2] - M[1][2]>> = d
    BY <1>1, StepAway
<1>7. R \in Seq(Cell) /\ Len(R) = L + 1 /\ R[1] = h /\ \A j \in 2 .. L + 1 : R[j] = M[j - 1]
    <2>1. \A j \in 1 .. L + 1 : R[j] \in Cell
        BY <1>1, <1>6
    <2>2. R[1] = h /\ \A j \in 2 .. L + 1 : R[j] = M[j - 1]
        BY <1>1
    <2> HIDE DEF h, M
    <2>3. R \in Seq(Cell) /\ Len(R) = L + 1
        <3> HIDE DEF L
        <3>1. DOMAIN R = 1 .. L + 1 /\ R = [j \in 1 .. L + 1 |-> R[j]] /\ L + 1 \in Nat
            BY <1>1
        <3> HIDE DEF R
        <3>2. R \in [1 .. L + 1 -> Cell]
            BY <2>1, <3>1
        <3>3. QED
            BY <3>1, <3>2
    <2>4. QED
        BY <2>2, <2>3
<1>8. r \in Snakes /\ r.positions = R /\ r.score = m.score + 1
    <2> HIDE DEF R, r
    <2>1. R \in Seq(Cell) /\ m \in Snakes /\ m.score + 1 \in Nat
        BY <1>1, <1>7
    <2>2. r.positions = R /\ r.score = m.score + 1 /\ r.direction = m.direction
        BY <1>5, <2>1 DEF Snakes
    <2>3. QED
        BY <1>5, <2>1 DEF Snakes
<1> HIDE DEF M, L, d, h, A, R, r
<1>9. \A j \in 2 .. L + 1 : j - 1 \in 1 .. L /\ (j - 1 = 1 \/ j - 1 \in 2 .. L)
    BY <1>1
<1>10. \A j \in 2 .. L + 1 : R[j] \in Grid /\ R[j] \in Body(s) \cup {f}
    BY <1>2, <1>3, <1>7, <1>9
<1>11. \A j, k \in 2 .. L + 1 : R[j] = R[k] => j = k
    <2> SUFFICES ASSUME NEW j \in 2 .. L + 1, NEW k \in 2 .. L + 1, R[j] = R[k] PROVE j = k
        OBVIOUS
    <2>1. j - 1 = k - 1
        BY <1>4, <1>7, <1>9
    <2>2. QED
        BY <1>1, <2>1
<1>12. ASSUME NEW j \in 2 .. L + 1
       PROVE <<R[j - 1][1] - R[j][1], R[j - 1][2] - R[j][2]>> \in Directions
    <2>1. CASE j = 2
        <3>1. R[j - 1] = h /\ R[j] = M[1]
            BY <2>1, <1>1, <1>7
        <3>2. QED
            BY <3>1, <1>1, <1>6
    <2>2. CASE j # 2
        <3>1. j - 1 \in 2 .. L
            BY <2>2, <1>1
        <3>2. R[j - 1] = M[(j - 1) - 1] /\ R[j] = M[j - 1]
            <4>1. j - 1 \in 2 .. L + 1
                BY <3>1, <1>1
            <4>2. QED
                BY <4>1, <1>7
        <3>3. QED
            BY <3>1, <3>2, <1>2
    <2>3. QED
        BY <2>1, <2>2
<1>13. Len(r.positions) = L + 1 /\ L + 1 = INITIAL_SNAKE_LENGTH + r.score
    BY <1>1, <1>7, <1>8, BoardNumbers
<1>14. Sound(r, 2)
    BY <1>8, <1>10, <1>11, <1>12, <1>13 DEF Sound
<1>15. Pieces(r, 2) \subseteq Body(s) \cup {f}
    BY <1>8, <1>10, <1>13 DEF Pieces
<1>16. QED
    BY <1>14, <1>15 DEF r, m

LEMMA BodyPieces ==
    ASSUME NEW s, Sound(s, 2) \/ Sound(s, 1)
    PROVE  /\ Body(s) = Pieces(s, 1) /\ Len(s.positions) \in Nat /\ Len(s.positions) >= 2
           /\ Pieces(s, 1) = {s.positions[1]} \cup Pieces(s, 2)
<1>1. s.positions \in Seq(Cell) /\ Len(s.positions) \in Nat /\ Len(s.positions) >= 2
      /\ DOMAIN s.positions = 1 .. Len(s.positions)
    BY BoardNumbers DEF Sound, Snakes
<1>2. 1 .. Len(s.positions) = {1} \cup 2 .. Len(s.positions)
    BY <1>1
<1>3. QED
    BY <1>1, <1>2 DEF Body, Pieces

\* The board at the start of a game.
LEMMA NewSound ==
    ASSUME NEW o \in {-(INITIAL_SPACING \div 2), INITIAL_SPACING \div 2}
    PROVE  /\ Sound(NewSnake(o), 1)
           /\ \A c \in Pieces(NewSnake(o), 1) : c[2] = GRID_SIZE \div 2 - o
<1> DEFINE s == NewSnake(o)
           x(j) == GRID_SIZE \div 2 - (j - 1)
           y == GRID_SIZE \div 2 - o
           P == [j \in 1 .. INITIAL_SNAKE_LENGTH |-> <<x(j), y>>]
           L == INITIAL_SNAKE_LENGTH
<1>1. L \in Nat /\ L >= 2 /\ L - 1 <= GRID_SIZE \div 2 /\ GRID_SIZE \in Nat \ {0}
    BY GridAssumption
<1>2. y \in 0 .. GRID_SIZE - 1
    BY GridAssumption
<1>3. \A j \in 1 .. L : x(j) \in 0 .. GRID_SIZE - 1
    BY <1>1
<1> HIDE DEF y
<1>4. \A j \in 1 .. L : P[j] = <<x(j), y>> /\ P[j] \in Grid
    BY <1>2, <1>3 DEF Grid
<1>5. P \in Seq(Cell) /\ Len(P) = L
    <2>1. P \in [1 .. L -> Cell]
        BY <1>4, BoardNumbers
    <2> HIDE DEF P
    <2>2. QED
        BY <1>1, <2>1
<1>6. s.positions = P /\ s \in Snakes /\ s.score = 0
    <2>1. s = [positions |-> P, direction |-> <<1, 0>>, score |-> 0]
        BY DEF NewSnake, y
    <2> HIDE DEF P, s
    <2>2. QED
        BY <1>5, <2>1 DEF Snakes, Directions
<1> HIDE DEF P, s
<1>7. \A j, k \in 1 .. L : P[j] = P[k] => j = k
    <2> SUFFICES ASSUME NEW j \in 1 .. L, NEW k \in 1 .. L, P[j] = P[k] PROVE j = k
        OBVIOUS
    <2>1. x(j) = x(k)
        BY <1>4
    <2>2. QED
        BY <1>1, <2>1
<1>8. ASSUME NEW j \in 2 .. L
      PROVE  <<P[j - 1][1] - P[j][1], P[j - 1][2] - P[j][2]>> \in Directions
    <2>1. j - 1 \in 1 .. L /\ j \in 1 .. L
        BY <1>1
    <2>2. P[j - 1][1] = x(j - 1) /\ P[j][1] = x(j) /\ P[j - 1][2] = y /\ P[j][2] = y
        BY <1>4, <2>1
    <2>3. x(j - 1) - x(j) = 1 /\ y - y = 0
        BY <1>1, <1>2
    <2>4. QED
        BY <2>2, <2>3 DEF Directions
<1>9. Sound(s, 1)
    BY SMTT(40), <1>1, <1>4, <1>5, <1>6, <1>7, <1>8 DEF Sound
<1>10. \A c \in Pieces(s, 1) : c[2] = y
    BY <1>4, <1>5, <1>6 DEF Pieces
<1>11. QED
    BY <1>9, <1>10 DEF s, y

LEMMA StartBoard ==
    ASSUME NEW ss \in NewSnakes, NEW f \in Free(ss)
    PROVE  Board(ss, f, 1)
<1> DEFINE h == INITIAL_SPACING \div 2
           a == NewSnake(-h)
           b == NewSnake(h)
<1>1. h \in Nat \ {0}
    BY GridAssumption
<1>2. /\ Sound(a, 1) /\ Sound(b, 1)
      /\ \A c \in Pieces(a, 1) : c[2] = GRID_SIZE \div 2 - (-h)
      /\ \A c \in Pieces(b, 1) : c[2] = GRID_SIZE \div 2 - h
    BY NewSound
<1>3. GRID_SIZE \div 2 - (-h) # GRID_SIZE \div 2 - h
    BY <1>1, GridAssumption
<1>4. Pieces(a, 1) \cap Pieces(b, 1) = {}
    BY <1>2, <1>3
<1>5. ss = <<a>> \/ ss = <<a, b>>
    BY DEF NewSnakes
<1>6. a \in Snakes /\ b \in Snakes
    BY <1>2 DEF Sound
<1> HIDE DEF a, b
<1>7. CASE ss = <<a>>
    BY <1>2, <1>6, <1>7 DEF Board, Checked
<1>8. CASE ss = <<a, b>>
    BY <1>2, <1>4, <1>6, <1>8 DEF Board, Checked
<1>9. QED
    BY <1>5, <1>7, <1>8

LEMMA TurnedSound ==
    ASSUME NEW s, Sound(s, 1), NEW d \in Directions
    PROVE  Sound(Turned(s, d), 1) /\ Turned(s, d).positions = s.positions
<1> DEFINE t == [s EXCEPT !.direction = d]
<1>1. s \in Snakes
    BY DEF Sound
<1>2. t \in Snakes /\ t.positions = s.positions /\ t.score = s.score
    BY <1>1 DEF Snakes
<1> HIDE DEF t
<1>3. Sound(t, 1)
    BY <1>2 DEF Sound
<1>4. Turned(s, d) = s \/ Turned(s, d) = t
    BY DEF Turned, t
<1>5. QED
    BY <1>2, <1>3, <1>4

\* One snake of the board is replaced.
LEMMA Replaced ==
    ASSUME NEW ss, NEW f, NEW m, NEW n, Board(ss, f, m), NEW p \in DOMAIN ss, NEW t,
           m \in Int, n \in {m, m + 1}, n = m + 1 => p = m,
           Sound(t, Checked(p, n)), Pieces(t, Checked(p, n)) \subseteq Body(ss[p]) \cup {f},
           Checked(p, m) = 1,
           NEW g \in Free([ss EXCEPT ![p] = t])
    PROVE  Board([ss EXCEPT ![p] = t], g, n)
<1> DEFINE u == [ss EXCEPT ![p] = t]
<1>1. /\ ss \in Seq(Snakes) /\ Len(ss) \in {1, 2} /\ DOMAIN ss = 1 .. Len(ss)
      /\ t \in Snakes
    BY DEF Board, Sound
<1>2. /\ u \in Seq(Snakes) /\ Len(u) = Len(ss) /\ DOMAIN u = DOMAIN ss
      /\ u[p] = t /\ \A q \in DOMAIN ss : q # p => u[q] = ss[q]
    BY <1>1
<1> HIDE DEF u
<1>3. \A q \in DOMAIN ss : q # p => Checked(q, n) = Checked(q, m)
    BY <1>1 DEF Checked
<1>4. \A q \in DOMAIN ss : Sound(ss[q], Checked(q, m)) /\ f \notin Body(ss[q])
    BY DEF Board, Free
<1>5. ASSUME NEW q \in DOMAIN ss, q # p
      PROVE  Pieces(t, Checked(p, n)) \cap Pieces(ss[q], Checked(q, m)) = {}
    <2>1. Pieces(ss[p], 1) \cap Pieces(ss[q], Checked(q, m)) = {}
        BY <1>5 DEF Board
    <2>2. Body(ss[p]) = Pieces(ss[p], 1)
        BY <1>4, BodyPieces
    <2>3. Pieces(ss[q], Checked(q, m)) \subseteq Body(ss[q])
        BY <1>4, BodyPieces DEF Checked
    <2>4. QED
        BY <1>4, <2>1, <2>2, <2>3
<1>6. \A q \in DOMAIN u : Sound(u[q], Checked(q, n))
    BY <1>2, <1>3, <1>4
<1>7. \A q, r \in DOMAIN u :
          q # r => Pieces(u[q], Checked(q, n)) \cap Pieces(u[r], Checked(r, n)) = {}
    <2> SUFFICES ASSUME NEW q \in DOMAIN ss, NEW r \in DOMAIN ss, q # r
                 PROVE  Pieces(u[q], Checked(q, n)) \cap Pieces(u[r], Checked(r, n)) = {}
        BY <1>2
    <2>1. CASE q = p
        BY <2>1, <1>2, <1>3, <1>5
    <2>2. CASE r = p
        BY <2>2, <1>2, <1>3, <1>5
    <2>3. CASE q # p /\ r # p
        BY <2>3, <1>2, <1>3 DEF Board
    <2>4. QED
        BY <2>1, <2>2, <2>3
<1>8. QED
    BY <1>1, <1>2, <1>6, <1>7 DEF Board, u

LEMMA KeyKeeps ==
    ASSUME SnakeInv, HandleKey PROVE Board(snakes', food', 1)
<1>1. Board(snakes, food, 1)
    BY DEF SnakeInv, HandleKey
<1>2. CASE UNCHANGED snakes
    BY <1>1, <1>2 DEF HandleKey
<1>3. ASSUME NEW p \in DOMAIN snakes, NEW d \in Directions,
             snakes' = [snakes EXCEPT ![p] = Turned(@, d)]
      PROVE  Board(snakes', food', 1)
    <2> DEFINE t == Turned(snakes[p], d)
    <2>1. p \in Nat \ {0} /\ Checked(p, 1) = 1 /\ Sound(snakes[p], 1) /\ food' = food
        BY <1>1 DEF Board, Checked, HandleKey
    <2>2. Sound(t, 1) /\ t.positions = snakes[p].positions
        BY <2>1, TurnedSound
    <2> HIDE DEF t
    <2>3. Body(t) = Body(snakes[p]) /\ Pieces(t, 1) \subseteq Body(snakes[p])
        BY <2>1, <2>2, BodyPieces DEF Body
    <2> DEFINE u == [snakes EXCEPT ![p] = t]
    <2>4. snakes' = u
        BY <1>3 DEF t
    <2>5. \A q \in DOMAIN snakes : Body(u[q]) = Body(snakes[q])
        BY <2>3
    <2>6. food \in Free(u)
        BY <1>1, <2>5 DEF Board, Free
    <2>7. Board(u, food, 1)
        BY <1>1, <2>1, <2>2, <2>3, <2>6, Replaced
    <2>8. QED
        BY <2>1, <2>4, <2>7
<1>4. QED
    BY <1>2, <1>3 DEF HandleKey

LEMMA MoveKeeps ==
    ASSUME SnakeInv, MoveSnake, game' = "move"
    PROVE  mover' \in 1 .. Len(snakes') + 1 /\ Board(snakes', food', mover')
<1>1. /\ Board(snakes, food, mover) /\ mover \in 1 .. Len(snakes) /\ mover' = mover + 1
      /\ DOMAIN snakes = 1 .. Len(snakes) /\ Len(snakes) \in Nat
    BY DEF SnakeInv, MoveSnake, Board
<1> DEFINE s == snakes[mover]
           m == Moved(s)
<1>2. Checked(mover, mover) = 1 /\ Checked(mover, mover + 1) = 2 /\ Sound(s, 1)
    BY <1>1 DEF Board, Checked
<1>3. food \in Grid /\ food \notin Body(s) /\ \A p \in DOMAIN snakes : food \notin Body(snakes[p])
    BY <1>1 DEF Board, Free
<1>4. Sound(m, 2) /\ Pieces(m, 2) \subseteq Body(s)
    BY <1>2, MovedSound
<1>5. ASSUME m.positions[1] = food
      PROVE  Board(snakes', food', mover + 1) /\ Len(snakes') = Len(snakes)
    <2> DEFINE t == Fed(m)
               u == [snakes EXCEPT ![mover] = t]
    <2>1. Sound(t, 2) /\ Pieces(t, 2) \subseteq Body(s) \cup {food}
        BY <1>2, <1>3, <1>5, FedSound
    <2>2. snakes' = u /\ PlaceFood(u, "move")
        BY <1>5 DEF MoveSnake
    <2>3. food' \in Free(u)
        BY <2>2 DEF PlaceFood
    <2> HIDE DEF t
    <2>4. Board(u, food', mover + 1)
        <3>1. /\ mover \in DOMAIN snakes /\ mover \in Int /\ Checked(mover, mover) = 1
              /\ Sound(t, Checked(mover, mover + 1))
              /\ Pieces(t, Checked(mover, mover + 1)) \subseteq Body(s) \cup {food}
            BY <1>1, <1>2, <2>1
        <3> HIDE DEF m
        <3>2. QED
            BY <1>1, <2>3, <3>1, Replaced
    <2>5. Len(u) = Len(snakes)
        BY <1>1, <2>1 DEF Board, Sound
    <2>6. QED
        BY <2>2, <2>4, <2>5
<1>6. ASSUME m.positions[1] # food
      PROVE  Board(snakes', food', mover + 1) /\ Len(snakes') = Len(snakes)
    <2> DEFINE u == [snakes EXCEPT ![mover] = m]
    <2>1. snakes' = u /\ food' = food
        BY <1>6 DEF MoveSnake
    <2> HIDE DEF m
    <2>2. food \notin Body(m)
        BY <1>3, <1>4, <1>6, BodyPieces
    <2>3. food \in Free(u)
        BY <1>1, <1>3, <2>2 DEF Free
    <2>4. Board(u, food, mover + 1)
        <3>1. /\ mover \in DOMAIN snakes /\ mover \in Int /\ Checked(mover, mover) = 1
              /\ Sound(m, Checked(mover, mover + 1))
              /\ Pieces(m, Checked(mover, mover + 1)) \subseteq Body(s) \cup {food}
            BY <1>1, <1>2, <1>4
        <3>2. QED
            BY <1>1, <2>3, <3>1, Replaced
    <2>5. Len(u) = Len(snakes)
        BY <1>1, <1>4 DEF Board, Sound
    <2>6. QED
        BY <2>1, <2>4, <2>5
<1>7. QED
    BY <1>1, <1>5, <1>6

\* What the check of the heads adds at the end of a round.
LEMMA CheckFinds ==
    ASSUME NEW ss, NEW f, Board(ss, f, Len(ss) + 1), checkCollisions(ss) = 0
    PROVE  Board(ss, f, 1)
<1>1. ss \in Seq(Snakes) /\ Len(ss) \in {1, 2} /\ DOMAIN ss = 1 .. Len(ss)
    BY DEF Board
<1>2. \A p \in DOMAIN ss : Checked(p, Len(ss) + 1) = 2 /\ Checked(p, 1) = 1
    BY <1>1 DEF Checked
<1>3. \A p \in DOMAIN ss : Sound(ss[p], 2)
    BY <1>2 DEF Board
<1>4. \A p \in DOMAIN ss : ~checkCollisionForSnake(ss[p])
    BY <1>1 DEF checkCollisions
<1>5. \A p, q \in DOMAIN ss : p # q => ~checkInterSnakeCollision(ss[p], ss[q])
    BY <1>1 DEF checkCollisions
<1>6. ASSUME NEW p \in DOMAIN ss PROVE Sound(ss[p], 1)
    <2> DEFINE P == ss[p].positions
    <2>1. P[1] \in Grid /\ \A j \in 2 .. Len(P) : P[j] # P[1]
        BY <1>4 DEF checkCollisionForSnake
    <2>2. Len(P) \in Nat /\ \A j \in 1 .. Len(P) : j = 1 \/ j \in 2 .. Len(P)
        BY <1>3, BodyPieces
    <2>3. \A j, k \in 2 .. Len(P) : P[j] = P[k] => j = k
        BY <1>3 DEF Sound
    <2>4. \A j, k \in 1 .. Len(P) : P[j] = P[k] => j = k
        BY <2>1, <2>2, <2>3
    <2>5. \A j \in 1 .. Len(P) : P[j] \in Grid
        BY <1>3, <2>1, <2>2 DEF Sound
    <2>6. QED
        BY <1>3, <2>4, <2>5 DEF Sound
<1>7. ASSUME NEW p \in DOMAIN ss, NEW q \in DOMAIN ss, p # q
      PROVE  Pieces(ss[p], 1) \cap Pieces(ss[q], 1) = {}
    <2>1. Pieces(ss[p], 2) \cap Pieces(ss[q], 2) = {}
        BY <1>2, <1>7 DEF Board
    <2>2. /\ Pieces(ss[p], 1) = {ss[p].positions[1]} \cup Pieces(ss[p], 2)
          /\ Pieces(ss[q], 1) = {ss[q].positions[1]} \cup Pieces(ss[q], 2)
          /\ Body(ss[p]) = Pieces(ss[p], 1) /\ Body(ss[q]) = Pieces(ss[q], 1)
        BY <1>3, BodyPieces
    <2>3. ss[p].positions[1] \notin Body(ss[q]) /\ ss[q].positions[1] \notin Body(ss[p])
        BY <1>5, <1>7 DEF checkInterSnakeCollision
    <2>4. QED
        BY <2>1, <2>2, <2>3
<1>8. QED
    BY <1>1, <1>2, <1>6, <1>7 DEF Board

LEMMA SnakeInitial == SnakeInit => SnakeInv
    BY DEF SnakeInit, SnakeInv

LEMMA SnakeStep == SnakeInv /\ [SnakeNext]_snakeVars => SnakeInv'
<1> SUFFICES ASSUME SnakeInv, [SnakeNext]_snakeVars PROVE SnakeInv'
    OBVIOUS
<1>1. CASE StartGame
    <2>1. game' # "move"
        BY <1>1 DEF StartGame, PlaceFood
    <2>2. ASSUME game' = "key" PROVE Board(snakes', food', 1)
        <3>1. snakes' \in NewSnakes /\ food' \in Free(snakes')
            BY <1>1, <2>2 DEF StartGame, PlaceFood
        <3>2. QED
            BY <3>1, StartBoard
    <2>3. QED
        BY <2>1, <2>2 DEF SnakeInv
<1>2. CASE HandleKey
    <2>1. Board(snakes', food', 1)
        BY <1>2, KeyKeeps
    <2>2. game' = "move" /\ mover' = 1
        BY <1>2 DEF HandleKey
    <2>3. Len(snakes') \in {1, 2}
        BY <2>1 DEF Board
    <2>4. QED
        BY <2>1, <2>2, <2>3 DEF SnakeInv
<1>3. CASE MoveSnake
    <2>1. game' # "key"
        BY <1>3 DEF MoveSnake, PlaceFood
    <2>2. QED
        BY <1>3, <2>1, MoveKeeps DEF SnakeInv
<1>4. CASE CheckCollisions
    <2>1. game' # "move"
        BY <1>4 DEF CheckCollisions
    <2>2. ASSUME game' = "key" PROVE Board(snakes, food, 1)
        <3>1. checkCollisions(snakes) = 0
            BY <1>4, <2>2 DEF CheckCollisions
        <3>2. mover = Len(snakes) + 1 /\ Board(snakes, food, mover)
            <4>1. /\ Board(snakes, food, mover)
                  /\ mover \in 1 .. Len(snakes) + 1 /\ mover > Len(snakes)
                BY <1>4 DEF CheckCollisions, SnakeInv
            <4>2. Len(snakes) \in {1, 2}
                BY <4>1 DEF Board
            <4>3. QED
                BY <4>1, <4>2
        <3>3. QED
            BY <3>1, <3>2, CheckFinds
    <2>3. QED
        BY <1>4, <2>1, <2>2 DEF SnakeInv, CheckCollisions
<1>5. CASE Replay
    BY <1>5 DEF Replay, SnakeInv
<1>6. CASE UNCHANGED snakeVars
    BY <1>6 DEF SnakeInv, snakeVars
<1>7. QED
    BY <1>1, <1>2, <1>3, <1>4, <1>5, <1>6 DEF SnakeNext

\* When the next key is awaited both snakes are whole, in the grid, apart from each other and off
\* the food, though updateSnake moves one that eats twice and only its last head is checked.
THEOREM BoardIsAlwaysSound == SnakeSpec => []BoardIsSound
<1>1. SnakeInv => BoardIsSound
    <2> SUFFICES ASSUME SnakeInv, game = "key" PROVE BoardIsSound
        BY DEF BoardIsSound
    <2>1. Board(snakes, food, 1) /\ \A p \in DOMAIN snakes : Checked(p, 1) = 1
        <3>1. Board(snakes, food, 1)
            BY DEF SnakeInv
        <3>2. \A p \in DOMAIN snakes : p \in Nat \ {0}
            BY <3>1 DEF Board
        <3>3. QED
            BY <3>1, <3>2 DEF Checked
    <2>2. \A p \in DOMAIN snakes : Sound(snakes[p], 1) /\ Body(snakes[p]) = Pieces(snakes[p], 1)
        BY <2>1, BodyPieces DEF Board
    <2>3. \A p, q \in DOMAIN snakes : p # q => Body(snakes[p]) \cap Body(snakes[q]) = {}
        BY <2>1, <2>2 DEF Board
    <2>4. \A p \in DOMAIN snakes : DOMAIN snakes[p].positions = 1 .. Len(snakes[p].positions)
        BY <2>2 DEF Sound, Snakes
    <2>5. QED
        BY <2>1, <2>2, <2>3, <2>4 DEF BoardIsSound, Sound, Board
<1>2. QED
    BY <1>1, SnakeInitial, SnakeStep, PTL DEF SnakeSpec

----------------------------------------------------------------------------
(***************************************************************************)
(* KernelTests.  Init, the shell and the test hold their slots for good,   *)
(* every process is a child of one of them and nobody waits for anybody,   *)
(* so a kill takes one slot and touches nothing else.                      *)
(***************************************************************************)
Lasting == {INIT_PID, SHELL_PID, TEST_PID}
Takable == Pid \ Lasting

TableSound(t) ==
    /\ t \in Table
    /\ \A p \in Lasting : t[p] # NULL
    /\ t[INIT_PID].unkillable /\ t[SHELL_PID].unkillable
    /\ t[TEST_PID].parent_pid = SHELL_PID
    /\ \A p \in Pid : t[p] # NULL =>
           /\ t[p].parent_pid \in Lasting \cup {NO_PID}
           /\ t[p].waiting_for_pid = INIT_PID
           /\ t[p].parent_pid = TEST_PID => ~t[p].unkillable

TestStages == {"create", "act", "unblock", "round", "nice", "block", "niceBlocked", "kill", "ended"}
Record == [pid : Takable, state : {"RUNNING", "BLOCKED", "TERMINATED"}]

LoopsOK ==
    /\ test \in {"ts", "tp"} /\ count \in Nat \ {0} /\ rq \in 1 .. count
    /\ stage \in TestStages /\ meddled \in BOOLEAN
    /\ p_rqs \in IF test = "ts" THEN Seq(Record) ELSE Seq(Takable \cup {ERROR_PID})
    /\ stage = "create" => Len(p_rqs) = rq - 1
    /\ stage \notin {"create", "ended"} => Len(p_rqs) = count
    /\ stage = "round" => rq = 1

\* What ts has on record of its processes, as long as nobody meddles with them.
RecordOK ==
    /\ reported \in {"none", "create"}
    /\ \A k \in DOMAIN p_rqs : Agrees(k)
    /\ \A j, k \in Alive : p_rqs[j].pid = p_rqs[k].pid => j = k
    /\ \A pid \in Pid : OfTest(pid) => \E k \in Alive : p_rqs[k].pid = pid
    /\ stage = "create" => \A k \in DOMAIN p_rqs : p_rqs[k].state = "RUNNING"

\* The processes tp has not yet killed are behind the index of its loop.
LeftOK ==
    /\ reported = "none"
    /\ \A pid \in Pid : OfTest(pid) =>
           /\ stage # "ended"
           /\ \E k \in DOMAIN p_rqs : p_rqs[k] = pid /\ (stage = "kill" => rq <= k)

TestInv ==
    /\ TableSound(table)
    /\ LoopsOK
    /\ ~meddled /\ test = "ts" => RecordOK
    /\ ~meddled /\ test = "tp" => LeftOK

----------------------------------------------------------------------------
\* The slots of the three are slots, and a record of theirs is one the table may hold.
LEMMA KeptSlots ==
    /\ Lasting \subseteq Pid /\ NO_PID \notin Pid /\ ERROR_PID \notin Pid
    /\ INIT_PID \notin Takable /\ SHELL_PID # TEST_PID /\ INIT_PID # TEST_PID
    /\ TEST_PID # NO_PID /\ SHELL_PID # NO_PID
BY TestAssumption, MaxProcessesAssumption
   DEF Lasting, Takable, Pid, INIT_PID, SHELL_PID, TEST_PID, NO_PID, ERROR_PID

LEMMA NewIsProcess ==
    ASSUME NEW parent \in Lasting \cup {NO_PID}, NEW unkillable \in BOOLEAN,
           NEW label \in {"start", "user"}
    PROVE  NewProcess(parent, unkillable, label) \in Process
<1>1. parent \in Pid \cup {NO_PID} /\ 0 \in Pid \cup {NO_PID}
    BY KeptSlots, MaxProcessesAssumption DEF Pid
<1>2. MIN_PRIORITY \in Priorities /\ MIN_PRIORITY \in 0 .. MAX_PRIORITY
    BY MaxPriorityAssumption DEF Priorities, MIN_PRIORITY
<1>3. At(label) \in Context
    BY DEF At, Context, Labels
<1> QED
    BY <1>1, <1>2, <1>3 DEF NewProcess, Process, Statuses

\* A child of the shell or of the test in an empty slot.
LEMMA StartSound ==
    ASSUME NEW t, TableSound(t), NEW parent \in {SHELL_PID, TEST_PID},
           PidOfNew(t) # ERROR_PID
    PROVE  /\ PidOfNew(t) \in Takable /\ t[PidOfNew(t)] = NULL
           /\ Started(t, parent) = [t EXCEPT ![PidOfNew(t)] = NewProcess(parent, FALSE, "user")]
           /\ TableSound(Started(t, parent))
<1>1. FirstFree(t) # {}
    BY DEF PidOfNew
<1> DEFINE new == PidOfNew(t)
           one == NewProcess(parent, FALSE, "user")
<1>2. new \in FirstFree(t) /\ Started(t, parent) = [t EXCEPT ![new] = one]
    BY <1>1 DEF PidOfNew, Started
<1>3. new \in Takable /\ t[new] = NULL
    BY <1>2 DEF FirstFree, Takable, TableSound
<1>4. parent \in Lasting
    BY DEF Lasting
<1>5. one \in Process /\ one # NULL
    BY <1>4, NewIsProcess, NullAssumption
<1>6. /\ one.parent_pid = parent /\ one.waiting_for_pid = INIT_PID /\ ~one.unkillable
    BY DEF NewProcess, INIT_PID
<1> HIDE DEF new, one
<1>7. Started(t, parent) \in Table
    BY <1>2, <1>3, <1>5 DEF TableSound, Table, Takable
<1>8. \A p \in Pid : Started(t, parent)[p] = IF p = new THEN one ELSE t[p]
    BY <1>2, <1>3 DEF TableSound, Table, Takable
<1>9. \A p \in Lasting : p # new /\ p \in Pid
    BY <1>3, KeptSlots DEF Takable
<1>10. TableSound(Started(t, parent))
    BY <1>4, <1>5, <1>6, <1>7, <1>8, <1>9 DEF TableSound, Lasting
<1> QED
    BY <1>2, <1>3, <1>10 DEF new, one

LEMMA StartFails ==
    ASSUME NEW t, NEW parent, PidOfNew(t) = ERROR_PID
    PROVE  Started(t, parent) = t
<1>1. FirstFree(t) = {}
    <2>1. FirstFree(t) # {} => PidOfNew(t) \in Pid
        BY DEF PidOfNew, FirstFree
    <2> QED
        BY <2>1, KeptSlots
<1> QED
    BY <1>1 DEF Started

\* killProcess takes the slot of one process and leaves the rest of the table as it was.
LEMMA KillSound ==
    ASSUME NEW t, TableSound(t), NEW pid \in Takable, t[pid] # NULL
    PROVE  /\ \A p \in Pid : AfterKill(t, pid)[p] = IF p = pid THEN NULL ELSE t[p]
           /\ TableSound(AfterKill(t, pid))
<1>1. pid \in Pid /\ pid \notin Lasting /\ pid # NO_PID
    BY KeptSlots DEF Takable
<1>2. Adopted(t, pid) = [q \in Pid |-> t[q]]
    BY <1>1 DEF Adopted, TableSound
<1>3. Adopted(t, pid) = t
    BY <1>2 DEF TableSound, Table
<1>4. ParentWoken(t, pid) = t
    BY <1>1 DEF ParentWoken, TableSound, Lasting
<1>5. AfterKill(t, pid) = [q \in Pid |-> IF q = pid THEN NULL ELSE t[q]]
    BY <1>3, <1>4 DEF AfterKill, Removed
<1>6. \A p \in Pid : AfterKill(t, pid)[p] = IF p = pid THEN NULL ELSE t[p]
    BY <1>5
<1>7. AfterKill(t, pid) \in Table
    BY <1>5 DEF TableSound, Table
<1>8. \A p \in Lasting : p # pid /\ p \in Pid
    BY <1>1, KeptSlots
<1>9. TableSound(AfterKill(t, pid))
    BY <1>6, <1>7, <1>8 DEF TableSound, Lasting
<1> QED
    BY <1>6, <1>9

\* A process that has been blocked, unblocked or given a priority is the same otherwise.
SameButState(r, s) ==
    /\ r \in Process /\ s \in Process
    /\ r.parent_pid = s.parent_pid /\ r.unkillable = s.unkillable
    /\ r.waiting_for_pid = s.waiting_for_pid

LEMMA ChangeSound ==
    ASSUME NEW t, TableSound(t), NEW pid \in Pid, t[pid] # NULL, NEW r, SameButState(t[pid], r)
    PROVE  /\ \A p \in Pid : [t EXCEPT ![pid] = r][p] = IF p = pid THEN r ELSE t[p]
           /\ TableSound([t EXCEPT ![pid] = r])
<1> DEFINE u == [t EXCEPT ![pid] = r]
<1>1. \A p \in Pid : u[p] = IF p = pid THEN r ELSE t[p]
    BY DEF TableSound, Table
<1>2. u \in Table
    BY DEF TableSound, Table, SameButState
<1>3. r # NULL
    BY NullAssumption DEF SameButState
<1> HIDE DEF u
<1>4. TableSound(u)
    BY <1>1, <1>2, <1>3, KeptSlots DEF TableSound, SameButState, Lasting
<1> QED
    BY <1>1, <1>4 DEF u

LEMMA StatusSound ==
    ASSUME NEW t, TableSound(t), NEW pid \in Pid, t[pid] # NULL, NEW s \in Statuses,
           NEW u, u = [t EXCEPT ![pid].status = s]
    PROVE  /\ \A p \in Pid : /\ u[p] = NULL <=> t[p] = NULL
                             /\ u[p].parent_pid = t[p].parent_pid
                             /\ u[p].status = IF p = pid THEN s ELSE t[p].status
           /\ TableSound(u)
<1> DEFINE r == [t[pid] EXCEPT !.status = s]
<1>1. t[pid] \in Process
    BY DEF TableSound, Table
<1>2. SameButState(t[pid], r) /\ r.status = s
    BY <1>1 DEF SameButState, Process
<1>3. u = [t EXCEPT ![pid] = r]
    OBVIOUS
<1> HIDE DEF r
<1>4. /\ \A p \in Pid : u[p] = IF p = pid THEN r ELSE t[p]
      /\ TableSound(u)
    <2>1. /\ \A p \in Pid : [t EXCEPT ![pid] = r][p] = IF p = pid THEN r ELSE t[p]
          /\ TableSound([t EXCEPT ![pid] = r])
        BY <1>2, ChangeSound
    <2> QED
        BY <1>3, <2>1, Zenon
<1>5. r # NULL
    BY <1>2, NullAssumption DEF SameButState
<1> QED
    BY <1>2, <1>4, <1>5 DEF SameButState

LEMMA PrioritySound ==
    ASSUME NEW t, TableSound(t), NEW pid \in Pid, t[pid] # NULL, NEW prio \in Priorities
    PROVE  /\ \A p \in Pid : /\ Reniced(t, pid, prio)[p] = NULL <=> t[p] = NULL
                             /\ Reniced(t, pid, prio)[p].parent_pid = t[p].parent_pid
           /\ TableSound(Reniced(t, pid, prio))
<1> DEFINE r == [[t[pid] EXCEPT !.priority = prio] EXCEPT !.remaining_quantum = prio]
<1>1. t[pid] \in Process /\ t \in [Pid -> Process \cup {NULL}]
    BY DEF TableSound, Table
<1>2. prio \in 0 .. MAX_PRIORITY
    BY MaxPriorityAssumption DEF Priorities, MIN_PRIORITY
<1>3. SameButState(t[pid], r)
    BY <1>1, <1>2 DEF SameButState, Process
<1>4. Reniced(t, pid, prio) = [t EXCEPT ![pid] = r]
    BY <1>1 DEF Reniced
<1> HIDE DEF r
<1>5. /\ \A p \in Pid : Reniced(t, pid, prio)[p] = IF p = pid THEN r ELSE t[p]
      /\ TableSound(Reniced(t, pid, prio))
    <2>1. /\ \A p \in Pid : [t EXCEPT ![pid] = r][p] = IF p = pid THEN r ELSE t[p]
          /\ TableSound([t EXCEPT ![pid] = r])
        BY <1>3, ChangeSound
    <2> QED
        BY <1>4, <2>1, Zenon
<1>6. r # NULL
    BY <1>3, NullAssumption DEF SameButState
<1> QED
    BY <1>3, <1>5, <1>6 DEF SameButState

----------------------------------------------------------------------------
\* A sequence with one element replaced.
LEMMA OneReplaced ==
    ASSUME NEW S, NEW s \in Seq(S), NEW k \in DOMAIN s, NEW x \in S
    PROVE  [s EXCEPT ![k] = x] \in Seq(S) /\ Len([s EXCEPT ![k] = x]) = Len(s)
OBVIOUS

LEMMA TestInitial == TestInit => TestInv
<1> SUFFICES ASSUME TestInit PROVE TestInv
    OBVIOUS
<1>1. TableSound(table)
    <2>1. /\ NewProcess(NO_PID, TRUE, "start") \in Process
          /\ NewProcess(INIT_PID, TRUE, "start") \in Process
          /\ NewProcess(SHELL_PID, FALSE, "start") \in Process
        BY NewIsProcess DEF Lasting
    <2>2. /\ table[INIT_PID] = NewProcess(NO_PID, TRUE, "start")
          /\ table[SHELL_PID] = NewProcess(INIT_PID, TRUE, "start")
          /\ table[TEST_PID] = NewProcess(SHELL_PID, FALSE, "start")
          /\ \A p \in Pid \ Lasting : table[p] = NULL
        BY KeptSlots DEF TestInit, Lasting, INIT_PID, SHELL_PID, TEST_PID
    <2>3. table \in Table
        <3>1. table = [p \in Pid |-> table[p]]
            BY DEF TestInit
        <3>2. \A p \in Pid : table[p] \in Process \cup {NULL}
            BY <2>1, <2>2 DEF Lasting
        <3> QED
            BY <3>1, <3>2 DEF Table
    <2>4. \A parent, unkillable : LET one == NewProcess(parent, unkillable, "start")
                                 IN  /\ one.parent_pid = parent
                                     /\ one.unkillable = unkillable
                                     /\ one.waiting_for_pid = INIT_PID
        BY DEF NewProcess, INIT_PID
    <2>5. \A p \in Lasting : table[p] # NULL
        BY <2>1, <2>2, NullAssumption DEF Lasting
    <2>6. table[INIT_PID].unkillable /\ table[SHELL_PID].unkillable
          /\ table[TEST_PID].parent_pid = SHELL_PID
        BY <2>2 DEF NewProcess
    <2>7. ASSUME NEW p \in Pid, table[p] # NULL
          PROVE  /\ table[p].parent_pid \in {NO_PID, INIT_PID, SHELL_PID}
                 /\ table[p].waiting_for_pid = INIT_PID
        <3>1. p \in Lasting
            BY <2>2, <2>7
        <3>2. \E parent \in {NO_PID, INIT_PID, SHELL_PID}, unkillable \in BOOLEAN :
                  table[p] = NewProcess(parent, unkillable, "start")
            BY <2>2, <3>1 DEF Lasting
        <3> QED
            BY <2>4, <3>2
    <2>8. \A p \in {NO_PID, INIT_PID, SHELL_PID} : p # TEST_PID /\ p \in Lasting \cup {NO_PID}
        BY KeptSlots DEF Lasting
    <2> QED
        BY <2>3, <2>5, <2>6, <2>7, <2>8 DEF TableSound
<1>2. LoopsOK
    <2>1. p_rqs = <<>> /\ p_rqs \in Seq(Record) /\ p_rqs \in Seq(Takable \cup {ERROR_PID})
          /\ Len(p_rqs) = 0
        BY DEF TestInit
    <2>2. count \in Nat \ {0} /\ 1 \in 1 .. count
        BY TestAssumption DEF TestInit
    <2>3. p_rqs \in IF test = "ts" THEN Seq(Record) ELSE Seq(Takable \cup {ERROR_PID})
        BY <2>1
    <2>4. test \in {"ts", "tp"} /\ stage = "create" /\ rq = 1 /\ meddled = FALSE
        BY DEF TestInit
    <2>5. stage \in TestStages /\ meddled \in BOOLEAN
        BY <2>4 DEF TestStages
    <2> QED
        BY <2>1, <2>2, <2>3, <2>4, <2>5 DEF LoopsOK
<1>3. \A p \in Pid : ~OfTest(p)
    BY KeptSlots DEF TestInit, OfTest, NewProcess, INIT_PID, SHELL_PID, TEST_PID, NO_PID
<1>4. DOMAIN p_rqs = {} /\ Alive = {}
    BY DEF TestInit, Alive
<1> QED
    BY <1>1, <1>2, <1>3, <1>4 DEF TestInit, TestInv, RecordOK, LeftOK

\* In the loops over the processes, there is one at the index.
LEMMA Current ==
    ASSUME LoopsOK, stage \notin {"create", "ended"}
    PROVE  /\ rq \in DOMAIN p_rqs
           /\ test = "ts" => p_rqs[rq] \in Record
           /\ test = "tp" => p_rqs[rq] \in Takable \cup {ERROR_PID}
<1>1. Len(p_rqs) = count /\ rq \in 1 .. count
    BY DEF LoopsOK
<1> QED
    BY <1>1 DEF LoopsOK

\* A kill, a block, an unblock or a new priority the kernel allows leaves a sound table.
LEMMA CallsSound ==
    ASSUME TableSound(table), NEW pid \in Takable
    PROVE  /\ MayKill(table, pid) => TableSound(AfterKill(table, pid))
           /\ MayBlock(table, pid) => TableSound(Blocked(table, pid))
           /\ MayUnblock(table, pid) => TableSound(Unblocked(table, pid))
           /\ \A prio : MaySetPriority(table, pid, prio) => TableSound(Reniced(table, pid, prio))
<1>0. pid \in Pid
    BY DEF Takable
<1>1. MayKill(table, pid) => TableSound(AfterKill(table, pid))
    BY KillSound DEF MayKill
<1>2. MayBlock(table, pid) => TableSound(Blocked(table, pid))
    <2> SUFFICES ASSUME MayBlock(table, pid) PROVE TableSound(Blocked(table, pid))
        OBVIOUS
    <2>1. table[pid] # NULL /\ "BLOCKED" \in Statuses
        BY DEF MayBlock, Statuses
    <2> QED
        BY <1>0, <2>1, StatusSound DEF Blocked
<1>3. MayUnblock(table, pid) => TableSound(Unblocked(table, pid))
    <2> SUFFICES ASSUME MayUnblock(table, pid) PROVE TableSound(Unblocked(table, pid))
        OBVIOUS
    <2>1. table[pid] # NULL /\ "READY" \in Statuses
        BY DEF MayUnblock, HasStatus, Statuses
    <2>2. Unblocked(table, pid) = [table EXCEPT ![pid].status = "READY"]
        BY DEF Unblocked, MayUnblock
    <2>3. TableSound([table EXCEPT ![pid].status = "READY"])
        BY <1>0, <2>1, StatusSound
    <2> QED
        BY <2>2, <2>3, Zenon
<1>4. \A prio : MaySetPriority(table, pid, prio) => TableSound(Reniced(table, pid, prio))
    BY <1>0, PrioritySound DEF MaySetPriority
<1> QED
    BY <1>1, <1>2, <1>3, <1>4

LEMMA StartKeeps ==
    ASSUME TableSound(table), NEW parent \in {SHELL_PID, TEST_PID}
    PROVE  TableSound(Started(table, parent))
<1>1. CASE PidOfNew(table) = ERROR_PID
    BY <1>1, StartFails
<1>2. CASE PidOfNew(table) # ERROR_PID
    BY <1>2, StartSound
<1> QED
    BY <1>1, <1>2

LEMMA TableStep == TestInv /\ TestNext => TableSound(table')
<1> SUFFICES ASSUME TestInv, TestNext PROVE TableSound(table')
    OBVIOUS
<1>0. TableSound(table) /\ LoopsOK
    BY DEF TestInv
<1>1. ASSUME Create PROVE TableSound(table')
    BY <1>0, <1>1, StartKeeps DEF Create
<1>2. ASSUME Killed PROVE TableSound(table')
    <2>1. p_rqs[rq].pid \in Takable
        BY <1>0, <1>2, Current DEF Killed, Acts, Pass, Record
    <2> QED
        BY <1>0, <1>2, <2>1, CallsSound DEF Killed
<1>3. ASSUME Block PROVE TableSound(table')
    <2>1. p_rqs[rq].pid \in Takable
        BY <1>0, <1>3, Current DEF Block, Acts, Pass, Record
    <2> QED
        BY <1>0, <1>3, <2>1, CallsSound DEF Block
<1>4. ASSUME Unblock PROVE TableSound(table')
    <2>1. p_rqs[rq].pid \in Takable
        BY <1>0, <1>4, Current DEF Unblock, Pass, Record
    <2> QED
        BY <1>0, <1>4, <2>1, CallsSound DEF Unblock
<1>5. ASSUME ActsNot \/ UnblocksNot \/ Round PROVE TableSound(table')
    BY <1>0, <1>5 DEF ActsNot, UnblocksNot, Round
<1>6. ASSUME CreateAnyway PROVE TableSound(table')
    BY <1>0, <1>6, StartKeeps DEF CreateAnyway
<1>7. ASSUME NEW at, NEW next, NEW prio, Nice(at, next, prio), at \in {"nice", "niceBlocked"}
      PROVE  TableSound(table')
    <2>1. p_rqs[rq] \in Pid => p_rqs[rq] \in Takable
        BY <1>0, <1>7, Current, KeptSlots DEF Nice, Pass
    <2> QED
        BY <1>0, <1>7, <2>1, CallsSound DEF Nice, MaySetPriority
<1>8. ASSUME BlockAnyway PROVE TableSound(table')
    <2>1. p_rqs[rq] \in Pid => p_rqs[rq] \in Takable
        BY <1>0, <1>8, Current, KeptSlots DEF BlockAnyway, Pass
    <2> QED
        BY <1>0, <1>8, <2>1, CallsSound DEF BlockAnyway
<1>9. ASSUME UnblockAnyway PROVE TableSound(table')
    <2>1. p_rqs[rq] \in Pid => p_rqs[rq] \in Takable
        BY <1>0, <1>9, Current, KeptSlots DEF UnblockAnyway, Pass
    <2> QED
        BY <1>0, <1>9, <2>1, CallsSound DEF UnblockAnyway, MayUnblock
<1>10. ASSUME KillAnyway PROVE TableSound(table')
    <2>1. p_rqs[rq] \in Pid => p_rqs[rq] \in Takable
        BY <1>0, <1>10, Current, KeptSlots DEF KillAnyway, Pass
    <2> QED
        BY <1>0, <1>10, <2>1, CallsSound DEF KillAnyway, MayKill
<1>11. ASSUME UserStarts PROVE TableSound(table')
    BY <1>0, <1>11, StartKeeps DEF UserStarts
<1>12. ASSUME UserKills PROVE TableSound(table')
    <2>1. PICK pid \in Pid \ {TEST_PID} : MayKill(table, pid) /\ table' = AfterKill(table, pid)
        BY <1>12 DEF UserKills
    <2>2. pid \in Takable
        BY <1>0, <2>1 DEF MayKill, TableSound, Takable, Lasting
    <2> QED
        BY <1>0, <2>1, <2>2, CallsSound
<1>13. ASSUME UserBlocks PROVE TableSound(table')
    <2>1. PICK pid \in Pid \ {TEST_PID, SHELL_PID} :
              /\ MayBlock(table, pid)
              /\ table' = IF MayUnblock(table, pid) THEN Unblocked(table, pid)
                          ELSE Blocked(table, pid)
        BY <1>13 DEF UserBlocks
    <2>2. pid \in Takable
        BY <2>1 DEF MayBlock, Takable, Lasting
    <2> QED
        BY <1>0, <2>1, <2>2, CallsSound
<1> QED
    BY <1>1, <1>2, <1>3, <1>4, <1>5, <1>6, <1>7, <1>8, <1>9, <1>10, <1>11, <1>12, <1>13
       DEF TestNext, tp

LEMMA LoopsStep == TestInv /\ TestNext => LoopsOK'
<1> SUFFICES ASSUME TestInv, TestNext PROVE LoopsOK'
    OBVIOUS
<1>0. TableSound(table) /\ LoopsOK
    BY DEF TestInv
<1> DEFINE Entry == IF test = "ts" THEN Record ELSE Takable \cup {ERROR_PID}
<1>u. p_rqs \in Seq(Entry) /\ count \in Nat \ {0} /\ rq \in 1 .. count
    BY <1>0 DEF LoopsOK
\* The loop over what there is.
<1>1. ASSUME NEW next \in TestStages \ {"create"}, NextOr(next), UNCHANGED <<test, count, meddled>>,
             p_rqs' \in Seq(Entry), Len(p_rqs') = Len(p_rqs),
             stage \notin {"create", "ended", "round"}
      PROVE  LoopsOK'
    BY <1>0, <1>1, <1>u DEF LoopsOK, NextOr
<1>2. ASSUME NEW next \in TestStages \ {"create", "round"}, NextOr(next),
             UNCHANGED <<test, count, meddled>>,
             p_rqs' \in Seq(Entry), Len(p_rqs') = Len(p_rqs) + 1, stage = "create"
      PROVE  LoopsOK'
    BY <1>0, <1>2, <1>u DEF LoopsOK, NextOr
<1>3. ASSUME NEW why, Ends(why), UNCHANGED <<test, count, meddled>> PROVE LoopsOK'
    BY <1>0, <1>3 DEF LoopsOK, Ends, TestStages
<1>4. ASSUME NEW s \in {"RUNNING", "BLOCKED", "TERMINATED"},
             p_rqs' = [p_rqs EXCEPT ![rq].state = s],
             test = "ts", stage \notin {"create", "ended"}
      PROVE  p_rqs' \in Seq(Entry) /\ Len(p_rqs') = Len(p_rqs)
    <2>1. p_rqs[rq] \in Record /\ rq \in DOMAIN p_rqs
        BY <1>0, <1>4, Current
    <2>2. [p_rqs[rq] EXCEPT !.state = s] \in Record
        BY <2>1 DEF Record
    <2>3. p_rqs' = [p_rqs EXCEPT ![rq] = [p_rqs[rq] EXCEPT !.state = s]]
        BY <1>4
    <2>4. [p_rqs[rq] EXCEPT !.state = s] \in Entry
        BY <1>4, <2>2
    <2> HIDE DEF Entry
    <2> DEFINE one == [p_rqs[rq] EXCEPT !.state = s]
    <2> HIDE DEF one
    <2>5. one \in Entry /\ p_rqs' = [p_rqs EXCEPT ![rq] = one]
        BY <2>3, <2>4 DEF one
    <2>6. [p_rqs EXCEPT ![rq] = one] \in Seq(Entry) /\ Len([p_rqs EXCEPT ![rq] = one]) = Len(p_rqs)
        BY <1>u, <2>1, <2>5, OneReplaced
    <2> QED
        BY <2>5, <2>6, Zenon
<1> HIDE DEF Entry
<1>5. {"act", "unblock", "round", "nice", "block", "niceBlocked", "kill", "ended"}
          \subseteq TestStages
    BY DEF TestStages
<1>6. CASE Create
    <2>1. CASE PidOfNew(table) = ERROR_PID
        BY <1>3, <1>6, <2>1 DEF Create, Pass
    <2>2. CASE PidOfNew(table) # ERROR_PID
        <3>1. [pid |-> PidOfNew(table), state |-> "RUNNING"] \in Entry
            BY <1>0, <1>6, <2>2, StartSound DEF Create, Pass, Entry, Record
        <3>2. p_rqs' \in Seq(Entry) /\ Len(p_rqs') = Len(p_rqs) + 1
            BY <1>6, <1>u, <2>2, <3>1 DEF Create
        <3> QED
            BY <1>2, <1>5, <1>6, <2>2, <3>2 DEF Create, Pass
    <2> QED
        BY <2>1, <2>2
<1>7. CASE Killed
    BY <1>1, <1>3, <1>4, <1>5, <1>7 DEF Killed, Acts, Pass
<1>8. CASE Block
    BY <1>1, <1>3, <1>4, <1>5, <1>8 DEF Block, Acts, Pass
<1>9. CASE ActsNot
    BY <1>1, <1>5, <1>9, <1>u DEF ActsNot, Acts, Pass
<1>10. CASE Unblock
    BY <1>1, <1>3, <1>4, <1>5, <1>10 DEF Unblock, Pass
<1>11. CASE UnblocksNot
    BY <1>1, <1>5, <1>11, <1>u DEF UnblocksNot, Pass
<1>12. CASE Round
    <2>1. test = "ts" /\ stage = "round" /\ rq = 1
        BY <1>0, <1>12 DEF Round, Pass, LoopsOK
    <2>2. /\ UNCHANGED <<test, count, meddled, rq>>
          /\ \/ stage' = "create" /\ p_rqs' = <<>>
             \/ stage' = "act" /\ p_rqs' = p_rqs
        BY <1>12 DEF Round, Pass
    <2>3. <<>> \in Seq(Record) /\ Len(<<>>) = 0
        OBVIOUS
    <2>4. CASE stage' = "create" /\ p_rqs' = <<>>
        BY <1>0, <2>1, <2>2, <2>3, <2>4 DEF LoopsOK, TestStages
    <2>5. CASE stage' = "act" /\ p_rqs' = p_rqs
        BY <1>0, <2>1, <2>2, <2>5 DEF LoopsOK, TestStages
    <2> QED
        BY <2>2, <2>4, <2>5
<1>13. CASE CreateAnyway
    <2>1. PidOfNew(table) \in Entry
        BY <1>0, <1>13, StartSound, KeptSlots DEF CreateAnyway, Pass, Entry
    <2>2. p_rqs' \in Seq(Entry) /\ Len(p_rqs') = Len(p_rqs) + 1
        BY <1>13, <1>u, <2>1 DEF CreateAnyway
    <2> QED
        BY <1>2, <1>5, <1>13, <2>2 DEF CreateAnyway, Pass
<1>14. ASSUME NEW at, NEW next, NEW prio, Nice(at, next, prio), at \in {"nice", "niceBlocked"},
              next \in {"block", "unblock"}
       PROVE  LoopsOK'
    BY <1>1, <1>5, <1>14, <1>u DEF Nice, Pass
<1>15. CASE BlockAnyway
    BY <1>1, <1>5, <1>15, <1>u DEF BlockAnyway, Pass
<1>16. CASE UnblockAnyway
    BY <1>1, <1>5, <1>16, <1>u DEF UnblockAnyway, Pass
<1>17. CASE KillAnyway
    BY <1>1, <1>5, <1>17, <1>u DEF KillAnyway, Pass
<1>18. CASE UserStarts \/ UserKills \/ UserBlocks
    BY <1>0, <1>18 DEF UserStarts, UserKills, UserBlocks, Meddles, OfTest, LoopsOK
<1> QED
    BY <1>6, <1>7, <1>8, <1>9, <1>10, <1>11, <1>12, <1>13, <1>14, <1>15, <1>16, <1>17, <1>18
       DEF TestNext, tp

----------------------------------------------------------------------------
\* What is no process of the test may come and go: the record stays right.
LEMMA RecordStays ==
    ASSUME RecordOK, p_rqs' = p_rqs, reported' = reported, stage' # "create" \/ stage' = stage,
           \A p \in Pid : IF OfTest(p) THEN OfTest(p)' /\ table'[p].status = table[p].status
                         ELSE ~OfTest(p)',
           \A k \in DOMAIN p_rqs : p_rqs[k].pid \in Pid
    PROVE  RecordOK'
<1>1. \A k \in DOMAIN p_rqs : Agrees(k)'
    BY DEF RecordOK, Agrees
<1>2. Alive' = Alive
    BY DEF Alive
<1> QED
    BY <1>1, <1>2 DEF RecordOK

\* A call for the process of one entry: what it does there is what ts writes into the entry.
LEMMA RecordFollows ==
    ASSUME RecordOK, p_rqs \in Seq(Record), NEW k \in Alive, NEW pid, pid = p_rqs[k].pid,
           NEW s \in {"RUNNING", "BLOCKED", "TERMINATED"}, p_rqs' = [p_rqs EXCEPT ![k].state = s],
           stage' # "create", reported' = reported,
           \A p \in Pid \ {pid} :
               IF OfTest(p) THEN OfTest(p)' /\ table'[p].status = table[p].status
               ELSE ~OfTest(p)',
           s = "RUNNING" => OfTest(pid)' /\ table'[pid].status = "READY",
           s = "BLOCKED" => OfTest(pid)' /\ table'[pid].status = "BLOCKED",
           s = "TERMINATED" => ~OfTest(pid)'
    PROVE  RecordOK'
<1>1. /\ k \in DOMAIN p_rqs /\ p_rqs[k] \in Record /\ p_rqs[k].state # "TERMINATED"
      /\ OfTest(pid)
    <2>1. k \in DOMAIN p_rqs /\ p_rqs[k] \in Record /\ p_rqs[k].state # "TERMINATED"
        BY DEF Alive
    <2>2. p_rqs[k].state \in {"RUNNING", "BLOCKED"} /\ Agrees(k)
        BY <2>1 DEF Record, RecordOK
    <2> QED
        BY <2>1, <2>2 DEF Agrees
<1>2. DOMAIN p_rqs' = DOMAIN p_rqs /\ \A j \in DOMAIN p_rqs : p_rqs[j] \in Record
    OBVIOUS
<1>3. /\ p_rqs'[k].pid = p_rqs[k].pid /\ p_rqs'[k].state = s
      /\ \A j \in DOMAIN p_rqs \ {k} : p_rqs'[j] = p_rqs[j]
    BY <1>1 DEF Record
<1>4. \A j \in DOMAIN p_rqs \ {k} : p_rqs[j].pid # p_rqs[k].pid
    <2> SUFFICES ASSUME NEW j \in DOMAIN p_rqs \ {k}, p_rqs[j].pid = p_rqs[k].pid PROVE FALSE
        OBVIOUS
    <2>1. j \notin Alive
        BY DEF RecordOK
    <2>2. p_rqs[j].state = "TERMINATED"
        BY <2>1 DEF Alive
    <2>3. ~OfTest(p_rqs[j].pid)
        BY <2>2 DEF RecordOK, Agrees
    <2> QED
        BY <1>1, <2>3
<1>5. \A j \in DOMAIN p_rqs \ {k} : Agrees(j)'
    <2> TAKE j \in DOMAIN p_rqs \ {k}
    <2>1. p_rqs[j].pid \in Pid \ {pid} /\ p_rqs'[j] = p_rqs[j] /\ Agrees(j)
        BY <1>2, <1>3, <1>4 DEF Record, Takable, RecordOK
    <2> QED
        BY <2>1 DEF Agrees
<1>6. Agrees(k)'
    BY <1>3 DEF Agrees
<1>7. Alive' = IF s = "TERMINATED" THEN Alive \ {k} ELSE Alive
    BY <1>1, <1>2, <1>3 DEF Alive
<1>8. \A i, j \in Alive' : p_rqs'[i].pid = p_rqs'[j].pid => i = j
    BY <1>3, <1>4, <1>7 DEF RecordOK, Alive
<1>9. ASSUME NEW p \in Pid, OfTest(p)' PROVE \E j \in Alive' : p_rqs'[j].pid = p
    <2>1. CASE p = p_rqs[k].pid
        BY <1>3, <1>7, <1>9, <2>1
    <2>2. CASE p # p_rqs[k].pid
        <3>1. PICK j \in Alive : p_rqs[j].pid = p
            BY <1>9, <2>2 DEF RecordOK
        <3>2. j \in Alive' /\ p_rqs'[j] = p_rqs[j]
            BY <1>3, <1>7, <2>2, <3>1 DEF Alive
        <3> QED
            BY <3>1, <3>2
    <2> QED
        BY <2>1, <2>2
<1>10. \A j \in DOMAIN p_rqs' : Agrees(j)'
    BY <1>2, <1>5, <1>6
<1> QED
    BY <1>8, <1>9, <1>10 DEF RecordOK

\* A new process of the test and its entry.
LEMMA RecordGrows ==
    ASSUME RecordOK, p_rqs \in Seq(Record), stage = "create", NEW pid \in Takable, ~OfTest(pid),
           p_rqs' = Append(p_rqs, [pid |-> pid, state |-> "RUNNING"]), reported' = reported,
           OfTest(pid)', table'[pid].status = "READY",
           \A p \in Pid \ {pid} :
               IF OfTest(p) THEN OfTest(p)' /\ table'[p].status = table[p].status
               ELSE ~OfTest(p)'
    PROVE  RecordOK'
<1>0. PICK new : new = Len(p_rqs) + 1
    OBVIOUS
<1>1. /\ DOMAIN p_rqs' = DOMAIN p_rqs \cup {new} /\ new \notin DOMAIN p_rqs
      /\ p_rqs'[new] = [pid |-> pid, state |-> "RUNNING"]
      /\ \A j \in DOMAIN p_rqs : p_rqs'[j] = p_rqs[j] /\ p_rqs[j] \in Record
    BY <1>0
<1>2. \A j \in DOMAIN p_rqs : p_rqs[j].state = "RUNNING" /\ OfTest(p_rqs[j].pid)
    BY DEF RecordOK, Agrees
<1>3. ASSUME NEW j \in DOMAIN p_rqs PROVE Agrees(j)'
    <2>1. p_rqs[j].pid \in Pid \ {pid} /\ p_rqs'[j] = p_rqs[j] /\ Agrees(j)
        BY <1>1, <1>2 DEF Record, Takable, RecordOK
    <2> QED
        BY <2>1 DEF Agrees
<1>4. Agrees(new)'
    BY <1>1 DEF Agrees
<1>5. Alive = DOMAIN p_rqs /\ Alive' = DOMAIN p_rqs \cup {new}
    <2>1. p_rqs'[new].state = "RUNNING" /\ \A j \in DOMAIN p_rqs : p_rqs'[j].state = "RUNNING"
        BY <1>1, <1>2
    <2> QED
        BY <1>1, <1>2, <2>1 DEF Alive
<1>6. \A i, j \in Alive' : p_rqs'[i].pid = p_rqs'[j].pid => i = j
    BY <1>1, <1>2, <1>5 DEF RecordOK
<1>7. ASSUME NEW p \in Pid, OfTest(p)' PROVE \E j \in Alive' : p_rqs'[j].pid = p
    <2>1. CASE p = pid
        BY <1>1, <1>5, <2>1
    <2>2. CASE p # pid
        BY <1>1, <1>5, <1>7, <2>2 DEF RecordOK
    <2> QED
        BY <2>1, <2>2
<1>8. \A j \in DOMAIN p_rqs' : Agrees(j)' /\ p_rqs'[j].state = "RUNNING"
    BY <1>1, <1>2, <1>3, <1>4
<1> QED
    BY <1>6, <1>7, <1>8 DEF RecordOK

\* A kill, in terms of what the test sees.
LEMMA KillSeen ==
    ASSUME TableSound(table), NEW pid \in Takable, MayKill(table, pid),
           table' = AfterKill(table, pid)
    PROVE  /\ ~OfTest(pid)'
           /\ \A p \in Pid \ {pid} :
                  IF OfTest(p) THEN OfTest(p)' /\ table'[p].status = table[p].status
                  ELSE ~OfTest(p)'
<1>1. \A p \in Pid : table'[p] = IF p = pid THEN NULL ELSE table[p]
    BY KillSound DEF MayKill
<1>2. pid \in Pid
    BY DEF Takable
<1> QED
    BY <1>1, <1>2 DEF OfTest

\* A block or an unblock.
LEMMA StatusSeen ==
    ASSUME TableSound(table), NEW pid \in Pid, table[pid] # NULL, NEW s \in Statuses,
           table' = [table EXCEPT ![pid].status = s]
    PROVE  /\ OfTest(pid) <=> OfTest(pid)'
           /\ table'[pid].status = s
           /\ \A p \in Pid \ {pid} :
                  IF OfTest(p) THEN OfTest(p)' /\ table'[p].status = table[p].status
                  ELSE ~OfTest(p)'
<1>1. \A p \in Pid : /\ table'[p] = NULL <=> table[p] = NULL
                     /\ table'[p].parent_pid = table[p].parent_pid
                     /\ table'[p].status = IF p = pid THEN s ELSE table[p].status
    <2>1. /\ \A p \in Pid :
                /\ [table EXCEPT ![pid].status = s][p] = NULL <=> table[p] = NULL
                /\ [table EXCEPT ![pid].status = s][p].parent_pid = table[p].parent_pid
                /\ [table EXCEPT ![pid].status = s][p].status
                       = IF p = pid THEN s ELSE table[p].status
          /\ TableSound([table EXCEPT ![pid].status = s])
        BY StatusSound
    <2> QED
        BY <2>1, Zenon
<1> QED
    BY <1>1 DEF OfTest

LEMMA CallsAreChanges ==
    ASSUME NEW pid
    PROVE  /\ MayBlock(table, pid) =>
                  /\ table[pid] # NULL
                  /\ Blocked(table, pid) = [table EXCEPT ![pid].status = "BLOCKED"]
           /\ MayUnblock(table, pid) =>
                  /\ table[pid] # NULL
                  /\ Unblocked(table, pid) = [table EXCEPT ![pid].status = "READY"]
BY DEF MayBlock, Blocked, MayUnblock, HasStatus, Unblocked

\* The calls of the user for a process that is not the test's.
LEMMA UserSeen ==
    ASSUME TestInv, UserStarts \/ UserKills \/ UserBlocks, ~meddled'
    PROVE  /\ \A p \in Pid : IF OfTest(p) THEN OfTest(p)' /\ table'[p].status = table[p].status
                             ELSE ~OfTest(p)'
           /\ ~meddled /\ UNCHANGED <<test, count, stage, rq, p_rqs, reported>>
<1>0. TableSound(table)
    BY DEF TestInv
<1>1. CASE UserStarts
    <2>1. CASE PidOfNew(table) = ERROR_PID
        BY <1>1, <2>1, StartFails DEF UserStarts, OfTest
    <2>2. CASE PidOfNew(table) # ERROR_PID
        <3> DEFINE one == NewProcess(SHELL_PID, FALSE, "user")
        <3>1. PICK new : /\ new \in Takable /\ table[new] = NULL
                         /\ table' = [table EXCEPT ![new] = one]
            BY <1>0, <1>1, <2>2, StartSound DEF UserStarts
        <3>2. one.parent_pid # TEST_PID
            BY KeptSlots DEF NewProcess
        <3> HIDE DEF one
        <3>3. new \in Pid /\ \A p \in Pid : table'[p] = IF p = new THEN one ELSE table[p]
            BY <1>0, <3>1 DEF TableSound, Table, Takable
        <3> QED
            BY <1>1, <3>1, <3>2, <3>3 DEF OfTest, UserStarts
    <2> QED
        BY <2>1, <2>2
<1>2. CASE UserKills
    <2>1. PICK pid \in Pid \ {TEST_PID} :
              MayKill(table, pid) /\ table' = AfterKill(table, pid) /\ Meddles(pid)
        BY <1>2 DEF UserKills
    <2>2. pid \in Takable
        BY <1>0, <2>1 DEF MayKill, TableSound, Takable, Lasting
    <2>3. ~OfTest(pid)
        BY <2>1 DEF Meddles
    <2>4. \A p \in Pid : p = pid \/ p \in Pid \ {pid}
        OBVIOUS
    <2> QED
        BY <1>0, <2>1, <2>2, <2>3, <2>4, KillSeen DEF Meddles
<1>3. CASE UserBlocks
    <2>1. PICK pid \in Pid \ {TEST_PID, SHELL_PID} :
              /\ MayBlock(table, pid)
              /\ table' = IF MayUnblock(table, pid) THEN Unblocked(table, pid)
                          ELSE Blocked(table, pid)
              /\ Meddles(pid)
        BY <1>3 DEF UserBlocks
    <2>2. PICK s \in {"READY", "BLOCKED"} : table' = [table EXCEPT ![pid].status = s]
        BY <2>1, CallsAreChanges
    <2>3. table[pid] # NULL /\ s \in Statuses
        BY <2>1, CallsAreChanges DEF Statuses
    <2>4. ~OfTest(pid)
        BY <2>1 DEF Meddles
    <2> QED
        BY <1>0, <2>1, <2>2, <2>3, <2>4, StatusSeen DEF Meddles
<1> QED
    BY <1>1, <1>2, <1>3

\* ts: every call keeps its record right.
LEMMA RecordStep == TestInv /\ TestNext /\ ~meddled' /\ test = "ts" => RecordOK'
<1> SUFFICES ASSUME TestInv, TestNext, ~meddled', test = "ts" PROVE RecordOK'
    OBVIOUS
<1>0. TableSound(table) /\ LoopsOK /\ p_rqs \in Seq(Record)
    BY DEF TestInv, LoopsOK
<1>p. \A k \in DOMAIN p_rqs :
          p_rqs[k] \in Record /\ p_rqs[k].pid \in Takable /\ p_rqs[k].pid \in Pid
    <2>1. \A k \in DOMAIN p_rqs : p_rqs[k] \in Record
        BY <1>0
    <2> QED
        BY <2>1 DEF Record, Takable
<1>1. CASE UserStarts \/ UserKills \/ UserBlocks
    <2>1. RecordOK
        BY <1>1, UserSeen DEF TestInv
    <2> QED
        BY <1>1, <1>p, <2>1, UserSeen, RecordStays
<1>2. CASE Create
    <2>0. RecordOK /\ stage = "create"
        BY <1>2 DEF TestInv, Create, Pass
    <2>1. CASE PidOfNew(table) = ERROR_PID
        <3>1. table' = table
            BY <1>2, <2>1, StartFails DEF Create
        <3>2. stage' = "ended" /\ reported' = "create" /\ p_rqs' = p_rqs
            BY <1>2, <2>1 DEF Create, Ends
        <3>3. Alive' = Alive /\ \A k \in DOMAIN p_rqs : Agrees(k)'
            BY <2>0, <3>1, <3>2 DEF Alive, RecordOK, Agrees, OfTest
        <3>4. \A p \in Pid : OfTest(p)' <=> OfTest(p)
            BY <3>1 DEF OfTest
        <3> QED
            BY <2>0, <3>2, <3>3, <3>4 DEF RecordOK
    <2>2. CASE PidOfNew(table) # ERROR_PID
        <3> DEFINE one == NewProcess(TEST_PID, FALSE, "user")
        <3>1. PICK new : /\ new \in Takable /\ table[new] = NULL /\ new = PidOfNew(table)
                         /\ table' = [table EXCEPT ![new] = one]
            BY <1>0, <1>2, <2>2, StartSound DEF Create
        <3>2. one.parent_pid = TEST_PID /\ one.status = "READY"
            BY DEF NewProcess
        <3>3. one # NULL
            BY NewIsProcess, NullAssumption DEF Lasting
        <3> HIDE DEF one
        <3>4. new \in Pid /\ \A p \in Pid : table'[p] = IF p = new THEN one ELSE table[p]
            BY <1>0, <3>1 DEF TableSound, Table, Takable
        <3>5. /\ p_rqs' = Append(p_rqs, [pid |-> new, state |-> "RUNNING"])
              /\ reported' = reported
            BY <1>2, <2>2, <3>1 DEF Create
        <3>6. ~OfTest(new) /\ OfTest(new)' /\ table'[new].status = "READY"
            BY <3>1, <3>2, <3>3, <3>4 DEF OfTest
        <3>7. \A p \in Pid \ {new} :
                  IF OfTest(p) THEN OfTest(p)' /\ table'[p].status = table[p].status
                  ELSE ~OfTest(p)'
            BY <3>4 DEF OfTest
        <3> QED
            BY <1>0, <2>0, <3>1, <3>5, <3>6, <3>7, RecordGrows
    <2> QED
        BY <2>1, <2>2
\* What the kernel answers for a process on record.
<1>3. ASSUME NEW k \in Alive, RecordOK
      PROVE  /\ MayKill(table, p_rqs[k].pid) /\ MayBlock(table, p_rqs[k].pid)
             /\ OfTest(p_rqs[k].pid)
             /\ p_rqs[k].state = "BLOCKED" => MayUnblock(table, p_rqs[k].pid)
    <2>1. p_rqs[k].state \in {"RUNNING", "BLOCKED"} /\ Agrees(k) /\ p_rqs[k].pid \in Takable
          /\ p_rqs[k].pid \in Pid
        BY <1>3, <1>p DEF Alive, RecordOK, Record
    <2>2. OfTest(p_rqs[k].pid) /\ table[p_rqs[k].pid].status \in {"READY", "BLOCKED"}
        BY <2>1 DEF Agrees
    <2>3. MayKill(table, p_rqs[k].pid)
        BY <1>0, <2>1, <2>2 DEF MayKill, OfTest, TableSound
    <2>4. MayBlock(table, p_rqs[k].pid)
        BY <2>1, <2>2, KeptSlots DEF MayBlock, OfTest
    <2>5. p_rqs[k].state = "BLOCKED" => MayUnblock(table, p_rqs[k].pid)
        BY <2>1, <2>2 DEF MayUnblock, HasStatus, Agrees, OfTest
    <2> QED
        BY <2>2, <2>3, <2>4, <2>5
<1>4. stage \notin {"create", "ended"} =>
          rq \in DOMAIN p_rqs /\ (p_rqs[rq].state # "TERMINATED" => rq \in Alive)
    BY <1>0, Current DEF Alive
<1>5. CASE Killed
    <2>p. PICK k, pid : k = rq /\ pid = p_rqs[k].pid
        OBVIOUS
    <2>0. RecordOK /\ k \in Alive /\ pid \in Takable
        BY <2>p, <1>4, <1>5, <1>p DEF TestInv, Killed, Acts, Pass
    <2>1. /\ MayKill(table, pid) /\ table' = AfterKill(table, pid)
          /\ p_rqs' = [p_rqs EXCEPT ![k].state = "TERMINATED"]
          /\ stage' # "create" /\ reported' = reported
        BY <2>p, <1>3, <1>5, <2>0 DEF Killed, Acts, Pass, NextOr
    <2>2. /\ ~OfTest(pid)'
          /\ \A p \in Pid \ {pid} :
                 IF OfTest(p) THEN OfTest(p)' /\ table'[p].status = table[p].status
                 ELSE ~OfTest(p)'
        BY <1>0, <2>0, <2>1, KillSeen
    <2> QED
        BY <1>0, <2>0, <2>1, <2>2, RecordFollows, <2>p
<1>6. CASE Block
    <2>p. PICK k, pid : k = rq /\ pid = p_rqs[k].pid
        OBVIOUS
    <2>0. RecordOK /\ k \in Alive /\ pid \in Pid
        BY <2>p, <1>4, <1>6, <1>p DEF TestInv, Block, Acts, Pass
    <2>1. /\ table' = [table EXCEPT ![pid].status = "BLOCKED"]
          /\ table[pid] # NULL
          /\ p_rqs' = [p_rqs EXCEPT ![k].state = "BLOCKED"]
          /\ stage' # "create" /\ reported' = reported
        BY <2>p, <1>3, <1>6, <2>0, CallsAreChanges DEF Block, Acts, Pass, NextOr
    <2>2. "BLOCKED" \in Statuses /\ OfTest(pid)
        BY <2>p, <1>3, <2>0 DEF Statuses
    <2>3. /\ OfTest(pid)' /\ table'[pid].status = "BLOCKED"
          /\ \A p \in Pid \ {pid} :
                 IF OfTest(p) THEN OfTest(p)' /\ table'[p].status = table[p].status
                 ELSE ~OfTest(p)'
        BY <1>0, <2>0, <2>1, <2>2, StatusSeen
    <2> QED
        BY ZenonT(60), <1>0, <2>0, <2>1, <2>3, RecordFollows, <2>p
<1>7. CASE Unblock
    <2>p. PICK k, pid : k = rq /\ pid = p_rqs[k].pid
        OBVIOUS
    <2>0. RecordOK /\ k \in Alive /\ pid \in Pid
        BY <2>p, <1>4, <1>7, <1>p DEF TestInv, Unblock, Pass
    <2>1. /\ table' = [table EXCEPT ![pid].status = "READY"]
          /\ table[pid] # NULL
          /\ p_rqs' = [p_rqs EXCEPT ![k].state = "RUNNING"]
          /\ stage' # "create" /\ reported' = reported
        BY <2>p, <1>3, <1>7, <2>0, CallsAreChanges DEF Unblock, Pass, NextOr
    <2>2. "READY" \in Statuses /\ OfTest(pid)
        BY <2>p, <1>3, <2>0 DEF Statuses
    <2>3. /\ OfTest(pid)' /\ table'[pid].status = "READY"
          /\ \A p \in Pid \ {pid} :
                 IF OfTest(p) THEN OfTest(p)' /\ table'[p].status = table[p].status
                 ELSE ~OfTest(p)'
        BY <1>0, <2>0, <2>1, <2>2, StatusSeen
    <2> QED
        BY ZenonT(60), <1>0, <2>0, <2>1, <2>3, RecordFollows, <2>p
<1>8. CASE ActsNot \/ UnblocksNot
    <2>1. RecordOK /\ table' = table /\ p_rqs' = p_rqs /\ reported' = reported /\ stage' # "create"
        BY <1>8 DEF TestInv, ActsNot, UnblocksNot, Acts, Pass, NextOr
    <2>2. \A p \in Pid : IF OfTest(p) THEN OfTest(p)' /\ table'[p].status = table[p].status
                         ELSE ~OfTest(p)'
        BY <2>1 DEF OfTest
    <2> QED
        BY <1>p, <2>1, <2>2, RecordStays
<1>9. CASE Round
    <2>1. RecordOK /\ table' = table /\ reported' = reported
        BY <1>9 DEF TestInv, Round, Pass
    <2>2. \A p \in Pid : OfTest(p)' <=> OfTest(p)
        BY <2>1 DEF OfTest
    <2>3. CASE Alive = {}
        <3>1. p_rqs' = <<>> /\ DOMAIN p_rqs' = {}
            BY <1>9, <2>3 DEF Round
        <3>2. \A p \in Pid : ~OfTest(p)'
            BY <2>1, <2>2, <2>3 DEF RecordOK
        <3>3. Alive' = {}
            BY <3>1 DEF Alive
        <3> QED
            BY <2>1, <3>1, <3>2, <3>3 DEF RecordOK
    <2>4. CASE Alive # {}
        <3>1. p_rqs' = p_rqs /\ stage' # "create"
            BY <1>9, <2>4 DEF Round
        <3>2. \A p \in Pid : IF OfTest(p) THEN OfTest(p)' /\ table'[p].status = table[p].status
                             ELSE ~OfTest(p)'
            BY <2>1 DEF OfTest
        <3> QED
            BY <1>p, <2>1, <3>1, <3>2, RecordStays
    <2> QED
        BY <2>3, <2>4
<1>10. ~tp
    BY DEF tp, CreateAnyway, BlockAnyway, UnblockAnyway, KillAnyway, Nice, Pass
<1> QED
    BY <1>1, <1>2, <1>5, <1>6, <1>7, <1>8, <1>9, <1>10 DEF TestNext

\* tp, before its last loop: it knows the pid of each of its processes.
LEMMA LeftStays ==
    ASSUME LeftOK, reported' = reported, stage' # "ended",
           \A k \in DOMAIN p_rqs : k \in DOMAIN p_rqs' /\ p_rqs'[k] = p_rqs[k],
           \A p \in Pid : OfTest(p)' =>
               OfTest(p) \/ (stage' # "kill" /\ \E k \in DOMAIN p_rqs' : p_rqs'[k] = p),
           stage' = "kill" => \A k \in DOMAIN p_rqs : (stage = "kill" => rq <= k) => rq' <= k
    PROVE  LeftOK'
<1>1. ASSUME NEW p \in Pid, OfTest(p)'
      PROVE  \E k \in DOMAIN p_rqs' : p_rqs'[k] = p /\ (stage' = "kill" => rq' <= k)
    BY <1>1 DEF LeftOK
<1> QED
    BY <1>1 DEF LeftOK

\* tp: while it creates and until it kills, every process of the test is one whose pid it has;
\* while it kills, one from the index on.
LEMMA LeftStep == TestInv /\ TestNext /\ ~meddled' /\ test = "tp" => LeftOK'
<1> SUFFICES ASSUME TestInv, TestNext, ~meddled', test = "tp" PROVE LeftOK'
    OBVIOUS
<1>0. TableSound(table) /\ LoopsOK /\ p_rqs \in Seq(Takable \cup {ERROR_PID}) /\ rq \in 1 .. count
      /\ count \in Nat \ {0}
    BY DEF TestInv, LoopsOK
<1>1. CASE UserStarts \/ UserKills \/ UserBlocks
    <2>1. LeftOK /\ \A p \in Pid : OfTest(p)' => OfTest(p)
        BY <1>1, UserSeen DEF TestInv
    <2> QED
        BY <1>1, <2>1, UserSeen DEF LeftOK
<1>2. ~meddled => LeftOK
    BY DEF TestInv
<1>3. CASE CreateAnyway
    <2>0. LeftOK /\ reported' = reported /\ stage' \in {"create", "nice"}
          /\ p_rqs' = Append(p_rqs, PidOfNew(table)) /\ table' = Started(table, TEST_PID)
        BY <1>2, <1>3 DEF CreateAnyway, Pass, NextOr
    <2>1. PICK new, last : new = PidOfNew(table) /\ last = Len(p_rqs) + 1
        OBVIOUS
    <2>2. /\ last \in DOMAIN p_rqs' /\ p_rqs'[last] = new
          /\ \A k \in DOMAIN p_rqs : k \in DOMAIN p_rqs' /\ p_rqs'[k] = p_rqs[k]
        BY <1>0, <2>0, <2>1
    <2>3. ASSUME NEW p \in Pid, OfTest(p)', p # new PROVE OfTest(p)
        <3>1. CASE new = ERROR_PID
            BY <2>0, <2>1, <2>3, <3>1, StartFails DEF OfTest
        <3>2. CASE new # ERROR_PID
            <4>1. table' = [table EXCEPT ![new] = NewProcess(TEST_PID, FALSE, "user")]
                BY <1>0, <2>0, <2>1, <3>2, StartSound
            <4>2. table'[p] = table[p]
                BY <1>0, <2>3, <4>1 DEF TableSound, Table
            <4> QED
                BY <2>3, <4>2 DEF OfTest
        <3> QED
            BY <3>1, <3>2
    <2> QED
        BY <2>0, <2>2, <2>3, LeftStays
\* The loops that create and kill nothing.
<1>4. ASSUME LeftOK, reported' = reported, p_rqs' = p_rqs,
             stage' \in {"nice", "block", "niceBlocked", "unblock", "kill"},
             stage' = "kill" => rq' = 1,
             \A p \in Pid : OfTest(p)' => OfTest(p)
      PROVE  LeftOK'
    <2>1. \A k \in DOMAIN p_rqs : 1 <= k
        BY <1>0
    <2> QED
        BY <1>4, <2>1, LeftStays
<1>5. ASSUME NEW pid \in Pid, table[pid] # NULL, NEW s \in Statuses,
             table' = [table EXCEPT ![pid].status = s]
      PROVE  \A p \in Pid : OfTest(p)' => OfTest(p)
    <2>1. \A p \in Pid : p = pid \/ p \in Pid \ {pid}
        OBVIOUS
    <2> QED
        BY <1>0, <1>5, <2>1, StatusSeen
<1>6. ASSUME NEW at \in {"nice", "niceBlocked"}, NEW next \in {"block", "unblock"}, NEW prio,
             Nice(at, next, prio)
      PROVE  LeftOK'
    <2>1. PICK pid : pid = p_rqs[rq]
        OBVIOUS
    <2>2. CASE MaySetPriority(table, pid, prio)
        <3>1. /\ table' = Reniced(table, pid, prio) /\ pid \in Pid /\ table[pid] # NULL
              /\ prio \in Priorities
            BY <1>6, <2>1, <2>2 DEF Nice, MaySetPriority
        <3>2. \A p \in Pid : /\ table'[p] = NULL <=> table[p] = NULL
                             /\ table'[p].parent_pid = table[p].parent_pid
            BY <1>0, <3>1, PrioritySound
        <3>3. \A p \in Pid : OfTest(p)' => OfTest(p)
            BY <3>2 DEF OfTest
        <3> QED
            BY <1>2, <1>4, <1>6, <3>3 DEF Nice, Pass, NextOr
    <2>3. CASE ~MaySetPriority(table, pid, prio)
        <3>1. table' = table
            BY <1>6, <2>1, <2>3 DEF Nice
        <3>2. \A p \in Pid : OfTest(p)' => OfTest(p)
            BY <3>1 DEF OfTest
        <3> QED
            BY <1>2, <1>4, <1>6, <3>2 DEF Nice, Pass, NextOr
    <2> QED
        BY <2>2, <2>3
<1>7. CASE BlockAnyway
    <2>1. PICK pid : pid = p_rqs[rq]
        OBVIOUS
    <2>2. \A p \in Pid : OfTest(p)' => OfTest(p)
        <3>1. CASE pid \in Pid /\ MayBlock(table, pid)
            <4>1. table' = [table EXCEPT ![pid].status = "BLOCKED"] /\ table[pid] # NULL
                BY <1>7, <2>1, <3>1, CallsAreChanges DEF BlockAnyway
            <4>2. "BLOCKED" \in Statuses
                BY DEF Statuses
            <4> QED
                BY <1>5, <3>1, <4>1, <4>2
        <3>2. CASE ~(pid \in Pid /\ MayBlock(table, pid))
            BY <1>7, <2>1, <3>2 DEF BlockAnyway, OfTest
        <3> QED
            BY <3>1, <3>2
    <2> QED
        BY <1>2, <1>4, <1>7, <2>2 DEF BlockAnyway, Pass, NextOr
<1>8. CASE UnblockAnyway
    <2>1. PICK pid : pid = p_rqs[rq]
        OBVIOUS
    <2>2. \A p \in Pid : OfTest(p)' => OfTest(p)
        <3>1. CASE MayUnblock(table, pid)
            <4>1. /\ table' = [table EXCEPT ![pid].status = "READY"] /\ table[pid] # NULL
                  /\ pid \in Pid
                BY <1>8, <2>1, <3>1, CallsAreChanges DEF UnblockAnyway, MayUnblock
            <4>2. "READY" \in Statuses
                BY DEF Statuses
            <4> QED
                BY <1>5, <4>1, <4>2
        <3>2. CASE ~MayUnblock(table, pid)
            BY <1>8, <2>1, <3>2 DEF UnblockAnyway, OfTest
        <3> QED
            BY <3>1, <3>2
    <2> QED
        BY <1>2, <1>4, <1>8, <2>2 DEF UnblockAnyway, Pass, NextOr
<1>9. CASE KillAnyway
    <2>0. /\ LeftOK /\ stage = "kill" /\ reported' = reported /\ p_rqs' = p_rqs
          /\ rq \in DOMAIN p_rqs /\ Len(p_rqs) = count
          /\ p_rqs[rq] \in Takable \cup {ERROR_PID}
        BY <1>0, <1>2, <1>9, Current DEF KillAnyway, Pass, LoopsOK
    <2>1. PICK pid : pid = p_rqs[rq]
        OBVIOUS
    \* Nothing of the test has this pid any more.
    <2>2. ASSUME NEW p \in Pid, OfTest(p)' PROVE OfTest(p) /\ p # pid
        <3>1. CASE MayKill(table, pid)
            <4>1. pid \in Takable /\ table' = AfterKill(table, pid)
                BY <1>9, <2>0, <2>1, <3>1, KeptSlots DEF KillAnyway, MayKill
            <4> QED
                BY <1>0, <2>2, <3>1, <4>1, KillSeen
        <3>2. CASE ~MayKill(table, pid)
            <4>1. table' = table
                BY <1>9, <2>1, <3>2 DEF KillAnyway
            <4>2. OfTest(p)
                BY <2>2, <4>1 DEF OfTest
            <4>3. MayKill(table, p)
                BY <1>0, <4>2 DEF OfTest, MayKill, TableSound
            <4> QED
                BY <3>2, <4>2, <4>3
        <3> QED
            BY <3>1, <3>2
    <2>3. ASSUME NEW p \in Pid, OfTest(p)'
          PROVE  \E k \in DOMAIN p_rqs : p_rqs[k] = p /\ rq + 1 <= k /\ k <= count
        <3>1. PICK k \in DOMAIN p_rqs : p_rqs[k] = p /\ rq <= k
            BY <2>0, <2>2, <2>3 DEF LeftOK
        <3>2. k # rq /\ k \in 1 .. count
            BY <1>0, <2>0, <2>1, <2>2, <2>3, <3>1
        <3> QED
            BY <1>0, <3>1, <3>2
    <2>4. CASE rq < count
        <3>1. stage' = "kill" /\ rq' = rq + 1
            BY <1>9, <2>0, <2>4 DEF KillAnyway, NextOr
        <3> QED
            BY <2>0, <2>3, <3>1 DEF LeftOK
    <2>5. CASE ~(rq < count)
        <3>1. \A p \in Pid : ~OfTest(p)'
            BY <1>0, <2>3, <2>5
        <3> QED
            BY <2>0, <3>1 DEF LeftOK
    <2> QED
        BY <2>4, <2>5
<1> QED
    BY <1>1, <1>3, <1>6, <1>7, <1>8, <1>9
       DEF TestNext, tp, Create, Killed, Block, ActsNot, Acts, Unblock, UnblocksNot, Round, Pass

LEMMA TestStep == TestInv /\ [TestNext]_testVars => TestInv'
<1> SUFFICES ASSUME TestInv, [TestNext]_testVars PROVE TestInv'
    OBVIOUS
<1>1. CASE TestNext
    <2>1. TableSound(table)' /\ LoopsOK'
        BY <1>1, TableStep, LoopsStep
    <2>2. test' = test
        BY <1>1 DEF TestNext, tp, Create, Killed, Block, ActsNot, Acts, Unblock, UnblocksNot, Round,
                    CreateAnyway, Nice, BlockAnyway, UnblockAnyway, KillAnyway, Pass,
                    UserStarts, UserKills, UserBlocks, Meddles
    <2> QED
        BY <1>1, <2>1, <2>2, RecordStep, LeftStep DEF TestInv
<1>2. CASE UNCHANGED testVars
    BY <1>2 DEF testVars, TestInv, LoopsOK, RecordOK, LeftOK, Agrees, Alive, OfTest
<1> QED
    BY <1>1, <1>2

\* As long as nobody meddles with the processes of the tests, what ts has on record of each is what
\* the kernel has, and neither a round of ts nor tp leaves one behind (a ts that could not create
\* one does): for any size of the table, any number of processes the tests are asked for, and
\* whatever else the user starts, blocks and kills.
THEOREM TestsAlwaysAgree == TestSpec => []TestsAgreeWithKernel
<1>1. TestInv => TestsAgreeWithKernel
    <2> SUFFICES ASSUME TestInv, ~meddled PROVE TestsAgreeWithKernel
        BY DEF TestsAgreeWithKernel
    <2>1. CASE test = "ts"
        <3>1. RecordOK
            BY <2>1 DEF TestInv
        <3>2. Alive = {} => \A pid \in Pid : ~OfTest(pid)
            BY <3>1 DEF RecordOK
        <3> QED
            BY <2>1, <3>1, <3>2 DEF RecordOK, TestsAgreeWithKernel
    <2>2. CASE test = "tp"
        BY <2>2 DEF TestInv, LeftOK, TestsAgreeWithKernel
    <2> QED
        BY <2>1, <2>2 DEF TestInv, LoopsOK
<1> QED
    BY <1>1, TestInitial, TestStep, PTL DEF TestSpec

----------------------------------------------------------------------------
(***************************************************************************)
(* The programs of a line, CommandLine.  Those that run were started in    *)
(* their order and are waited for in the same order; a line that is over   *)
(* has none of them, but for the ways out that leave the first behind.     *)
(***************************************************************************)
LineInv ==
    /\ pc \in {"check", "scan", "pipe", "start", "wait", "destroy", "done"}
    /\ half \in 1 .. Halves
    /\ pc \in {"check", "scan", "pipe"} => started = {} /\ ~pipe
    /\ pc = "start" => started \subseteq 1 .. half - 1
    /\ pc = "wait" => started \subseteq half .. Halves
    /\ pc = "destroy" => started = {}
    /\ NothingLeftBehind

\* A line has one command or two.
LEMMA HalvesAre == Halves \in {1, 2}
BY DEF Halves

\* A line that was just typed has nothing running.
LEMMA LineInitial == LineInit => LineInv
BY HalvesAre DEF LineInit, LineInv, NothingLeftBehind

\* No step of getCmdInput breaks the invariant.
LEMMA LineStep == LineInv /\ [LineNext]_lineVars => LineInv'
<1> SUFFICES ASSUME LineInv, [LineNext]_lineVars PROVE LineInv'
    OBVIOUS
<1>h. Halves \in {1, 2} /\ (UNCHANGED typed => Halves' = Halves)
    BY HalvesAre DEF Halves, Bars
<1>1. CASE CheckLine
    BY <1>h, <1>1 DEF CheckLine, LineInv, NothingLeftBehind
<1>2. CASE SkipSpaces
    BY <1>h, <1>2 DEF SkipSpaces, Scanning, LineInv, NothingLeftBehind
<1>3. CASE ScanEnd
    BY <1>h, <1>3 DEF ScanEnd, ScanNext, Scanning, LineInv, NothingLeftBehind
<1>4. CASE ScanAmpersand
    BY <1>h, <1>4 DEF ScanAmpersand, ScanNext, Scanning, LineInv, NothingLeftBehind
<1>5. CASE ScanArgument
    BY <1>h, <1>5 DEF ScanArgument, ScanNext, Scanning, LineInv, NothingLeftBehind
<1>6. CASE ScanOther
    BY <1>h, <1>6 DEF ScanOther, Scanning, LineInv, NothingLeftBehind
<1>7. CASE CreatePipe
    BY <1>h, <1>7 DEF CreatePipe, LineInv, NothingLeftBehind
<1>8. CASE StartProgram
    BY <1>h, <1>8 DEF StartProgram, Starting, Leave, LineInv, NothingLeftBehind
<1>9. CASE RunBuiltin \/ NewProcessFails \/ NotFound
    BY <1>h, <1>9 DEF RunBuiltin, NewProcessFails, NotFound, Starting, Leave, LineInv,
        NothingLeftBehind
<1>10. CASE ProgramEnds
    BY <1>h, <1>10 DEF ProgramEnds, LineInv, NothingLeftBehind
<1>11. CASE WaitProgram
    BY <1>h, <1>11 DEF WaitProgram, LineInv, NothingLeftBehind
<1>12. CASE DestroyPipe
    BY <1>h, <1>12 DEF DestroyPipe, Leave, LineInv, NothingLeftBehind
<1>13. CASE UNCHANGED lineVars
    BY <1>h, <1>13 DEF lineVars, LineInv, NothingLeftBehind
<1> QED
    BY <1>1, <1>2, <1>3, <1>4, <1>5, <1>6, <1>7, <1>8, <1>9, <1>10, <1>11, <1>12, <1>13
    DEF LineNext

\* For lines of any length: when getCmdInput returns none of the line's programs runs and the pipe
\* is gone, but for the background and the ways out that leave the first program behind
\* (NothingLeftBehind).
THEOREM NothingIsLeftBehind == LineSpec => []NothingLeftBehind
<1>1. LineInv => NothingLeftBehind
    BY DEF LineInv
<1> QED
    BY <1>1, LineInitial, LineStep, PTL DEF LineSpec

----------------------------------------------------------------------------
(***************************************************************************)
(* The command line cut into words, CommandLine.  The words of the         *)
(* reference are the spans between blanks, in the order of their           *)
(* beginnings, so that a list of the beginnings is enough to know them.    *)
(***************************************************************************)
Spans(s) ==
    {w \in (DOMAIN s) \X (DOMAIN s) :
        /\ w[1] <= w[2] /\ BlankAt(s, w[1] - 1) /\ BlankAt(s, w[2] + 1)
        /\ \A i \in w[1] .. w[2] : s[i] # BLANK}
Rank(s, w) == Cardinality({v \in Spans(s) : v[1] <= w[1]})
Nth(s, n) == CHOOSE w \in Spans(s) : Rank(s, w) = n

\* The words are those of the spans, in their order.
LEMMA WordsOfSpans ==
    ASSUME NEW s
    PROVE  Words(s) = [n \in 1 .. Cardinality(Spans(s)) |-> SubSeq(s, Nth(s, n)[1], Nth(s, n)[2])]
BY DEF Words, Spans, Nth, Rank

\* A text has finitely many spans, and one at most from each place.
LEMMA SpansAre ==
    ASSUME NEW T, NEW s \in Seq(T)
    PROVE  /\ IsFiniteSet(Spans(s)) /\ Cardinality(Spans(s)) \in Nat
           /\ \A w \in Spans(s) : w[1] \in 1 .. Len(s) /\ w[2] \in w[1] .. Len(s) /\ w = <<w[1], w[2]>>
           /\ \A v, w \in Spans(s) : v[1] = w[1] => v = w
<1>1. DOMAIN s = 1 .. Len(s) /\ Len(s) \in Nat
    OBVIOUS
<1>2. IsFiniteSet((DOMAIN s) \X (DOMAIN s))
    <2>1. 1 \in Int /\ Len(s) \in Int
        BY <1>1
    <2>2. IsFiniteSet(DOMAIN s)
        BY <1>1, <2>1, FS_Interval
    <2>3. QED
        BY <2>2, FS_Product
<1>3. Spans(s) \subseteq (DOMAIN s) \X (DOMAIN s)
    BY DEF Spans
<1>4. IsFiniteSet(Spans(s)) /\ Cardinality(Spans(s)) \in Nat
    BY <1>2, <1>3, FS_Subset, FS_CardinalityType
<1>5. \A w \in Spans(s) : w[1] \in 1 .. Len(s) /\ w[2] \in w[1] .. Len(s) /\ w = <<w[1], w[2]>>
    <2>1. ASSUME NEW w \in Spans(s)
          PROVE  w[1] \in 1 .. Len(s) /\ w[2] \in w[1] .. Len(s) /\ w = <<w[1], w[2]>>
        <3>1. w \in (1 .. Len(s)) \X (1 .. Len(s)) /\ w[1] <= w[2]
            BY <1>1 DEF Spans
        <3>2. QED
            BY <1>1, <3>1
    <2>2. QED
        BY <2>1
<1>6. ASSUME NEW v \in Spans(s), NEW w \in Spans(s), v[1] = w[1] PROVE v = w
    <2>1. /\ v[1] \in 1 .. Len(s) /\ v[2] \in v[1] .. Len(s) /\ v = <<v[1], v[2]>>
          /\ w[1] \in 1 .. Len(s) /\ w[2] \in w[1] .. Len(s) /\ w = <<w[1], w[2]>>
        BY <1>5
    <2>2. /\ BlankAt(s, v[2] + 1) /\ \A i \in v[1] .. v[2] : s[i] # BLANK
          /\ BlankAt(s, w[2] + 1) /\ \A i \in w[1] .. w[2] : s[i] # BLANK
        BY DEF Spans
    <2>3. ~(v[2] < w[2])
        <3> SUFFICES ASSUME v[2] < w[2] PROVE FALSE
            OBVIOUS
        <3>1. v[2] + 1 \in w[1] .. w[2] /\ v[2] + 1 \in 1 .. Len(s)
            BY <1>1, <1>6, <2>1
        <3>2. QED
            BY <1>1, <2>2, <3>1 DEF BlankAt
    <2>4. ~(w[2] < v[2])
        <3> SUFFICES ASSUME w[2] < v[2] PROVE FALSE
            OBVIOUS
        <3>1. w[2] + 1 \in v[1] .. v[2] /\ w[2] + 1 \in 1 .. Len(s)
            BY <1>1, <1>6, <2>1
        <3>2. QED
            BY <1>1, <2>2, <3>1 DEF BlankAt
    <2>5. v[2] = w[2]
        BY <2>1, <2>3, <2>4
    <2>6. QED
        BY <1>6, <2>1, <2>5
<1> QED
    BY <1>4, <1>5, <1>6

\* Each span has a rank of its own, so that each is a word.
LEMMA RankIsOwn ==
    ASSUME NEW T, NEW s \in Seq(T), NEW w \in Spans(s)
    PROVE  /\ Rank(s, w) \in 1 .. Cardinality(Spans(s))
           /\ Nth(s, Rank(s, w)) = w
<1> DEFINE Below(v) == {u \in Spans(s) : u[1] <= v[1]}
<1>1. ASSUME NEW v \in Spans(s)
      PROVE  /\ v \in Below(v) /\ Below(v) \subseteq Spans(s) /\ IsFiniteSet(Below(v))
             /\ Cardinality(Below(v)) \in 1 .. Cardinality(Spans(s))
    <2>1. v[1] <= v[1]
        BY SpansAre
    <2>2. v \in Below(v) /\ Below(v) \subseteq Spans(s)
        BY <2>1
    <2>3. IsFiniteSet(Spans(s)) /\ Cardinality(Spans(s)) \in Nat
        BY SpansAre
    <2> HIDE DEF Below
    <2>4. IsFiniteSet(Below(v)) /\ Cardinality(Below(v)) <= Cardinality(Spans(s))
        BY <2>2, <2>3, FS_Subset
    <2>5. Cardinality(Below(v)) \in Nat /\ Cardinality(Below(v)) # 0
        BY <2>2, <2>4, FS_CardinalityType, FS_EmptySet
    <2>6. QED
        BY <2>2, <2>3, <2>4, <2>5
<1>2. ASSUME NEW u \in Spans(s), NEW v \in Spans(s), u[1] < v[1]
      PROVE  Cardinality(Below(u)) # Cardinality(Below(v))
    <2>1. u[1] \in Int /\ v[1] \in Int /\ \A x \in Spans(s) : x[1] \in Int
        BY SpansAre
    <2>2. Below(u) \subseteq Below(v)
        BY <1>2, <2>1
    <2>3. v \notin Below(u)
        BY <1>2, <2>1
    <2>4. v \in Below(v) /\ IsFiniteSet(Below(v))
        BY <1>1
    <2> HIDE DEF Below
    <2>5. QED
        BY <2>2, <2>3, <2>4, FS_Subset
<1>3. ASSUME NEW v \in Spans(s), Rank(s, v) = Rank(s, w) PROVE v = w
    <2>1. v[1] \in Int /\ w[1] \in Int
        BY SpansAre
    <2>2. Cardinality(Below(v)) = Cardinality(Below(w))
        BY <1>3 DEF Rank
    <2> HIDE DEF Below
    <2>3. ~(v[1] < w[1]) /\ ~(w[1] < v[1])
        BY <1>2, <2>2
    <2>4. v[1] = w[1]
        BY <2>1, <2>3
    <2>5. QED
        BY <2>4, SpansAre
<1>4. Rank(s, w) = Cardinality(Below(w))
    BY DEF Rank
<1>5. Rank(s, w) \in 1 .. Cardinality(Spans(s))
    <2> HIDE DEF Below
    <2>1. QED
        BY <1>1, <1>4
<1>6. Nth(s, Rank(s, w)) = w
    BY <1>3 DEF Nth
<1> QED
    BY <1>5, <1>6

\* Spans that are enumerated in their order: how many there are, and which is which.
LEMMA RanksAre ==
    ASSUME NEW T, NEW s \in Seq(T), NEW m \in Nat, NEW g \in [1 .. m -> Spans(s)],
           \A i, j \in 1 .. m : i < j => g[i][1] < g[j][1],
           \A v \in Spans(s) : \E n \in 1 .. m : g[n] = v
    PROVE  Cardinality(Spans(s)) = m /\ \A n \in 1 .. m : Rank(s, g[n]) = n
<1>1. \A v \in Spans(s) : v[1] \in Int
    BY SpansAre
<1>2. \A i, j \in 1 .. m : g[i] = g[j] => i = j
    <2>1. \A i \in 1 .. m : g[i][1] \in Int
        BY <1>1
    <2>2. \A i, j \in 1 .. m : i < j => g[i] # g[j]
        BY <2>1
    <2>3. \A i, j \in 1 .. m : i < j \/ j < i \/ i = j
        OBVIOUS
    <2>4. QED
        BY <2>2, <2>3
<1>3. ASSUME NEW n \in 0 .. m, NEW S \in SUBSET Spans(s), \A i \in 1 .. n : g[i] \in S,
             \A v \in S : \E i \in 1 .. n : g[i] = v
      PROVE  Cardinality(S) = n
    <2> DEFINE f == [i \in 1 .. n |-> g[i]]
    <2>1. f \in [1 .. n -> S] /\ \A i \in 1 .. n : f[i] = g[i] /\ i \in 1 .. m
        BY <1>3
    <2> HIDE DEF f
    <2>2. f \in Injection(1 .. n, S)
        BY <1>2, <2>1, Fun_IsInj
    <2>3. f \in Surjection(1 .. n, S)
        BY <1>3, <2>1, Fun_IsSurj
    <2>4. IsFiniteSet(1 .. n) /\ Cardinality(1 .. n) = n
        <3>1. 1 \in Int /\ n \in Int /\ n >= 0
            OBVIOUS
        <3>2. IsFiniteSet(1 .. n) /\ Cardinality(1 .. n) = IF 1 > n THEN 0 ELSE n - 1 + 1
            BY <3>1, FS_Interval
        <3>3. QED
            BY <3>1, <3>2
    <2>5. QED
        BY <2>2, <2>3, <2>4, FS_Surjection
<1>4. Cardinality(Spans(s)) = m
    <2>1. m \in 0 .. m
        OBVIOUS
    <2>2. QED
        BY <1>3, <2>1
<1>5. ASSUME NEW n \in 1 .. m PROVE Rank(s, g[n]) = n
    <2> DEFINE S == {v \in Spans(s) : v[1] <= g[n][1]}
    <2>1. ASSUME NEW i \in 1 .. n PROVE g[i] \in S
        <3>1. i \in 1 .. m /\ (i < n \/ i = n)
            OBVIOUS
        <3>2. g[i][1] \in Int /\ g[n][1] \in Int
            BY <1>1, <3>1
        <3>3. g[i][1] <= g[n][1]
            BY <3>1, <3>2
        <3>4. QED
            BY <3>1, <3>3
    <2>2. ASSUME NEW v \in S PROVE \E i \in 1 .. n : g[i] = v
        <3>1. PICK i \in 1 .. m : g[i] = v
            OBVIOUS
        <3>2. g[i][1] \in Int /\ g[n][1] \in Int /\ g[i][1] <= g[n][1]
            BY <1>1, <3>1
        <3>3. ~(n < i)
            BY <3>2
        <3>4. i \in 1 .. n
            BY <3>3
        <3>5. QED
            BY <3>1, <3>4
    <2>3. n \in 0 .. m /\ S \in SUBSET Spans(s)
        OBVIOUS
    <2> HIDE DEF S
    <2>4. Cardinality(S) = n
        BY <1>3, <2>1, <2>2, <2>3
    <2>5. QED
        BY <2>4 DEF Rank, S
<1> QED
    BY <1>4, <1>5

\* Where a word begins, and that one does.
Begin(s, q) == q \in 1 .. Len(s) /\ s[q] # BLANK /\ BlankAt(s, q - 1)

\* A span begins wherever a word does.
LEMMA SpanFrom ==
    ASSUME NEW T, NEW s \in Seq(T), NEW q \in 1 .. Len(s), s[q] # BLANK,
           q - 1 \notin DOMAIN s \/ s[q - 1] = BLANK
    PROVE  \E e \in q .. Len(s) : <<q, e>> \in Spans(s)
<1>0. DOMAIN s = 1 .. Len(s) /\ Len(s) \in Nat
    OBVIOUS
<1>1. DOMAIN s = 1 .. Len(s) /\ Len(s) \in Nat /\ q \in 1 .. Len(s) /\ s[q] # BLANK
    BY <1>0
<1>b. BlankAt(s, q - 1)
    BY DEF BlankAt
<1> DEFINE S == {j \in q .. Len(s) : j + 1 \notin DOMAIN s \/ s[j + 1] = BLANK}
<1>2. Len(s) \in S
    <2>1. Len(s) + 1 \notin 1 .. Len(s) /\ Len(s) \in q .. Len(s)
        BY <1>1
    <2>2. QED
        BY <1>1, <2>1
<1>3. S \in SUBSET Nat /\ S # {}
    <2>1. \A j \in q .. Len(s) : j \in Nat
        BY <1>1
    <2>2. QED
        BY <1>2, <2>1
<1>4. PICK e \in S : \A j \in S : e <= j
    <2> HIDE DEF S
    <2>1. QED
        BY <1>3, Least
<1>5. e \in q .. Len(s) /\ e \in 1 .. Len(s) /\ q <= e /\ q \in Int /\ e \in Int
    BY <1>1
<1>c. BlankAt(s, e + 1)
    BY DEF BlankAt
<1>6. ASSUME NEW i \in q .. e PROVE s[i] # BLANK
    <2>1. CASE i = q
        BY <1>1, <2>1
    <2>2. CASE i # q
        <3>1. i - 1 \in q .. Len(s) /\ ~(e <= i - 1) /\ (i - 1) + 1 = i
            BY <1>5, <2>2
        <3>2. i - 1 \notin S
            BY <1>4, <3>1
        <3>3. QED
            BY <3>1, <3>2
    <2>3. QED
        BY <2>1, <2>2
<1>7. <<q, e>> \in Spans(s)
    <2>1. <<q, e>> \in (DOMAIN s) \X (DOMAIN s)
        BY <1>1, <1>5
    <2>2. QED
        BY <1>b, <1>c, <1>5, <1>6, <2>1 DEF Spans
<1> QED
    BY <1>5, <1>7

\* And each span where one does.
LEMMA SpanBegins ==
    ASSUME NEW T, NEW s \in Seq(T), NEW w \in Spans(s)
    PROVE  Begin(s, w[1])
<1>1. w[1] \in 1 .. Len(s) /\ w[2] \in w[1] .. Len(s)
    BY SpansAre
<1>2. w[1] \in w[1] .. w[2]
    BY <1>1
<1>3. BlankAt(s, w[1] - 1) /\ s[w[1]] # BLANK
    BY <1>2 DEF Spans
<1> QED
    BY <1>1, <1>3 DEF Begin

\* The words of a text whose beginnings are known.
LEMMA WordsByBegin ==
    ASSUME NEW T, NEW s \in Seq(T), NEW m \in Nat, NEW q \in [1 .. m -> Int],
           \A i, j \in 1 .. m : i < j => q[i] < q[j],
           \A n \in 1 .. m : Begin(s, q[n]),
           \A x : Begin(s, x) => \E n \in 1 .. m : q[n] = x
    PROVE  /\ Words(s) = [n \in 1 .. m |-> Words(s)[n]]
           /\ \A n \in 1 .. m : \E e \in q[n] .. Len(s) :
                  <<q[n], e>> \in Spans(s) /\ Words(s)[n] = SubSeq(s, q[n], e)
<1> DEFINE end(n) == CHOOSE e \in q[n] .. Len(s) : <<q[n], e>> \in Spans(s)
           g == [n \in 1 .. m |-> <<q[n], end(n)>>]
<1>1. ASSUME NEW n \in 1 .. m
      PROVE  g[n] \in Spans(s) /\ g[n][1] = q[n] /\ g[n][2] \in q[n] .. Len(s) /\ g[n] = <<q[n], g[n][2]>>
    <2>0. q[n] \in 1 .. Len(s) /\ s[q[n]] # BLANK /\ (q[n] - 1 \notin DOMAIN s \/ s[q[n] - 1] = BLANK)
        BY DEF Begin, BlankAt
    <2>1. \E e \in q[n] .. Len(s) : <<q[n], e>> \in Spans(s)
        BY <2>0, SpanFrom
    <2>2. end(n) \in q[n] .. Len(s) /\ <<q[n], end(n)>> \in Spans(s)
        BY <2>1
    <2> HIDE DEF end
    <2>3. QED
        BY <2>2
<1> HIDE DEF end
<1>2. g = [n \in 1 .. m |-> g[n]] /\ DOMAIN g = 1 .. m
    OBVIOUS
<1> HIDE DEF g
<1>3. g \in [1 .. m -> Spans(s)]
    BY <1>1, <1>2
<1>4. \A i, j \in 1 .. m : i < j => g[i][1] < g[j][1]
    BY <1>1
<1>5. \A v \in Spans(s) : \E n \in 1 .. m : g[n] = v
    <2>1. ASSUME NEW v \in Spans(s) PROVE \E n \in 1 .. m : g[n] = v
        <3>1. Begin(s, v[1])
            BY SpanBegins
        <3>2. PICK n \in 1 .. m : q[n] = v[1]
            BY <3>1
        <3>3. g[n] \in Spans(s) /\ g[n][1] = v[1]
            BY <1>1, <3>2
        <3>4. QED
            BY <3>3, SpansAre
    <2>2. QED
        BY <2>1
<1>6. Cardinality(Spans(s)) = m /\ \A n \in 1 .. m : Rank(s, g[n]) = n
    BY <1>3, <1>4, <1>5, RanksAre
<1>7. \A n \in 1 .. m : Nth(s, n) = g[n]
    <2>1. ASSUME NEW n \in 1 .. m PROVE Nth(s, n) = g[n]
        <3>1. g[n] \in Spans(s) /\ Rank(s, g[n]) = n
            BY <1>1, <1>6
        <3>2. Nth(s, Rank(s, g[n])) = g[n]
            BY <3>1, RankIsOwn
        <3>3. QED
            BY <3>1, <3>2
    <2>2. QED
        BY <2>1
<1>8. Words(s) = [n \in 1 .. m |-> SubSeq(s, Nth(s, n)[1], Nth(s, n)[2])]
    BY <1>6, WordsOfSpans
<1>9. \A n \in 1 .. m : Words(s)[n] = SubSeq(s, q[n], g[n][2])
    <2>1. ASSUME NEW n \in 1 .. m PROVE Words(s)[n] = SubSeq(s, q[n], g[n][2])
        <3>1. Words(s)[n] = SubSeq(s, Nth(s, n)[1], Nth(s, n)[2])
            BY <1>8
        <3>2. Nth(s, n) = g[n] /\ g[n][1] = q[n]
            BY <1>1, <1>7
        <3>3. QED
            BY <3>1, <3>2
    <2>2. QED
        BY <2>1
<1>10. Words(s) = [n \in 1 .. m |-> Words(s)[n]]
    BY <1>8
<1>11. ASSUME NEW n \in 1 .. m
       PROVE  \E e \in q[n] .. Len(s) : <<q[n], e>> \in Spans(s) /\ Words(s)[n] = SubSeq(s, q[n], e)
    <2>1. g[n][2] \in q[n] .. Len(s) /\ <<q[n], g[n][2]>> \in Spans(s)
        BY <1>1
    <2>2. QED
        BY <1>9, <2>1
<1> QED
    BY <1>10, <1>11

\* The string at a cell ends before the first '\0'.
LEMMA StringIs ==
    ASSUME NEW k \in Nat, NEW e \in Nat, k <= e, e + 1 <= Len(line), Len(line) \in Nat,
           \A j \in k .. e : line[j] # "0", line[e + 1] = "0"
    PROVE  StringAt(k) = SubSeq(line, k, e)
<1> DEFINE ends == {j \in k .. Len(line) : line[j] = "0"}
           first == CHOOSE x \in ends : \A j \in ends : x <= j
<1>1. e + 1 \in ends
    OBVIOUS
<1>2. ASSUME NEW j \in ends PROVE e + 1 <= j /\ j \in Int
    <2>1. j \in k .. Len(line) /\ j \notin k .. e
        OBVIOUS
    <2>2. QED
        BY <2>1
<1>3. first = e + 1
    <2>1. first \in ends /\ \A j \in ends : first <= j
        BY <1>1, <1>2
    <2> HIDE DEF first
    <2>2. first <= e + 1 /\ e + 1 <= first /\ first \in Int
        BY <1>1, <1>2, <2>1
    <2>3. QED
        BY <2>2
<1>4. StringAt(k) = SubSeq(line, k, first - 1)
    BY DEF StringAt
<1>5. (e + 1) - 1 = e
    OBVIOUS
<1> HIDE DEF first
<1> QED
    BY <1>3, <1>4, <1>5

\* A text lies after cell B of the buffer, begins at its place p and has its arguments at the
\* cells a; its blanks are '\0', and so is the cell after it.
Parted(s, B, p, a) ==
    /\ B + Len(s) + 1 <= Len(line) /\ line[B + Len(s) + 1] = "0"
    /\ \A j \in 1 .. Len(s) : s[j] # "0"
    /\ p \in 1 .. Len(s) + 1 /\ (\A j \in 1 .. p - 1 : s[j] = BLANK) /\ (p <= Len(s) => s[p] # BLANK)
    /\ \A j \in p .. Len(s) : line[B + j] = IF s[j] = BLANK THEN "0" ELSE s[j]
    /\ \A i, j \in DOMAIN a : i < j => a[i] < a[j]
    /\ \A n \in DOMAIN a : /\ a[n] - B \in p + 1 .. Len(s)
                           /\ s[a[n] - B - 1] = BLANK /\ s[a[n] - B] # BLANK
    /\ \A x \in p + 1 .. Len(s) : s[x - 1] = BLANK /\ s[x] \notin {BLANK, "&"} =>
                                      \E n \in DOMAIN a : a[n] = B + x
Told(s) == Words(s) # <<>> /\ \A w \in DOMAIN Words(s) : Words(s)[w][1] # "&"

\* What is between the cells of a command and its arguments, cut in place, are the words of the text.
LEMMA PartsAreWords ==
    ASSUME NEW T, NEW s \in Seq(T), NEW U, NEW B \in Nat, line \in Seq(U), NEW p \in Int,
           NEW a \in Seq(Int), Parted(s, B, p, a), Told(s)
    PROVE  <<StringAt(B + p)>> \o [j \in DOMAIN a |-> StringAt(a[j])] = Words(s)
<1>k. PICK K \in Nat : Len(s) = K
    OBVIOUS
<1>0. /\ B + K + 1 <= Len(line) /\ line[B + K + 1] = "0"
      /\ \A j \in 1 .. K : s[j] # "0"
      /\ p \in 1 .. K + 1 /\ (\A j \in 1 .. p - 1 : s[j] = BLANK) /\ (p <= K => s[p] # BLANK)
      /\ \A j \in p .. K : line[B + j] = IF s[j] = BLANK THEN "0" ELSE s[j]
      /\ \A i, j \in DOMAIN a : i < j => a[i] < a[j]
      /\ \A n \in DOMAIN a : /\ a[n] - B \in p + 1 .. K
                             /\ s[a[n] - B - 1] = BLANK /\ s[a[n] - B] # BLANK
      /\ \A x \in p + 1 .. K : s[x - 1] = BLANK /\ s[x] \notin {BLANK, "&"} =>
                                   \E n \in DOMAIN a : a[n] = B + x
      /\ Words(s) # <<>> /\ \A w \in DOMAIN Words(s) : Words(s)[w][1] # "&"
    BY <1>k DEF Parted, Told
<1> USE <1>k, <1>0
<1>1. DOMAIN s = 1 .. K
    OBVIOUS
<1>2. PICK first : first \in Spans(s)
    <2>1. ASSUME Spans(s) = {} PROVE FALSE
        <3>1. Cardinality(Spans(s)) = 0
            BY <2>1, FS_EmptySet
        <3>2. Words(s) = [n \in 1 .. 0 |-> SubSeq(s, Nth(s, n)[1], Nth(s, n)[2])]
            BY <3>1, WordsOfSpans
        <3>3. Words(s) = <<>>
            BY <3>2
        <3>4. QED
            BY <3>3
    <2>2. QED
        BY <2>1
<1>3. p <= K /\ s[p] # BLANK
    <2>1. first[1] \in 1 .. K /\ s[first[1]] # BLANK
        BY <1>2, SpanBegins DEF Begin
    <2>2. p # K + 1
        BY <2>1
    <2>3. QED
        BY <2>2
<1>4. ASSUME NEW x \in 1 .. K, Begin(s, x) PROVE s[x] # "&"
    <2>1. x \in 1 .. Len(s) /\ s[x] # BLANK /\ (x - 1 \notin DOMAIN s \/ s[x - 1] = BLANK)
        BY <1>4 DEF Begin, BlankAt
    <2>2. PICK e \in x .. Len(s) : <<x, e>> \in Spans(s)
        BY <2>1, SpanFrom
    <2> DEFINE w == <<x, e>>
    <2>3. w \in Spans(s) /\ w[1] = x /\ w[2] = e
        BY <2>2
    <2> HIDE DEF w
    <2>4. Rank(s, w) \in 1 .. Cardinality(Spans(s)) /\ Nth(s, Rank(s, w)) = w
        BY <2>3, RankIsOwn
    <2>5. Rank(s, w) \in DOMAIN Words(s) /\ Words(s)[Rank(s, w)] = SubSeq(s, x, e)
        BY <2>3, <2>4, WordsOfSpans
    <2>6. SubSeq(s, x, e)[1] = s[x]
        BY <1>1, <2>2
    <2>7. QED
        BY <2>5, <2>6
<1> DEFINE m == Len(a) + 1
           q == [n \in 1 .. m |-> IF n = 1 THEN p ELSE a[n - 1] - B]
<1>5. m \in Nat /\ DOMAIN a = 1 .. m - 1 /\ \A n \in 1 .. m : n # 1 => n - 1 \in DOMAIN a
    OBVIOUS
<1>6. \A n \in 1 .. m : q[n] = IF n = 1 THEN p ELSE a[n - 1] - B
    OBVIOUS
<1>7. q \in [1 .. m -> Int]
    BY <1>5
<1> HIDE DEF m, q
<1>8. \A i, j \in 1 .. m : i < j => q[i] < q[j]
    <2>1. ASSUME NEW i \in 1 .. m, NEW j \in 1 .. m, i < j PROVE q[i] < q[j]
        <3>1. j - 1 \in DOMAIN a /\ q[j] = a[j - 1] - B /\ j # 1
            BY <1>5, <1>6, <2>1
        <3>2. CASE i = 1
            <4>1. q[i] = p /\ q[j] \in p + 1 .. K
                BY <1>6, <3>1, <3>2
            <4>2. QED
                BY <4>1
        <3>3. CASE i # 1
            <4>1. i - 1 \in DOMAIN a /\ q[i] = a[i - 1] - B /\ i - 1 < j - 1
                BY <1>5, <1>6, <2>1, <3>3
            <4>2. a[i - 1] < a[j - 1] /\ a[i - 1] \in Int /\ a[j - 1] \in Int
                BY <3>1, <4>1
            <4>3. QED
                BY <3>1, <4>1, <4>2
        <3>4. QED
            BY <3>2, <3>3
    <2>2. QED
        BY <2>1
<1>9. ASSUME NEW n \in 1 .. m
      PROVE  q[n] \in p .. K /\ q[n] \in 1 .. K /\ s[q[n]] # BLANK /\ (q[n] - 1 \notin DOMAIN s \/ s[q[n] - 1] = BLANK)
    <2>1. CASE n = 1
        <3>1. q[n] = p /\ p \in 1 .. K
            BY <1>3, <1>6, <2>1
        <3>2. p - 1 \in DOMAIN s => p - 1 \in 1 .. p - 1
            BY <1>1
        <3>3. QED
            BY <1>3, <3>1, <3>2
    <2>2. CASE n # 1
        <3>1. n - 1 \in DOMAIN a /\ q[n] = a[n - 1] - B
            BY <1>5, <1>6, <2>2
        <3>2. q[n] \in p + 1 .. K /\ s[q[n] - 1] = BLANK /\ s[q[n]] # BLANK
            BY <3>1
        <3>3. QED
            BY SMTT(40), <3>2
    <2>3. QED
        BY <2>1, <2>2
<1>10. \A n \in 1 .. m : Begin(s, q[n])
    BY <1>9 DEF Begin, BlankAt
<1>11. ASSUME NEW x, Begin(s, x) PROVE \E n \in 1 .. m : q[n] = x
    <2>1. x \in 1 .. K /\ s[x] # BLANK /\ (x - 1 \notin 1 .. K \/ s[x - 1] = BLANK)
        BY <1>1, <1>11 DEF Begin, BlankAt
    <2>2. s[x] # "&"
        BY <1>4, <1>11, <2>1
    <2>3. ~(x < p)
        <3>1. x < p => x \in 1 .. p - 1
            BY <2>1
        <3>2. QED
            BY <2>1, <3>1
    <2>4. CASE x = p
        <3>1. 1 \in 1 .. m
            BY <1>5 DEF m
        <3>2. q[1] = p
            BY <1>6, <3>1
        <3>3. QED
            BY <2>4, <3>1, <3>2
    <2>5. CASE x # p
        <3>1. x \in p + 1 .. K /\ x - 1 \in 1 .. K
            BY <2>1, <2>3, <2>5
        <3>2. PICK n \in DOMAIN a : a[n] = B + x
            BY <2>1, <2>2, <3>1
        <3>3. n + 1 \in 1 .. m /\ n + 1 # 1 /\ (n + 1) - 1 = n
            BY SMTT(40) DEF m
        <3>4. q[n + 1] = a[n] - B
            BY <1>6, <3>3
        <3>5. q[n + 1] = x
            BY <2>1, <3>2, <3>4
        <3>6. QED
            BY <3>3, <3>5
    <2>6. QED
        BY <2>4, <2>5
<1>a. \A x : Begin(s, x) => \E n \in 1 .. m : q[n] = x
    BY <1>11
<1>b. Len(s) = K /\ s \in Seq(T)
    OBVIOUS
<1>12. /\ Words(s) = [n \in 1 .. m |-> Words(s)[n]]
       /\ \A n \in 1 .. m : \E e \in q[n] .. Len(s) :
              <<q[n], e>> \in Spans(s) /\ Words(s)[n] = SubSeq(s, q[n], e)
    BY ONLY <1>5, <1>7, <1>8, <1>10, <1>a, <1>b, WordsByBegin
<1>13. ASSUME NEW n \in 1 .. m
       PROVE  StringAt(B + q[n]) = Words(s)[n] /\ Words(s)[n] \in Seq(T)
    <2>1. PICK e \in q[n] .. Len(s) : <<q[n], e>> \in Spans(s) /\ Words(s)[n] = SubSeq(s, q[n], e)
        BY <1>12
    <2>2. q[n] \in 1 .. K /\ q[n] \in p .. K /\ e \in q[n] .. K /\ e \in 1 .. K
        BY <1>9, <2>1
    <2>3. (\A i \in q[n] .. e : s[i] # BLANK) /\ (e + 1 \notin 1 .. K \/ s[e + 1] = BLANK)
        <3> DEFINE w == <<q[n], e>>
        <3>1. w[1] = q[n] /\ w[2] = e /\ w \in Spans(s)
            BY <2>1
        <3> HIDE DEF w
        <3>2. (\A i \in w[1] .. w[2] : s[i] # BLANK) /\ BlankAt(s, w[2] + 1)
            BY <3>1 DEF Spans
        <3>3. QED
            BY <1>1, <3>1, <3>2 DEF BlankAt
    <2> DEFINE k == B + q[n]
               l == B + e
    <2>4. k \in Nat /\ l \in Nat /\ k <= l /\ l + 1 <= Len(line) /\ Len(line) \in Nat
        BY SMTT(40), <2>2
    <2>5. line[l + 1] = "0"
        <3>1. l + 1 = B + (e + 1)
            BY <2>2
        <3>2. CASE e + 1 \in 1 .. K
            <4>1. e + 1 \in p .. K
                BY <2>2, <3>2
            <4>2. line[B + (e + 1)] = "0"
                BY <2>3, <3>2, <4>1
            <4>3. QED
                BY <3>1, <4>2
        <3>3. CASE e + 1 \notin 1 .. K
            <4>1. l + 1 = B + K + 1
                BY <2>2, <3>3
            <4>2. QED
                BY <4>1
        <3>4. QED
            BY <3>2, <3>3
    <2>6. ASSUME NEW j \in k .. l PROVE line[j] # "0" /\ line[j] = s[j - B]
        <3>1. j - B \in q[n] .. e /\ j - B \in 1 .. K /\ j - B \in p .. K /\ B + (j - B) = j
            BY SMTT(40), <2>2
        <3>2. line[B + (j - B)] = s[j - B] /\ s[j - B] # "0"
            BY <2>3, <3>1
        <3>3. QED
            BY <3>1, <3>2
    <2> HIDE DEF k, l
    <2>7. StringAt(k) = SubSeq(line, k, l)
        BY SMTT(40), <2>4, <2>5, <2>6, StringIs
    <2>8. SubSeq(line, k, l) = SubSeq(s, q[n], e) /\ SubSeq(s, q[n], e) \in Seq(T)
        <3> DEFINE u == SubSeq(line, k, l)
                   v == SubSeq(s, q[n], e)
                   c == e - q[n] + 1
                   b == q[n]
        <3>1. c \in Nat /\ l - k + 1 = c
            <4>1. q[n] \in Nat /\ e \in Nat /\ q[n] <= e /\ B \in Nat
                BY <2>2
            <4>2. k = B + q[n] /\ l = B + e /\ c = e - q[n] + 1
                BY DEF k, l
            <4> HIDE DEF c, q
            <4>3. QED
                BY ONLY SMTT(40), <4>1, <4>2
        <3>a. /\ b \in Nat /\ 1 <= b /\ e <= Len(s) /\ e \in Nat /\ e - b + 1 = c
              /\ k - B = b /\ k \in Nat
            BY SMTT(40), <2>2 DEF k
        <3> HIDE DEF b, c
        <3>2. v \in Seq(T) /\ Len(v) = c /\ \A i \in 1 .. c : v[i] = s[b + i - 1]
            <4>1. v = SubSeq(s, b, e)
                BY DEF b
            <4> HIDE DEF v
            <4>2. QED
                BY <3>a, <3>1, <4>1
        <3>3. 1 <= k /\ l <= Len(line)
            BY <2>4, <3>a
        <3>4. u \in Seq(U) /\ Len(u) = c /\ \A i \in 1 .. c : u[i] = line[k + i - 1]
            BY <2>4, <3>1, <3>3
        <3>5. ASSUME NEW i \in 1 .. c PROVE u[i] = v[i]
            <4>1. k + i - 1 \in k .. l /\ (k + i - 1) - B = b + i - 1
                BY <2>4, <3>1, <3>a
            <4>2. line[k + i - 1] = s[b + i - 1]
                BY <2>6, <4>1
            <4> HIDE DEF u, v
            <4>3. QED
                BY <3>2, <3>4, <4>2
        <3>6. u = v
            <4> HIDE DEF u, v, c
            <4>1. u = [i \in 1 .. c |-> u[i]] /\ v = [i \in 1 .. c |-> v[i]]
                BY <3>2, <3>4
            <4>2. QED
                BY <3>5, <4>1
        <3>7. QED
            BY <3>2, <3>6
    <2>9. QED
        BY <2>1, <2>7, <2>8 DEF k
<1> DEFINE rest == [j \in DOMAIN a |-> StringAt(a[j])]
           head == StringAt(B + p)
<1>14. head = Words(s)[1] /\ head \in Seq(T)
    <2>1. 1 \in 1 .. m /\ q[1] = p
        BY <1>5, <1>6 DEF m
    <2>2. QED
        BY <1>13, <2>1
<1>15. ASSUME NEW j \in 1 .. m - 1 PROVE rest[j] = Words(s)[j + 1] /\ rest[j] \in Seq(T)
    <2>1. j + 1 \in 1 .. m /\ q[j + 1] = a[j] - B /\ j \in DOMAIN a
        <3>1. j + 1 \in 1 .. m /\ j + 1 # 1 /\ (j + 1) - 1 = j
            BY <1>5
        <3>2. QED
            BY <1>5, <1>6, <3>1
    <2>2. B + q[j + 1] = a[j]
        <3>1. a[j] \in Int
            BY <2>1
        <3>2. QED
            BY <2>1, <3>1
    <2>3. rest[j] = StringAt(a[j])
        BY <2>1
    <2>4. QED
        BY <1>13, <2>1, <2>2, <2>3
<1>16. rest = [j \in 1 .. m - 1 |-> rest[j]] /\ m - 1 \in Nat
    BY <1>5 DEF m
<1> HIDE DEF rest, head
<1>18. rest \in Seq(Seq(T)) /\ Len(rest) = m - 1
    <2> DEFINE k == m - 1
               X == Seq(T)
    <2>1. k \in Nat /\ rest = [j \in 1 .. k |-> rest[j]] /\ \A j \in 1 .. k : rest[j] \in X
        BY <1>15, <1>16
    <2> HIDE DEF k, X
    <2>b. rest \in [1 .. k -> X]
        BY <2>1
    <2>2. rest \in Seq(X) /\ Len(rest) = k
        BY <2>1, <2>b
    <2>3. QED
        BY <2>2 DEF k, X
<1> DEFINE all == <<head>> \o rest
<1>19. all \in Seq(Seq(T)) /\ Len(all) = m /\ all[1] = head /\ \A j \in 1 .. m - 1 : all[j + 1] = rest[j]
    <2> DEFINE X == Seq(T)
    <2>1. head \in X /\ rest \in Seq(X) /\ Len(rest) = m - 1 /\ m \in Nat
        BY <1>5, <1>14, <1>18
    <2> HIDE DEF X
    <2>2. all \in Seq(X) /\ Len(all) = m /\ all[1] = head /\ \A j \in 1 .. m - 1 : all[j + 1] = rest[j]
        BY <2>1
    <2>3. QED
        BY <2>2 DEF X
<1> HIDE DEF all
<1>20. ASSUME NEW n \in 1 .. m PROVE all[n] = Words(s)[n]
    <2>1. CASE n = 1
        BY <1>14, <1>19, <2>1
    <2>2. CASE n # 1
        <3>1. n - 1 \in 1 .. m - 1 /\ (n - 1) + 1 = n
            BY <1>5, <2>2
        <3>2. QED
            BY <1>15, <1>19, <3>1
    <2>3. QED
        BY <2>1, <2>2
<1>21. all = [n \in 1 .. m |-> all[n]]
    BY <1>19
<1>22. all = Words(s)
    BY <1>12, <1>20, <1>21
<1> QED
    BY <1>22 DEF all, head, rest

----------------------------------------------------------------------------
(***************************************************************************)
(* X                                                                       *)
(***************************************************************************)
Plain == {"a", BLANK, "&"}

\* A character of a command is none of the shell's marks, but for '&' and the blank.
LEMMA PlainIs ==
    /\ \A x \in Plain : x # "0" /\ x # "|"
    /\ BLANK # "0" /\ BLANK # "&" /\ BLANK # "|" /\ BLANK \in Plain /\ "&" \in Plain
BY DEF Plain, BLANK

\* A command is scanned on its own: its text s lies after cell B of the buffer l, it begins at
\* place p of the text, and its arguments begin at the cells a.
Beginning(s, p) == (\A j \in 1 .. p - 1 : s[j] = BLANK) /\ (p <= Len(s) => s[p] # BLANK)

\* Only blanks at its front were passed.
Skipped(s, B, p, a, l) ==
    /\ p \in 1 .. Len(s) + 1 /\ a = <<>>
    /\ \A j \in 1 .. p - 1 : s[j] = BLANK
    /\ \A j \in 1 .. Len(s) : l[B + j] = s[j]
    /\ l[B + Len(s) + 1] = "0"

\* What was found before place i: arguments, in their order, and no '&' that ends a word.
Found(s, B, p, a, i) ==
    /\ p \in 1 .. i /\ Beginning(s, p)
    /\ \A m, n \in DOMAIN a : m < n => a[m] < a[n]
    /\ \A n \in DOMAIN a : /\ a[n] - B \in p + 1 .. Len(s) /\ a[n] - B <= i
                           /\ s[a[n] - B - 1] = BLANK /\ s[a[n] - B] \notin {BLANK, "&"}
    /\ \A k \in Ampersands(s) : k >= i
\* ... and all there were.
Complete(s, B, p, a, i) ==
    \A x \in p + 1 .. Len(s) : x <= i /\ s[x - 1] = BLANK /\ s[x] \notin {BLANK, "&"} =>
                                   \E n \in DOMAIN a : a[n] = B + x

Scanned(s, B, p, a, l, i) ==
    /\ i \in 1 .. Len(s) + 1 /\ Len(a) < MAX_ARGS
    /\ Found(s, B, p, a, i) /\ Complete(s, B, p, a, i)
    /\ \A j \in p .. Len(s) : l[B + j] = IF j < i /\ s[j] = BLANK THEN "0" ELSE s[j]
    /\ l[B + Len(s) + 1] = "0"

\* The first k places are kept: they are the whole text, or the first '&' comes after them.
Keeps(s, k) ==
    \/ k = Len(s) /\ Ampersands(s) = {}
    \/ k + 1 \in Ampersands(s) /\ \A j \in Ampersands(s) : k + 1 <= j
Ended(s, B, p, a, l, k) ==
    /\ k \in 0 .. Len(s) /\ Keeps(s, k)
    /\ Found(s, B, p, a, k + 1) /\ Complete(s, B, p, a, k + 1)
    /\ \A j \in p .. k : l[B + j] = IF s[j] = BLANK THEN "0" ELSE s[j]
    /\ l[B + k + 1] = "0"

\* The rest of the command stays in its last argument.
Overflown(s, B, p, a) == Len(a) >= MAX_ARGS /\ \E i \in 1 .. Len(s) : Found(s, B, p, a, i)

----------------------------------------------------------------------------
\* A blank at the front is passed.
LEMMA SkipsOne ==
    ASSUME NEW s \in Seq(Plain), NEW B \in Nat, NEW p \in Int, NEW a, NEW l,
           Skipped(s, B, p, a, l), l[B + p] = BLANK
    PROVE  Skipped(s, B, p + 1, a, l)
<1>1. p \in 1 .. Len(s) + 1 /\ Len(s) \in Nat
    BY DEF Skipped
<1>2. p # Len(s) + 1
    <2>1. p = Len(s) + 1 => l[B + Len(s) + 1] = BLANK
        BY <1>1
    <2>2. QED
        BY <2>1, PlainIs DEF Skipped
<1>3. p \in 1 .. Len(s) /\ s[p] = BLANK
    BY <1>1, <1>2 DEF Skipped
<1>4. \A j \in 1 .. (p + 1) - 1 : j = p \/ j \in 1 .. p - 1
    BY <1>1
<1> QED
    BY <1>1, <1>3, <1>4 DEF Skipped

\* A command begins at anything else, its '\0' included.
LEMMA BeginsCommand ==
    ASSUME NEW s \in Seq(Plain), NEW B \in Nat, NEW p \in Int, NEW a, NEW l,
           Skipped(s, B, p, a, l), l[B + p] # BLANK
    PROVE  Scanned(s, B, p, a, l, p)
<1>1. p \in 1 .. Len(s) + 1 /\ Len(s) \in Nat /\ a = <<>>
    BY DEF Skipped
<1>2. p <= Len(s) => s[p] # BLANK
    BY <1>1 DEF Skipped
<1>3. Beginning(s, p)
    BY <1>2 DEF Skipped, Beginning
<1>4. ASSUME NEW k \in Ampersands(s) PROVE k >= p
    <2>1. k \in 1 .. Len(s) /\ s[k] = "&"
        BY DEF Ampersands
    <2>2. ~(k \in 1 .. p - 1)
        BY <2>1, PlainIs DEF Skipped
    <2>3. QED
        BY <1>1, <2>1, <2>2
<1>5. DOMAIN a = {} /\ Len(a) < MAX_ARGS
    BY <1>1, CommandAssumption
<1>6. Found(s, B, p, a, p)
    <2>1. p \in 1 .. p
        BY <1>1
    <2>2. QED
        BY <1>3, <1>4, <1>5, <2>1 DEF Found
<1>7. Complete(s, B, p, a, p)
    BY <1>1 DEF Complete
<1>8. \A j \in p .. Len(s) : l[B + j] = IF j < p /\ s[j] = BLANK THEN "0" ELSE s[j]
    BY <1>1 DEF Skipped
<1> QED
    BY <1>1, <1>5, <1>6, <1>7, <1>8 DEF Scanned, Skipped

\* A cell that was not looked at is as it was typed.
LEMMA NotYetCut ==
    ASSUME NEW s \in Seq(Plain), NEW B \in Nat, NEW p \in Int, NEW a, NEW l, NEW i \in Int,
           Scanned(s, B, p, a, l, i)
    PROVE  /\ Len(s) \in Nat /\ p \in 1 .. i /\ i \in 1 .. Len(s) + 1
           /\ i <= Len(s) => l[B + i] = s[i] /\ s[i] \in Plain
           /\ i = Len(s) + 1 => l[B + i] = "0"
           /\ i <= Len(s) => IF i + 1 <= Len(s) THEN l[B + i + 1] = s[i + 1] /\ s[i + 1] \in Plain
                                                ELSE l[B + i + 1] = "0"
<1>1. Len(s) \in Nat /\ p \in 1 .. i /\ i \in 1 .. Len(s) + 1
    BY DEF Scanned, Found
<1>2. ASSUME NEW j \in i .. Len(s) PROVE l[B + j] = s[j] /\ s[j] \in Plain
    <2>1. j \in p .. Len(s) /\ ~(j < i) /\ j \in 1 .. Len(s)
        BY <1>1
    <2>2. QED
        BY <2>1 DEF Scanned
<1>3. l[B + Len(s) + 1] = "0"
    BY DEF Scanned
<1>4. i <= Len(s) => i \in i .. Len(s)
    BY <1>1
<1>5. i + 1 <= Len(s) => i + 1 \in i .. Len(s) /\ B + (i + 1) = B + i + 1
    BY <1>1
<1>6. i <= Len(s) /\ ~(i + 1 <= Len(s)) => i = Len(s)
    BY <1>1
<1> QED
    BY <1>1, <1>2, <1>3, <1>4, <1>5, <1>6

\* At the '\0' the whole text was kept.
LEMMA EndsCommand ==
    ASSUME NEW s \in Seq(Plain), NEW B \in Nat, NEW p \in Int, NEW a, NEW l, NEW i \in Int,
           Scanned(s, B, p, a, l, i), l[B + i] = "0"
    PROVE  Ended(s, B, p, a, l, Len(s)) /\ Ampersands(s) = {}
<1>1. /\ Len(s) \in Nat /\ p \in 1 .. i /\ i \in 1 .. Len(s) + 1
      /\ i <= Len(s) => l[B + i] = s[i] /\ s[i] \in Plain
    BY NotYetCut
<1>2. i = Len(s) + 1
    BY <1>1, PlainIs
<1>3. Ampersands(s) = {}
    <2>1. ASSUME NEW k \in Ampersands(s) PROVE FALSE
        <3>1. k \in 1 .. Len(s) /\ k >= i
            BY DEF Ampersands, Scanned, Found
        <3>2. QED
            BY <1>1, <1>2, <3>1
    <2>2. QED
        BY <2>1
<1>4. Found(s, B, p, a, Len(s) + 1) /\ Complete(s, B, p, a, Len(s) + 1) /\ l[B + Len(s) + 1] = "0"
    BY <1>2 DEF Scanned
<1>5. \A j \in p .. Len(s) : l[B + j] = IF s[j] = BLANK THEN "0" ELSE s[j]
    <2>1. \A j \in p .. Len(s) : j < i
        BY <1>1, <1>2
    <2>2. QED
        BY <2>1 DEF Scanned
<1>6. Len(s) \in 0 .. Len(s) /\ Keeps(s, Len(s))
    BY <1>1, <1>3 DEF Keeps
<1> QED
    BY <1>3, <1>4, <1>5, <1>6 DEF Ended

\* At the '&' that ends a word, what is before it was kept.
LEMMA EndsAtAmpersand ==
    ASSUME NEW s \in Seq(Plain), NEW B \in Nat, NEW p \in Int, NEW a, NEW l, NEW i \in Int, NEW m,
           Scanned(s, B, p, a, l, i), l[B + i] = "&", l[B + i + 1] \in {"0", BLANK},
           \A j \in 1 .. Len(s) + 1 : m[B + j] = IF j = i THEN "0" ELSE l[B + j]
    PROVE  Ended(s, B, p, a, m, i - 1) /\ Ampersands(s) # {}
<1>1. /\ Len(s) \in Nat /\ p \in 1 .. i /\ i \in 1 .. Len(s) + 1
      /\ i <= Len(s) => l[B + i] = s[i]
      /\ i = Len(s) + 1 => l[B + i] = "0"
      /\ i <= Len(s) => IF i + 1 <= Len(s) THEN l[B + i + 1] = s[i + 1] /\ s[i + 1] \in Plain
                                           ELSE l[B + i + 1] = "0"
    BY NotYetCut
<1>2. i \in 1 .. Len(s) /\ s[i] = "&"
    BY <1>1
<1>3. i \in Ampersands(s)
    <2>1. i + 1 \in DOMAIN s => s[i + 1] = BLANK
        <3>1. i + 1 \in DOMAIN s => i + 1 <= Len(s)
            BY <1>1
        <3>2. QED
            BY <1>1, <1>2, <3>1, PlainIs
    <2>2. QED
        BY <1>2, <2>1 DEF Ampersands, BlankAt
<1>4. (i - 1) + 1 = i /\ i - 1 \in 0 .. Len(s)
    BY <1>2
<1>5. Found(s, B, p, a, i) /\ Complete(s, B, p, a, i)
    BY DEF Scanned
<1>6. Keeps(s, i - 1)
    <2>1. \A k \in Ampersands(s) : k \in Int /\ k >= i
        BY <1>5 DEF Found, Ampersands
    <2>2. QED
        BY <1>3, <1>4, <2>1 DEF Keeps
<1>7. \A j \in p .. i - 1 : m[B + j] = IF s[j] = BLANK THEN "0" ELSE s[j]
    <2>1. ASSUME NEW j \in p .. i - 1 PROVE m[B + j] = IF s[j] = BLANK THEN "0" ELSE s[j]
        <3>1. j \in 1 .. Len(s) + 1 /\ j # i /\ j \in p .. Len(s) /\ j < i
            BY <1>1, <1>2
        <3>2. QED
            BY <3>1 DEF Scanned
    <2>2. QED
        BY <2>1
<1>8. m[B + (i - 1) + 1] = "0"
    <2>1. m[B + i] = "0" /\ B + (i - 1) + 1 = B + i
        BY <1>1
    <2>2. QED
        BY <2>1
<1>9. Ended(s, B, p, a, m, i - 1)
    BY <1>4, <1>5, <1>6, <1>7, <1>8 DEF Ended
<1> QED
    BY <1>3, <1>9

\* The place is passed, and cut if it is blank.
Passed(s, B, l, m, i) ==
    \A j \in 1 .. Len(s) + 1 : m[B + j] = IF j = i /\ s[i] = BLANK THEN "0" ELSE l[B + j]

\* The next place: what the step that leaves place i must show.
LEMMA NextPlace ==
    ASSUME NEW s \in Seq(Plain), NEW B \in Nat, NEW p \in Int, NEW a \in Seq(Int), NEW l,
           NEW i \in Int, NEW m,
           Scanned(s, B, p, a, l, i), i <= Len(s), i \notin Ampersands(s),
           Passed(s, B, l, m, i)
    PROVE  /\ i + 1 \in 1 .. Len(s) + 1 /\ p \in 1 .. i + 1 /\ Beginning(s, p)
           /\ \A k \in Ampersands(s) : k >= i + 1
           /\ \A j \in p .. Len(s) : m[B + j] = IF j < i + 1 /\ s[j] = BLANK THEN "0" ELSE s[j]
           /\ m[B + Len(s) + 1] = "0"
<1>1. Len(s) \in Nat /\ p \in 1 .. i /\ i \in 1 .. Len(s)
    BY NotYetCut
<1>2. ASSUME NEW k \in Ampersands(s) PROVE k >= i + 1
    <2>1. k \in Int /\ k >= i /\ k # i
        BY DEF Scanned, Found, Ampersands
    <2>2. QED
        BY <1>1, <2>1
<1>3. ASSUME NEW j \in p .. Len(s)
      PROVE  m[B + j] = IF j < i + 1 /\ s[j] = BLANK THEN "0" ELSE s[j]
    <2>1. j \in 1 .. Len(s) + 1
        BY <1>1
    <2>2. l[B + j] = IF j < i /\ s[j] = BLANK THEN "0" ELSE s[j]
        BY DEF Scanned
    <2>3. m[B + j] = IF j = i /\ s[i] = BLANK THEN "0" ELSE l[B + j]
        BY <2>1 DEF Passed
    <2>4. j < i + 1 <=> j < i \/ j = i
        BY <1>1
    <2>5. QED
        BY <2>2, <2>3, <2>4
<1>4. m[B + Len(s) + 1] = "0"
    <2>1. B + (Len(s) + 1) = B + Len(s) + 1 /\ Len(s) + 1 \in 1 .. Len(s) + 1 /\ Len(s) + 1 # i
        BY <1>1
    <2>2. m[B + (Len(s) + 1)] = l[B + (Len(s) + 1)]
        BY <2>1 DEF Passed
    <2>3. l[B + Len(s) + 1] = "0"
        BY DEF Scanned
    <2>4. QED
        BY <2>1, <2>2, <2>3
<1>5. Beginning(s, p)
    BY DEF Scanned, Found
<1>6. i + 1 \in 1 .. Len(s) + 1 /\ p \in 1 .. i + 1
    BY <1>1
<1> QED
    BY <1>2, <1>3, <1>4, <1>5, <1>6

CutAt(s, B, l, m, i) == \A j \in 1 .. Len(s) + 1 : m[B + j] = IF j = i THEN "0" ELSE l[B + j]
Longer(a, b, x) == b = Append(a, x)

\* One more argument; with MAX_ARGS of them the scan is over.
LEMMA FindsArgument ==
    ASSUME NEW s \in Seq(Plain), NEW B \in Nat, NEW p \in Int, NEW a \in Seq(Int), NEW l,
           NEW i \in Int, NEW m, NEW b, Longer(a, b, B + i + 1),
           Scanned(s, B, p, a, l, i), l[B + i] = BLANK, l[B + i + 1] \notin {"0", BLANK, "&"},
           CutAt(s, B, l, m, i)
    PROVE  IF Len(b) >= MAX_ARGS THEN Overflown(s, B, p, b) ELSE Scanned(s, B, p, b, m, i + 1)
<1>1. /\ Len(s) \in Nat /\ p \in 1 .. i /\ i \in 1 .. Len(s) + 1
      /\ i <= Len(s) => l[B + i] = s[i]
      /\ i = Len(s) + 1 => l[B + i] = "0"
      /\ i <= Len(s) => IF i + 1 <= Len(s) THEN l[B + i + 1] = s[i + 1] /\ s[i + 1] \in Plain
                                           ELSE l[B + i + 1] = "0"
    BY NotYetCut
<1>a. i # Len(s) + 1
    BY <1>1, PlainIs
<1>b. i \in 1 .. Len(s) /\ i <= Len(s)
    <2>1. Len(s) \in Nat /\ i \in 1 .. Len(s) + 1
        BY <1>1
    <2>2. QED
        BY <1>a, <2>1
<1>2. i \in 1 .. Len(s) /\ s[i] = BLANK /\ i <= Len(s)
    BY <1>1, <1>b
<1>3. i + 1 \in 1 .. Len(s) /\ s[i + 1] \notin {BLANK, "&"}
    BY <1>1, <1>2
<1>4. i \notin Ampersands(s)
    BY <1>2, PlainIs DEF Ampersands
<1>5. Passed(s, B, l, m, i)
    BY <1>2 DEF Passed, CutAt
<1>6. /\ i + 1 \in 1 .. Len(s) + 1 /\ p \in 1 .. i + 1 /\ Beginning(s, p)
      /\ \A k \in Ampersands(s) : k >= i + 1
      /\ \A j \in p .. Len(s) : m[B + j] = IF j < i + 1 /\ s[j] = BLANK THEN "0" ELSE s[j]
      /\ m[B + Len(s) + 1] = "0"
    BY <1>2, <1>4, <1>5, NextPlace
<1>7. /\ b \in Seq(Int) /\ Len(b) = Len(a) + 1 /\ Len(a) \in Nat
      /\ b[Len(a) + 1] = B + i + 1 /\ \A n \in 1 .. Len(a) : b[n] = a[n]
    <2>1. B + i + 1 \in Int
        OBVIOUS
    <2>2. b = Append(a, B + i + 1)
        BY DEF Longer
    <2>3. QED
        BY <2>1, <2>2
<1>8. /\ \A k, n \in DOMAIN a : k < n => a[k] < a[n]
      /\ \A n \in DOMAIN a : /\ a[n] - B \in p + 1 .. Len(s) /\ a[n] - B <= i
                             /\ s[a[n] - B - 1] = BLANK /\ s[a[n] - B] \notin {BLANK, "&"}
    BY DEF Scanned, Found
<1>9. DOMAIN b = 1 .. Len(a) + 1 /\ DOMAIN a = 1 .. Len(a) /\ \A n \in 1 .. Len(a) + 1 : n \in 1 .. Len(a) \/ n = Len(a) + 1
    BY <1>7
<1>10. ASSUME NEW n \in DOMAIN b
       PROVE  /\ b[n] - B \in p + 1 .. Len(s) /\ b[n] - B <= i + 1
              /\ s[b[n] - B - 1] = BLANK /\ s[b[n] - B] \notin {BLANK, "&"}
    <2>1. CASE n \in 1 .. Len(a)
        <3>1. b[n] = a[n] /\ n \in DOMAIN a /\ a[n] \in Int
            BY <1>7, <1>9, <2>1
        <3>2. a[n] - B <= i + 1
            BY <1>8, <3>1
        <3>3. QED
            BY <1>8, <3>1, <3>2
    <2>2. CASE n = Len(a) + 1
        <3>1. b[n] - B = i + 1 /\ b[n] - B - 1 = i
            BY <1>7, <2>2
        <3>2. i + 1 \in p + 1 .. Len(s) /\ i + 1 <= i + 1
            BY <1>1, <1>3
        <3>3. QED
            BY <1>2, <1>3, <3>1, <3>2
    <2>3. QED
        BY <1>9, <2>1, <2>2
<1>11. ASSUME NEW k \in DOMAIN b, NEW n \in DOMAIN b, k < n PROVE b[k] < b[n]
    <2>1. k \in 1 .. Len(a) /\ b[k] = a[k] /\ a[k] \in Int
        BY SMTT(40), <1>7, <1>9, <1>11
    <2>2. CASE n \in 1 .. Len(a)
        BY <1>7, <1>8, <1>9, <1>11, <2>1, <2>2
    <2>3. CASE n = Len(a) + 1
        <3>1. a[k] - B <= i
            BY <1>8, <1>9, <2>1
        <3>2. QED
            BY SMTT(40), <1>7, <2>1, <2>3, <3>1
    <2>4. QED
        BY <1>9, <2>2, <2>3
<1>12. Found(s, B, p, b, i + 1)
    BY <1>6, <1>10, <1>11 DEF Found
<1>13. Complete(s, B, p, b, i + 1)
    <2>1. ASSUME NEW x \in p + 1 .. Len(s), x <= i + 1, s[x - 1] = BLANK, s[x] \notin {BLANK, "&"}
          PROVE  \E n \in DOMAIN b : b[n] = B + x
        <3>1. CASE x = i + 1
            <4>1. Len(a) + 1 \in DOMAIN b
                BY <1>7, <1>9
            <4>2. b[Len(a) + 1] = B + x
                BY <1>7, <3>1
            <4>3. QED
                BY <4>1, <4>2
        <3>2. CASE x # i + 1
            <4>1. x <= i
                BY <1>1, <2>1, <3>2
            <4>2. PICK n \in DOMAIN a : a[n] = B + x
                BY <2>1, <4>1 DEF Scanned, Complete
            <4>3. n \in DOMAIN b /\ b[n] = a[n]
                BY <1>7, <1>9
            <4>4. QED
                BY <4>2, <4>3
        <3>3. QED
            BY <3>1, <3>2
    <2>2. QED
        BY <2>1 DEF Complete
<1>14. CASE Len(b) >= MAX_ARGS
    BY <1>3, <1>12, <1>14 DEF Overflown
<1>15. CASE ~(Len(b) >= MAX_ARGS)
    <2>1. Len(b) < MAX_ARGS
        BY <1>7, <1>15, CommandAssumption
    <2>2. QED
        BY <1>6, <1>12, <1>13, <1>15, <2>1 DEF Scanned
<1> QED
    BY <1>14, <1>15

\* Any other character is passed.
LEMMA PassesOther ==
    ASSUME NEW s \in Seq(Plain), NEW B \in Nat, NEW p \in Int, NEW a \in Seq(Int), NEW l,
           NEW i \in Int, NEW m,
           Scanned(s, B, p, a, l, i), l[B + i] # "0",
           ~(l[B + i] = "&" /\ l[B + i + 1] \in {"0", BLANK}),
           ~(l[B + i] = BLANK /\ l[B + i + 1] \notin {"0", BLANK, "&"}),
           \A j \in 1 .. Len(s) + 1 :
               m[B + j] = IF j = i /\ l[B + i] = BLANK THEN "0" ELSE l[B + j]
    PROVE  Scanned(s, B, p, a, m, i + 1)
<1>1. /\ Len(s) \in Nat /\ p \in 1 .. i /\ i \in 1 .. Len(s) + 1
      /\ i <= Len(s) => l[B + i] = s[i]
      /\ i = Len(s) + 1 => l[B + i] = "0"
      /\ i <= Len(s) => IF i + 1 <= Len(s) THEN l[B + i + 1] = s[i + 1] /\ s[i + 1] \in Plain
                                           ELSE l[B + i + 1] = "0"
    BY NotYetCut
<1>a. i # Len(s) + 1
    BY <1>1
<1>b. i \in 1 .. Len(s) /\ i <= Len(s)
    <2>1. Len(s) \in Nat /\ i \in 1 .. Len(s) + 1
        BY <1>1
    <2>2. QED
        BY <2>1, <1>a
<1>2. i \in 1 .. Len(s) /\ s[i] = l[B + i] /\ i <= Len(s)
    BY <1>1, <1>b
<1>3. i \notin Ampersands(s)
    <2> SUFFICES ASSUME i \in Ampersands(s) PROVE FALSE
        OBVIOUS
    <2>1. s[i] = "&" /\ (i + 1 \notin DOMAIN s \/ s[i + 1] = BLANK)
        BY DEF Ampersands, BlankAt
    <2>2. i + 1 <= Len(s) => i + 1 \in DOMAIN s
        BY <1>2
    <2>3. l[B + i + 1] \in {"0", BLANK}
        BY <1>1, <1>2, <2>1, <2>2
    <2>4. QED
        BY <1>2, <2>1, <2>3
<1>4. Passed(s, B, l, m, i)
    BY <1>2 DEF Passed
<1>5. /\ i + 1 \in 1 .. Len(s) + 1 /\ p \in 1 .. i + 1 /\ Beginning(s, p)
      /\ \A k \in Ampersands(s) : k >= i + 1
      /\ \A j \in p .. Len(s) : m[B + j] = IF j < i + 1 /\ s[j] = BLANK THEN "0" ELSE s[j]
      /\ m[B + Len(s) + 1] = "0"
    BY <1>2, <1>3, <1>4, NextPlace
<1>6. Found(s, B, p, a, i + 1)
    <2>1. /\ \A k, n \in DOMAIN a : k < n => a[k] < a[n]
          /\ \A n \in DOMAIN a : /\ a[n] - B \in p + 1 .. Len(s) /\ a[n] - B <= i
                                 /\ s[a[n] - B - 1] = BLANK /\ s[a[n] - B] \notin {BLANK, "&"}
        BY DEF Scanned, Found
    <2>2. \A n \in DOMAIN a : a[n] - B <= i + 1
        <3>1. \A n \in DOMAIN a : a[n] \in Int
            OBVIOUS
        <3>2. QED
            BY <2>1, <3>1
    <2>3. QED
        BY <1>5, <2>1, <2>2 DEF Found
<1>7. Complete(s, B, p, a, i + 1)
    <2>1. ASSUME NEW x \in p + 1 .. Len(s), x <= i + 1, s[x - 1] = BLANK, s[x] \notin {BLANK, "&"}
          PROVE  \E n \in DOMAIN a : a[n] = B + x
        <3>1. x # i + 1
            <4>1. x = i + 1 => s[i] = BLANK /\ i + 1 <= Len(s) /\ s[i + 1] \notin {BLANK, "&"}
                BY <1>1, <2>1
            <4>2. i + 1 <= Len(s) => s[i + 1] # "0"
                BY <1>1, <1>2, PlainIs
            <4>3. QED
                BY <1>1, <1>2, <4>1, <4>2
        <3>2. x <= i
            BY <1>1, <2>1, <3>1
        <3>3. QED
            BY <2>1, <3>2 DEF Scanned, Complete
    <2>2. QED
        BY <2>1 DEF Complete
<1> QED
    BY <1>5, <1>6, <1>7 DEF Scanned

----------------------------------------------------------------------------
\* A step elsewhere in the buffer changes nothing here.
LEMMA ElsewhereSkipped ==
    ASSUME NEW s \in Seq(Plain), NEW B \in Nat, NEW p \in Int, NEW a, NEW l, NEW m,
           \A j \in 1 .. Len(s) + 1 : m[B + j] = l[B + j], Skipped(s, B, p, a, l)
    PROVE  Skipped(s, B, p, a, m)
<1>1. Len(s) \in Nat /\ \A j \in 1 .. Len(s) : j \in 1 .. Len(s) + 1
    OBVIOUS
<1>2. Len(s) + 1 \in 1 .. Len(s) + 1 /\ B + (Len(s) + 1) = B + Len(s) + 1
    BY <1>1
<1> QED
    BY <1>1, <1>2 DEF Skipped

\* Nor of a command that was scanned.
LEMMA ElsewhereEnded ==
    ASSUME NEW s \in Seq(Plain), NEW B \in Nat, NEW p \in Int, NEW a, NEW l, NEW m,
           \A j \in 1 .. Len(s) + 1 : m[B + j] = l[B + j], NEW k \in Int, Ended(s, B, p, a, l, k)
    PROVE  Ended(s, B, p, a, m, k)
<1>1. Len(s) \in Nat /\ k \in 0 .. Len(s) /\ p \in 1 .. k + 1
    BY DEF Ended, Found
<1>2. k + 1 \in 1 .. Len(s) + 1 /\ B + (k + 1) = B + k + 1
    BY <1>1
<1>3. m[B + k + 1] = l[B + k + 1]
    BY <1>2
<1>4. \A j \in p .. k : m[B + j] = l[B + j]
    BY <1>1
<1> QED
    BY <1>3, <1>4 DEF Ended

----------------------------------------------------------------------------
\* What is kept of a text.
LEMMA KeptIs ==
    ASSUME NEW s \in Seq(Plain)
    PROVE  \E k \in 0 .. Len(s) :
               /\ Keeps(s, k)
               /\ Kept(s) \in Seq(Plain) /\ Len(Kept(s)) = k
               /\ \A j \in 1 .. k : Kept(s)[j] = s[j]
<1>1. Len(s) \in Nat
    OBVIOUS
<1>2. CASE Ampersands(s) = {}
    <2>1. Kept(s) = s /\ Len(s) \in 0 .. Len(s) /\ Keeps(s, Len(s))
        BY <1>1, <1>2 DEF Kept, Keeps
    <2>2. QED
        BY <2>1
<1>3. CASE Ampersands(s) # {}
    <2> DEFINE A == Ampersands(s)
               f == CHOOSE k \in A : \A j \in A : k <= j
    <2>1. A \in SUBSET Nat /\ A \in SUBSET (1 .. Len(s)) /\ A # {}
        BY <1>3 DEF Ampersands
    <2>2. Kept(s) = SubSeq(s, 1, f - 1)
        BY <1>3 DEF Kept
    <2> HIDE DEF A
    <2>3. \E k \in A : \A j \in A : k <= j
        BY <2>1, Least
    <2>4. f \in A /\ \A j \in A : f <= j
        BY <2>3
    <2> HIDE DEF f
    <2>5. f \in 1 .. Len(s) /\ (f - 1) + 1 = f /\ f - 1 \in 0 .. Len(s)
        BY <2>1, <2>4
    <2>6. Keeps(s, f - 1)
        BY <2>4, <2>5 DEF Keeps, A
    <2>7. Kept(s) \in Seq(Plain) /\ Len(Kept(s)) = f - 1 /\ \A j \in 1 .. f - 1 : Kept(s)[j] = s[j]
        <3> DEFINE k == f - 1
                   v == SubSeq(s, 1, k)
        <3>1. k \in Nat /\ k <= Len(s) /\ v = Kept(s)
            BY <2>2, <2>5
        <3> HIDE DEF k
        <3>2. v \in Seq(Plain) /\ Len(v) = k /\ \A j \in 1 .. k : v[j] = s[j]
            BY <3>1
        <3>3. QED
            BY <3>1, <3>2 DEF k
    <2>8. QED
        BY <2>5, <2>6, <2>7
<1> QED
    BY <1>2, <1>3

\* There is one such place.
LEMMA KeepsOnce ==
    ASSUME NEW s \in Seq(Plain), NEW j \in Int, NEW k \in Int, Keeps(s, j), Keeps(s, k)
    PROVE  j = k
BY DEF Keeps

\* A command that was scanned to the end of what is kept is parsed.
LEMMA EndedIsParsed ==
    ASSUME NEW s \in Seq(Plain), NEW B \in Nat, NEW p \in Int, NEW a \in Seq(Int), NEW k \in Int, NEW U,
           line \in Seq(U), B + Len(s) + 1 <= Len(line), Ended(s, B, p, a, line, k),
           Words(Kept(s)) # <<>>, \A w \in DOMAIN Words(Kept(s)) : Words(Kept(s))[w][1] # "&"
    PROVE  <<StringAt(B + p)>> \o [j \in DOMAIN a |-> StringAt(a[j])] = Words(Kept(s))
<1> DEFINE t == Kept(s)
<1>1. /\ t \in Seq(Plain) /\ Len(t) = k /\ k \in 0 .. Len(s) /\ k \in Nat
      /\ \A j \in 1 .. k : t[j] = s[j] /\ t[j] \in Plain
    <2>1. PICK i \in 0 .. Len(s) : /\ Keeps(s, i) /\ Kept(s) \in Seq(Plain) /\ Len(Kept(s)) = i
                                   /\ \A j \in 1 .. i : Kept(s)[j] = s[j]
        BY KeptIs
    <2>2. Keeps(s, k)
        BY DEF Ended
    <2>3. i = k
        BY <2>1, <2>2, KeepsOnce
    <2>4. QED
        BY <2>1, <2>3
<1> HIDE DEF t
<1>2. Len(s) \in Nat /\ B + k + 1 <= Len(line) /\ line[B + k + 1] = "0"
    <2>1. Len(s) \in Nat /\ Len(line) \in Nat
        OBVIOUS
    <2>2. line[B + k + 1] = "0"
        BY DEF Ended
    <2>3. QED
        BY <1>1, <2>1, <2>2
<1>3. \A j \in 1 .. k : t[j] # "0"
    BY <1>1, PlainIs
<1>4. /\ p \in 1 .. k + 1 /\ Beginning(s, p)
      /\ \A m, n \in DOMAIN a : m < n => a[m] < a[n]
      /\ \A n \in DOMAIN a : /\ a[n] - B \in p + 1 .. Len(s) /\ a[n] - B <= k + 1
                             /\ s[a[n] - B - 1] = BLANK /\ s[a[n] - B] \notin {BLANK, "&"}
    BY DEF Ended, Found
<1>5. (\A j \in 1 .. p - 1 : t[j] = BLANK) /\ (p <= k => t[p] # BLANK)
    <2>1. \A j \in 1 .. p - 1 : s[j] = BLANK /\ j \in 1 .. k
        BY <1>1, <1>4 DEF Beginning
    <2>2. p <= k => s[p] # BLANK /\ p \in 1 .. k
        BY <1>1, <1>2, <1>4 DEF Beginning
    <2>3. QED
        BY <1>1, <2>1, <2>2
<1>6. \A j \in p .. k : line[B + j] = IF t[j] = BLANK THEN "0" ELSE t[j]
    <2>1. \A j \in p .. k : j \in 1 .. k
        BY <1>1, <1>4
    <2>2. \A j \in p .. k : line[B + j] = IF s[j] = BLANK THEN "0" ELSE s[j]
        BY DEF Ended
    <2>3. QED
        BY <1>1, <2>1, <2>2
<1>7. ASSUME NEW n \in DOMAIN a
      PROVE  a[n] - B \in p + 1 .. k /\ t[a[n] - B - 1] = BLANK /\ t[a[n] - B] # BLANK
    <2> DEFINE x == a[n] - B
    <2>1. /\ x \in p + 1 .. Len(s) /\ x <= k + 1 /\ s[x - 1] = BLANK
          /\ s[x] # BLANK /\ s[x] # "&"
        BY <1>4
    <2> HIDE DEF x
    <2>2. x # k + 1
        <3> SUFFICES ASSUME x = k + 1 PROVE FALSE
            OBVIOUS
        <3>1. k # Len(s)
            BY <1>1, <1>2, <2>1
        <3>2. k + 1 \in Ampersands(s)
            BY <3>1 DEF Ended, Keeps
        <3>3. s[k + 1] = "&"
            BY <3>2 DEF Ampersands
        <3>4. QED
            BY <2>1, <3>3
    <2>3. x \in p + 1 .. k /\ x \in 1 .. k /\ x - 1 \in 1 .. k
        BY SMTT(40), <1>1, <1>4, <2>1, <2>2
    <2>4. t[x - 1] = BLANK /\ t[x] # BLANK
        BY <1>1, <2>1, <2>3
    <2>5. QED
        BY <2>3, <2>4 DEF x
<1>8. ASSUME NEW x \in p + 1 .. k, t[x - 1] = BLANK, t[x] \notin {BLANK, "&"}
      PROVE  \E n \in DOMAIN a : a[n] = B + x
    <2>1. x \in p + 1 .. Len(s) /\ x <= k + 1 /\ x \in 1 .. k /\ x - 1 \in 1 .. k
        BY <1>1, <1>2, <1>4
    <2>2. s[x - 1] = BLANK /\ s[x] \notin {BLANK, "&"}
        BY <1>1, <1>8, <2>1
    <2>3. QED
        BY <2>1, <2>2 DEF Ended, Complete
<1>9. Words(t) # <<>> /\ \A w \in DOMAIN Words(t) : Words(t)[w][1] # "&"
    BY DEF t
<1>a. \A n \in DOMAIN a : /\ a[n] - B \in p + 1 .. k
                            /\ t[a[n] - B - 1] = BLANK /\ t[a[n] - B] # BLANK
    BY <1>7
<1>b. \A x \in p + 1 .. k : t[x - 1] = BLANK /\ t[x] \notin {BLANK, "&"} =>
                                  \E n \in DOMAIN a : a[n] = B + x
    BY <1>8
<1>c. /\ t \in Seq(Plain) /\ Len(t) = k /\ k \in Nat /\ B \in Nat /\ line \in Seq(U) /\ a \in Seq(Int)
      /\ p \in 1 .. k + 1 /\ B + k + 1 <= Len(line)
      /\ \A m, n \in DOMAIN a : m < n => a[m] < a[n]
    BY <1>1, <1>2, <1>4
<1>d. Parted(t, B, p, a) /\ Told(t)
    BY <1>c, <1>2, <1>3, <1>5, <1>6, <1>a, <1>b, <1>9 DEF Parted, Told
<1>10. <<StringAt(B + p)>> \o [j \in DOMAIN a |-> StringAt(a[j])] = Words(t)
    BY <1>c, <1>d, PartsAreWords
<1> QED
    BY <1>10 DEF t

\* A command with too many arguments has more than MAX_ARGS words.
LEMMA OverflownIsLong ==
    ASSUME NEW s \in Seq(Plain), NEW B \in Nat, NEW p \in Int, NEW a \in Seq(Int),
           Overflown(s, B, p, a)
    PROVE  ~(Len(Words(Kept(s))) <= MAX_ARGS)
<1> DEFINE t == Kept(s)
<1>1. PICK i \in 1 .. Len(s) : Found(s, B, p, a, i)
    BY DEF Overflown
<1>2. PICK k \in 0 .. Len(s) : /\ Keeps(s, k) /\ t \in Seq(Plain) /\ Len(t) = k
                               /\ \A j \in 1 .. k : t[j] = s[j]
    BY KeptIs
<1> HIDE DEF t
<1>3. /\ p \in 1 .. i /\ Beginning(s, p)
      /\ \A m, n \in DOMAIN a : m < n => a[m] < a[n]
      /\ \A n \in DOMAIN a : /\ a[n] - B \in p + 1 .. Len(s) /\ a[n] - B <= i
                             /\ s[a[n] - B - 1] = BLANK /\ s[a[n] - B] \notin {BLANK, "&"}
      /\ \A j \in Ampersands(s) : j >= i
    BY <1>1 DEF Found
<1>4. Len(s) \in Nat /\ k \in Nat /\ Len(a) \in Nat /\ DOMAIN a = 1 .. Len(a) /\ Len(a) >= MAX_ARGS
    BY DEF Overflown
<1>5. ASSUME NEW n \in DOMAIN a
      PROVE  a[n] - B \in p + 1 .. k /\ t[a[n] - B - 1] = BLANK /\ t[a[n] - B] # BLANK
    <2> DEFINE x == a[n] - B
    <2>1. /\ x \in p + 1 .. Len(s) /\ x <= i /\ s[x - 1] = BLANK
          /\ s[x] # BLANK /\ s[x] # "&"
        BY <1>3
    <2> HIDE DEF x
    <2>2. x <= k
        <3>1. CASE k = Len(s)
            BY <1>4, <2>1, <3>1
        <3>2. CASE k # Len(s)
            <4>1. k + 1 \in Ampersands(s)
                BY <1>2, <3>2 DEF Keeps
            <4>2. s[k + 1] = "&" /\ k + 1 >= i
                BY <1>3, <4>1 DEF Ampersands
            <4>3. x # k + 1
                BY <2>1, <4>2
            <4>4. QED
                BY <1>4, <2>1, <4>2, <4>3
        <3>3. QED
            BY <3>1, <3>2
    <2>3. x \in p + 1 .. k /\ x \in 1 .. k /\ x - 1 \in 1 .. k
        BY <1>3, <1>4, <2>1, <2>2
    <2>4. t[x - 1] = BLANK /\ t[x] # BLANK
        BY <1>2, <2>1, <2>3
    <2>5. QED
        BY <2>3, <2>4 DEF x
<1>6. 1 \in DOMAIN a
    BY <1>4, CommandAssumption
<1>7. p \in 1 .. k /\ \A j \in 1 .. p - 1 : s[j] = BLANK
    <2>1. a[1] - B \in p + 1 .. k /\ a[1] - B \in Int
        BY <1>5, <1>6
    <2>2. QED
        BY <1>3, <1>4, <2>1 DEF Beginning
<1>8. t[p] # BLANK /\ (p - 1 \notin DOMAIN t \/ t[p - 1] = BLANK)
    <2>1. s[p] # BLANK
        <3>1. p <= Len(s)
            BY <1>4, <1>7
        <3>2. QED
            BY <1>3, <3>1 DEF Beginning
    <2>2. p - 1 \in DOMAIN t => p - 1 \in 1 .. p - 1 /\ p - 1 \in 1 .. k
        BY <1>2, <1>7
    <2>3. QED
        BY <1>2, <1>7, <2>1, <2>2
<1> DEFINE m == Len(a) + 1
           q == [n \in 1 .. m |-> IF n = 1 THEN p ELSE a[n - 1] - B]
<1>9. /\ m \in Nat /\ \A n \in 1 .. m : q[n] = IF n = 1 THEN p ELSE a[n - 1] - B
      /\ \A n \in 1 .. m : n # 1 => n - 1 \in DOMAIN a
    BY <1>4
<1>10. m > MAX_ARGS
    BY <1>4, CommandAssumption
<1> HIDE DEF m, q
<1>11. ASSUME NEW n \in 1 .. m
       PROVE  q[n] \in 1 .. Len(t) /\ t[q[n]] # BLANK /\ (q[n] - 1 \notin DOMAIN t \/ t[q[n] - 1] = BLANK)
    <2>1. CASE n = 1
        BY <1>2, <1>7, <1>8, <1>9, <2>1
    <2>2. CASE n # 1
        <3>1. n - 1 \in DOMAIN a /\ q[n] = a[n - 1] - B
            BY <1>9, <2>2
        <3>2. q[n] \in p + 1 .. k /\ t[q[n] - 1] = BLANK /\ t[q[n]] # BLANK
            BY <1>5, <3>1
        <3>3. q[n] \in 1 .. k
            BY <1>3, <3>2
        <3>4. QED
            BY <1>2, <3>2, <3>3
    <2>3. QED
        BY <2>1, <2>2
<1>12. ASSUME NEW j \in 1 .. m, NEW n \in 1 .. m, j < n PROVE q[j] < q[n]
    <2>1. n - 1 \in DOMAIN a /\ q[n] = a[n - 1] - B
        BY <1>9, <1>12
    <2>2. CASE j = 1
        <3>1. q[j] = p /\ q[n] \in p + 1 .. k
            BY <1>5, <1>9, <2>1, <2>2
        <3>2. QED
            BY <1>4, <1>7, <3>1
    <2>3. CASE j # 1
        <3>1. j - 1 \in DOMAIN a /\ q[j] = a[j - 1] - B /\ j - 1 < n - 1
            BY <1>9, <1>12, <2>3
        <3>2. a[j - 1] < a[n - 1] /\ a[j - 1] \in Int /\ a[n - 1] \in Int
            BY SMTT(40), <1>3, <2>1, <3>1
        <3>3. QED
            BY <2>1, <3>1, <3>2
    <2>4. QED
        BY <2>2, <2>3
<1> DEFINE end(n) == CHOOSE e \in q[n] .. Len(t) : <<q[n], e>> \in Spans(t)
           g == [n \in 1 .. m |-> <<q[n], end(n)>>]
<1>13. ASSUME NEW n \in 1 .. m PROVE g[n] \in Spans(t) /\ g[n][1] = q[n]
    <2>1. \E e \in q[n] .. Len(t) : <<q[n], e>> \in Spans(t)
        BY <1>2, <1>11, SpanFrom
    <2>2. <<q[n], end(n)>> \in Spans(t)
        BY <2>1
    <2> HIDE DEF end
    <2>3. QED
        BY <2>2
<1> HIDE DEF end
<1>14. g = [n \in 1 .. m |-> g[n]]
    OBVIOUS
<1> HIDE DEF g
<1>15. g \in [1 .. m -> Spans(t)]
    BY <1>13, <1>14
<1>16. \A j, n \in 1 .. m : g[j] = g[n] => j = n
    <2>1. \A j, n \in 1 .. m : j < n \/ n < j \/ j = n
        BY <1>9
    <2>2. \A n \in 1 .. m : q[n] \in Int
        BY <1>11
    <2>3. \A j, n \in 1 .. m : j < n => q[j] # q[n]
        BY <1>12, <2>2
    <2>4. \A j, n \in 1 .. m : g[j] = g[n] => q[j] = q[n]
        BY <1>13
    <2>5. QED
        BY <2>1, <2>3, <2>4
<1>17. g \in Injection(1 .. m, Spans(t))
    BY <1>15, <1>16, Fun_IsInj
<1>18. IsFiniteSet(1 .. m) /\ Cardinality(1 .. m) = m
    <2>1. 1 \in Int /\ m \in Int /\ ~(1 > m)
        BY <1>9, <1>10, CommandAssumption
    <2>2. IsFiniteSet(1 .. m) /\ Cardinality(1 .. m) = IF 1 > m THEN 0 ELSE m - 1 + 1
        BY <2>1, FS_Interval
    <2>3. QED
        BY <2>1, <2>2
<1>19. IsFiniteSet(Spans(t)) /\ Cardinality(Spans(t)) \in Nat
    BY <1>2, SpansAre
<1>20. Cardinality(1 .. m) <= Cardinality(Spans(t))
    BY <1>17, <1>19, FS_Injection
<1>21. Len(Words(t)) = Cardinality(Spans(t))
    <2> DEFINE c == Cardinality(Spans(t))
               W == Words(t)
    <2>1. W = [n \in 1 .. c |-> SubSeq(t, Nth(t, n)[1], Nth(t, n)[2])]
        BY WordsOfSpans
    <2>2. DOMAIN W = 1 .. c /\ W = [n \in 1 .. c |-> W[n]] /\ c \in Nat
        BY <1>19, <2>1
    <2> HIDE DEF c, W
    <2> DEFINE X == {W[n] : n \in 1 .. c}
    <2>3. W \in [1 .. c -> X]
        BY <2>2
    <2> HIDE DEF X
    <2>4. Len(W) = c
        BY <2>2, <2>3
    <2>5. QED
        BY <2>4 DEF c, W
<1>22. ~(Len(Words(t)) <= MAX_ARGS)
    BY <1>9, <1>10, <1>18, <1>19, <1>20, <1>21, CommandAssumption
<1> QED
    BY <1>22 DEF t

----------------------------------------------------------------------------
(***************************************************************************)
(* The line.  Its commands lie on either side of the bar; one is scanned   *)
(* while the other waits or is done, and a step on one changes no cell of  *)
(* the other.  Once both were scanned nothing writes the line any more.    *)
(***************************************************************************)
Typed == Plain \cup {"|"}
LineCell == Typed \cup {"0"}

\* The bar, the commands and their texts as functions of the line that was typed.
BarsIn(t) == {j \in DOMAIN t : t[j] = "|"}
BarIn(t) == CHOOSE j \in BarsIn(t) : TRUE
HalvesIn(t) == IF BarsIn(t) = {} THEN 1 ELSE 2
BaseIn(t, h) == IF h = 2 THEN BarIn(t) ELSE 0
TextIn(t, h) ==
    IF BarsIn(t) = {} THEN t
    ELSE IF h = 1 THEN SubSeq(t, 1, BarIn(t) - 1) ELSE SubSeq(t, BarIn(t) + 1, Len(t))

\* They are those of the model.
LEMMA InTyped ==
    /\ Bars = BarsIn(typed) /\ Halves = HalvesIn(typed)
    /\ \A h : TextOf(h) = TextIn(typed, h)
<1>1. Bars = BarsIn(typed)
    BY DEF Bars, BarsIn
<1>2. Halves = HalvesIn(typed)
    BY <1>1 DEF Halves, HalvesIn
<1>3. \A h : TextOf(h) = TextIn(typed, h)
    <2>1. (CHOOSE j \in Bars : TRUE) = BarIn(typed)
        BY <1>1 DEF BarIn
    <2> DEFINE c == CHOOSE j \in Bars : TRUE
    <2>2. \A h : TextOf(h) = IF Bars = {} THEN typed
                             ELSE IF h = 1 THEN SubSeq(typed, 1, c - 1)
                                           ELSE SubSeq(typed, c + 1, Len(typed))
        BY Zenon DEF TextOf
    <2> HIDE DEF c
    <2>3. c = BarIn(typed)
        BY <2>1 DEF c
    <2>4. QED
        BY <1>1, <2>2, <2>3, Zenon DEF TextIn
<1> QED
    BY <1>1, <1>2, <1>3

\* There is one bar if there are two commands, and else none.
LEMMA BarIs ==
    ASSUME NEW t \in Seq(Typed), Cardinality(BarsIn(t)) <= 1
    PROVE  /\ HalvesIn(t) = 1 => BarsIn(t) = {}
           /\ HalvesIn(t) = 2 => BarIn(t) \in 1 .. Len(t) /\ BarsIn(t) = {BarIn(t)}
           /\ HalvesIn(t) \in {1, 2}
<1>1. DOMAIN t = 1 .. Len(t) /\ Len(t) \in Nat
    OBVIOUS
<1>2. IsFiniteSet(BarsIn(t)) /\ Cardinality(BarsIn(t)) \in Nat
    <2>1. 1 \in Int /\ Len(t) \in Int
        BY <1>1
    <2>2. IsFiniteSet(1 .. Len(t))
        BY <2>1, FS_Interval
    <2>3. BarsIn(t) \subseteq 1 .. Len(t)
        BY <1>1 DEF BarsIn
    <2>4. QED
        BY <2>2, <2>3, FS_Subset, FS_CardinalityType
<1>3. CASE BarsIn(t) = {}
    BY <1>3 DEF HalvesIn
<1>4. CASE BarsIn(t) # {}
    <2> DEFINE S == BarsIn(t)
    <2> HIDE DEF S
    <2>1. IsFiniteSet(S) /\ Cardinality(S) \in Nat /\ Cardinality(S) <= 1 /\ S # {}
        BY <1>2, <1>4 DEF S
    <2>2. Cardinality(S) # 0
        BY <2>1, FS_EmptySet
    <2>3. Cardinality(S) = 1
        BY <2>1, <2>2
    <2>4. PICK x : S = {x}
        BY <2>1, <2>3, FS_Singleton
    <2>5. BarIn(t) = x
        BY <2>4 DEF BarIn, S
    <2>6. x \in 1 .. Len(t)
        BY <1>1, <2>4 DEF S, BarsIn
    <2>7. QED
        BY <1>4, <2>4, <2>5, <2>6 DEF HalvesIn, S
<1> QED
    BY <1>3, <1>4

\* Where the text of each command lies in the line, and what comes after it.
LEMMA TextIs ==
    ASSUME NEW t \in Seq(Typed), Cardinality(BarsIn(t)) <= 1, NEW h \in 1 .. HalvesIn(t)
    PROVE  /\ h \in {1, 2} /\ HalvesIn(t) \in {1, 2} /\ (h = HalvesIn(t) \/ (h = 1 /\ HalvesIn(t) = 2))
           /\ BaseIn(t, h) \in Nat /\ TextIn(t, h) \in Seq(Plain) /\ Len(TextIn(t, h)) \in Nat
           /\ \A j \in 1 .. Len(TextIn(t, h)) :
                  TextIn(t, h)[j] = t[BaseIn(t, h) + j] /\ BaseIn(t, h) + j \notin BarsIn(t)
           /\ h = HalvesIn(t) => BaseIn(t, h) + Len(TextIn(t, h)) = Len(t)
           /\ h # HalvesIn(t) => /\ BaseIn(t, h) + Len(TextIn(t, h)) + 1 = BaseIn(t, 2)
                                 /\ BaseIn(t, 2) \in BarsIn(t)
           /\ BaseIn(t, h) + Len(TextIn(t, h)) <= Len(t)
<1>1. DOMAIN t = 1 .. Len(t) /\ Len(t) \in Nat
    OBVIOUS
<1>2. /\ HalvesIn(t) = 1 => BarsIn(t) = {}
      /\ HalvesIn(t) = 2 => BarIn(t) \in 1 .. Len(t) /\ BarsIn(t) = {BarIn(t)}
      /\ HalvesIn(t) \in {1, 2}
    BY BarIs
<1>3. \A j \in 1 .. Len(t) : j \notin BarsIn(t) => t[j] \in Plain
    BY <1>1 DEF BarsIn, Typed
<1>4. CASE HalvesIn(t) = 1
    <2>1. h = 1 /\ BaseIn(t, h) = 0 /\ TextIn(t, h) = t /\ BarsIn(t) = {}
        BY <1>2, <1>4 DEF BaseIn, TextIn
    <2>2. \A j \in 1 .. Len(t) : t[j] \in Plain
        BY <1>3, <2>1
    <2>3. t \in Seq(Plain)
        BY <2>2
    <2>4. \A j \in 1 .. Len(t) : t[j] = t[0 + j] /\ 0 + j \notin BarsIn(t)
        BY <2>1
    <2>5. 0 + Len(t) = Len(t) /\ 0 + Len(t) <= Len(t)
        BY <1>1
    <2>6. QED
        BY <1>1, <1>4, <2>1, <2>3, <2>4, <2>5
<1>5. CASE HalvesIn(t) = 2
    <2> DEFINE b == BarIn(t)
    <2>1. b \in 1 .. Len(t) /\ BarsIn(t) = {b} /\ BarsIn(t) # {}
        BY <1>2, <1>5
    <2>2. h \in {1, 2} /\ BaseIn(t, 2) = b
        BY <1>5 DEF BaseIn
    <2>3. \A j \in 1 .. Len(t) : j # b => t[j] \in Plain
        BY <1>3, <2>1
    <2>4. CASE h = 1
        <3> DEFINE s == SubSeq(t, 1, b - 1)
        <3>1. TextIn(t, h) = s /\ BaseIn(t, h) = 0
            BY <2>1, <2>4 DEF TextIn, BaseIn
        <3> HIDE DEF b
        <3>2. Len(s) = b - 1 /\ s = [j \in 1 .. b - 1 |-> s[j]] /\ \A j \in 1 .. b - 1 : s[j] = t[j]
            BY <1>1, <2>1
        <3> HIDE DEF s
        <3>3. \A j \in 1 .. b - 1 : s[j] \in Plain /\ j # b /\ j \in 1 .. Len(t)
            BY <2>1, <2>3, <3>2
        <3>4. s \in [1 .. b - 1 -> Plain] /\ b - 1 \in Nat
            BY <2>1, <3>2, <3>3
        <3>5. s \in Seq(Plain)
            BY <3>4
        <3>6. \A j \in 1 .. Len(s) : s[j] = t[0 + j] /\ 0 + j \notin BarsIn(t)
            BY <2>1, <3>2, <3>3
        <3>7. 0 + Len(s) + 1 = b /\ 0 + Len(s) <= Len(t) /\ Len(s) \in Nat
            BY <1>1, <2>1, <3>2
        <3>8. QED
            BY <1>5, <2>1, <2>2, <2>4, <3>1, <3>5, <3>6, <3>7
    <2>5. CASE h = 2
        <3> DEFINE s == SubSeq(t, b + 1, Len(t))
        <3>1. TextIn(t, h) = s /\ BaseIn(t, h) = b
            BY <2>1, <2>5 DEF TextIn, BaseIn
        <3> DEFINE n == Len(t) - b
        <3> HIDE DEF b
        <3>2. Len(s) = n /\ s = [j \in 1 .. n |-> s[j]] /\ n \in Nat
              /\ \A j \in 1 .. n : s[j] = t[b + j]
            <4> DEFINE c == b + 1
                       e == Len(t)
            <4>1. c \in Nat /\ 1 <= c /\ e <= Len(t) /\ e \in Nat /\ e - c + 1 = n /\ n \in Nat
                BY <1>1, <2>1
            <4>2. \A j \in 1 .. n : c + j - 1 = b + j
                BY <2>1
            <4> HIDE DEF c, n, e
            <4>3. s = SubSeq(t, c, e)
                BY DEF c, e
            <4> HIDE DEF s
            <4>4. Len(s) = n /\ s = [j \in 1 .. n |-> s[j]] /\ \A j \in 1 .. n : s[j] = t[c + j - 1]
                BY SMTT(40), <4>1, <4>3
            <4>5. QED
                BY <4>1, <4>2, <4>4
        <3> HIDE DEF s
        <3>3. \A j \in 1 .. n : s[j] \in Plain /\ b + j # b /\ b + j \in 1 .. Len(t)
            <4>1. \A j \in 1 .. n : b + j # b /\ b + j \in 1 .. Len(t)
                BY <1>1, <2>1
            <4>2. QED
                BY <2>3, <3>2, <4>1
        <3>4. b + n = Len(t)
            BY <1>1, <2>1
        <3> HIDE DEF n
        <3>5. s \in [1 .. n -> Plain]
            BY <3>2, <3>3
        <3>6. s \in Seq(Plain)
            BY <3>2, <3>5
        <3>7. \A j \in 1 .. Len(s) : s[j] = t[b + j] /\ b + j \notin BarsIn(t)
            BY <2>1, <3>2, <3>3
        <3>8. b \in Nat /\ b + Len(s) = Len(t) /\ Len(s) \in Nat /\ b + Len(s) <= Len(t)
            BY <1>1, <2>1, <3>2, <3>4
        <3>9. QED
            BY <1>5, <2>1, <2>2, <2>5, <3>1, <3>6, <3>7, <3>8
    <2>6. QED
        BY <2>2, <2>4, <2>5
<1> QED
    BY <1>2, <1>4, <1>5

LineTypes ==
    /\ typed \in Seq(Typed)
    /\ line \in Seq(LineCell) /\ Len(line) = Len(typed) + 1
    /\ command \in [1 .. 2 -> Int] /\ args \in [1 .. 2 -> Seq(Int)]
    /\ current \in Int /\ foreground \in BOOLEAN

\* Where the command of a half begins in its text, and what is known of it.
PlaceOf(h) == command[h] - BaseIn(typed, h)
SkippedIn(h) == Skipped(TextIn(typed, h), BaseIn(typed, h), PlaceOf(h), args[h], line)
ScannedIn(h) ==
    Scanned(TextIn(typed, h), BaseIn(typed, h), PlaceOf(h), args[h], line, current - BaseIn(typed, h))
ClearedIn(h) ==
    \/ Overflown(TextIn(typed, h), BaseIn(typed, h), PlaceOf(h), args[h])
    \/ /\ \E k \in Int : Ended(TextIn(typed, h), BaseIn(typed, h), PlaceOf(h), args[h], line, k)
       /\ h = HalvesIn(typed) => foreground = (Ampersands(TextIn(typed, h)) = {})

OneBar == Cardinality(BarsIn(typed)) <= 1
CheckInv ==
    /\ line = Terminated(typed) /\ half = 1 /\ current = 0
    /\ command = <<1, 1>> /\ args = <<<<>>, <<>>>>
ScanInv ==
    /\ OneBar /\ half \in 1 .. HalvesIn(typed)
    /\ current = 0 => SkippedIn(half)
    /\ current # 0 => ScannedIn(half) /\ foreground = TRUE
    /\ half # HalvesIn(typed) => SkippedIn(2)
    /\ half = 2 => ClearedIn(1)

ParseInv ==
    /\ LineTypes
    /\ pc = "check" => CheckInv
    /\ pc = "scan" => ScanInv
    /\ pc \in {"pipe", "start"} => OneBar /\ \A h \in 1 .. HalvesIn(typed) : ClearedIn(h)

\* The half that is scanned, and its text.
LEMMA HereIs ==
    ASSUME LineTypes, ScanInv
    PROVE  /\ half \in {1, 2} /\ HalvesIn(typed) \in {1, 2}
           /\ (half = HalvesIn(typed) \/ (half = 1 /\ HalvesIn(typed) = 2))
           /\ TextIn(typed, half) \in Seq(Plain) /\ Len(TextIn(typed, half)) \in Nat
           /\ BaseIn(typed, half) \in Nat /\ PlaceOf(half) \in Int
           /\ command[half] \in Int /\ args[half] \in Seq(Int)
           /\ BaseIn(typed, half) + Len(TextIn(typed, half)) + 1 <= Len(line)
           /\ half \in DOMAIN args /\ half \in DOMAIN command
<1>1. typed \in Seq(Typed) /\ Cardinality(BarsIn(typed)) <= 1 /\ half \in 1 .. HalvesIn(typed)
    BY DEF LineTypes, ScanInv, OneBar
<1>2. /\ half \in {1, 2} /\ HalvesIn(typed) \in {1, 2}
      /\ (half = HalvesIn(typed) \/ (half = 1 /\ HalvesIn(typed) = 2))
      /\ TextIn(typed, half) \in Seq(Plain) /\ Len(TextIn(typed, half)) \in Nat
      /\ BaseIn(typed, half) \in Nat
      /\ BaseIn(typed, half) + Len(TextIn(typed, half)) <= Len(typed)
    BY <1>1, TextIs
<1>3. Len(typed) \in Nat /\ Len(line) = Len(typed) + 1
    BY DEF LineTypes
<1>4. half \in 1 .. 2
    BY <1>2
<1>5. command[half] \in Int /\ args[half] \in Seq(Int) /\ half \in DOMAIN args /\ half \in DOMAIN command
    BY <1>4 DEF LineTypes
<1>6. PlaceOf(half) \in Int
    BY <1>2, <1>5 DEF PlaceOf
<1> QED
    BY <1>2, <1>3, <1>5, <1>6

\* The other command does not notice a step on this one.
LEMMA OtherIsKept ==
    ASSUME LineTypes, ScanInv, typed' = typed,
           \A y \in 1 .. Len(line) : y # current => line'[y] = line[y],
           \A h \in 1 .. 2 : h # half => command'[h] = command[h] /\ args'[h] = args[h]
    PROVE  /\ half # HalvesIn(typed) => SkippedIn(2)'
           /\ half = 2 => ClearedIn(1)'
<1>1. typed \in Seq(Typed) /\ Cardinality(BarsIn(typed)) <= 1 /\ half \in 1 .. HalvesIn(typed)
    BY DEF LineTypes, ScanInv, OneBar
<1>2. /\ half \in {1, 2} /\ HalvesIn(typed) \in {1, 2}
      /\ (half = HalvesIn(typed) \/ (half = 1 /\ HalvesIn(typed) = 2))
      /\ TextIn(typed, half) \in Seq(Plain) /\ Len(TextIn(typed, half)) \in Nat
      /\ BaseIn(typed, half) \in Nat /\ current \in Int
    BY HereIs DEF LineTypes
<1>3. current # 0 => current - BaseIn(typed, half) \in 1 .. Len(TextIn(typed, half)) + 1
    BY DEF ScanInv, ScannedIn, Scanned
<1>4. ASSUME HalvesIn(typed) = 2, NEW h \in {1, 2}, h # half
      PROVE  /\ TextIn(typed, h) \in Seq(Plain) /\ BaseIn(typed, h) \in Nat /\ PlaceOf(h) \in Int
             /\ \A j \in 1 .. Len(TextIn(typed, h)) + 1 :
                    line'[BaseIn(typed, h) + j] = line[BaseIn(typed, h) + j]
    <2>1. 1 \in 1 .. HalvesIn(typed) /\ 2 \in 1 .. HalvesIn(typed) /\ h \in 1 .. HalvesIn(typed) /\ h \in 1 .. 2
        BY <1>4
    <2>2. /\ TextIn(typed, h) \in Seq(Plain) /\ BaseIn(typed, h) \in Nat /\ Len(TextIn(typed, h)) \in Nat
          /\ BaseIn(typed, h) + Len(TextIn(typed, h)) <= Len(typed)
        BY <1>1, <2>1, TextIs
    <2>3. /\ BaseIn(typed, 1) + Len(TextIn(typed, 1)) + 1 = BaseIn(typed, 2)
          /\ BaseIn(typed, 2) \in Nat /\ BaseIn(typed, 1) \in Nat
          /\ Len(TextIn(typed, 1)) \in Nat /\ Len(TextIn(typed, 2)) \in Nat
        <3>1. BaseIn(typed, 1) + Len(TextIn(typed, 1)) + 1 = BaseIn(typed, 2)
            BY <1>1, <1>4, <2>1, TextIs
        <3>2. /\ BaseIn(typed, 2) \in Nat /\ BaseIn(typed, 1) \in Nat
              /\ Len(TextIn(typed, 1)) \in Nat /\ Len(TextIn(typed, 2)) \in Nat
            BY <1>1, <2>1, TextIs
        <3>3. QED
            BY <3>1, <3>2
    <2>4. PlaceOf(h) \in Int
        BY <2>1, <2>2 DEF PlaceOf, LineTypes
    <2>5. ASSUME NEW j \in 1 .. Len(TextIn(typed, h)) + 1
          PROVE  line'[BaseIn(typed, h) + j] = line[BaseIn(typed, h) + j]
        <3>1. Len(typed) \in Nat /\ Len(line) = Len(typed) + 1
            BY DEF LineTypes
        <3>2. BaseIn(typed, h) + j \in 1 .. Len(line)
            BY <2>2, <3>1
        <3>3. BaseIn(typed, h) + j # current
            <4>1. CASE current = 0
                BY <2>2, <4>1
            <4>2. CASE current # 0
                <5>1. current - BaseIn(typed, half) \in 1 .. Len(TextIn(typed, half)) + 1
                    BY <1>3, <4>2
                <5>2. CASE h = 1
                    <6>1. half = 2
                        BY <1>2, <1>4, <5>2
                    <6>2. QED
                        BY SMTT(40), <1>2, <2>3, <5>1, <5>2, <6>1
                <5>3. CASE h = 2
                    <6>1. half = 1
                        BY <1>2, <1>4, <5>3
                    <6>2. QED
                        BY SMTT(40), <1>2, <2>3, <5>1, <5>3, <6>1
                <5>4. QED
                    BY <1>4, <5>2, <5>3
            <4>3. QED
                BY <4>1, <4>2
        <3>4. QED
            BY <3>2, <3>3
    <2>6. QED
        BY <2>2, <2>4, <2>5
<1>5. ASSUME half # HalvesIn(typed) PROVE SkippedIn(2)'
    <2> DEFINE s == TextIn(typed, 2)
               B == BaseIn(typed, 2)
               p == PlaceOf(2)
               a == args[2]
               m == line'
    <2>1. HalvesIn(typed) = 2 /\ half = 1 /\ 2 # half
        BY <1>2, <1>5
    <2>2. /\ s \in Seq(Plain) /\ B \in Nat /\ p \in Int
          /\ \A j \in 1 .. Len(s) + 1 : m[B + j] = line[B + j]
        BY <1>4, <2>1
    <2>3. Skipped(s, B, p, a, line)
        BY <1>5 DEF ScanInv, SkippedIn
    <2>4. command'[2] = command[2] /\ args'[2] = args[2]
        <3>1. 2 \in 1 .. 2
            OBVIOUS
        <3>2. QED
            BY <2>1, <3>1
    <2> HIDE DEF s, B, p, a, m
    <2>5. Skipped(s, B, p, a, m)
        BY <2>2, <2>3, ElsewhereSkipped
    <2>6. QED
        BY <2>4, <2>5 DEF s, B, p, a, m, SkippedIn, PlaceOf
<1>6. ASSUME half = 2 PROVE ClearedIn(1)'
    <2> DEFINE s == TextIn(typed, 1)
               B == BaseIn(typed, 1)
               p == PlaceOf(1)
               a == args[1]
               m == line'
    <2>1. HalvesIn(typed) = 2 /\ 1 # half
        BY <1>2, <1>6
    <2>2. /\ s \in Seq(Plain) /\ B \in Nat /\ p \in Int
          /\ \A j \in 1 .. Len(s) + 1 : m[B + j] = line[B + j]
        BY <1>4, <2>1
    <2>3. Overflown(s, B, p, a) \/ \E k \in Int : Ended(s, B, p, a, line, k)
        BY <1>6 DEF ScanInv, ClearedIn
    <2>4. command'[1] = command[1] /\ args'[1] = args[1]
        <3>1. 1 \in 1 .. 2
            OBVIOUS
        <3>2. QED
            BY <2>1, <3>1
    <2>5. TextIn(typed', 1) = s /\ BaseIn(typed', 1) = B /\ PlaceOf(1)' = p /\ args'[1] = a /\ 1 # HalvesIn(typed')
        BY <2>1, <2>4 DEF PlaceOf
    <2> HIDE DEF s, B, p, a
    <2>6. Overflown(s, B, p, a) \/ \E k \in Int : Ended(s, B, p, a, line', k)
        <3> HIDE DEF m
        <3>1. ASSUME NEW k \in Int, Ended(s, B, p, a, line, k) PROVE Ended(s, B, p, a, m, k)
            BY <2>2, <3>1, ElsewhereEnded
        <3>2. QED
            BY <2>3, <3>1 DEF m
    <2>7. QED
        BY <2>5, <2>6 DEF ClearedIn
<1> QED
    BY <1>5, <1>6

\* A command that is over, and the next one or the end of the scan.
LEMMA HalfEnds ==
    ASSUME LineTypes, LineTypes', ScanInv, pc = "scan", typed' = typed, ScanNext,
           half # HalvesIn(typed) => SkippedIn(2)', half = 2 => ClearedIn(1)',
           NEW h, h = half, ClearedIn(h)'
    PROVE  ParseInv'
<1>1. /\ half \in {1, 2} /\ HalvesIn(typed) \in {1, 2}
      /\ (half = HalvesIn(typed) \/ (half = 1 /\ HalvesIn(typed) = 2))
    BY HereIs
<1>2. OneBar' /\ HalvesIn(typed') = HalvesIn(typed) /\ Halves = HalvesIn(typed)
    BY InTyped DEF ScanInv, OneBar
<1>3. CASE half # HalvesIn(typed)
    <2>1. half = 1 /\ HalvesIn(typed) = 2 /\ half < Halves
        BY <1>1, <1>2, <1>3
    <2>2. half' = 2 /\ current' = 0 /\ pc' = "scan"
        BY <2>1 DEF ScanNext
    <2>3. SkippedIn(half)' /\ ClearedIn(1)'
        <3>1. SkippedIn(2)' /\ h = 1
            BY <1>3, <2>1
        <3>2. ClearedIn(1)'
            BY <3>1
        <3>3. SkippedIn(half)'
            BY <2>2, <3>1 DEF SkippedIn, PlaceOf
        <3>4. QED
            BY <3>2, <3>3
    <2>4. half' \in 1 .. HalvesIn(typed')
        BY <1>2, <2>1, <2>2
    <2>5. ScanInv'
        BY <1>2, <2>1, <2>2, <2>3, <2>4 DEF ScanInv
    <2>6. QED
        BY <2>2, <2>5 DEF ParseInv
<1>4. CASE half = HalvesIn(typed)
    <2>1. ~(half < Halves)
        BY <1>1, <1>2, <1>4
    <2>2. pc' \in {"pipe", "start"}
        BY <2>1 DEF ScanNext
    <2>3. ASSUME NEW g \in 1 .. HalvesIn(typed') PROVE ClearedIn(g)'
        <3>1. g = half \/ (g = 1 /\ half = 2)
            BY <1>1, <1>2, <1>4
        <3>2. CASE g = half
            BY <3>2
        <3>3. CASE g = 1 /\ half = 2
            BY <3>3
        <3>4. QED
            BY <3>1, <3>2, <3>3
    <2>4. QED
        BY <1>2, <2>2, <2>3 DEF ParseInv
<1> QED
    BY <1>3, <1>4

\* A line that was just typed is not cut yet.
LEMMA ParseInit == LineInit => ParseInv
<1> SUFFICES ASSUME LineInit PROVE ParseInv
    OBVIOUS
<1>1. typed \in Seq(Typed) /\ Len(typed) \in Nat
    <2>1. PICK n \in 0 .. MaxLine : typed \in [1 .. n -> {"a", BLANK, "&", "|"}]
        BY DEF LineInit, Lines
    <2>2. {"a", BLANK, "&", "|"} \subseteq Typed
        BY DEF Typed, Plain
    <2> HIDE DEF Typed
    <2>3. n \in Nat /\ typed \in [1 .. n -> Typed]
        BY <2>1, <2>2
    <2>4. QED
        BY <2>3
<1>2. line \in Seq(LineCell) /\ Len(line) = Len(typed) + 1
    <2>1. line = Append(typed, "0")
        BY DEF LineInit, Terminated
    <2>2. typed \in Seq(LineCell) /\ "0" \in LineCell
        <3>1. Typed \subseteq LineCell /\ "0" \in LineCell
            BY DEF LineCell
        <3> HIDE DEF Typed, LineCell
        <3>2. QED
            BY <1>1, <3>1
    <2> HIDE DEF LineCell
    <2>3. QED
        BY <2>1, <2>2
<1>3. command \in [1 .. 2 -> Int] /\ args \in [1 .. 2 -> Seq(Int)]
    <2>1. command = <<1, 1>> /\ args = <<<<>>, <<>>>>
        BY DEF LineInit
    <2> DEFINE X == Seq(Int)
               e == <<>>
    <2>2. e \in X /\ args = <<e, e>>
        BY <2>1
    <2> HIDE DEF X, e
    <2>3. args \in [1 .. 2 -> X]
        BY <2>2
    <2>4. command \in [1 .. 2 -> Int]
        BY <2>1
    <2>5. QED
        BY <2>3, <2>4 DEF X
<1>4. LineTypes
    BY <1>1, <1>2, <1>3 DEF LineTypes, LineInit
<1> QED
    BY <1>4 DEF ParseInv, CheckInv, LineInit

\* The bar is now '\0' and the second command, if there is one, begins after it.
LEMMA CheckLineKeeps ==
    ASSUME ParseInv, CheckLine PROVE ParseInv'
<1>1. pc = "check" /\ LineTypes /\ CheckInv
    BY DEF ParseInv, CheckLine
<1>2. typed' = typed /\ half' = 1 /\ current' = 0 /\ args' = <<<<>>, <<>>>> /\ args' = args
      /\ foreground' = foreground /\ Bars = BarsIn(typed)
    BY <1>1, InTyped DEF CheckLine, CheckInv
<1>3. typed \in Seq(Typed) /\ Len(typed) \in Nat /\ line \in Seq(LineCell) /\ Len(line) = Len(typed) + 1
    BY <1>1 DEF LineTypes
<1>4. CASE typed = <<>> \/ Cardinality(Bars) > 1
    <2>1. pc' = "done" /\ line' = line /\ command' = command
        BY <1>4 DEF CheckLine
    <2>2. LineTypes'
        BY <1>1, <1>2, <2>1 DEF LineTypes
    <2>3. QED
        BY <2>1, <2>2 DEF ParseInv
<1>5. CASE ~(typed = <<>> \/ Cardinality(Bars) > 1)
    <2> DEFINE t == typed
    <2>0. Cardinality(BarsIn(t)) <= 1
        <3>1. Cardinality(BarsIn(t)) \in Nat
            <4>1. 1 \in Int /\ Len(t) \in Int /\ BarsIn(t) \subseteq 1 .. Len(t)
                BY <1>3 DEF BarsIn
            <4>2. QED
                BY <4>1, FS_Interval, FS_Subset, FS_CardinalityType
        <3>2. QED
            BY <1>2, <1>5, <3>1
    <2>1. /\ pc' = "scan"
          /\ line' = [j \in DOMAIN line |-> IF j \in BarsIn(t) THEN "0" ELSE line[j]]
          /\ command' = IF BarsIn(t) = {} THEN command ELSE <<1, 1 + BarIn(t)>>
        <3>1. /\ pc' = "scan"
              /\ line' = [j \in DOMAIN line |-> IF j \in Bars THEN "0" ELSE line[j]]
              /\ command' = IF Bars = {} THEN command ELSE <<1, 1 + CHOOSE j \in Bars : TRUE>>
            BY <1>5 DEF CheckLine
        <3>2. QED
            BY <1>2, <3>1 DEF BarIn
    <2>2. /\ HalvesIn(t) = 1 => BarsIn(t) = {}
          /\ HalvesIn(t) = 2 => BarIn(t) \in 1 .. Len(t) /\ BarsIn(t) = {BarIn(t)}
          /\ HalvesIn(t) \in {1, 2}
        BY <1>3, <2>0, BarIs
    <2>3. line' \in Seq(LineCell) /\ Len(line') = Len(typed) + 1
        <3> DEFINE n == Len(typed) + 1
        <3>1. DOMAIN line = 1 .. n /\ n \in Nat
            BY <1>3
        <3>2. \A j \in 1 .. n : line[j] \in LineCell
            BY <1>3, <3>1
        <3>3. "0" \in LineCell
            BY DEF LineCell
        <3> HIDE DEF n
        <3>4. line' \in [1 .. n -> LineCell]
            BY <2>1, <3>1, <3>2, <3>3
        <3> HIDE DEF LineCell
        <3>5. QED
            BY <3>1, <3>4 DEF n
    <2>4. /\ \A j \in 1 .. Len(t) : line'[j] = IF j \in BarsIn(t) THEN "0" ELSE t[j]
          /\ line'[Len(t) + 1] = "0"
        <3>1. line = Append(t, "0")
            BY <1>1 DEF CheckInv, Terminated
        <3>2. (\A j \in 1 .. Len(t) : line[j] = t[j]) /\ line[Len(t) + 1] = "0" /\ DOMAIN line = 1 .. Len(t) + 1
            BY <1>3, <3>1
        <3>3. QED
            BY <1>3, <2>1, <3>2
    <2>5. /\ command' \in [1 .. 2 -> Int]
          /\ \A h \in 1 .. HalvesIn(t) : command'[h] = BaseIn(t, h) + 1
        <3>1. CASE HalvesIn(t) = 1
            <4>1. command' = <<1, 1>> /\ BaseIn(t, 1) = 0
                BY <1>1, <2>1, <2>2, <3>1 DEF CheckInv, BaseIn
            <4>2. \A h \in 1 .. HalvesIn(t) : h = 1
                BY <3>1
            <4>3. QED
                BY <4>1, <4>2
        <3>2. CASE HalvesIn(t) = 2
            <4> DEFINE b == BarIn(t)
            <4>1. b \in Int /\ BarsIn(t) # {}
                BY <2>2, <3>2
            <4>2. BaseIn(t, 1) = 0 /\ BaseIn(t, 2) = b
                BY DEF BaseIn
            <4>3. command' = <<1, 1 + b>>
                BY <2>1, <4>1
            <4> HIDE DEF b
            <4>4. \A h \in 1 .. HalvesIn(t) : h = 1 \/ h = 2
                BY <3>2
            <4>5. command'[1] = 1 /\ command'[2] = b + 1 /\ command' \in [1 .. 2 -> Int]
                BY <4>1, <4>3
            <4>6. QED
                BY <4>1, <4>2, <4>4, <4>5
        <3>3. QED
            BY <2>2, <3>1, <3>2
    <2>6. LineTypes'
        <3>1. args' \in [1 .. 2 -> Seq(Int)] /\ foreground' \in BOOLEAN /\ typed' \in Seq(Typed) /\ current' \in Int
            BY <1>1, <1>2 DEF LineTypes
        <3>2. QED
            BY <1>2, <2>3, <2>5, <3>1 DEF LineTypes
    <2>7. ASSUME NEW h \in 1 .. HalvesIn(t) PROVE SkippedIn(h)'
        <3> DEFINE s == TextIn(t, h)
                   B == BaseIn(t, h)
        <3>1. /\ h \in {1, 2} /\ B \in Nat /\ s \in Seq(Plain) /\ Len(s) \in Nat
              /\ \A j \in 1 .. Len(s) : s[j] = t[B + j] /\ B + j \notin BarsIn(t)
              /\ h = HalvesIn(t) => B + Len(s) = Len(t)
              /\ h # HalvesIn(t) => B + Len(s) + 1 = BaseIn(t, 2) /\ BaseIn(t, 2) \in BarsIn(t)
              /\ B + Len(s) <= Len(t)
            BY <1>3, <2>0, TextIs
        <3>2. PlaceOf(h)' = 1
            <4>1. command'[h] = B + 1
                BY <2>5
            <4>2. PlaceOf(h)' = command'[h] - B
                BY <1>2 DEF PlaceOf
            <4> HIDE DEF B
            <4>3. QED
                BY <3>1, <4>1, <4>2
        <3>3. args'[h] = <<>>
            BY <1>2, <3>1
        <3>4. TextIn(typed', h) = s /\ BaseIn(typed', h) = B
            BY <1>2
        <3> HIDE DEF s, B
        <3>5. ASSUME NEW j \in 1 .. Len(s) PROVE line'[B + j] = s[j]
            <4>1. B + j \in 1 .. Len(t) /\ B + j \notin BarsIn(t) /\ s[j] = t[B + j]
                BY <1>3, <3>1
            <4>2. QED
                BY <2>4, <4>1
        <3>6. line'[B + Len(s) + 1] = "0"
            <4>1. CASE h = HalvesIn(t)
                BY <2>4, <3>1, <4>1
            <4>2. CASE h # HalvesIn(t)
                <5>1. B + Len(s) + 1 \in BarsIn(t)
                    BY <3>1, <4>2
                <5>2. B + Len(s) + 1 \in 1 .. Len(t)
                    BY <1>3, <5>1 DEF BarsIn
                <5>3. QED
                    BY <2>4, <5>1, <5>2
            <4>3. QED
                BY <4>1, <4>2
        <3>7. Skipped(s, B, 1, <<>>, line')
            <4>1. 1 \in 1 .. Len(s) + 1 /\ \A j \in 1 .. 1 - 1 : s[j] = BLANK
                BY <3>1
            <4>2. QED
                BY <3>5, <3>6, <4>1 DEF Skipped
        <3>8. QED
            BY <3>2, <3>3, <3>4, <3>7 DEF SkippedIn
    <2>8. ScanInv'
        <3>1. 1 \in 1 .. HalvesIn(t) /\ (1 # HalvesIn(t) => 2 \in 1 .. HalvesIn(t))
            BY <2>2
        <3>2. SkippedIn(1)' /\ (1 # HalvesIn(t) => SkippedIn(2)')
            BY <2>7, <3>1
        <3>3. SkippedIn(half)'
            BY <1>2, <3>2 DEF SkippedIn, PlaceOf
        <3>4. OneBar'
            BY <1>2, <2>0 DEF OneBar
        <3>5. QED
            BY <1>2, <3>1, <3>2, <3>3, <3>4 DEF ScanInv
    <2>9. QED
        BY <2>1, <2>6, <2>8 DEF ParseInv
<1> QED
    BY <1>4, <1>5

\* A blank at the front is passed; the command begins at anything else.
LEMMA SkipSpacesKeeps ==
    ASSUME ParseInv, SkipSpaces PROVE ParseInv'
<1>1. pc = "scan" /\ LineTypes /\ ScanInv /\ current = 0
    BY DEF ParseInv, SkipSpaces, Scanning
<1>2. /\ typed' = typed /\ line' = line /\ pc' = pc /\ half' = half /\ args' = args
    BY DEF SkipSpaces, Scanning
<1> DEFINE h == half
           s == TextIn(typed, h)
           B == BaseIn(typed, h)
           p == PlaceOf(h)
           a == args[h]
<1>3. /\ h \in {1, 2} /\ s \in Seq(Plain) /\ Len(s) \in Nat /\ B \in Nat /\ p \in Int
      /\ a \in Seq(Int) /\ h \in DOMAIN command
    BY <1>1, HereIs
<1>4. Skipped(s, B, p, a, line)
    BY <1>1 DEF ScanInv, SkippedIn
<1>5. command[h] = B + p /\ command \in [1 .. 2 -> Int]
    BY <1>1, <1>3 DEF PlaceOf, LineTypes
<1>6. CASE line[command[half]] = BLANK
    <2>1. command' = [command EXCEPT ![half] = @ + 1] /\ current' = current /\ foreground' = foreground
        BY <1>6 DEF SkipSpaces
    <2>2. command'[h] = B + p + 1 /\ \A g \in 1 .. 2 : g # h => command'[g] = command[g]
        BY <1>3, <1>5, <2>1
    <2>3. command' \in [1 .. 2 -> Int]
        BY <1>3, <1>5, <2>1
    <2>4. LineTypes'
        BY <1>1, <1>2, <2>1, <2>3 DEF LineTypes
    <2>5. (half # HalvesIn(typed) => SkippedIn(2)') /\ (half = 2 => ClearedIn(1)')
        BY <1>1, <1>2, <2>2, OtherIsKept
    <2>6. TextIn(typed', half') = s /\ BaseIn(typed', half') = B /\ PlaceOf(half') = PlaceOf(h) /\ args'[half'] = a
        BY <1>2
    <2>7. PlaceOf(half)' = p + 1
        <3>1. PlaceOf(half)' = command'[h] - B
            BY <1>2 DEF PlaceOf
        <3> HIDE DEF B, p
        <3>2. QED
            BY <1>3, <2>2, <3>1
    <2> HIDE DEF s, B, p, a
    <2>8. Skipped(s, B, p + 1, a, line)
        BY <1>3, <1>4, <1>5, <1>6, SkipsOne DEF h
    <2>9. SkippedIn(half)'
        BY <1>2, <2>6, <2>7, <2>8 DEF SkippedIn
    <2>10. ScanInv'
        BY <1>1, <1>2, <2>1, <2>5, <2>9 DEF ScanInv, OneBar
    <2>11. QED
        BY <1>1, <1>2, <2>4, <2>10 DEF ParseInv
<1>7. CASE line[command[half]] # BLANK
    <2>1. current' = command[half] /\ foreground' = TRUE /\ command' = command
        BY <1>7 DEF SkipSpaces
    <2>2. LineTypes'
        BY <1>1, <1>2, <1>3, <1>5, <2>1 DEF LineTypes
    <2>3. (half # HalvesIn(typed) => SkippedIn(2)') /\ (half = 2 => ClearedIn(1)')
        BY <1>1, <1>2, <2>1, OtherIsKept
    <2>4. /\ TextIn(typed', half') = s /\ BaseIn(typed', half') = B /\ PlaceOf(half)' = p /\ args'[half'] = a
        BY <1>2, <2>1 DEF PlaceOf
    <2> HIDE DEF s, B, p, a
    <2>5. Scanned(s, B, p, a, line, p)
        BY <1>3, <1>4, <1>5, <1>7, BeginsCommand DEF h
    <2>6. current' - B = p /\ current' # 0
        <3>1. p \in 1 .. p
            BY <2>5 DEF Scanned, Found
        <3>2. QED
            BY <1>3, <1>5, <2>1, <3>1 DEF h
    <2>7. ScannedIn(half)'
        BY <1>2, <2>4, <2>5, <2>6 DEF ScannedIn
    <2>8. ScanInv'
        BY <1>1, <1>2, <2>1, <2>3, <2>6, <2>7 DEF ScanInv, OneBar
    <2>9. QED
        BY <1>1, <1>2, <2>2, <2>8 DEF ParseInv
<1> QED
    BY <1>6, <1>7

\* A cell that holds part of the text is set to '\0'.
LEMMA ZeroedIs ==
    ASSUME LineTypes, NEW x \in 1 .. Len(line), NEW m, m = [line EXCEPT ![x] = "0"]
    PROVE  /\ m \in Seq(LineCell) /\ Len(m) = Len(line)
           /\ \A y \in 1 .. Len(line) : m[y] = IF y = x THEN "0" ELSE line[y]
<1>1. line \in Seq(LineCell) /\ "0" \in LineCell
    BY DEF LineTypes, LineCell
<1> HIDE DEF LineCell
<1> QED
    BY <1>1

Within(s, B, i) ==
    \A j \in 1 .. Len(s) + 1 : B + j \in 1 .. Len(line) /\ (B + j = current <=> j = i)

\* The half that is scanned: its names, its place and the cells it reads.
LEMMA PlaceIs ==
    ASSUME LineTypes, ScanInv, current # 0,
           NEW s, s = TextIn(typed, half), NEW B, B = BaseIn(typed, half),
           NEW p, p = PlaceOf(half), NEW a, a = args[half], NEW i, i = current - B
    PROVE  /\ s \in Seq(Plain) /\ Len(s) \in Nat /\ B \in Nat /\ p \in Int /\ a \in Seq(Int) /\ i \in Int
           /\ Scanned(s, B, p, a, line, i) /\ i \in 1 .. Len(s) + 1
           /\ current = B + i /\ current + 1 = B + i + 1 /\ current \in 1 .. Len(line)
           /\ Within(s, B, i)
           /\ foreground = TRUE /\ half \in {1, 2} /\ half \in DOMAIN args
<1>1. /\ half \in {1, 2} /\ s \in Seq(Plain) /\ Len(s) \in Nat /\ B \in Nat /\ p \in Int
      /\ a \in Seq(Int) /\ half \in DOMAIN args /\ B + Len(s) + 1 <= Len(line)
    BY HereIs
<1>2. current \in Int /\ Len(line) \in Nat
    BY DEF LineTypes
<1>3. Scanned(s, B, p, a, line, i) /\ foreground = TRUE
    BY DEF ScanInv, ScannedIn
<1>4. i \in 1 .. Len(s) + 1
    BY <1>3 DEF Scanned
<1>5. i \in Int /\ current = B + i /\ current + 1 = B + i + 1 /\ current \in 1 .. Len(line)
    BY SMTT(40), <1>1, <1>2, <1>4
<1>6. ASSUME NEW j \in 1 .. Len(s) + 1
      PROVE  B + j \in 1 .. Len(line) /\ (B + j = current <=> j = i)
    <2>1. B + j \in 1 .. Len(line)
        BY SMTT(40), <1>1, <1>2
    <2>a. j \in Int /\ B \in Int /\ i \in Int /\ current = B + i
        BY <1>1, <1>5
    <2>2. B + j = current <=> j = i
        BY ONLY <2>a
    <2>3. QED
        BY <2>1, <2>2
<1> QED
    BY <1>1, <1>3, <1>4, <1>5, <1>6 DEF Within

\* A command ends with its text.
LEMMA ScanEndKeeps ==
    ASSUME ParseInv, ScanEnd PROVE ParseInv'
<1>1. pc = "scan" /\ LineTypes /\ ScanInv /\ current # 0 /\ line[current] = "0" /\ ScanNext
    BY DEF ParseInv, ScanEnd, Scanning
<1>2. typed' = typed /\ line' = line /\ args' = args /\ command' = command /\ foreground' = foreground
    BY DEF ScanEnd, Scanning
<1> DEFINE h == half
           s == TextIn(typed, h)
           B == BaseIn(typed, h)
           p == PlaceOf(h)
           a == args[h]
           i == current - B
<1>3. /\ s \in Seq(Plain) /\ B \in Nat /\ p \in Int /\ a \in Seq(Int) /\ i \in Int /\ Len(s) \in Nat
      /\ Scanned(s, B, p, a, line, i) /\ current = B + i /\ foreground = TRUE
    BY ZenonT(60), <1>1, PlaceIs
<1>4. current' \in Int /\ LineTypes'
    <2>1. current' \in Int
        BY <1>1 DEF ScanNext
    <2>2. QED
        BY <1>1, <1>2, <2>1 DEF LineTypes
<1>5. (half # HalvesIn(typed) => SkippedIn(2)') /\ (half = 2 => ClearedIn(1)')
    BY <1>1, <1>2, OtherIsKept
<1>7. ASSUME NEW g, g = half PROVE ClearedIn(g)'
    <2>1. TextIn(typed', g) = s /\ BaseIn(typed', g) = B /\ PlaceOf(g)' = p /\ args'[g] = a
        BY <1>2, <1>7 DEF PlaceOf
    <2> HIDE DEF s, B, p, a, i
    <2>2. Ended(s, B, p, a, line, Len(s)) /\ Ampersands(s) = {}
        BY <1>1, <1>3, EndsCommand
    <2>3. Len(s) \in Int
        BY <1>3
    <2>4. QED
        BY <1>2, <1>3, <2>1, <2>2, <2>3 DEF ClearedIn
<1> QED
    BY <1>1, <1>2, <1>4, <1>5, <1>7, HalfEnds

\* A command ends at the '&' that ends a word.
LEMMA ScanAmpersandKeeps ==
    ASSUME ParseInv, ScanAmpersand PROVE ParseInv'
<1>1. pc = "scan" /\ LineTypes /\ ScanInv /\ current # 0 /\ IsAmpersand /\ ScanNext
    BY DEF ParseInv, ScanAmpersand, Scanning
<1>2. /\ typed' = typed /\ line' = [line EXCEPT ![current] = "0"] /\ args' = args /\ command' = command
      /\ foreground' = FALSE
    BY DEF ScanAmpersand, Scanning, Zeroed
<1> DEFINE h == half
           s == TextIn(typed, h)
           B == BaseIn(typed, h)
           p == PlaceOf(h)
           a == args[h]
           i == current - B
           m == line'
<1>3. /\ s \in Seq(Plain) /\ B \in Nat /\ p \in Int /\ a \in Seq(Int) /\ i \in Int
      /\ Scanned(s, B, p, a, line, i) /\ i \in 1 .. Len(s) + 1
      /\ current = B + i /\ current + 1 = B + i + 1 /\ current \in 1 .. Len(line)
      /\ Within(s, B, i)
    BY <1>1, PlaceIs
<1>4. /\ m \in Seq(LineCell) /\ Len(m) = Len(line)
      /\ \A y \in 1 .. Len(line) : m[y] = IF y = current THEN "0" ELSE line[y]
    <2>1. m = [line EXCEPT ![current] = "0"]
        BY <1>2
    <2> HIDE DEF m
    <2>2. QED
        BY ZenonT(60), <1>1, <1>3, <2>1, ZeroedIs
<1>5. LineTypes'
    <2>1. current' \in Int
        BY <1>1 DEF ScanNext
    <2>2. QED
        BY <1>1, <1>2, <1>4, <2>1 DEF LineTypes
<1>6. (half # HalvesIn(typed) => SkippedIn(2)') /\ (half = 2 => ClearedIn(1)')
    <2>1. \A y \in 1 .. Len(line) : y # current => line'[y] = line[y]
        BY <1>4
    <2>2. QED
        BY <1>1, <1>2, <2>1, OtherIsKept
<1>7. ASSUME NEW g, g = half PROVE ClearedIn(g)'
    <2>1. TextIn(typed', g) = s /\ BaseIn(typed', g) = B /\ PlaceOf(g)' = p /\ args'[g] = a
        BY <1>2, <1>7 DEF PlaceOf
    <2>2. line[B + i] = "&" /\ line[B + i + 1] \in {"0", BLANK}
        BY <1>1, <1>3 DEF IsAmpersand
    <2>3. line' = m
        OBVIOUS
    <2> HIDE DEF s, B, p, a, i, m
    <2>4. \A j \in 1 .. Len(s) + 1 : m[B + j] = IF j = i THEN "0" ELSE line[B + j]
        BY <1>3, <1>4 DEF Within
    <2>5. Ended(s, B, p, a, m, i - 1) /\ Ampersands(s) # {}
        BY <1>3, <2>2, <2>4, EndsAtAmpersand
    <2>6. i - 1 \in Int
        BY <1>3
    <2>7. foreground' = (Ampersands(s) = {})
        BY <1>2, <2>5
    <2>8. QED
        BY <2>1, <2>3, <2>5, <2>6, <2>7 DEF ClearedIn
<1> QED
    BY <1>1, <1>2, <1>5, <1>6, <1>7, HalfEnds

\* An argument begins behind a blank.
LEMMA ScanArgumentKeeps ==
    ASSUME ParseInv, ScanArgument PROVE ParseInv'
<1>1. /\ pc = "scan" /\ LineTypes /\ ScanInv /\ current # 0 /\ StartsArgument
      /\ IF Len(args'[half]) >= MAX_ARGS THEN ScanNext
         ELSE current' = current + 1 /\ pc' = pc /\ half' = half
    BY DEF ParseInv, ScanArgument, Scanning
<1>2. /\ typed' = typed /\ line' = [line EXCEPT ![current] = "0"] /\ command' = command
      /\ args' = [args EXCEPT ![half] = Append(@, current + 1)] /\ foreground' = foreground
    BY DEF ScanArgument, Scanning, Zeroed
<1> DEFINE h == half
           s == TextIn(typed, h)
           B == BaseIn(typed, h)
           p == PlaceOf(h)
           a == args[h]
           i == current - B
           m == line'
           b == args'[h]
<1>3. /\ s \in Seq(Plain) /\ B \in Nat /\ p \in Int /\ a \in Seq(Int) /\ i \in Int
      /\ Scanned(s, B, p, a, line, i) /\ i \in 1 .. Len(s) + 1
      /\ current = B + i /\ current + 1 = B + i + 1 /\ current \in 1 .. Len(line)
      /\ Within(s, B, i) /\ foreground = TRUE /\ half \in {1, 2} /\ half \in DOMAIN args
    BY <1>1, PlaceIs
<1>4. /\ m \in Seq(LineCell) /\ Len(m) = Len(line)
      /\ \A y \in 1 .. Len(line) : m[y] = IF y = current THEN "0" ELSE line[y]
    <2>1. m = [line EXCEPT ![current] = "0"]
        BY <1>2
    <2> HIDE DEF m
    <2>2. LineTypes /\ current \in 1 .. Len(line)
        BY <1>1, <1>3
    <2>3. QED
        BY ONLY <2>1, <2>2, ZeroedIs
<1>5. args \in [1 .. 2 -> Seq(Int)] /\ current \in Int
    BY <1>1 DEF LineTypes
<1>6. b = Append(a, B + i + 1) /\ \A g \in 1 .. 2 : g # half => args'[g] = args[g]
    <2>1. b = Append(a, current + 1)
        BY <1>2, <1>3
    <2>2. \A g \in 1 .. 2 : g # half => args'[g] = args[g]
        BY <1>2, <1>5
    <2>3. QED
        BY <1>3, <2>1, <2>2
<1>7. b \in Seq(Int)
    <2>1. B + i + 1 \in Int
        BY <1>3
    <2> HIDE DEF a, b, B, i
    <2>2. QED
        BY <1>3, <1>6, <2>1
<1>8. args' \in [1 .. 2 -> Seq(Int)]
    <2> DEFINE X == Seq(Int)
               x == Append(a, current + 1)
    <2>1. args' = [args EXCEPT ![half] = x] /\ x \in X /\ args \in [1 .. 2 -> X]
        BY <1>2, <1>5, <1>6, <1>7, <1>3
    <2> HIDE DEF X, x
    <2>2. args' \in [1 .. 2 -> X]
        BY <2>1
    <2>3. QED
        BY <2>2 DEF X
<1>9. LineTypes'
    <2>1. current' \in Int
        BY <1>1, <1>5 DEF ScanNext
    <2>2. QED
        BY <1>1, <1>2, <1>4, <1>8, <2>1 DEF LineTypes
<1>10. (half # HalvesIn(typed) => SkippedIn(2)') /\ (half = 2 => ClearedIn(1)')
    <2>1. \A y \in 1 .. Len(line) : y # current => line'[y] = line[y]
        BY <1>4
    <2>2. QED
        BY <1>1, <1>2, <1>6, <2>1, OtherIsKept
<1>11. ASSUME NEW g, g = half
       PROVE  TextIn(typed', g) = s /\ BaseIn(typed', g) = B /\ PlaceOf(g)' = p /\ args'[g] = b
    BY <1>2, <1>11 DEF PlaceOf
<1>12. line' = m /\ args'[half] = b
    OBVIOUS
<1>13. line[B + i] = BLANK /\ line[B + i + 1] \notin {"0", BLANK, "&"}
    BY <1>1, <1>3 DEF StartsArgument
<1>14. current - B = i
    OBVIOUS
<1> HIDE DEF s, B, p, a, i, m, b
<1>15. CutAt(s, B, line, m, i)
    BY <1>3, <1>4 DEF Within, CutAt
<1>16. IF Len(b) >= MAX_ARGS THEN Overflown(s, B, p, b) ELSE Scanned(s, B, p, b, m, i + 1)
    <2>1. /\ s \in Seq(Plain) /\ B \in Nat /\ p \in Int /\ a \in Seq(Int) /\ i \in Int
          /\ Scanned(s, B, p, a, line, i) /\ Longer(a, b, B + i + 1)
        BY <1>3, <1>6 DEF Longer
    <2>2. QED
        BY ONLY <2>1, <1>13, <1>15, FindsArgument
<1>17. CASE Len(b) >= MAX_ARGS
    <2>1. ScanNext
        BY <1>1, <1>12, <1>17
    <2>2. ASSUME NEW g, g = half PROVE ClearedIn(g)'
        <3>1. TextIn(typed', g) = s /\ BaseIn(typed', g) = B /\ PlaceOf(g)' = p /\ args'[g] = b
            BY <1>11, <2>2
        <3>2. QED
            BY <1>16, <1>17, <3>1 DEF ClearedIn
    <2>3. QED
        BY <1>1, <1>2, <1>9, <1>10, <2>1, <2>2, HalfEnds
<1>18. CASE ~(Len(b) >= MAX_ARGS)
    <2>1. current' = current + 1 /\ pc' = pc /\ half' = half
        BY <1>1, <1>12, <1>18
    <2>2. current' - B = i + 1 /\ current' # 0
        BY <1>3, <1>5, <2>1
    <2>3. TextIn(typed', half') = s /\ BaseIn(typed', half') = B /\ PlaceOf(half)' = p /\ args'[half'] = b
        <3>1. PlaceOf(half)' = p
            BY <1>2, <2>1 DEF PlaceOf, p, B, h
        <3>2. QED
            BY <1>11, <2>1, <3>1
    <2>4. ScannedIn(half)'
        BY <1>12, <1>16, <1>18, <2>2, <2>3 DEF ScannedIn
    <2>5. ScanInv'
        BY <1>1, <1>2, <1>3, <1>10, <2>1, <2>2, <2>4 DEF ScanInv, OneBar
    <2>6. QED
        BY <1>1, <1>9, <2>1, <2>5 DEF ParseInv
<1> QED
    BY <1>17, <1>18

\* Any other character is passed, and cut if it is blank.
LEMMA ScanOtherKeeps ==
    ASSUME ParseInv, ScanOther PROVE ParseInv'
<1>1. /\ pc = "scan" /\ LineTypes /\ ScanInv /\ current # 0 /\ line[current] # "0"
      /\ ~IsAmpersand /\ ~StartsArgument
    BY DEF ParseInv, ScanOther, Scanning
<1>2. /\ typed' = typed /\ command' = command /\ args' = args /\ foreground' = foreground
      /\ line' = IF line[current] = BLANK THEN [line EXCEPT ![current] = "0"] ELSE line
      /\ current' = current + 1 /\ pc' = pc /\ half' = half
    BY DEF ScanOther, Scanning, Zeroed
<1> DEFINE h == half
           s == TextIn(typed, h)
           B == BaseIn(typed, h)
           p == PlaceOf(h)
           a == args[h]
           i == current - B
           m == line'
<1>3. /\ s \in Seq(Plain) /\ B \in Nat /\ p \in Int /\ a \in Seq(Int) /\ i \in Int
      /\ Scanned(s, B, p, a, line, i) /\ i \in 1 .. Len(s) + 1
      /\ current = B + i /\ current + 1 = B + i + 1 /\ current \in 1 .. Len(line)
      /\ Within(s, B, i) /\ foreground = TRUE /\ half \in {1, 2} /\ half \in DOMAIN args
    BY <1>1, PlaceIs
<1>4. /\ m \in Seq(LineCell) /\ Len(m) = Len(line)
      /\ \A y \in 1 .. Len(line) :
             m[y] = IF y = current /\ line[current] = BLANK THEN "0" ELSE line[y]
    <2>1. CASE line[current] = BLANK
        <3>1. m = [line EXCEPT ![current] = "0"]
            BY <1>2, <2>1
        <3> HIDE DEF m
        <3>a. LineTypes /\ current \in 1 .. Len(line)
            BY <1>1, <1>3
        <3>2. /\ m \in Seq(LineCell) /\ Len(m) = Len(line)
              /\ \A y \in 1 .. Len(line) : m[y] = IF y = current THEN "0" ELSE line[y]
            BY ONLY <3>1, <3>a, ZeroedIs
        <3>3. QED
            BY <2>1, <3>2
    <2>2. CASE line[current] # BLANK
        <3>1. m = line
            BY <1>2, <2>2
        <3> HIDE DEF m
        <3>2. line \in Seq(LineCell)
            BY <1>1 DEF LineTypes
        <3>3. QED
            BY <2>2, <3>1, <3>2
    <2>3. QED
        BY <2>1, <2>2
<1>5. LineTypes' /\ current \in Int
    <2>1. current \in Int /\ current' \in Int
        BY <1>1, <1>2 DEF LineTypes
    <2>2. QED
        BY <1>1, <1>2, <1>4, <2>1 DEF LineTypes
<1>6. (half # HalvesIn(typed) => SkippedIn(2)') /\ (half = 2 => ClearedIn(1)')
    <2>1. \A y \in 1 .. Len(line) : y # current => line'[y] = line[y]
        BY <1>4
    <2>2. QED
        BY <1>1, <1>2, <2>1, OtherIsKept
<1>7. TextIn(typed', half') = s /\ BaseIn(typed', half') = B /\ PlaceOf(half)' = p /\ args'[half'] = a
    BY <1>2 DEF PlaceOf
<1>8. line' = m
    OBVIOUS
<1>9. /\ line[B + i] # "0"
      /\ ~(line[B + i] = "&" /\ line[B + i + 1] \in {"0", BLANK})
      /\ ~(line[B + i] = BLANK /\ line[B + i + 1] \notin {"0", BLANK, "&"})
    BY <1>1, <1>3 DEF IsAmpersand, StartsArgument
<1> HIDE DEF s, B, p, a, i, m
<1>10. \A j \in 1 .. Len(s) + 1 :
           m[B + j] = IF j = i /\ line[B + i] = BLANK THEN "0" ELSE line[B + j]
    BY <1>3, <1>4 DEF Within
<1>11. Scanned(s, B, p, a, m, i + 1)
    BY <1>3, <1>9, <1>10, PassesOther
<1>12. current' - B = i + 1 /\ current' # 0
    BY <1>2, <1>3, <1>5
<1>13. ScannedIn(half)'
    BY <1>7, <1>8, <1>11, <1>12 DEF ScannedIn
<1>14. ScanInv'
    BY <1>1, <1>2, <1>3, <1>6, <1>12, <1>13 DEF ScanInv, OneBar
<1> QED
    BY <1>1, <1>2, <1>5, <1>14 DEF ParseInv

\* What comes after the scan, and what is no step, leaves what was found alone.
LEMMA LaterKeeps ==
    ASSUME ParseInv, UNCHANGED <<typed, line, current, command, args, foreground>>,
           \/ pc' = pc /\ half' = half
           \/ pc \in {"pipe", "start", "wait", "destroy"} /\ pc' \notin {"check", "scan", "pipe"}
              /\ (pc' = "start" => pc \in {"pipe", "start"})
    PROVE  ParseInv'
<1>1. LineTypes'
    BY DEF ParseInv, LineTypes
<1>2. ASSUME NEW h PROVE ClearedIn(h)' = ClearedIn(h)
    BY DEF ClearedIn, PlaceOf
<1>3. CASE pc' = pc /\ half' = half
    <2>1. ASSUME pc = "check" PROVE CheckInv'
        BY <1>3, <2>1 DEF ParseInv, CheckInv
    <2>2. ASSUME pc = "scan" PROVE ScanInv'
        BY <1>3, <2>2 DEF ParseInv, ScanInv, OneBar, SkippedIn, ScannedIn, ClearedIn, PlaceOf
    <2>3. ASSUME pc \in {"pipe", "start"}
          PROVE  OneBar' /\ \A h \in 1 .. HalvesIn(typed') : ClearedIn(h)'
        BY <1>2, <2>3 DEF ParseInv, OneBar
    <2>4. QED
        BY <1>1, <1>3, <2>1, <2>2, <2>3 DEF ParseInv
<1>4. CASE /\ pc \in {"pipe", "start", "wait", "destroy"} /\ pc' \notin {"check", "scan", "pipe"}
           /\ (pc' = "start" => pc \in {"pipe", "start"})
    <2>1. ASSUME pc' \in {"pipe", "start"}
          PROVE  OneBar' /\ \A h \in 1 .. HalvesIn(typed') : ClearedIn(h)'
        BY <1>2, <1>4, <2>1 DEF ParseInv, OneBar
    <2>2. QED
        BY <1>1, <1>4, <2>1 DEF ParseInv
<1> QED
    BY <1>3, <1>4

\* No step of getCmdInput breaks the invariant.
LEMMA ParseNext == ParseInv /\ [LineNext]_lineVars => ParseInv'
<1> SUFFICES ASSUME ParseInv, [LineNext]_lineVars PROVE ParseInv'
    OBVIOUS
<1> DEFINE Rest == UNCHANGED <<typed, line, current, command, args, foreground>>
           Move == \/ pc' = pc /\ half' = half
                   \/ pc \in {"pipe", "start", "wait", "destroy"} /\ pc' \notin {"check", "scan", "pipe"}
                      /\ (pc' = "start" => pc \in {"pipe", "start"})
<1>1. CASE CheckLine
    BY <1>1, CheckLineKeeps
<1>2. CASE SkipSpaces
    BY <1>2, SkipSpacesKeeps
<1>3. CASE ScanEnd
    BY <1>3, ScanEndKeeps
<1>4. CASE ScanAmpersand
    BY <1>4, ScanAmpersandKeeps
<1>5. CASE ScanArgument
    BY <1>5, ScanArgumentKeeps
<1>6. CASE ScanOther
    BY <1>6, ScanOtherKeeps
<1>7. CASE CreatePipe
    <2>1. Rest /\ Move
        BY <1>7 DEF CreatePipe
    <2>2. QED
        BY <2>1, LaterKeeps
<1>8. CASE StartProgram \/ RunBuiltin \/ NewProcessFails \/ NotFound
    <2>1. Rest /\ Move
        BY <1>8 DEF StartProgram, RunBuiltin, NewProcessFails, NotFound, Starting, Leave
    <2>2. QED
        BY <2>1, LaterKeeps
<1>9. CASE ProgramEnds \/ WaitProgram \/ DestroyPipe
    <2>1. Rest /\ Move
        BY <1>9 DEF ProgramEnds, WaitProgram, DestroyPipe, Leave
    <2>2. QED
        BY <2>1, LaterKeeps
<1>10. CASE UNCHANGED lineVars
    <2>1. Rest /\ Move
        BY <1>10 DEF lineVars
    <2>2. QED
        BY <2>1, LaterKeeps
<1> QED
    BY <1>1, <1>2, <1>3, <1>4, <1>5, <1>6, <1>7, <1>8, <1>9, <1>10 DEF LineNext

\* With few words, none of which begins with '&', what was found are the words.
LEMMA ParseTells == ParseInv => LineIsParsed
<1> SUFFICES ASSUME ParseInv, pc \in {"start", "pipe"}, NEW h \in 1 .. Halves,
                    Told(Kept(TextOf(h))), Len(Words(Kept(TextOf(h)))) <= MAX_ARGS
             PROVE  /\ Parsed[h] = Words(Kept(TextOf(h)))
                    /\ h = Halves => foreground = (Ampersands(TextOf(h)) = {})
    BY DEF LineIsParsed, Told
<1>1. LineTypes /\ OneBar /\ Halves = HalvesIn(typed) /\ TextOf(h) = TextIn(typed, h) /\ ClearedIn(h)
    BY InTyped DEF ParseInv
<1> DEFINE s == TextIn(typed, h)
           B == BaseIn(typed, h)
           p == PlaceOf(h)
           a == args[h]
<1>2. /\ h \in {1, 2} /\ s \in Seq(Plain) /\ Len(s) \in Nat /\ B \in Nat
      /\ B + Len(s) <= Len(typed)
    <2>1. typed \in Seq(Typed) /\ Cardinality(BarsIn(typed)) <= 1 /\ h \in 1 .. HalvesIn(typed)
        BY <1>1 DEF LineTypes, OneBar
    <2>2. QED
        BY <2>1, TextIs
<1>3. p \in Int /\ a \in Seq(Int) /\ command[h] = B + p
    <2>1. h \in 1 .. 2
        BY <1>2
    <2>2. command[h] \in Int /\ a \in Seq(Int)
        BY <1>1, <2>1 DEF LineTypes
    <2>3. QED
        BY <1>2, <2>2 DEF PlaceOf
<1>4. B + Len(s) + 1 <= Len(line) /\ line \in Seq(LineCell)
    <2>1. Len(typed) \in Nat /\ Len(line) = Len(typed) + 1 /\ line \in Seq(LineCell)
        BY <1>1 DEF LineTypes
    <2>2. QED
        BY <1>2, <2>1
<1>5. Parsed[h] = <<StringAt(B + p)>> \o [j \in DOMAIN a |-> StringAt(a[j])]
    BY <1>3 DEF Parsed
<1>6. /\ ClearedIn(h) <=> \/ Overflown(s, B, p, a)
                          \/ /\ \E k \in Int : Ended(s, B, p, a, line, k)
                             /\ h = HalvesIn(typed) => foreground = (Ampersands(s) = {})
    BY DEF ClearedIn
<1>7. Told(Kept(s)) /\ Len(Words(Kept(s))) <= MAX_ARGS
    BY <1>1
<1> HIDE DEF s, B, p, a
<1>8. ~Overflown(s, B, p, a)
    BY <1>2, <1>3, <1>7, OverflownIsLong
<1>9. PICK k \in Int : Ended(s, B, p, a, line, k)
    BY <1>1, <1>6, <1>8
<1>10. h = HalvesIn(typed) => foreground = (Ampersands(s) = {})
    BY <1>1, <1>6, <1>8
<1>11. <<StringAt(B + p)>> \o [j \in DOMAIN a |-> StringAt(a[j])] = Words(Kept(s))
    <2>1. Words(Kept(s)) # <<>> /\ \A w \in DOMAIN Words(Kept(s)) : Words(Kept(s))[w][1] # "&"
        BY <1>7 DEF Told
    <2>2. QED
        BY <1>2, <1>3, <1>4, <1>9, <2>1, EndedIsParsed
<1> QED
    BY <1>1, <1>5, <1>10, <1>11 DEF s

\* The command line is cut into its words.
THEOREM WordsAreParsed == LineSpec => []LineIsParsed
<1>1. ParseInv => LineIsParsed
    BY ParseTells
<1>2. QED
    BY ParseInit, ParseNext, <1>1, PTL DEF LineSpec

----------------------------------------------------------------------------
(***************************************************************************)
(* A recursive function has the value of its body only when some function  *)
(* does.  Each recursion below is first shown to have a solution, then that *)
(* two solutions agree, then what the one that CHOOSE takes is.            *)
(***************************************************************************)
\* A recursion over 1 .. n that goes from one member of a set to another.
Solves(f, n, c, next) == f = [k \in 0 .. n |-> IF k = 0 THEN c ELSE next[k][f[k - 1]]]

\* Such a recursion has a solution.
LEMMA SolutionExists ==
    ASSUME NEW n \in Nat, NEW T, NEW c \in T, NEW next \in [1 .. n -> [T -> T]]
    PROVE  \E f \in [0 .. n -> T] : Solves(f, n, c, next)
<1> DEFINE S == {k \in 0 .. n : \E f \in [0 .. k -> T] : Solves(f, k, c, next)}
<1>1. 0 \in S
    <2> DEFINE f == [k \in 0 .. 0 |-> c]
    <2>1. Solves(f, 0, c, next) /\ f \in [0 .. 0 -> T]
        BY DEF Solves
    <2> HIDE DEF f
    <2>2. QED
        BY <2>1
<1>2. ASSUME NEW k \in 0 .. n - 1, k \in S PROVE k + 1 \in S
    <2>1. PICK f \in [0 .. k -> T] : Solves(f, k, c, next)
        BY <1>2
    <2> DEFINE g == [j \in 0 .. k + 1 |-> IF j = k + 1 THEN next[k + 1][f[k]] ELSE f[j]]
    <2>2. \A j \in 0 .. k : f[j] = IF j = 0 THEN c ELSE next[j][f[j - 1]]
        BY <2>1 DEF Solves
    <2>3. ASSUME NEW j \in 0 .. k + 1 PROVE g[j] = IF j = 0 THEN c ELSE next[j][g[j - 1]]
        <3>1. j # 0 => j - 1 \in 0 .. k /\ g[j - 1] = f[j - 1]
            OBVIOUS
        <3>2. j # k + 1 => j \in 0 .. k /\ g[j] = f[j]
            OBVIOUS
        <3>3. g[k + 1] = next[k + 1][f[k]] /\ (k + 1) - 1 = k
            OBVIOUS
        <3>4. QED
            BY <2>2, <3>1, <3>2, <3>3
    <2>4. g = [j \in 0 .. k + 1 |-> g[j]]
        OBVIOUS
    <2>5. g \in [0 .. k + 1 -> T]
        <3>1. next[k + 1] \in [T -> T] /\ f[k] \in T
            OBVIOUS
        <3>2. next[k + 1][f[k]] \in T
            BY <3>1
        <3>3. QED
            BY <3>2
    <2> HIDE DEF g
    <2>6. Solves(g, k + 1, c, next)
        BY <2>3, <2>4 DEF Solves
    <2>7. k + 1 \in 0 .. n
        OBVIOUS
    <2>8. QED
        BY <2>5, <2>6, <2>7
<1>3. \A k \in 0 .. n : k \in S
    <2> HIDE DEF S
    <2>1. QED
        BY <1>1, <1>2, UpTo
<1>4. QED
    BY <1>3

----------------------------------------------------------------------------
(***************************************************************************)
(* The filters, Filters.  What filter has kept of a text is what the       *)
(* reference keeps of the text as it is corrected so far, and the spaces   *)
(* that wc has counted are those of the text.                              *)
(***************************************************************************)
IsEdit(f, s) ==
    f = [k \in 0 .. Len(s) |->
            IF k = 0 THEN [kept |-> <<>>, taken |-> {}]
            ELSE IF s[k] # BACKSPACE THEN [f[k - 1] EXCEPT !.kept = Append(@, s[k])]
            ELSE IF f[k - 1].kept = <<>> THEN f[k - 1]
            ELSE [kept |-> SubSeq(f[k - 1].kept, 1, Len(f[k - 1].kept) - 1),
                  taken |-> f[k - 1].taken \cup {f[k - 1].kept[Len(f[k - 1].kept)]}]]
Edits == [kept : Seq(TextChars), taken : SUBSET TextChars]
EditBy(r, c) ==
    IF c # BACKSPACE THEN [r EXCEPT !.kept = Append(@, c)]
    ELSE IF r.kept = <<>> THEN r
    ELSE [kept |-> SubSeq(r.kept, 1, Len(r.kept) - 1), taken |-> r.taken \cup {r.kept[Len(r.kept)]}]

\* A correction of a text is one of a text.
LEMMA EditStays ==
    ASSUME NEW r \in Edits, NEW c \in TextChars
    PROVE  EditBy(r, c) \in Edits
<1>1. r.kept \in Seq(TextChars) /\ r.taken \in SUBSET TextChars
    BY DEF Edits
<1>2. CASE c # BACKSPACE
    <2> DEFINE more == Append(r.kept, c)
    <2>1. more \in Seq(TextChars)
        BY <1>1
    <2>2. EditBy(r, c) = [r EXCEPT !.kept = more]
        BY <1>2 DEF EditBy
    <2> HIDE DEF more
    <2>3. QED
        BY <2>1, <2>2 DEF Edits
<1>3. CASE c = BACKSPACE /\ r.kept = <<>>
    BY <1>3 DEF EditBy
<1>4. CASE c = BACKSPACE /\ r.kept # <<>>
    <2>1. SubSeq(r.kept, 1, Len(r.kept) - 1) \in Seq(TextChars)
        BY <1>1
    <2>2. r.kept[Len(r.kept)] \in TextChars
        BY <1>1, <1>4
    <2>3. QED
        BY <1>1, <1>4, <2>1, <2>2 DEF EditBy, Edits
<1>5. QED
    BY <1>2, <1>3, <1>4

\* The recursion of Edited has a solution for every text.
LEMMA EditExists ==
    ASSUME NEW s \in Seq(TextChars)
    PROVE  \E f \in [0 .. Len(s) -> Edits] : IsEdit(f, s)
<1> DEFINE n == Len(s)
           c == [kept |-> <<>>, taken |-> {}]
           next == [k \in 1 .. n |-> [r \in Edits |-> EditBy(r, s[k])]]
<1>1. n \in Nat /\ c \in Edits
    BY DEF Edits
<1>2. next \in [1 .. n -> [Edits -> Edits]]
    <2>1. \A k \in 1 .. n : s[k] \in TextChars
        OBVIOUS
    <2>2. QED
        BY <2>1, EditStays
<1>3. \A k \in 1 .. n, r \in Edits : next[k][r] = EditBy(r, s[k])
    OBVIOUS
<1> HIDE DEF next, c
<1>4. PICK f \in [0 .. n -> Edits] : Solves(f, n, c, next)
    BY <1>1, <1>2, SolutionExists
<1>5. f = [k \in 0 .. n |-> IF k = 0 THEN c ELSE EditBy(f[k - 1], s[k])]
    <2>1. \A k \in 0 .. n : f[k] = IF k = 0 THEN c ELSE next[k][f[k - 1]]
        BY <1>4 DEF Solves
    <2>2. ASSUME NEW k \in 0 .. n PROVE f[k] = IF k = 0 THEN c ELSE EditBy(f[k - 1], s[k])
        <3>1. k # 0 => k \in 1 .. n /\ f[k - 1] \in Edits
            OBVIOUS
        <3>2. QED
            BY <1>3, <2>1, <3>1
    <2>3. f = [k \in 0 .. n |-> f[k]]
        BY SMTT(40)
    <2>4. QED
        BY <2>2, <2>3
<1>6. IsEdit(f, s)
    BY <1>5 DEF IsEdit, EditBy, c
<1>7. QED
    BY <1>6

\* Solutions of two texts agree as far as the texts do.
LEMMA EditsAgree ==
    ASSUME NEW s, NEW t, NEW n \in Nat, Len(s) \in Nat, Len(t) \in Nat, n <= Len(s), n <= Len(t),
           \A k \in 1 .. n : s[k] = t[k], NEW f, NEW g, IsEdit(f, s), IsEdit(g, t)
    PROVE  f[n] = g[n]
<1> DEFINE S == {k \in 0 .. n : f[k] = g[k]}
           c == [kept |-> <<>>, taken |-> {}]
<1>1. /\ \A k \in 0 .. Len(s) : f[k] = IF k = 0 THEN c ELSE EditBy(f[k - 1], s[k])
      /\ \A k \in 0 .. Len(t) : g[k] = IF k = 0 THEN c ELSE EditBy(g[k - 1], t[k])
    BY DEF IsEdit, EditBy
<1> HIDE DEF c
<1>2. 0 \in S
    BY <1>1
<1>3. ASSUME NEW k \in 0 .. n - 1, k \in S PROVE k + 1 \in S
    <2>1. /\ k + 1 \in 0 .. Len(s) /\ k + 1 \in 0 .. Len(t) /\ k + 1 \in 1 .. n /\ k + 1 \in 0 .. n
          /\ (k + 1) - 1 = k /\ k + 1 # 0
        OBVIOUS
    <2>2. f[k + 1] = EditBy(f[k], s[k + 1]) /\ g[k + 1] = EditBy(g[k], t[k + 1])
        BY <1>1, <2>1
    <2>3. QED
        BY <1>3, <2>1, <2>2
<1>4. \A k \in 0 .. n : k \in S
    <2> HIDE DEF S
    <2>1. QED
        BY <1>2, <1>3, UpTo
<1>5. QED
    BY SMTT(40), <1>4

\* The solution that Edited takes.
LEMMA EditedIs ==
    ASSUME NEW s \in Seq(TextChars)
    PROVE  \E f \in [0 .. Len(s) -> Edits] : IsEdit(f, s) /\ Edited(s) = f[Len(s)]
<1> DEFINE e == CHOOSE f : IsEdit(f, s)
<1>1. PICK f \in [0 .. Len(s) -> Edits] : IsEdit(f, s)
    BY EditExists
<1>2. IsEdit(e, s)
    BY <1>1
<1>3. Edited(s) = e[Len(s)]
    BY DEF Edited, IsEdit
<1> HIDE DEF e
<1>4. f[Len(s)] = e[Len(s)]
    BY <1>1, <1>2, EditsAgree
<1>5. QED
    BY <1>1, <1>3, <1>4

\* The text as corrected, character by character.
LEMMA EditedBy ==
    /\ Edited(<<>>) = [kept |-> <<>>, taken |-> {}]
    /\ \A s \in Seq(TextChars) : Edited(s) \in Edits
    /\ \A s \in Seq(TextChars), c \in TextChars : Edited(Append(s, c)) = EditBy(Edited(s), c)
<1>1. Edited(<<>>) = [kept |-> <<>>, taken |-> {}]
    <2>1. PICK f \in [0 .. Len(<<>>) -> Edits] : IsEdit(f, <<>>) /\ Edited(<<>>) = f[Len(<<>>)]
        <3>1. <<>> \in Seq(TextChars)
            OBVIOUS
        <3>2. QED
            BY <3>1, EditedIs
    <2>2. QED
        BY <2>1 DEF IsEdit
<1>2. \A s \in Seq(TextChars) : Edited(s) \in Edits
    BY EditedIs
<1>3. ASSUME NEW s \in Seq(TextChars), NEW c \in TextChars
      PROVE  Edited(Append(s, c)) = EditBy(Edited(s), c)
    <2> DEFINE t == Append(s, c)
               n == Len(s)
    <2>1. /\ t \in Seq(TextChars) /\ Len(t) = n + 1 /\ t[n + 1] = c /\ n \in Nat
          /\ \A k \in 1 .. n : t[k] = s[k]
        OBVIOUS
    <2> HIDE DEF t
    <2>2. PICK f : IsEdit(f, s) /\ Edited(s) = f[n]
        BY EditedIs
    <2>3. PICK g : IsEdit(g, t) /\ Edited(t) = g[n + 1]
        BY <2>1, EditedIs
    <2>4. f[n] = g[n]
        <3>1. n <= Len(s) /\ n <= Len(t) /\ Len(s) \in Nat /\ Len(t) \in Nat
            BY <2>1
        <3>2. QED
            BY <2>1, <2>2, <2>3, <3>1, EditsAgree
    <2>5. g[n + 1] = EditBy(g[n], c)
        <3>1. n + 1 \in 0 .. Len(t) /\ n + 1 # 0 /\ (n + 1) - 1 = n
            BY SMTT(40), <2>1
        <3>2. \A k \in 0 .. Len(t) : k # 0 => g[k] = EditBy(g[k - 1], t[k])
            BY <2>3 DEF IsEdit, EditBy
        <3>3. QED
            BY <2>1, <3>1, <3>2
    <2>6. QED
        BY <2>2, <2>3, <2>4, <2>5 DEF t
<1>4. QED
    BY <1>1, <1>2, <1>3

IsVowels(f, s) ==
    f = [k \in 0 .. Len(s) |->
            IF k = 0 THEN <<>> ELSE IF InFilter(s, k) THEN Append(f[k - 1], s[k]) ELSE f[k - 1]]

\* The recursion of VowelsOf has a solution for every text.
LEMMA VowelsExist ==
    ASSUME NEW s \in Seq(TextChars)
    PROVE  \E f \in [0 .. Len(s) -> Seq(TextChars)] : IsVowels(f, s)
<1> DEFINE n == Len(s)
           next == [k \in 1 .. n |-> [r \in Seq(TextChars) |->
                       IF InFilter(s, k) THEN Append(r, s[k]) ELSE r]]
<1>1. n \in Nat /\ <<>> \in Seq(TextChars)
    OBVIOUS
<1>2. next \in [1 .. n -> [Seq(TextChars) -> Seq(TextChars)]]
    <2>1. \A k \in 1 .. n : s[k] \in TextChars
        OBVIOUS
    <2>2. \A k \in 1 .. n, r \in Seq(TextChars) : Append(r, s[k]) \in Seq(TextChars)
        BY <2>1
    <2>3. QED
        BY <2>2
<1>3. \A k \in 1 .. n, r \in Seq(TextChars) :
          next[k][r] = IF InFilter(s, k) THEN Append(r, s[k]) ELSE r
    OBVIOUS
<1> HIDE DEF next
<1>4. PICK f \in [0 .. n -> Seq(TextChars)] : Solves(f, n, <<>>, next)
    BY <1>1, <1>2, SolutionExists
<1>5. f = [k \in 0 .. n |->
               IF k = 0 THEN <<>> ELSE IF InFilter(s, k) THEN Append(f[k - 1], s[k]) ELSE f[k - 1]]
    <2>1. \A k \in 0 .. n : f[k] = IF k = 0 THEN <<>> ELSE next[k][f[k - 1]]
        BY <1>4 DEF Solves
    <2>2. ASSUME NEW k \in 0 .. n
          PROVE  f[k] = IF k = 0 THEN <<>>
                        ELSE IF InFilter(s, k) THEN Append(f[k - 1], s[k]) ELSE f[k - 1]
        <3>1. k # 0 => k \in 1 .. n /\ f[k - 1] \in Seq(TextChars)
            OBVIOUS
        <3>2. QED
            BY <1>3, <2>1, <3>1
    <2>3. f = [k \in 0 .. n |-> f[k]]
        OBVIOUS
    <2>4. QED
        BY <2>2, <2>3
<1>6. QED
    BY <1>5 DEF IsVowels

\* Whether a space would be kept behind a text.
TakesSpace(s) ==
    \E j \in Before(s, Len(s) + 1) : isVowel(s[j]) /\ \A i \in Before(s, Len(s) + 1) : i <= j
GrownBy(v, s, c) ==
    IF isVowel(c) \/ (c = " " /\ TakesSpace(s)) THEN Append(v, c) ELSE v

\* Whether a character is kept depends on those before it.
LEMMA FilterLooksBack ==
    ASSUME NEW s \in Seq(TextChars), NEW c \in TextChars
    PROVE  /\ \A k \in 1 .. Len(s) : InFilter(Append(s, c), k) <=> InFilter(s, k)
           /\ InFilter(Append(s, c), Len(s) + 1) <=> (isVowel(c) \/ (c = " " /\ TakesSpace(s)))
<1> DEFINE t == Append(s, c)
           n == Len(s)
<1>1. n \in Nat /\ t[n + 1] = c /\ \A k \in 1 .. n : t[k] = s[k]
    OBVIOUS
<1> HIDE DEF t
<1>2. ASSUME NEW k \in 1 .. n + 1 PROVE Before(t, k) = Before(s, k) /\ Before(s, k) \subseteq 1 .. n
    <2>1. \A j \in 1 .. k - 1 : j \in 1 .. n /\ t[j] = s[j]
        BY <1>1
    <2>2. \A j \in 1 .. k - 1 : (isVowel(t[j]) \/ t[j] = " ") <=> (isVowel(s[j]) \/ s[j] = " ")
        BY <2>1
    <2>3. Before(t, k) = Before(s, k)
        BY <2>2 DEF Before
    <2>4. QED
        BY <2>1, <2>3 DEF Before
<1>3. ASSUME NEW k \in 1 .. n PROVE InFilter(t, k) <=> InFilter(s, k)
    <2>1. k \in 1 .. n + 1
        BY <1>1
    <2>2. /\ Before(t, k) = Before(s, k) /\ Before(s, k) \subseteq 1 .. n
          /\ \A j \in Before(s, k) : t[j] = s[j]
        BY <1>1, <1>2, <2>1
    <2>3. t[k] = s[k]
        BY <1>1
    <2>4. (\E j \in Before(t, k) : isVowel(t[j]) /\ \A i \in Before(t, k) : i <= j)
          <=> (\E j \in Before(s, k) : isVowel(s[j]) /\ \A i \in Before(s, k) : i <= j)
        BY <2>2
    <2>5. QED
        BY <2>3, <2>4 DEF InFilter
<1>4. InFilter(t, n + 1) <=> (isVowel(c) \/ (c = " " /\ TakesSpace(s)))
    <2>1. n + 1 \in 1 .. n + 1
        BY <1>1
    <2>2. /\ Before(t, n + 1) = Before(s, n + 1) /\ Before(s, n + 1) \subseteq 1 .. n
          /\ \A j \in Before(s, n + 1) : t[j] = s[j]
        BY <1>1, <1>2, <2>1
    <2>3. (\E j \in Before(t, n + 1) : isVowel(t[j]) /\ \A i \in Before(t, n + 1) : i <= j)
          <=> TakesSpace(s)
        BY <2>2 DEF TakesSpace
    <2>4. QED
        BY <1>1, <2>3 DEF InFilter
<1>5. QED
    BY <1>3, <1>4 DEF t

\* Solutions of two texts agree as far as the texts do.
LEMMA VowelsAgree ==
    ASSUME NEW s, NEW t, NEW n \in Nat, Len(s) \in Nat, Len(t) \in Nat, n <= Len(s), n <= Len(t),
           \A k \in 1 .. n : s[k] = t[k] /\ (InFilter(s, k) <=> InFilter(t, k)),
           NEW f, NEW g, IsVowels(f, s), IsVowels(g, t)
    PROVE  f[n] = g[n]
<1> DEFINE S == {k \in 0 .. n : f[k] = g[k]}
<1>1. /\ f[0] = <<>> /\ g[0] = <<>>
      /\ \A k \in 1 .. Len(s) : f[k] = IF InFilter(s, k) THEN Append(f[k - 1], s[k]) ELSE f[k - 1]
      /\ \A k \in 1 .. Len(t) : g[k] = IF InFilter(t, k) THEN Append(g[k - 1], t[k]) ELSE g[k - 1]
    <2>1. /\ \A k \in 0 .. Len(s) : f[k] = IF k = 0 THEN <<>> ELSE
                 IF InFilter(s, k) THEN Append(f[k - 1], s[k]) ELSE f[k - 1]
          /\ \A k \in 0 .. Len(t) : g[k] = IF k = 0 THEN <<>> ELSE
                 IF InFilter(t, k) THEN Append(g[k - 1], t[k]) ELSE g[k - 1]
        BY DEF IsVowels
    <2>2. \A m \in Nat : 0 \in 0 .. m /\ \A k \in 1 .. m : k \in 0 .. m /\ k # 0
        OBVIOUS
    <2>3. QED
        BY <2>1, <2>2
<1>2. 0 \in S
    BY <1>1
<1>3. ASSUME NEW k \in 0 .. n - 1, k \in S PROVE k + 1 \in S
    <2>1. /\ k + 1 \in 1 .. Len(s) /\ k + 1 \in 1 .. Len(t) /\ k + 1 \in 1 .. n /\ k + 1 \in 0 .. n
          /\ (k + 1) - 1 = k
        OBVIOUS
    <2>2. /\ f[k + 1] = IF InFilter(s, k + 1) THEN Append(f[k], s[k + 1]) ELSE f[k]
          /\ g[k + 1] = IF InFilter(t, k + 1) THEN Append(g[k], t[k + 1]) ELSE g[k]
        BY <1>1, <2>1
    <2>3. f[k] = g[k] /\ s[k + 1] = t[k + 1] /\ (InFilter(s, k + 1) <=> InFilter(t, k + 1))
        BY <1>3, <2>1
    <2>4. QED
        BY <2>1, <2>2, <2>3
<1>4. \A k \in 0 .. n : k \in S
    <2> HIDE DEF S
    <2>1. QED
        BY <1>2, <1>3, UpTo
<1>5. QED
    BY <1>4

\* The solution that VowelsOf takes.
LEMMA VowelsAre ==
    ASSUME NEW s \in Seq(TextChars)
    PROVE  \E f \in [0 .. Len(s) -> Seq(TextChars)] : IsVowels(f, s) /\ VowelsOf(s) = f[Len(s)]
<1> DEFINE e == CHOOSE f : IsVowels(f, s)
<1>1. PICK f \in [0 .. Len(s) -> Seq(TextChars)] : IsVowels(f, s)
    BY VowelsExist
<1>2. IsVowels(e, s)
    BY <1>1
<1>3. VowelsOf(s) = e[Len(s)]
    BY DEF VowelsOf, IsVowels
<1> HIDE DEF e
<1>4. f[Len(s)] = e[Len(s)]
    BY <1>1, <1>2, VowelsAgree
<1>5. QED
    BY <1>1, <1>3, <1>4

\* The vowels of a text, character by character.
LEMMA VowelsBy ==
    /\ VowelsOf(<<>>) = <<>>
    /\ \A s \in Seq(TextChars) : VowelsOf(s) \in Seq(TextChars)
    /\ \A s \in Seq(TextChars), c \in TextChars :
           VowelsOf(Append(s, c)) = GrownBy(VowelsOf(s), s, c)
<1>1. VowelsOf(<<>>) = <<>>
    <2>1. PICK f \in [0 .. Len(<<>>) -> Seq(TextChars)] :
                   IsVowels(f, <<>>) /\ VowelsOf(<<>>) = f[Len(<<>>)]
        <3>1. <<>> \in Seq(TextChars)
            OBVIOUS
        <3>2. QED
            BY <3>1, VowelsAre
    <2>2. QED
        BY <2>1 DEF IsVowels
<1>2. \A s \in Seq(TextChars) : VowelsOf(s) \in Seq(TextChars)
    BY VowelsAre
<1>3. ASSUME NEW s \in Seq(TextChars), NEW c \in TextChars
      PROVE  VowelsOf(Append(s, c)) = GrownBy(VowelsOf(s), s, c)
    <2> DEFINE t == Append(s, c)
               n == Len(s)
    <2>1. /\ t \in Seq(TextChars) /\ Len(t) = n + 1 /\ t[n + 1] = c /\ n \in Nat
          /\ \A k \in 1 .. n : t[k] = s[k]
        OBVIOUS
    <2>2. /\ \A k \in 1 .. n : (InFilter(s, k) <=> InFilter(t, k))
          /\ InFilter(t, n + 1) <=> (isVowel(c) \/ (c = " " /\ TakesSpace(s)))
        BY FilterLooksBack
    <2> HIDE DEF t
    <2>3. PICK f : IsVowels(f, s) /\ VowelsOf(s) = f[n]
        BY VowelsAre
    <2>4. PICK g : IsVowels(g, t) /\ VowelsOf(t) = g[n + 1]
        BY <2>1, VowelsAre
    <2>5. f[n] = g[n]
        <3>1. n <= Len(s) /\ n <= Len(t) /\ Len(s) \in Nat /\ Len(t) \in Nat
            BY <2>1
        <3>2. \A k \in 1 .. n : s[k] = t[k] /\ (InFilter(s, k) <=> InFilter(t, k))
            BY <2>1, <2>2
        <3>3. QED
            BY <2>1, <2>3, <2>4, <3>1, <3>2, VowelsAgree
    <2>6. g[n + 1] = IF InFilter(t, n + 1) THEN Append(g[n], c) ELSE g[n]
        <3>1. n + 1 \in 0 .. Len(t) /\ n + 1 # 0 /\ (n + 1) - 1 = n
            BY <2>1
        <3>2. \A k \in 0 .. Len(t) : k # 0 =>
                  g[k] = IF InFilter(t, k) THEN Append(g[k - 1], t[k]) ELSE g[k - 1]
            BY <2>4 DEF IsVowels
        <3>3. QED
            BY <2>1, <3>1, <3>2
    <2>7. VowelsOf(t) = GrownBy(VowelsOf(s), s, c)
        BY <2>2, <2>3, <2>4, <2>5, <2>6 DEF GrownBy
    <2>8. QED
        BY <2>7 DEF t
<1>4. QED
    BY <1>1, <1>2, <1>3

EndsOpen(v) == v # <<>> /\ v[Len(v)] # " "

\* Whether a space would be kept next, after one more character.
LEMMA SpacesAfter ==
    ASSUME NEW s \in Seq(TextChars), NEW c \in TextChars
    PROVE  TakesSpace(Append(s, c)) <=> (isVowel(c) \/ (c # " " /\ TakesSpace(s)))
<1> DEFINE t == Append(s, c)
           n == Len(s)
<1>1. n \in Nat /\ t[n + 1] = c /\ Len(t) = n + 1 /\ \A k \in 1 .. n : t[k] = s[k]
    OBVIOUS
<1> HIDE DEF t
<1> DEFINE old == {j \in 1 .. n : isVowel(s[j]) \/ s[j] = " "}
           new == {j \in 1 .. n + 1 : isVowel(t[j]) \/ t[j] = " "}
<1>2. old = Before(s, Len(s) + 1) /\ new = Before(t, Len(t) + 1)
    BY <1>1 DEF Before
<1>3. \A j \in 1 .. n : (isVowel(t[j]) <=> isVowel(s[j])) /\ (t[j] = " " <=> s[j] = " ")
    BY <1>1
<1>4. ASSUME NEW j \in 1 .. n PROVE j \in new <=> j \in old
    <2>1. j \in old <=> (isVowel(s[j]) \/ s[j] = " ")
        OBVIOUS
    <2>2. j \in 1 .. n + 1
        BY <1>1
    <2>3. j \in new <=> (isVowel(t[j]) \/ t[j] = " ")
        BY <2>2
    <2>4. QED
        BY <1>3, <2>1, <2>3
<1>5. n + 1 \in new <=> (isVowel(c) \/ c = " ")
    <2>1. n + 1 \in 1 .. n + 1
        BY <1>1
    <2>2. n + 1 \in new <=> (isVowel(t[n + 1]) \/ t[n + 1] = " ")
        BY <2>1
    <2>3. QED
        BY <1>1, <2>2
<1>6. TakesSpace(t) <=> \E j \in new : isVowel(t[j]) /\ \A i \in new : i <= j
    BY <1>2 DEF TakesSpace
<1>7. TakesSpace(s) <=> \E j \in old : isVowel(s[j]) /\ \A i \in old : i <= j
    BY <1>2 DEF TakesSpace
<1>8. new \subseteq 1 .. n + 1 /\ old \subseteq 1 .. n
    OBVIOUS
<1> HIDE DEF old, new
<1>9. ASSUME isVowel(c) PROVE TakesSpace(t)
    <2>1. n + 1 \in new /\ isVowel(t[n + 1]) /\ \A i \in new : i <= n + 1
        BY <1>1, <1>5, <1>8, <1>9
    <2>2. QED
        BY <1>6, <2>1
<1>10. ASSUME ~isVowel(c), c = " " PROVE ~TakesSpace(t)
    <2>1. n + 1 \in new /\ ~isVowel(t[n + 1])
        BY <1>1, <1>5, <1>10
    <2>2. \A j \in new : n + 1 <= j => j = n + 1
        BY <1>1, <1>8
    <2>3. QED
        BY <1>6, <2>1, <2>2
<1>11. ASSUME ~isVowel(c), c # " " PROVE TakesSpace(t) <=> TakesSpace(s)
    <2>1. n + 1 \notin new
        BY <1>5, <1>11
    <2>2. \A j \in 1 .. n + 1 : j \in 1 .. n \/ j = n + 1
        BY <1>1
    <2>3. new = old
        <3>1. \A j \in new : j \in old
            BY <1>4, <1>8, <2>1, <2>2
        <3>2. \A j \in old : j \in new
            BY <1>4, <1>8
        <3>3. QED
            BY <3>1, <3>2
    <2>4. QED
        BY <1>3, <1>6, <1>7, <1>8, <2>3
<1>12. QED
    BY <1>9, <1>10, <1>11 DEF t

\* A space would be kept behind a text just when what is kept of it ends with a vowel.
LEMMA OpenEnds ==
    ASSUME NEW s \in Seq(TextChars)
    PROVE  TakesSpace(s) <=> EndsOpen(VowelsOf(s))
<1> DEFINE n == Len(s)
           P(t) == TakesSpace(t) <=> EndsOpen(VowelsOf(t))
           S == {k \in 0 .. n : P(SubSeq(s, 1, k))}
<1>1. 0 \in S
    <2>1. SubSeq(s, 1, 0) = <<>>
        OBVIOUS
    <2>2. ~TakesSpace(<<>>)
        BY DEF TakesSpace, Before
    <2>3. ~EndsOpen(VowelsOf(<<>>))
        BY VowelsBy DEF EndsOpen
    <2>4. P(<<>>) /\ 0 \in 0 .. n
        BY <2>2, <2>3
    <2> HIDE DEF P
    <2>5. QED
        BY <2>1, <2>4
<1>2. ASSUME NEW k \in 0 .. n - 1, k \in S PROVE k + 1 \in S
    <2> DEFINE t == SubSeq(s, 1, k)
               c == s[k + 1]
               v == VowelsOf(t)
    <2>1. t \in Seq(TextChars) /\ c \in TextChars /\ SubSeq(s, 1, k + 1) = Append(t, c)
        OBVIOUS
    <2>2. TakesSpace(t) <=> EndsOpen(v)
        BY <1>2
    <2> HIDE DEF t, c
    <2>3. TakesSpace(Append(t, c)) <=> (isVowel(c) \/ (c # " " /\ TakesSpace(t)))
        BY <2>1, SpacesAfter
    <2>4. v \in Seq(TextChars) /\ VowelsOf(Append(t, c)) = GrownBy(v, t, c)
        BY <2>1, VowelsBy
    <2> HIDE DEF v
    <2>5. ~isVowel(" ")
        BY DEF isVowel, isStandardVowel, isFrenchVowel
    <2>6. Append(v, c) # <<>> /\ Append(v, c)[Len(Append(v, c))] = c
        BY <2>1, <2>4
    <2>7. TakesSpace(Append(t, c)) <=> EndsOpen(GrownBy(v, t, c))
        BY <2>2, <2>3, <2>5, <2>6 DEF EndsOpen, GrownBy
    <2> DEFINE u == Append(t, c)
    <2>8. EndsOpen(VowelsOf(u)) <=> EndsOpen(GrownBy(v, t, c))
        BY <2>4
    <2>9. P(u) /\ k + 1 \in 0 .. n
        BY <2>7, <2>8
    <2>10. SubSeq(s, 1, k + 1) = u
        BY <2>1
    <2> HIDE DEF P, u
    <2>11. QED
        BY <2>9, <2>10
<1>3. \A k \in 0 .. n : k \in S
    <2> HIDE DEF S
    <2>1. n \in Nat
        OBVIOUS
    <2>2. QED
        BY <1>1, <1>2, <2>1, UpTo
<1>4. n \in 0 .. n /\ SubSeq(s, 1, n) = s
    OBVIOUS
<1>5. QED
    BY <1>3, <1>4

\* What filter does with the next character is what the reference does.
LEMMA FilterGrows ==
    ASSUME NEW s \in Seq(TextChars), NEW c \in TextChars, vocales = VowelsOf(s),
           c = BACKSPACE /\ s # <<>> => isVowel(s[Len(s)])
    PROVE  Filtered(c) = VowelsOf(IF c # BACKSPACE THEN Append(s, c)
                                  ELSE IF s = <<>> THEN s ELSE SubSeq(s, 1, Len(s) - 1))
<1>1. vocales \in Seq(TextChars)
    BY VowelsBy
<1>2. ~isVowel(BACKSPACE) /\ ~isVowel(" ")
    BY DEF isVowel, isStandardVowel, isFrenchVowel, BACKSPACE
<1>3. CASE c # BACKSPACE
    <2>1. VowelsOf(Append(s, c)) = GrownBy(vocales, s, c)
        BY VowelsBy
    <2>2. TakesSpace(s) <=> (vocales # <<>> /\ LastKept # " ")
        BY OpenEnds DEF EndsOpen, LastKept
    <2>3. Filtered(c) = IF isVowel(c) \/ (c = " " /\ TakesSpace(s)) THEN Append(vocales, c)
                        ELSE vocales
        BY <1>3, <2>2 DEF Filtered, IsKept, Removes
    <2>4. QED
        BY <1>3, <2>1, <2>3 DEF GrownBy
<1>4. CASE c = BACKSPACE /\ s = <<>>
    <2>1. vocales = <<>>
        BY <1>4, VowelsBy
    <2>2. Filtered(c) = vocales
        BY <1>2, <1>4, <2>1 DEF Filtered, IsKept, Removes, BACKSPACE
    <2>3. QED
        BY <1>4, <2>2
<1>5. CASE c = BACKSPACE /\ s # <<>>
    <2> DEFINE front == SubSeq(s, 1, Len(s) - 1)
               last == s[Len(s)]
               v == VowelsOf(front)
    <2>1. front \in Seq(TextChars) /\ last \in TextChars /\ s = Append(front, last)
        BY <1>5
    <2>2. isVowel(last)
        BY <1>5
    <2> HIDE DEF front, last
    <2>3. vocales = Append(v, last) /\ v \in Seq(TextChars)
        BY <2>1, <2>2, VowelsBy DEF GrownBy
    <2> HIDE DEF v
    <2>4. vocales # <<>> /\ LastKept = last /\ SubSeq(vocales, 1, Len(vocales) - 1) = v
        <3>1. /\ Append(v, last) # <<>>
              /\ Append(v, last)[Len(Append(v, last))] = last
              /\ SubSeq(Append(v, last), 1, Len(Append(v, last)) - 1) = v
            BY <2>1, <2>3
        <3>2. QED
            BY <2>3, <3>1 DEF LastKept
    <2>5. Filtered(c) = v
        BY <1>2, <1>5, <2>2, <2>4 DEF Filtered, IsKept, Removes, BACKSPACE
    <2>6. QED
        BY <1>5, <2>5 DEF v, front
<1>6. QED
    BY <1>3, <1>4, <1>5

\* What is kept of a text is the same after a step of the same tool.
LEMMA SameVowels ==
    ASSUME tool' = tool, NEW s
    PROVE  VowelsOf(s)' = VowelsOf(s)
<1>1. \A c : isVowel(c)' <=> isVowel(c)
    BY DEF isVowel, isStandardVowel, isFrenchVowel
<1>2. \A k : Before(s, k)' = Before(s, k)
    BY <1>1 DEF Before
<1>3. ASSUME NEW k PROVE InFilter(s, k)' <=> InFilter(s, k)
    <2> DEFINE b == Before(s, k)
    <2>1. Before(s, k)' = b
        BY <1>2
    <2> HIDE DEF b
    <2>2. InFilter(s, k)' <=> 
              (isVowel(s[k])' \/ (s[k] = " " /\ \E j \in b : isVowel(s[j])' /\ \A i \in b : i <= j))
        BY <2>1 DEF InFilter
    <2>3. InFilter(s, k) <=> 
              (isVowel(s[k]) \/ (s[k] = " " /\ \E j \in b : isVowel(s[j]) /\ \A i \in b : i <= j))
        BY DEF InFilter, b
    <2> QED
        BY <1>1, <2>2, <2>3
<1>4. \A f : IsVowels(f, s)' <=> IsVowels(f, s)
    BY <1>3 DEF IsVowels
<1> QED
    BY ZenonT(60), <1>4 DEF VowelsOf, IsVowels

(***************************************************************************)
(* The inductive invariant.  What filter has kept are the vowels of the    *)
(* text as corrected, and wc has counted the spaces, which are the words   *)
(* of a plain line but for one.                                            *)
(***************************************************************************)
Spaces(s) == {k \in 1 .. Len(s) : s[k] = " "}
OnlyVowelsTaken == \A c \in Edited(echoed).taken : isVowel(c)

FilterInv ==
    /\ tool \in {"cat", "wc", "filter", "fr"}
    /\ text \in Seq(TextChars \cup {NOTHING})
    /\ position \in 0 .. Len(text)
    /\ echoed \in Seq(TextChars)
    /\ counts \in [lines : Nat, words : Nat, chars : Nat]
    /\ (tool \in {"filter", "fr"} /\ ~spilled /\ OnlyVowelsTaken) =>
           vocales = VowelsOf(Edited(echoed).kept)
    /\ tool = "wc" => counts.chars = Len(echoed) /\ counts.words = Cardinality(Spaces(echoed))

\* A text has finitely many spaces.
LEMMA SpacesFinite ==
    ASSUME NEW s \in Seq(TextChars)
    PROVE  IsFiniteSet(Spaces(s))
<1>1. IsFiniteSet(1 .. Len(s))
    BY FS_Interval
<1>2. Spaces(s) \subseteq 1 .. Len(s)
    BY DEF Spaces
<1> QED
    BY <1>1, <1>2, FS_Subset

\* The number of spaces, character by character.
LEMMA SpacesBy ==
    ASSUME NEW s \in Seq(TextChars), NEW c \in TextChars
    PROVE  Cardinality(Spaces(Append(s, c))) =
               Cardinality(Spaces(s)) + (IF c = " " THEN 1 ELSE 0)
<1> DEFINE t == Append(s, c)
           n == Len(s)
<1>1. /\ n \in Nat /\ t[n + 1] = c /\ Len(t) = n + 1
      /\ \A k \in 1 .. n : t[k] = s[k]
    OBVIOUS
<1> HIDE DEF t
<1>2. Spaces(t) = IF c = " " THEN Spaces(s) \cup {n + 1} ELSE Spaces(s)
    <2>1. Len(t) = n + 1
        BY <1>1
    <2>2. \A k \in 1 .. n + 1 : k \in 1 .. n \/ k = n + 1
        BY <1>1
    <2>3. n + 1 \in 1 .. n + 1 /\ \A k \in 1 .. n : k \in 1 .. n + 1
        BY <1>1
    <2>4. \A k : k \in Spaces(t) <=> k \in Spaces(s) \/ (k = n + 1 /\ c = " ")
        BY <1>1, <2>1, <2>2, <2>3 DEF Spaces
    <2>5. QED
        BY <2>4
<1>3. n + 1 \notin Spaces(s) /\ IsFiniteSet(Spaces(s))
    <2>1. n + 1 \notin 1 .. n
        BY <1>1
    <2>2. n + 1 \notin Spaces(s)
        BY <2>1 DEF Spaces
    <2>3. QED
        BY <2>2, SpacesFinite
<1>4. Cardinality(Spaces(s)) \in Nat
    BY <1>3, FS_CardinalityType
<1>5. Cardinality(Spaces(s) \cup {n + 1}) = Cardinality(Spaces(s)) + 1
    BY <1>3, FS_AddElement
<1>6. Cardinality(Spaces(t)) = Cardinality(Spaces(s)) + (IF c = " " THEN 1 ELSE 0)
    <2>1. CASE c = " "
        <3>1. Cardinality(Spaces(t)) = Cardinality(Spaces(s)) + 1
            BY <1>2, <1>5, <2>1
        <3>2. QED
            BY <2>1, <3>1
    <2>2. CASE c # " "
        <3>1. Cardinality(Spaces(t)) = Cardinality(Spaces(s))
            BY <1>2, <2>2
        <3>2. (IF c = " " THEN 1 ELSE 0) = 0
            BY <2>2
        <3>3. Cardinality(Spaces(s)) + 0 = Cardinality(Spaces(s))
            BY <1>4
        <3>4. QED
            BY <3>1, <3>2, <3>3
    <2>3. QED
        BY <2>1, <2>2
<1> QED
    BY <1>6 DEF t

LEMMA LinesHaveChars ==
    ASSUME NEW C, NEW s \in Seq(C), s # <<>>
    PROVE  Len(s) \in Nat \ {0} /\ Len(s) > 0 /\ DOMAIN s = 1 .. Len(s)
OBVIOUS

\* A plain line has one word more than it has spaces.
LEMMA WordsOfLine ==
    ASSUME NEW s \in Seq(TextChars), PlainLine(s)
    PROVE  Cardinality(WordStarts(s)) = Cardinality(Spaces(s)) + 1
<1> DEFINE n == Len(s)
           A == Spaces(s)
           B == {k + 1 : k \in A}
<1>1. /\ n \in Nat \ {0} /\ DOMAIN s = 1 .. n
      /\ \A k \in 1 .. n : s[k] # "\n"
      /\ \A k \in 1 .. n : s[k] = " " => k # 1 /\ k # n /\ s[k - 1] # " "
    <2>1. n \in Nat \ {0} /\ DOMAIN s = 1 .. n
        <3>1. s # <<>>
            BY DEF PlainLine
        <3>2. QED
            BY <3>1, LinesHaveChars
    <2>2. /\ \A k \in DOMAIN s : s[k] # "\n"
          /\ \A k \in DOMAIN s : s[k] = " " => k # 1 /\ k # n /\ s[k - 1] # " "
        BY Zenon DEF PlainLine
    <2>3. QED
        BY <2>1, <2>2
<1>m. n \in Nat /\ n > 0
    <2>1. s # <<>>
        BY DEF PlainLine
    <2>2. QED
        BY <2>1, LinesHaveChars
<1>a. \A k \in 1 .. n : k \in A <=> s[k] = " "
    BY DEF Spaces
<1>b. \A k \in A : k \in 1 .. n
    BY DEF Spaces
<1>2. A \subseteq 2 .. n - 1 /\ \A k \in 1 .. n : k \in A <=> s[k] = " "
    <2>1. ASSUME NEW k \in A PROVE k \in 2 .. n - 1
        <3>1. k \in 1 .. n /\ k # 1 /\ k # n
            BY <1>1, <1>a, <1>b
        <3>2. n \in Nat
            BY <1>1
        <3> HIDE DEF n
        <3>3. QED
            BY SMTT(40), <3>1, <3>2
    <2>2. QED
        BY <1>a, <2>1
<1> HIDE DEF A, n
<1>n. n \in Nat /\ n > 0 /\ \A a \in A : a \in Nat /\ a > 1 /\ a < n
    <2>1. n \in Nat /\ n > 0
        BY <1>m
    <2>2. \A a \in A : a \in 2 .. n - 1
        BY <1>2
    <2>3. QED
        BY <2>1, <2>2
<1>3. IsFiniteSet(A) /\ Cardinality(A) \in Nat
    BY SpacesFinite, FS_CardinalityType DEF A
<1>4. IsFiniteSet(B) /\ Cardinality(B) = Cardinality(A)
    <2> DEFINE f == [k \in A |-> k + 1]
    <2>1. f \in Bijection(A, B)
        <3>1. f \in [A -> B] /\ \A b \in B : \E a \in A : f[a] = b
            OBVIOUS
        <3>2. \A a, b \in A : f[a] = f[b] => a = b
            BY <1>n
        <3>3. QED
            BY <3>1, <3>2, Fun_IsBij
    <2>2. QED
        <3> HIDE DEF f, B
        <3>1. ExistsBijection(A, B)
            BY <2>1 DEF ExistsBijection
        <3>2. QED
            BY <1>3, <3>1, FS_Bijection
<1>5. 1 \notin B
    BY <1>n
<1>6. WordStarts(s) = B \cup {1}
    <2>1. ASSUME NEW k \in WordStarts(s) PROVE k \in B \cup {1}
        <3>1. k \in 1 .. n /\ (k # 1 => s[k - 1] \in {" ", "\n"})
            BY <1>1 DEF WordStarts
        <3>2. k # 1 => k - 1 \in 1 .. n /\ (k - 1) + 1 = k
            <4>1. k \in 1 .. n
                BY <3>1
            <4>2. n \in Nat
                BY <1>m
            <4>3. QED
                BY <4>1, <4>2
        <3>3. k # 1 => k - 1 \in A
            BY <1>1, <1>2, <3>1, <3>2
        <3>4. QED
            BY <3>2, <3>3
    <2>2. ASSUME NEW a \in A PROVE a + 1 \in WordStarts(s)
        <3>1. a + 1 \in 1 .. n /\ (a + 1) - 1 = a /\ a \in 1 .. n
            BY <1>n
        <3>2. s[a] = " "
            BY <1>2, <3>1
        <3>3. s[a + 1] # " " /\ s[a + 1] # "\n"
            BY <1>1, <3>1, <3>2
        <3>4. QED
            BY <1>1, <3>1, <3>2, <3>3 DEF WordStarts
    <2>3. 1 \in WordStarts(s)
        <3>1. 1 \in 1 .. n
            BY <1>n
        <3>2. s[1] # " " /\ s[1] # "\n"
            BY <1>1, <3>1
        <3>3. QED
            BY <1>1, <3>1, <3>2 DEF WordStarts
    <2>4. QED
        BY <2>1, <2>2, <2>3
<1>7. Cardinality(B \cup {1}) = Cardinality(A) + 1
    <2> HIDE DEF B
    <2>1. QED
        BY <1>3, <1>4, <1>5, FS_AddElement
<1>8. QED
    BY SMTT(40), <1>6, <1>7 DEF A

\* Before the first character nothing was shown or counted.
LEMMA FilterInitial == FilterInit => FilterInv
<1> SUFFICES ASSUME FilterInit PROVE FilterInv
    OBVIOUS
<1>1. text \in Seq(TextChars \cup {NOTHING})
    <2>1. PICK k \in 0 .. MaxText : text \in [1 .. k -> TextChars \cup {NOTHING}]
        BY DEF FilterInit
    <2>2. k \in Nat
        OBVIOUS
    <2>3. QED
        BY <2>1, <2>2
<1>2. Len(text) \in Nat /\ 0 \in 0 .. Len(text)
    BY <1>1
<1>3. Spaces(<<>>) = {}
    BY DEF Spaces
<1>4. <<>> \in Seq(TextChars) /\ Len(<<>>) = 0 /\ Cardinality({}) = 0
    BY FS_EmptySet
<1>5. Edited(<<>>).kept = <<>> /\ VowelsOf(<<>>) = <<>>
    BY EditedBy, VowelsBy
<1> QED
    BY <1>1, <1>2, <1>3, <1>4, <1>5 DEF FilterInit, FilterInv

\* What the next character does to the text as corrected.
LEMMA CorrectedBy ==
    ASSUME NEW s \in Seq(TextChars), NEW c \in TextChars,
           \A x \in Edited(Append(s, c)).taken : isVowel(x)
    PROVE  LET kept == Edited(s).kept IN
           /\ kept \in Seq(TextChars)
           /\ \A x \in Edited(s).taken : isVowel(x)
           /\ c = BACKSPACE /\ kept # <<>> => isVowel(kept[Len(kept)])
           /\ Edited(Append(s, c)).kept =
                  IF c # BACKSPACE THEN Append(kept, c)
                  ELSE IF kept = <<>> THEN kept ELSE SubSeq(kept, 1, Len(kept) - 1)
<1> DEFINE r == Edited(s)
<1>1. r \in Edits /\ Edited(Append(s, c)) = EditBy(r, c)
    BY EditedBy
<1> HIDE DEF r
<1>2. r.kept \in Seq(TextChars)
    BY <1>1 DEF Edits
<1>3. r = [kept |-> r.kept, taken |-> r.taken]
    BY <1>1 DEF Edits
<1>4. CASE c # BACKSPACE
    <2>1. EditBy(r, c).kept = Append(r.kept, c) /\ EditBy(r, c).taken = r.taken
        BY <1>3, <1>4 DEF EditBy
    <2>2. QED
        BY <1>1, <1>2, <1>4, <2>1 DEF r
<1>5. CASE c = BACKSPACE /\ r.kept = <<>>
    <2>1. EditBy(r, c) = r
        BY <1>5 DEF EditBy
    <2>2. QED
        BY <1>1, <1>2, <1>5, <2>1 DEF r
<1>6. CASE c = BACKSPACE /\ r.kept # <<>>
    <2>1. /\ EditBy(r, c).kept = SubSeq(r.kept, 1, Len(r.kept) - 1)
          /\ EditBy(r, c).taken = r.taken \cup {r.kept[Len(r.kept)]}
        BY <1>6 DEF EditBy
    <2>2. QED
        BY <1>1, <1>2, <1>6, <2>1 DEF r
<1> QED
    BY <1>4, <1>5, <1>6 DEF r

\* No character breaks the invariant.
LEMMA FilterStep == FilterInv /\ [FilterChar]_filterVars => FilterInv'
<1> SUFFICES ASSUME FilterInv, [FilterChar]_filterVars PROVE FilterInv'
    OBVIOUS
<1>1. tool' = tool
    BY DEF FilterChar, filterVars
<1>2. \A c : isVowel(c)' <=> isVowel(c)
    BY <1>1 DEF isVowel, isStandardVowel, isFrenchVowel
<1>3. \A s \in Seq(TextChars) : Edited(s).kept \in Seq(TextChars)
    BY EditedBy DEF Edits
<1>4. ASSUME NEW s, vocales = VowelsOf(s), vocales' = vocales PROVE vocales' = VowelsOf(s)'
    BY <1>1, <1>4, SameVowels
<1>5. CASE UNCHANGED filterVars
    <2>1. UNCHANGED <<tool, text, position, echoed, counts, vocales, spilled>>
        BY <1>5 DEF filterVars
    <2>2. Edited(echoed)' = Edited(echoed) /\ Spaces(echoed)' = Spaces(echoed)
        BY <2>1
    <2>3. OnlyVowelsTaken' => OnlyVowelsTaken
        BY <1>2, <2>2 DEF OnlyVowelsTaken
    <2>4. VowelsOf(Edited(echoed).kept)' = VowelsOf(Edited(echoed).kept)
        <3> DEFINE s == Edited(echoed).kept
        <3>1. PICK t : t = s
            OBVIOUS
        <3>2. s' = t
            BY <2>2, <3>1
        <3>3. VowelsOf(t)' = VowelsOf(t)
            BY <1>1, SameVowels
        <3>4. VowelsOf(Edited(echoed).kept)' = VowelsOf(t)'
            BY <3>2
        <3>5. QED
            BY <3>1, <3>3, <3>4
    <2>5. QED
        BY <2>1, <2>2, <2>3, <2>4 DEF FilterInv
<1>6. CASE FilterChar
    <2> DEFINE d == text[position + 1]
    <2>1. PICK c \in TextChars \cup {NOTHING} : c = d
        BY <1>6 DEF FilterChar, FilterInv
    <2>2. /\ position' \in 0 .. Len(text) /\ text' = text /\ tool' = tool
          /\ echoed' = IF c = NOTHING THEN echoed ELSE Append(echoed, c)
          /\ counts' = IF tool = "wc" THEN Counted(c) ELSE counts
          /\ ~spilled' =>
                 /\ ~spilled
                 /\ vocales' = IF tool \in {"filter", "fr"} /\ c # NOTHING THEN Filtered(c)
                               ELSE vocales
        <3>1. /\ position < Len(text) /\ position' = position + 1 /\ UNCHANGED <<tool, text>>
              /\ echoed' = IF c = NOTHING THEN echoed ELSE Append(echoed, c)
              /\ counts' = IF tool = "wc" THEN Counted(c) ELSE counts
              /\ vocales' \in {KeptText(c)} \cup (IF spilled THEN {<<>>} ELSE {})
              /\ ~spilled' => ~spilled
            BY <1>6, <2>1 DEF FilterChar
        <3>2. position' \in 0 .. Len(text)
            BY <3>1 DEF FilterInv
        <3>3. KeptText(c) = IF tool \in {"filter", "fr"} /\ c # NOTHING THEN Filtered(c)
                            ELSE vocales
            BY DEF KeptText
        <3>4. ~spilled' => vocales' = KeptText(c)
            BY <3>1
        <3> QED
            BY <3>1, <3>2, <3>3, <3>4
    <2> HIDE DEF d
    <2>3. echoed \in Seq(TextChars) /\ counts \in [lines : Nat, words : Nat, chars : Nat]
        BY DEF FilterInv
    <2>4. c # NOTHING => c \in TextChars /\ echoed' = Append(echoed, c)
        BY <2>1, <2>2
    <2>5. echoed' \in Seq(TextChars)
        BY <2>2, <2>3, <2>4
    <2>6. counts' \in [lines : Nat, words : Nat, chars : Nat]
        <3>1. counts.lines \in Nat /\ counts.words \in Nat /\ counts.chars \in Nat
            BY <2>3
        <3>2. /\ counts.lines + (IF c = "\n" THEN 1 ELSE 0) \in Nat
              /\ counts.words + (IF c = " " THEN 1 ELSE 0) \in Nat
              /\ counts.chars + (IF c = NOTHING THEN 0 ELSE 1) \in Nat
            <4>1. \A n \in Nat : n + 0 \in Nat /\ n + 1 \in Nat
                OBVIOUS
            <4>2. /\ (IF c = "\n" THEN 1 ELSE 0) \in {0, 1}
                  /\ (IF c = " " THEN 1 ELSE 0) \in {0, 1}
                  /\ (IF c = NOTHING THEN 0 ELSE 1) \in {0, 1}
                OBVIOUS
            <4>3. QED
                BY <3>1, <4>1, <4>2
        <3>3. Counted(c) \in [lines : Nat, words : Nat, chars : Nat]
            BY <3>2 DEF Counted
        <3>4. QED
            BY <2>2, <2>3, <3>3
    <2>7. (tool = "wc" => counts.chars = Len(echoed) /\ counts.words = Cardinality(Spaces(echoed)))'
        <3> SUFFICES ASSUME tool = "wc"
                     PROVE  counts'.chars = Len(echoed') /\ counts'.words = Cardinality(Spaces(echoed'))
            BY <2>2
        <3>1. counts.chars = Len(echoed) /\ counts.words = Cardinality(Spaces(echoed))
            BY DEF FilterInv
        <3>2. /\ counts'.words = counts.words + (IF c = " " THEN 1 ELSE 0)
              /\ counts'.chars = counts.chars + (IF c = NOTHING THEN 0 ELSE 1)
            BY <2>2 DEF Counted
        <3>3. CASE c = NOTHING
            BY <2>2, <2>3, <3>1, <3>2, <3>3 DEF NOTHING
        <3>4. CASE c # NOTHING
            <4>1. Cardinality(Spaces(echoed')) =
                      Cardinality(Spaces(echoed)) + (IF c = " " THEN 1 ELSE 0)
                BY <2>3, <2>4, <3>4, SpacesBy
            <4>2. Len(echoed') = Len(echoed) + 1
                BY <2>3, <2>4, <3>4
            <4>3. QED
                BY <3>1, <3>2, <3>4, <4>1, <4>2
        <3>5. QED
            BY <3>3, <3>4
    <2>8. ASSUME tool \in {"filter", "fr"}, ~spilled', OnlyVowelsTaken'
          PROVE  vocales' = VowelsOf(Edited(echoed).kept)'
        <3>1. PICK t : t = Edited(echoed')
            OBVIOUS
        <3>2. (Edited(echoed).kept)' = t.kept /\ \A x \in t.taken : isVowel(x)
            BY <1>2, <2>8, <3>1 DEF OnlyVowelsTaken
        <3>3. PICK k : k = t.kept
            OBVIOUS
        <3>4. VowelsOf(Edited(echoed).kept)' = VowelsOf(k)'
            BY <3>2, <3>3
        <3>5. VowelsOf(k)' = VowelsOf(k)
            BY <1>1, SameVowels
        <3>6. vocales' = VowelsOf(k)
            <4>1. CASE c = NOTHING
                <5>1. echoed' = echoed /\ vocales' = vocales /\ ~spilled
                    BY <2>2, <2>8, <4>1
                <5>2. OnlyVowelsTaken
                    BY <3>1, <3>2, <5>1 DEF OnlyVowelsTaken
                <5>3. vocales = VowelsOf(Edited(echoed).kept)
                    BY <2>8, <5>1, <5>2 DEF FilterInv
                <5>4. QED
                    BY <3>1, <3>3, <5>1, <5>3
            <4>2. CASE c # NOTHING
                <5> DEFINE s == Edited(echoed).kept
                <5>1. \A x \in Edited(Append(echoed, c)).taken : isVowel(x)
                    BY <2>4, <3>1, <3>2, <4>2
                <5>2. /\ s \in Seq(TextChars)
                      /\ \A x \in Edited(echoed).taken : isVowel(x)
                      /\ c = BACKSPACE /\ s # <<>> => isVowel(s[Len(s)])
                      /\ Edited(Append(echoed, c)).kept =
                            IF c # BACKSPACE THEN Append(s, c)
                            ELSE IF s = <<>> THEN s ELSE SubSeq(s, 1, Len(s) - 1)
                    BY <2>3, <2>4, <4>2, <5>1, CorrectedBy
                <5>3. k = IF c # BACKSPACE THEN Append(s, c)
                          ELSE IF s = <<>> THEN s ELSE SubSeq(s, 1, Len(s) - 1)
                    BY <2>4, <3>1, <3>3, <4>2, <5>2
                <5>4. vocales = VowelsOf(s)
                    BY <2>2, <2>8, <5>2 DEF FilterInv, OnlyVowelsTaken
                <5> HIDE DEF s
                <5>5. Filtered(c) = VowelsOf(k)
                    BY <2>4, <4>2, <5>2, <5>3, <5>4, FilterGrows
                <5>6. QED
                    BY <2>2, <2>8, <4>2, <5>5
            <4>3. QED
                BY <4>1, <4>2
        <3>7. QED
            BY <3>4, <3>5, <3>6
    <2>9. QED
        BY <2>2, <2>5, <2>6, <2>7, <2>8 DEF FilterInv
<1> QED
    BY <1>5, <1>6

\* What filter and wc make of a text, piece by piece and for any text: for filter, as long as what
\* it keeps fits its array with the end mark (FiltersTellTheText).
THEOREM FiltersAlwaysTell == FilterSpec => []FiltersTellTheText
<1>1. FilterInv => FiltersTellTheText
    <2> SUFFICES ASSUME FilterInv PROVE FiltersTellTheText
        OBVIOUS
    <2>1. echoed \in Seq(TextChars)
        BY DEF FilterInv
    <2>2. PlainLine(echoed) => Cardinality(WordStarts(echoed)) = Cardinality(Spaces(echoed)) + 1
        BY <2>1, WordsOfLine
    <2>3. QED
        BY <2>2 DEF FilterInv, FiltersTellTheText, OnlyVowelsTaken
<1> QED
    BY <1>1, FilterInitial, FilterStep, PTL DEF FilterSpec

----------------------------------------------------------------------------
(***************************************************************************)
(* Numbers.  First the local time, then digits and their value, powers and *)
(* ints, the operations that print and read one number, mem, and formats.  *)
(***************************************************************************)
\* The days of a year before each month.
DaysIn(month, year) ==
    CASE month \in {4, 6, 9, 11} -> 30
      [] month = 2 -> IF year % 4 = 0 THEN 29 ELSE 28
      [] OTHER -> 31
IsCalendar(f, year) ==
    f = [m \in 1 .. 12 |->
            IF m = 1 THEN 0
            ELSE f[m - 1] + (CASE m - 1 \in {4, 6, 9, 11} -> 30
                               [] m - 1 = 2 -> IF year % 4 = 0 THEN 29 ELSE 28
                               [] OTHER -> 31)]
Leap(year) == IF year % 4 = 0 THEN 1 ELSE 0
DaysTo(m, year) ==
    (IF m > 2 THEN Leap(year) ELSE 0) +
    (IF m = 1 THEN 0 ELSE IF m = 2 THEN 31 ELSE IF m = 3 THEN 59 ELSE IF m = 4 THEN 90
     ELSE IF m = 5 THEN 120 ELSE IF m = 6 THEN 151 ELSE IF m = 7 THEN 181 ELSE IF m = 8 THEN 212
     ELSE IF m = 9 THEN 243 ELSE IF m = 10 THEN 273 ELSE IF m = 11 THEN 304 ELSE 334)

\* The days before a month are those before the last and those of the last.
LEMMA DaysToNext ==
    ASSUME NEW year \in Nat, NEW m \in 2 .. 12
    PROVE  DaysTo(m, year) = DaysTo(m - 1, year) +
               (CASE m - 1 \in {4, 6, 9, 11} -> 30
                  [] m - 1 = 2 -> IF year % 4 = 0 THEN 29 ELSE 28
                  [] OTHER -> 31)
<1>1. year % 4 = 0 \/ year % 4 # 0
    OBVIOUS
<1>2. m \in {2, 3, 4, 5, 6, 7, 8, 9, 10, 11, 12}
    OBVIOUS
<1> QED
    BY <1>1, <1>2 DEF DaysTo, Leap

\* The recursion of DaysBefore comes to the table of a calendar.
LEMMA CalendarIs ==
    ASSUME NEW year \in Nat, NEW month \in 1 .. 12
    PROVE  DaysBefore(month, year) = 365 * year + (year + 3) \div 4 + DaysTo(month, year)
<1> DEFINE f == [m \in 1 .. 12 |-> DaysTo(m, year)]
           e == CHOOSE g : IsCalendar(g, year)
<1>1. IsCalendar(f, year)
    <2>1. ASSUME NEW m \in 1 .. 12
          PROVE  f[m] = IF m = 1 THEN 0
                        ELSE f[m - 1] + (CASE m - 1 \in {4, 6, 9, 11} -> 30
                                           [] m - 1 = 2 -> IF year % 4 = 0 THEN 29 ELSE 28
                                           [] OTHER -> 31)
        <3>1. CASE m = 1
            BY <3>1 DEF DaysTo
        <3>2. CASE m # 1
            <4>1. m \in 2 .. 12 /\ m - 1 \in 1 .. 12
                BY <3>2
            <4>2. f[m] = DaysTo(m, year) /\ f[m - 1] = DaysTo(m - 1, year)
                BY <4>1
            <4> HIDE DEF f
            <4>3. QED
                BY <3>2, <4>1, <4>2, DaysToNext
        <3>3. QED
            BY <3>1, <3>2
    <2>2. f = [m \in 1 .. 12 |-> f[m]]
        OBVIOUS
    <2> HIDE DEF f
    <2>3. QED
        BY <2>1, <2>2 DEF IsCalendar
<1> HIDE DEF f
<1>2. IsCalendar(e, year)
    BY <1>1
<1>3. DaysBefore(month, year) = 365 * year + (year + 3) \div 4 + e[month]
    BY DEF DaysBefore, IsCalendar
<1> HIDE DEF e
<1>4. \A m \in 1 .. 12 : e[m] = IF m = 1 THEN 0
                                ELSE e[m - 1] + (CASE m - 1 \in {4, 6, 9, 11} -> 30
                                                   [] m - 1 = 2 -> IF year % 4 = 0 THEN 29 ELSE 28
                                                   [] OTHER -> 31)
    BY <1>2 DEF IsCalendar
<1> DEFINE S == {m \in 0 .. 11 : e[m + 1] = DaysTo(m + 1, year)}
<1>5. 0 \in S
    BY <1>4 DEF DaysTo
<1>6. ASSUME NEW k \in 0 .. 11 - 1, k \in S PROVE k + 1 \in S
    <2> DEFINE m == k + 2
    <2>1. m \in 2 .. 12 /\ m \in 1 .. 12 /\ m # 1 /\ m - 1 = k + 1 /\ (k + 1) + 1 = m /\ k + 1 \in 0 .. 11
        OBVIOUS
    <2>2. e[m - 1] = DaysTo(m - 1, year)
        BY <1>6, <2>1
    <2> HIDE DEF m
    <2>3. e[m] = DaysTo(m, year)
        BY <1>4, <2>1, <2>2, DaysToNext
    <2>4. QED
        BY <2>1, <2>3
<1>7. \A k \in 0 .. 11 : k \in S
    <2> HIDE DEF S
    <2>1. QED
        BY <1>5, <1>6, UpTo
<1>8. month - 1 \in 0 .. 11 /\ (month - 1) + 1 = month
    OBVIOUS
<1>9. e[month] = DaysTo(month, year)
    BY <1>7, <1>8
<1> QED
    BY <1>3, <1>9

Clock == [hour : 0 .. 23, day : 1 .. 31, month : 1 .. 12, year : 0 .. 99]

\* Leap days of the years before.
LEMMA YearsBefore ==
    ASSUME NEW year \in Nat, year > 0
    PROVE  (year + 3) \div 4 = (year - 1 + 3) \div 4 + Leap(year - 1)
BY DEF Leap

\* The local time is three hours before the clock of the machine, whatever the clock shows.
THEOREM ThreeHoursBack ==
    ASSUME NEW t \in Clock, t.day <= LastDay(t.month, t.year), Hours(t) >= 3
    PROVE  LET local == toUtcMinus3(t) IN
           /\ Hours(local) = Hours(t) - 3
           /\ local.hour \in 0 .. 23 /\ local.month \in 1 .. 12 /\ local.day >= 1
<1>1. /\ t.hour \in 0 .. 23 /\ t.day \in 1 .. 31 /\ t.month \in 1 .. 12 /\ t.year \in 0 .. 99
      /\ t = [hour |-> t.hour, day |-> t.day, month |-> t.month, year |-> t.year]
    BY DEF Clock
<1> DEFINE h == t.hour
           d == t.day
           m == t.month
           y == t.year
           days == 365 * y + (y + 3) \div 4 + DaysTo(m, y)
<1>2. Hours(t) = 24 * (days + d - 1) + h /\ days \in Int
    <2>1. y \in Nat /\ m \in 1 .. 12
        BY <1>1
    <2>2. DaysBefore(m, y) = days
        BY <2>1, CalendarIs
    <2>3. Hours(t) = 24 * (DaysBefore(m, y) + d - 1) + h
        BY DEF Hours
    <2>4. DaysTo(m, y) \in Int
        BY <2>1 DEF DaysTo, Leap
    <2>5. QED
        BY <2>1, <2>2, <2>3, <2>4
<1>3. CASE h >= 3
    <2>1. toUtcMinus3(t) = [hour |-> h - 3, day |-> d, month |-> m, year |-> y]
        BY <1>1, <1>3 DEF toUtcMinus3
    <2>2. Hours(toUtcMinus3(t)) = 24 * (days + d - 1) + (h - 3)
        BY <1>1, <2>1, CalendarIs DEF Hours
    <2> HIDE DEF days
    <2>3. Hours(toUtcMinus3(t)) = Hours(t) - 3
        BY <1>1, <1>2, <2>2
    <2>4. h - 3 \in 0 .. 23
        BY <1>1, <1>3
    <2>5. QED
        BY <1>1, <2>1, <2>3, <2>4
<1>4. CASE h < 3 /\ d > 1
    <2>1. toUtcMinus3(t) = [hour |-> h + 21, day |-> d - 1, month |-> m, year |-> y]
        <3>1. ~(h >= 3) /\ d > 1
            BY <1>1, <1>4
        <3>2. toUtcMinus3(t) = [t EXCEPT !.hour = h + 21, !.day = d - 1]
            BY <3>1 DEF toUtcMinus3
        <3>3. QED
            BY <1>1, <3>2
    <2>2. Hours(toUtcMinus3(t)) = 24 * (days + (d - 1) - 1) + (h + 21)
        BY <1>1, <2>1, CalendarIs DEF Hours
    <2>3. DaysTo(m, y) \in Int
        BY <1>1 DEF DaysTo, Leap
    <2>4. QED
        BY <1>1, <1>2, <1>4, <2>1, <2>2, <2>3
<1>5. CASE h < 3 /\ d = 1 /\ m # 1
    <2>1. toUtcMinus3(t) = [hour |-> h + 21, day |-> LastDay(m - 1, y), month |-> m - 1, year |-> y]
        BY <1>1, <1>5 DEF toUtcMinus3
    <2>2. m - 1 \in 1 .. 12 /\ y \in Nat /\ m \in 2 .. 12
        BY <1>1, <1>5
    <2>3. LastDay(m - 1, y) \in 1 .. 31
        BY <2>2 DEF LastDay, Feb
    <2>4. DaysTo(m, y) = DaysTo(m - 1, y) + LastDay(m - 1, y)
        BY <2>2, DaysToNext DEF LastDay, Feb
    <2>5. Hours(toUtcMinus3(t)) =
              24 * (365 * y + (y + 3) \div 4 + DaysTo(m - 1, y) + LastDay(m - 1, y) - 1) + (h + 21)
        BY <2>1, <2>2, CalendarIs DEF Hours
    <2>6. DaysTo(m - 1, y) \in Int
        BY <2>2 DEF DaysTo, Leap
    <2>7. Hours(toUtcMinus3(t)) = Hours(t) - 3
        <3> DEFINE q == (y + 3) \div 4
        <3>1. PICK n \in Int : n = DaysTo(m - 1, y)
            BY <2>6
        <3>2. PICK l \in Int : l = LastDay(m - 1, y)
            BY <2>3
        <3>3. Hours(toUtcMinus3(t)) = 24 * (365 * y + q + n + l - 1) + (h + 21)
            BY <2>5, <3>1, <3>2
        <3>4. days = 365 * y + q + (n + l)
            BY <2>4, <3>1, <3>2
        <3>5. q \in Int /\ h \in Int /\ y \in Int /\ d = 1
            BY <1>1, <1>5
        <3> HIDE DEF q, days
        <3>6. QED
            BY <1>2, <3>1, <3>2, <3>3, <3>4, <3>5
    <2>8. h + 21 \in 0 .. 23
        BY <1>1, <1>5
    <2>9. QED
        BY <2>1, <2>2, <2>3, <2>7, <2>8
<1>6. CASE h < 3 /\ d = 1 /\ m = 1
    <2>1. y > 0
        <3>1. y = 0 => Hours(t) = h
            BY <1>1, <1>2, <1>6 DEF DaysTo
        <3>2. QED
            BY <1>1, <1>6, <3>1
    <2>2. (y - 1) % 256 = y - 1 /\ y - 1 \in Nat /\ y \in Nat
        BY <1>1, <2>1
    <2>3. toUtcMinus3(t) = [hour |-> h + 21, day |-> 31, month |-> 12, year |-> y - 1]
        BY <1>1, <1>6, <2>2 DEF toUtcMinus3, LastDay
    <2>4. Hours(toUtcMinus3(t)) =
              24 * (365 * (y - 1) + (y - 1 + 3) \div 4 + DaysTo(12, y - 1) + 31 - 1) + (h + 21)
        BY <2>2, <2>3, CalendarIs DEF Hours
    <2>5. DaysTo(12, y - 1) = 334 + Leap(y - 1) /\ DaysTo(m, y) = 0 /\ Leap(y - 1) \in Int
        BY <1>6 DEF DaysTo, Leap
    <2>6. (y + 3) \div 4 = (y - 1 + 3) \div 4 + Leap(y - 1)
        BY <2>1, <2>2, YearsBefore
    <2>7. (y - 1 + 3) \div 4 \in Int /\ (y + 3) \div 4 \in Int /\ h \in Int
        BY <1>1
    <2> DEFINE q == (y + 3) \div 4
               p == (y - 1 + 3) \div 4
    <2>8. Hours(t) = 24 * (365 * y + q) + h
        <3>1. days = 365 * y + q + 0
            BY <2>5
        <3> HIDE DEF q, days
        <3>2. 365 * y + q + 0 = 365 * y + q /\ d = 1 /\ \A n \in Int : n + 1 - 1 = n
            BY <1>6, <2>2, <2>7 DEF q
        <3>3. QED
            BY <1>2, <3>1, <3>2
    <2>9. Hours(toUtcMinus3(t)) = Hours(t) - 3
        <3>1. Hours(toUtcMinus3(t)) = 24 * (365 * (y - 1) + p + (334 + Leap(y - 1)) + 31 - 1) + (h + 21)
            BY <2>4, <2>5
        <3>2. q = p + Leap(y - 1)
            BY <2>6
        <3> HIDE DEF q, p, days
        <3>3. q \in Int /\ p \in Int /\ h \in Int /\ y \in Int
            BY <2>2, <2>7 DEF q, p
        <3>4. PICK l \in Int : l = Leap(y - 1)
            BY <2>5
        <3>5. QED
            BY <2>8, <3>1, <3>2, <3>3, <3>4
    <2>10. h + 21 \in 0 .. 23
        BY <1>1, <1>6
    <2>11. QED
        BY <2>3, <2>9, <2>10
<1> QED
    BY <1>1, <1>3, <1>4, <1>5, <1>6

(***************************************************************************)
(* Digits.                                                                 *)
(***************************************************************************)
IsDigits(f, n, b) == f = [k \in 0 .. n |-> IF k < b THEN <<k>> ELSE <<k % b>> \o f[k \div b]]

\* What a division of naturals leaves, and that the quotient is smaller.
LEMMA Divided ==
    ASSUME NEW n \in Nat, NEW b \in Nat \ {0, 1}
    PROVE  /\ n % b \in 0 .. b - 1 /\ n \div b \in Nat /\ n = (n \div b) * b + (n % b)
           /\ n >= b => n \div b \in 0 .. n - 1 /\ n \div b >= 1
<1>1. n % b \in 0 .. b - 1 /\ n \div b \in Nat
    OBVIOUS
<1>2. n = b * (n \div b) + (n % b)
    OBVIOUS
<1>3. b * (n \div b) = (n \div b) * b
    BY <1>1
<1>4. n > 0 => n \div b < n
    OBVIOUS
<1>5. n >= b => n \div b >= 1
    OBVIOUS
<1> QED
    BY <1>1, <1>2, <1>3, <1>4, <1>5

\* The recursion of DigitsOf has a solution for every number and base.
LEMMA DigitsExist ==
    ASSUME NEW n \in Nat, NEW b \in Nat \ {0, 1}
    PROVE  \E f \in [0 .. n -> Seq(0 .. b - 1)] : IsDigits(f, n, b)
<1>0. b \in Nat /\ b > 1
    OBVIOUS
<1> DEFINE T == Seq(0 .. b - 1)
           S == {k \in 0 .. n : \E f \in [0 .. k -> T] : IsDigits(f, k, b)}
<1>1. 0 \in S
    <2> DEFINE f == [k \in 0 .. 0 |-> <<k>>]
    <2>1. \A k \in 0 .. 0 : k < b /\ k \in 0 .. b - 1
        BY <1>0
    <2>2. f \in [0 .. 0 -> T]
        BY <2>1
    <2>3. \A k \in 0 .. 0 : f[k] = IF k < b THEN <<k>> ELSE <<k % b>> \o f[k \div b]
        BY <2>1
    <2>4. f = [k \in 0 .. 0 |-> f[k]]
        OBVIOUS
    <2> HIDE DEF f
    <2>5. IsDigits(f, 0, b)
        BY <2>3, <2>4 DEF IsDigits
    <2>6. QED
        BY <2>2, <2>5
<1>2. ASSUME NEW k \in 0 .. n - 1, k \in S PROVE k + 1 \in S
    <2>1. PICK f \in [0 .. k -> T] : IsDigits(f, k, b)
        BY <1>2
    <2> DEFINE m == k + 1
               top == IF m < b THEN <<m>> ELSE <<m % b>> \o f[m \div b]
               g == [j \in 0 .. m |-> IF j = m THEN top ELSE f[j]]
    <2>2. \A j \in 0 .. k : f[j] = IF j < b THEN <<j>> ELSE <<j % b>> \o f[j \div b]
        BY <2>1 DEF IsDigits
    <2>3. \A j \in 0 .. m : j >= b => j \div b \in 0 .. j - 1 /\ j % b \in 0 .. b - 1
        <3>1. ASSUME NEW j \in 0 .. m, j >= b PROVE j \div b \in 0 .. j - 1 /\ j % b \in 0 .. b - 1
            <4>1. j \in Nat
                OBVIOUS
            <4>2. QED
                BY <3>1, <4>1, Divided
        <3>2. QED
            BY <3>1
    <2>4. ASSUME NEW j \in 0 .. m PROVE g[j] = IF j < b THEN <<j>> ELSE <<j % b>> \o g[j \div b]
        <3>1. j >= b => j \div b \in 0 .. m /\ j \div b # m /\ g[j \div b] = f[j \div b]
            <4>1. j >= b => j \div b \in 0 .. j - 1
                BY <2>3
            <4>2. \A i : i \in 0 .. j - 1 => i \in 0 .. m /\ i # m
                OBVIOUS
            <4>3. QED
                BY <4>1, <4>2
        <3>2. j # m => j \in 0 .. k /\ g[j] = f[j]
            OBVIOUS
        <3>3. g[m] = top
            OBVIOUS
        <3>4. j < b \/ j >= b
            BY <1>0
        <3> HIDE DEF g
        <3>5. CASE j = m
            BY <3>1, <3>3, <3>4, <3>5
        <3>6. CASE j # m
            BY <2>2, <3>1, <3>2, <3>4, <3>6
        <3>7. QED
            BY <3>5, <3>6
    <2>5. g = [j \in 0 .. m |-> g[j]]
        OBVIOUS
    <2>6. top \in T
        <3>1. CASE m < b
            <4>1. m \in 0 .. b - 1
                BY <3>1, <1>0
            <4>2. QED
                BY <3>1, <4>1
        <3>2. CASE ~(m < b)
            <4>1. m \in 0 .. m /\ m >= b /\ m - 1 = k
                BY <1>0, <3>2
            <4>2. m % b \in 0 .. b - 1 /\ f[m \div b] \in T
                BY <2>3, <4>1
            <4>3. <<m % b>> \o f[m \div b] \in T
                BY <4>2
            <4>4. QED
                BY <3>2, <4>3
        <3>3. QED
            BY <3>1, <3>2
    <2> HIDE DEF top
    <2>7. g \in [0 .. m -> T]
        BY <2>6
    <2> HIDE DEF g
    <2>8. IsDigits(g, m, b)
        BY <2>4, <2>5 DEF IsDigits
    <2>9. m \in 0 .. n
        OBVIOUS
    <2>10. QED
        BY <2>7, <2>8, <2>9
<1>3. \A k \in 0 .. n : k \in S
    <2> HIDE DEF S
    <2>1. QED
        BY <1>1, <1>2, UpTo
<1>4. QED
    BY <1>3

\* Solutions for two numbers agree as far as both go.
LEMMA DigitsAgree ==
    ASSUME NEW n \in Nat, NEW m \in Nat, NEW b \in Nat \ {0, 1}, NEW k \in Nat, k <= n, k <= m,
           NEW f, NEW g, IsDigits(f, n, b), IsDigits(g, m, b)
    PROVE  f[k] = g[k]
<1>0. b \in Nat /\ b > 1
    OBVIOUS
<1>1. /\ \A j \in 0 .. n : f[j] = IF j < b THEN <<j>> ELSE <<j % b>> \o f[j \div b]
      /\ \A j \in 0 .. m : g[j] = IF j < b THEN <<j>> ELSE <<j % b>> \o g[j \div b]
    BY DEF IsDigits
<1> DEFINE Odd == {j \in 0 .. k : f[j] # g[j]}
<1> SUFFICES ASSUME Odd # {} PROVE FALSE
    OBVIOUS
<1>2. PICK j \in Odd : \A i \in Odd : j <= i
    <2>1. Odd \in SUBSET Nat
        OBVIOUS
    <2> HIDE DEF Odd
    <2>2. QED
        BY <2>1, Least
<1>3. j \in Nat /\ j \in 0 .. k /\ j \in 0 .. n /\ j \in 0 .. m /\ f[j] # g[j]
    OBVIOUS
<1>4. j >= b
    <2>1. j < b => f[j] = <<j>> /\ g[j] = <<j>>
        BY <1>1, <1>3
    <2>2. QED
        BY <1>0, <1>3, <2>1
<1>5. j \div b \in 0 .. j - 1
    BY <1>3, <1>4, Divided
<1>6. j \div b \in 0 .. k /\ ~(j <= j \div b)
    <2>1. \A i : i \in 0 .. j - 1 => i \in 0 .. k /\ ~(j <= i)
        BY <1>3
    <2>2. QED
        BY <1>5, <2>1
<1>7. f[j \div b] = g[j \div b]
    BY <1>2, <1>6
<1>8. QED
    BY <1>0, <1>1, <1>3, <1>4, <1>7

\* The solution that DigitsOf takes.
LEMMA DigitsAre ==
    ASSUME NEW n \in Nat, NEW b \in Nat \ {0, 1}
    PROVE  \E f \in [0 .. n -> Seq(0 .. b - 1)] : IsDigits(f, n, b) /\ DigitsOf(n, b) = f[n]
<1> DEFINE e == CHOOSE f : IsDigits(f, n, b)
<1>1. PICK f \in [0 .. n -> Seq(0 .. b - 1)] : IsDigits(f, n, b)
    BY DigitsExist
<1>2. IsDigits(e, n, b)
    BY <1>1
<1>3. DigitsOf(n, b) = e[n]
    BY DEF DigitsOf, IsDigits
<1> HIDE DEF e
<1>4. f[n] = e[n]
    BY <1>1, <1>2, DigitsAgree
<1> QED
    BY <1>1, <1>3, <1>4

\* The division loop: the lowest digit, and those of the rest.
LEMMA DigitsBy ==
    ASSUME NEW n \in Nat, NEW b \in Nat \ {0, 1}
    PROVE  /\ DigitsOf(n, b) \in Seq(0 .. b - 1)
           /\ n < b => DigitsOf(n, b) = <<n>>
           /\ n >= b => DigitsOf(n, b) = <<n % b>> \o DigitsOf(n \div b, b)
<1>0. b \in Nat /\ b > 1 /\ n \in 0 .. n
    OBVIOUS
<1>1. PICK f \in [0 .. n -> Seq(0 .. b - 1)] : IsDigits(f, n, b) /\ DigitsOf(n, b) = f[n]
    BY DigitsAre
<1>2. f[n] = IF n < b THEN <<n>> ELSE <<n % b>> \o f[n \div b]
    BY <1>0, <1>1 DEF IsDigits
<1>3. DigitsOf(n, b) \in Seq(0 .. b - 1)
    BY <1>0, <1>1
<1>4. ASSUME n >= b PROVE DigitsOf(n, b) = <<n % b>> \o DigitsOf(n \div b, b)
    <2> DEFINE m == n \div b
    <2>1. m \in Nat /\ m <= n
        <3>1. m \in 0 .. n - 1
            BY <1>4, Divided
        <3> HIDE DEF m
        <3>2. QED
            BY <3>1
    <2>2. PICK g : IsDigits(g, m, b) /\ DigitsOf(m, b) = g[m]
        BY <2>1, DigitsAre
    <2>3. f[m] = g[m]
        <3> HIDE DEF m
        <3>1. m <= m
            BY <2>1
        <3>2. QED
            BY <1>1, <2>1, <2>2, <3>1, DigitsAgree
    <2>4. ~(n < b)
        BY <1>0, <1>4
    <2>5. QED
        BY <1>1, <1>2, <2>2, <2>3, <2>4
<1> QED
    BY <1>1, <1>2, <1>3, <1>4

IsValue(f, s, b) == f = [k \in 0 .. Len(s) |-> IF k = 0 THEN 0 ELSE f[k - 1] * b + s[k]]

\* The recursion of ValueOf has a solution for every text.
LEMMA ValueExists ==
    ASSUME NEW s \in Seq(Nat), NEW b \in Nat
    PROVE  \E f \in [0 .. Len(s) -> Nat] : IsValue(f, s, b)
<1> DEFINE n == Len(s)
           next == [k \in 1 .. n |-> [v \in Nat |-> v * b + s[k]]]
<1>1. n \in Nat /\ 0 \in Nat
    OBVIOUS
<1>2. next \in [1 .. n -> [Nat -> Nat]]
    <2>1. \A k \in 1 .. n : s[k] \in Nat
        OBVIOUS
    <2>2. \A v \in Nat : v * b \in Nat
        OBVIOUS
    <2>3. \A k \in 1 .. n, v \in Nat : v * b + s[k] \in Nat
        BY <2>1, <2>2
    <2>4. QED
        BY <2>3
<1>3. \A k \in 1 .. n, v \in Nat : next[k][v] = v * b + s[k]
    OBVIOUS
<1> HIDE DEF next
<1>4. PICK f \in [0 .. n -> Nat] : Solves(f, n, 0, next)
    BY <1>1, <1>2, SolutionExists
<1>5. f = [k \in 0 .. n |-> IF k = 0 THEN 0 ELSE f[k - 1] * b + s[k]]
    <2>1. \A k \in 0 .. n : f[k] = IF k = 0 THEN 0 ELSE next[k][f[k - 1]]
        BY <1>4 DEF Solves
    <2>2. ASSUME NEW k \in 0 .. n PROVE f[k] = IF k = 0 THEN 0 ELSE f[k - 1] * b + s[k]
        <3>1. k # 0 => k \in 1 .. n /\ f[k - 1] \in Nat
            OBVIOUS
        <3>2. QED
            BY <1>3, <2>1, <3>1
    <2>3. f = [k \in 0 .. n |-> f[k]]
        OBVIOUS
    <2>4. QED
        BY <2>2, <2>3
<1>6. QED
    BY <1>5 DEF IsValue

\* Solutions for two texts agree as far as the texts do.
LEMMA ValuesAgree ==
    ASSUME NEW s \in Seq(Nat), NEW t \in Seq(Nat), NEW b \in Nat, NEW n \in Nat,
           n <= Len(s), n <= Len(t), \A k \in 1 .. n : s[k] = t[k], NEW f, NEW g, IsValue(f, s, b), IsValue(g, t, b)
    PROVE  f[n] = g[n]
<1> DEFINE S == {k \in 0 .. n : f[k] = g[k]}
<1>1. /\ \A k \in 0 .. Len(s) : f[k] = IF k = 0 THEN 0 ELSE f[k - 1] * b + s[k]
      /\ \A k \in 0 .. Len(t) : g[k] = IF k = 0 THEN 0 ELSE g[k - 1] * b + t[k]
    BY DEF IsValue
<1>2. 0 \in S
    BY <1>1
<1>3. ASSUME NEW k \in 0 .. n - 1, k \in S PROVE k + 1 \in S
    <2>1. /\ k + 1 \in 0 .. Len(s) /\ k + 1 \in 0 .. Len(t) /\ k + 1 \in 1 .. n /\ k + 1 \in 0 .. n
          /\ (k + 1) - 1 = k /\ k + 1 # 0
        OBVIOUS
    <2>2. f[k + 1] = f[k] * b + s[k + 1] /\ g[k + 1] = g[k] * b + t[k + 1]
        BY <1>1, <2>1
    <2>3. QED
        BY <1>3, <2>1, <2>2
<1>4. \A k \in 0 .. n : k \in S
    <2> HIDE DEF S
    <2>1. QED
        BY <1>2, <1>3, UpTo
<1>5. QED
    BY <1>4

\* The solution that ValueOf takes.
LEMMA ValueIs ==
    ASSUME NEW s \in Seq(Nat), NEW b \in Nat
    PROVE  \E f \in [0 .. Len(s) -> Nat] : IsValue(f, s, b) /\ ValueOf(s, b) = f[Len(s)]
<1> DEFINE e == CHOOSE f : IsValue(f, s, b)
<1>1. PICK f \in [0 .. Len(s) -> Nat] : IsValue(f, s, b)
    BY ValueExists
<1>2. IsValue(e, s, b)
    BY <1>1
<1>3. ValueOf(s, b) = e[Len(s)]
    BY DEF ValueOf, IsValue
<1> HIDE DEF e
<1>4. f[Len(s)] = e[Len(s)]
    BY <1>1, <1>2, ValuesAgree
<1>5. QED
    BY <1>1, <1>3, <1>4

\* The value of a text, digit by digit.
LEMMA ValueBy ==
    ASSUME NEW b \in Nat
    PROVE  /\ ValueOf(<<>>, b) = 0
           /\ \A s \in Seq(Nat) : ValueOf(s, b) \in Nat
           /\ \A s \in Seq(Nat), d \in Nat : ValueOf(Append(s, d), b) = ValueOf(s, b) * b + d
<1>1. ValueOf(<<>>, b) = 0
    <2>1. PICK f \in [0 .. Len(<<>>) -> Nat] : IsValue(f, <<>>, b) /\ ValueOf(<<>>, b) = f[Len(<<>>)]
        <3>1. <<>> \in Seq(Nat)
            OBVIOUS
        <3>2. QED
            BY <3>1, ValueIs
    <2>2. QED
        BY <2>1 DEF IsValue
<1>2. \A s \in Seq(Nat) : ValueOf(s, b) \in Nat
    <2>1. \A s \in Seq(Nat) : Len(s) \in 0 .. Len(s)
        OBVIOUS
    <2>2. QED
        BY SMTT(40), <2>1, ValueIs
<1>3. ASSUME NEW s \in Seq(Nat), NEW d \in Nat
      PROVE  ValueOf(Append(s, d), b) = ValueOf(s, b) * b + d
    <2> DEFINE t == Append(s, d)
               n == Len(s)
    <2>1. /\ t \in Seq(Nat) /\ Len(t) = n + 1 /\ t[n + 1] = d /\ n \in Nat
          /\ \A k \in 1 .. n : t[k] = s[k]
        OBVIOUS
    <2> HIDE DEF t
    <2>2. PICK f : IsValue(f, s, b) /\ ValueOf(s, b) = f[n]
        BY ValueIs
    <2>3. PICK g : IsValue(g, t, b) /\ ValueOf(t, b) = g[n + 1]
        BY <2>1, ValueIs
    <2>4. f[n] = g[n]
        <3>1. n <= Len(s) /\ n <= Len(t) /\ Len(s) \in Nat /\ Len(t) \in Nat
            BY <2>1
        <3>2. \A k \in 1 .. n : s[k] = t[k]
            BY <2>1
        <3> HIDE DEF n
        <3>3. QED
            BY SMTT(40), <2>1, <2>2, <2>3, <3>1, <3>2, ValuesAgree
    <2>5. g[n + 1] = g[n] * b + d
        <3>1. n + 1 \in 0 .. Len(t) /\ n + 1 # 0 /\ (n + 1) - 1 = n
            BY <2>1
        <3>2. \A k \in 0 .. Len(t) : k # 0 => g[k] = g[k - 1] * b + t[k]
            BY <2>3 DEF IsValue
        <3>3. QED
            BY <2>1, <3>1, <3>2
    <2>6. QED
        BY <2>2, <2>3, <2>4, <2>5 DEF t
<1>4. QED
    BY <1>1, <1>2, <1>3

\* Turned round, the first comes last.
LEMMA ReversedBy ==
    ASSUME NEW T, NEW t \in Seq(T), NEW d \in T
    PROVE  /\ Reversed(t) \in Seq(T) /\ Len(Reversed(t)) = Len(t)
           /\ Reversed(<<d>> \o t) = Append(Reversed(t), d)
           /\ Reversed(Append(t, d)) = <<d>> \o Reversed(t)
           /\ Reversed(<<d>>) = <<d>>
<1> DEFINE n == Len(t)
<1>1. n \in Nat /\ DOMAIN t = 1 .. n
    OBVIOUS
<1>2. Reversed(t) = [j \in 1 .. n |-> t[n + 1 - j]]
    BY <1>1 DEF Reversed
<1>3. \A j \in 1 .. n : n + 1 - j \in 1 .. n
    BY <1>1
<1>4. Reversed(t) \in Seq(T) /\ Len(Reversed(t)) = n
    <2>1. [j \in 1 .. n |-> t[n + 1 - j]] \in [1 .. n -> T]
        BY <1>3
    <2>2. QED
        BY <1>1, <1>2, <2>1
<1>5. Reversed(<<d>> \o t) = Append(Reversed(t), d)
    <2> DEFINE u == <<d>> \o t
               v == Append(Reversed(t), d)
    <2>1. u \in Seq(T) /\ Len(u) = n + 1 /\ u[1] = d /\ \A j \in 1 .. n : u[j + 1] = t[j]
        OBVIOUS
    <2>2. Reversed(u) = [j \in 1 .. n + 1 |-> u[n + 1 + 1 - j]]
        <3> HIDE DEF u
        <3>1. DOMAIN u = 1 .. n + 1
            BY <2>1
        <3>2. QED
            BY <2>1, <3>1 DEF Reversed
    <2>3. v \in Seq(T) /\ Len(v) = n + 1 /\ v[n + 1] = d /\ \A j \in 1 .. n : v[j] = Reversed(t)[j]
        BY <1>4
    <2> HIDE DEF u, v
    <2>4. ASSUME NEW j \in 1 .. n + 1 PROVE v[j] = u[n + 1 + 1 - j]
        <3>1. CASE j = n + 1
            BY <1>1, <2>1, <2>3, <3>1
        <3>2. CASE j # n + 1
            <4>1. j \in 1 .. n /\ n + 1 - j \in 1 .. n /\ n + 1 + 1 - j = (n + 1 - j) + 1
                BY <1>1, <3>2
            <4>2. v[j] = t[n + 1 - j]
                BY <1>2, <2>3, <4>1
            <4>3. QED
                BY <2>1, <4>1, <4>2
        <3>3. QED
            BY <3>1, <3>2
    <2>5. v = [j \in 1 .. n + 1 |-> v[j]]
        <3>1. DOMAIN v = 1 .. n + 1
            BY <2>3
        <3>2. QED
            BY <2>3, <3>1
    <2>6. QED
        BY <2>2, <2>4, <2>5 DEF u, v
<1>6. Reversed(Append(t, d)) = <<d>> \o Reversed(t)
    <2> DEFINE u == Append(t, d)
               v == <<d>> \o Reversed(t)
    <2>1. u \in Seq(T) /\ Len(u) = n + 1 /\ u[n + 1] = d /\ \A j \in 1 .. n : u[j] = t[j]
        OBVIOUS
    <2>2. Reversed(u) = [j \in 1 .. n + 1 |-> u[n + 1 + 1 - j]]
        <3> HIDE DEF u
        <3>1. DOMAIN u = 1 .. n + 1
            BY <2>1
        <3>2. QED
            BY <2>1, <3>1 DEF Reversed
    <2>3. v \in Seq(T) /\ Len(v) = n + 1 /\ v[1] = d /\ \A j \in 1 .. n : v[j + 1] = Reversed(t)[j]
        BY <1>4
    <2> HIDE DEF u, v
    <2>4. ASSUME NEW j \in 1 .. n + 1 PROVE v[j] = u[n + 1 + 1 - j]
        <3>1. CASE j = 1
            BY <1>1, <2>1, <2>3, <3>1
        <3>2. CASE j # 1
            <4>1. /\ j - 1 \in 1 .. n /\ (j - 1) + 1 = j /\ n + 1 - (j - 1) \in 1 .. n
                  /\ n + 1 - (j - 1) = n + 1 + 1 - j
                BY <1>1, <3>2
            <4>2. v[j] = t[n + 1 - (j - 1)]
                BY <1>2, <2>3, <4>1
            <4>3. QED
                BY <2>1, <4>1, <4>2
        <3>3. QED
            BY <3>1, <3>2
    <2>5. v = [j \in 1 .. n + 1 |-> v[j]]
        <3>1. DOMAIN v = 1 .. n + 1
            BY <2>3
        <3>2. QED
            BY <2>3, <3>1
    <2>6. QED
        BY <2>2, <2>4, <2>5 DEF u, v
<1>7. Reversed(<<d>>) = <<d>>
    BY DEF Reversed
<1> QED
    BY <1>4, <1>5, <1>6, <1>7

\* A number written in a base: the digits of the base, none of them a 0 in front, with the value of the
\* number.
LEMMA Written ==
    ASSUME NEW n \in Nat, NEW b \in Nat \ {0, 1}
    PROVE  LET s == Reversed(DigitsOf(n, b)) IN
           /\ s \in Seq(0 .. b - 1) /\ Len(s) = Len(DigitsOf(n, b)) /\ Len(s) > 0
           /\ ValueOf(s, b) = n
           /\ s[1] = 0 => n = 0
           /\ n = 0 => Len(s) = 1
<1> DEFINE T == 0 .. b - 1
           R(m) == Reversed(DigitsOf(m, b))
           Good(m) == /\ R(m) \in Seq(T) /\ Len(R(m)) = Len(DigitsOf(m, b)) /\ Len(R(m)) > 0
                      /\ ValueOf(R(m), b) = m
                      /\ R(m)[1] = 0 => m = 0
                      /\ m = 0 => Len(R(m)) = 1
           Bad == {m \in Nat : ~Good(m)}
<1>0. b \in Nat /\ b > 1 /\ T \subseteq Nat
    OBVIOUS
<1>1. ASSUME NEW m \in Nat, m < b PROVE Good(m)
    <2>1. DigitsOf(m, b) = <<m>> /\ m \in T
        <3>1. m \in T
            BY <1>0, <1>1
        <3> HIDE DEF T
        <3>2. QED
            BY <1>1, <3>1, DigitsBy
    <2>2. R(m) = <<m>>
        BY <2>1 DEF Reversed
    <2>3. ValueOf(<<m>>, b) = m
        <3>1. ValueOf(Append(<<>>, m), b) = ValueOf(<<>>, b) * b + m /\ ValueOf(<<>>, b) = 0
            <4>1. <<>> \in Seq(Nat)
                OBVIOUS
            <4>2. QED
                BY <1>0, <1>1, <4>1, ValueBy
        <3>2. Append(<<>>, m) = <<m>>
            OBVIOUS
        <3>3. QED
            BY <1>0, <3>1, <3>2
    <2>4. <<m>> \in Seq(T) /\ Len(<<m>>) = 1 /\ <<m>>[1] = m
        BY <2>1
    <2> HIDE DEF R, T
    <2>5. QED
        BY <2>1, <2>2, <2>3, <2>4
<1>2. ASSUME NEW m \in Nat, m >= b, Good(m \div b) PROVE Good(m)
    <2> DEFINE q == m \div b
               r == m % b
    <2>1. q \in Nat /\ q >= 1 /\ r \in T /\ m = q * b + r
        BY <1>0, <1>2, Divided
    <2>2. DigitsOf(m, b) = <<r>> \o DigitsOf(q, b) /\ DigitsOf(q, b) \in Seq(T)
        BY <1>0, <1>2, <2>1, DigitsBy
    <2> HIDE DEF T, q, r
    <2>3. /\ R(m) = Append(R(q), r) /\ R(q) \in Seq(T)
        BY <2>1, <2>2, ReversedBy
    <2>4. ValueOf(R(q), b) = q /\ Len(R(q)) > 0 /\ (R(q)[1] = 0 => q = 0)
        BY <1>2 DEF q
    <2>5. Len(DigitsOf(m, b)) = Len(DigitsOf(q, b)) + 1
        BY <2>1, <2>2
    <2>6. Len(R(q)) = Len(DigitsOf(q, b))
        BY <1>2 DEF q
    <2> DEFINE u == R(q)
    <2>7. R(q) = u
        OBVIOUS
    <2> HIDE DEF R, u
    <2>8. R(m) = Append(u, r) /\ u \in Seq(T) /\ u \in Seq(Nat)
        <3>1. u \in Seq(T)
            BY <2>3, <2>7
        <3>2. u \in Seq(Nat)
            <4>1. Len(u) \in Nat /\ u \in [1 .. Len(u) -> T]
                BY <3>1
            <4>2. u \in [1 .. Len(u) -> Nat]
                BY <1>0, <4>1
            <4>3. QED
                BY <4>1, <4>2
        <3>3. QED
            BY <2>3, <2>7, <3>1, <3>2
    <2>9. ValueOf(R(m), b) = q * b + r
        <3>1. r \in Nat
            BY <1>0, <2>1
        <3>2. ValueOf(Append(u, r), b) = ValueOf(u, b) * b + r
            BY <1>0, <2>8, <3>1, ValueBy
        <3>3. QED
            BY <2>4, <2>7, <2>8, <3>2
    <2>10. /\ R(m) \in Seq(T) /\ Len(R(m)) = Len(u) + 1 /\ Len(R(m)) > 0 /\ R(m)[1] = u[1]
        <3>1. Len(u) > 0 /\ Len(u) \in Nat
            BY <2>4, <2>7, <2>8
        <3>2. \A v \in Seq(T), x \in T : Append(v, x) \in Seq(T) /\ Len(Append(v, x)) = Len(v) + 1
                                          /\ (Len(v) > 0 => Append(v, x)[1] = v[1])
            OBVIOUS
        <3>3. QED
            BY SMTT(40), <2>1, <2>8, <3>1, <3>2
    <2>11. R(m)[1] # 0
        BY <2>1, <2>4, <2>7, <2>10
    <2>12. m # 0
        BY <1>0, <1>2
    <2>13. QED
        BY <2>1, <2>5, <2>6, <2>7, <2>9, <2>10, <2>11, <2>12
<1> HIDE DEF Good
<1>3. Bad = {}
    <2> SUFFICES ASSUME Bad # {} PROVE FALSE
        OBVIOUS
    <2>1. PICK m \in Bad : \A i \in Bad : m <= i
        <3>1. Bad \in SUBSET Nat
            OBVIOUS
        <3> HIDE DEF Bad
        <3>2. QED
            BY <3>1, Least
    <2>2. m \in Nat /\ ~Good(m)
        OBVIOUS
    <2>3. ~(m < b) /\ m >= b
        BY <1>0, <1>1, <2>2
    <2>4. m \div b \in Nat /\ ~(m <= m \div b)
        <3>1. m \div b \in 0 .. m - 1
            BY <2>2, <2>3, Divided
        <3> DEFINE q == m \div b
        <3> HIDE DEF q
        <3>2. q \in 0 .. m - 1 => q \in Nat /\ ~(m <= q)
            BY <2>2
        <3>3. QED
            BY <3>1, <3>2 DEF q
    <2>5. Good(m \div b)
        BY <2>1, <2>4
    <2>6. QED
        BY <1>2, <2>2, <2>3, <2>5
<1>4. Good(n)
    BY <1>3
<1> QED
    BY <1>4 DEF Good

IsPower(f, b, n) == f = [k \in 0 .. n |-> IF k = 0 THEN 1 ELSE b * f[k - 1]]

\* The recursion of Power has a solution for every exponent.
LEMMA PowersExist ==
    ASSUME NEW n \in Nat, NEW b \in Nat \ {0}
    PROVE  \E f \in [0 .. n -> Nat \ {0}] : IsPower(f, b, n)
<1> DEFINE T == Nat \ {0}
           next == [k \in 1 .. n |-> [v \in T |-> b * v]]
<1>1. 1 \in T
    OBVIOUS
<1>2. next \in [1 .. n -> [T -> T]]
    <2>1. \A v \in T : b * v \in T
        OBVIOUS
    <2>2. QED
        BY <2>1
<1>3. \A k \in 1 .. n, v \in T : next[k][v] = b * v
    OBVIOUS
<1> HIDE DEF next
<1>4. PICK f \in [0 .. n -> T] : Solves(f, n, 1, next)
    BY <1>1, <1>2, SolutionExists
<1>5. f = [k \in 0 .. n |-> IF k = 0 THEN 1 ELSE b * f[k - 1]]
    <2>1. \A k \in 0 .. n : f[k] = IF k = 0 THEN 1 ELSE next[k][f[k - 1]]
        BY <1>4 DEF Solves
    <2>2. ASSUME NEW k \in 0 .. n PROVE f[k] = IF k = 0 THEN 1 ELSE b * f[k - 1]
        <3>1. k # 0 => k \in 1 .. n /\ f[k - 1] \in T
            OBVIOUS
        <3>2. QED
            BY <1>3, <2>1, <3>1
    <2>3. f = [k \in 0 .. n |-> f[k]]
        OBVIOUS
    <2>4. QED
        BY <2>2, <2>3
<1>6. QED
    BY <1>5 DEF IsPower

\* Solutions for two exponents agree as far as both go.
LEMMA PowersAgree ==
    ASSUME NEW n \in Nat, NEW m \in Nat, n <= m, NEW b \in Nat, NEW f, NEW g,
           IsPower(f, b, n), IsPower(g, b, m)
    PROVE  f[n] = g[n]
<1> DEFINE S == {k \in 0 .. n : f[k] = g[k]}
<1>1. /\ \A k \in 0 .. n : f[k] = IF k = 0 THEN 1 ELSE b * f[k - 1]
      /\ \A k \in 0 .. m : g[k] = IF k = 0 THEN 1 ELSE b * g[k - 1]
    BY DEF IsPower
<1>2. 0 \in S
    BY <1>1
<1>3. ASSUME NEW k \in 0 .. n - 1, k \in S PROVE k + 1 \in S
    <2>1. k + 1 \in 0 .. n /\ k + 1 \in 0 .. m /\ (k + 1) - 1 = k /\ k + 1 # 0
        OBVIOUS
    <2>2. f[k + 1] = b * f[k] /\ g[k + 1] = b * g[k]
        BY <1>1, <2>1
    <2>3. QED
        BY <1>3, <2>1, <2>2
<1>4. \A k \in 0 .. n : k \in S
    <2> HIDE DEF S
    <2>1. QED
        BY <1>2, <1>3, UpTo
<1>5. QED
    BY <1>4

\* The solution that Power takes.
LEMMA PowersAre ==
    ASSUME NEW n \in Nat, NEW b \in Nat \ {0}
    PROVE  \E f \in [0 .. n -> Nat \ {0}] : IsPower(f, b, n) /\ Power(b, n) = f[n]
<1> DEFINE e == CHOOSE f : IsPower(f, b, n)
<1>1. PICK f \in [0 .. n -> Nat \ {0}] : IsPower(f, b, n)
    BY PowersExist
<1>2. IsPower(e, b, n)
    BY <1>1
<1>3. Power(b, n) = e[n]
    BY DEF Power, IsPower
<1> HIDE DEF e
<1>4. f[n] = e[n]
    <2>1. n <= n
        OBVIOUS
    <2>2. QED
        BY <1>1, <1>2, <2>1, PowersAgree
<1> QED
    BY <1>1, <1>3, <1>4

\* A power is positive, and its factor times the one before.
LEMMA PowerBy ==
    ASSUME NEW b \in Nat \ {0}
    PROVE  /\ \A n \in Nat : Power(b, n) \in Nat \ {0}
           /\ \A n \in Nat \ {0} : Power(b, n) = b * Power(b, n - 1)
<1>1. \A n \in Nat : Power(b, n) \in Nat \ {0}
    <2>1. \A n \in Nat : n \in 0 .. n
        OBVIOUS
    <2>2. QED
        BY SMTT(40), <2>1, PowersAre
<1>2. ASSUME NEW n \in Nat \ {0} PROVE Power(b, n) = b * Power(b, n - 1)
    <2>1. n - 1 \in Nat /\ n - 1 <= n /\ n \in Nat /\ n \in 0 .. n
        OBVIOUS
    <2>2. PICK f : IsPower(f, b, n - 1) /\ Power(b, n - 1) = f[n - 1]
        BY <2>1, PowersAre
    <2>3. PICK g : IsPower(g, b, n) /\ Power(b, n) = g[n]
        BY <2>1, PowersAre
    <2>4. f[n - 1] = g[n - 1]
        BY <2>1, <2>2, <2>3, PowersAgree
    <2>5. g[n] = b * g[n - 1]
        BY <2>1, <2>3 DEF IsPower
    <2>6. QED
        BY <2>2, <2>3, <2>4, <2>5
<1> QED
    BY <1>1, <1>2

\* An int that is one is left as it is.
LEMMA IntStays ==
    /\ INT_MIN \in Int /\ INT_MIN < 0
    /\ \A n \in IntValues : n \in Int /\ Int32(n) = n
    /\ \A n \in IntValues : n # INT_MIN => -n \in IntValues
    /\ \A n \in Int : n \in IntValues <=> (INT_MIN <= n /\ n < -INT_MIN)
    /\ \A n \in Int : Int32(n) \in Int
<1> DEFINE P == Power(2, WIDTH - 1)
<1>1. P \in Nat /\ P > 0 /\ Power(2, WIDTH) = 2 * P
    <2>1. WIDTH \in Nat \ {0} /\ WIDTH - 1 \in Nat
        BY NumberAssumption
    <2>2. 2 \in Nat \ {0}
        OBVIOUS
    <2>3. P \in Nat \ {0} /\ Power(2, WIDTH) = 2 * P
        BY <2>1, <2>2, PowerBy
    <2> HIDE DEF P
    <2>4. QED
        BY <2>3
<1>2. INT_MIN = -P
    BY DEF INT_MIN
<1> HIDE DEF P
<1>3. IntValues = -P .. P - 1
    <2>1. -(-P) = P
        BY <1>1
    <2>2. QED
        BY <1>2, <2>1 DEF IntValues
<1>4. \A n \in -P .. P - 1 : ((n - (-P)) % (2 * P)) + (-P) = n
    BY <1>1
<1>5. \A n \in Int : ((n - (-P)) % (2 * P)) + (-P) \in Int
    BY <1>1
<1>6. \A n : Int32(n) = ((n - (-P)) % (2 * P)) + (-P)
    BY <1>1, <1>2 DEF Int32
<1>7. \A n \in -P .. P - 1 : n # -P => -n \in -P .. P - 1
    BY <1>1
<1>8. -P \in Int /\ -P < 0
    BY <1>1
<1>9. \A n \in Int : n \in -P .. P - 1 <=> (-P <= n /\ n < -(-P))
    BY <1>1
<1>10. \A n \in IntValues : n \in Int /\ Int32(n) = n
    <2>1. ASSUME NEW n \in -P .. P - 1 PROVE n \in Int /\ Int32(n) = n
        BY <1>1, <1>4, <1>6
    <2>2. QED
        BY <1>3, <2>1
<1>11. \A n \in IntValues : n # INT_MIN => -n \in IntValues
    BY <1>2, <1>3, <1>7
<1>12. \A n \in Int : n \in IntValues <=> (INT_MIN <= n /\ n < -INT_MIN)
    BY <1>2, <1>3, <1>9
<1>13. \A n \in Int : Int32(n) \in Int
    BY <1>5, <1>6
<1> QED
    BY <1>2, <1>8, <1>10, <1>11, <1>12, <1>13

\* What an int is written as.
Signed(n) ==
    IF n < 0 THEN <<MINUS>> \o Reversed(DigitsOf(-n, 10)) ELSE Reversed(DigitsOf(n, 10))

\* Every int but INT_MIN is printed as its sign and its digits, by %d and by intToString.
LEMMA IntIsSigned ==
    ASSUME NEW n \in IntValues, n # INT_MIN
    PROVE  PrintedInt(n) = Signed(n) /\ intToString(n) = Signed(n)
<1>1. n \in Int /\ Int32(n) = n
    BY IntStays
<1>2. -n \in IntValues /\ Int32(-n) = -n
    BY IntStays
<1>3. \A m \in Nat : convert_to_base_string(m, 10) = Reversed(DigitsOf(m, 10))
    <2>1. ASSUME NEW m \in Nat PROVE convert_to_base_string(m, 10) = Reversed(DigitsOf(m, 10))
        <3>0. 10 \in Nat \ {0, 1}
            OBVIOUS
        <3>1. DigitsOf(m, 10) \in Seq(0 .. 10 - 1)
            BY <3>0, DigitsBy
        <3>2. <<>> \o DigitsOf(m, 10) = DigitsOf(m, 10)
            BY <3>1
        <3>3. ~(m < 0) /\ 10 \in 2 .. 16
            OBVIOUS
        <3>4. QED
            BY <3>2, <3>3 DEF convert_to_base_string
    <2>2. QED
        BY <2>1
<1>4. CASE n < 0
    <2>1. -n \in Nat /\ ~(-n < 0)
        BY <1>1, <1>4
    <2>2. PrintedInt(n) = <<MINUS>> \o Reversed(DigitsOf(-n, 10))
        BY <1>2, <1>3, <1>4, <2>1 DEF PrintedInt
    <2>3. intToString(n) = Reversed(Append(DigitsOf(-n, 10), MINUS))
        BY <1>2, <1>4, <2>1 DEF intToString
    <2>4. DigitsOf(-n, 10) \in Seq(0 .. 10 - 1)
        <3>1. 10 \in Nat \ {0, 1}
            OBVIOUS
        <3>2. QED
            BY <2>1, <3>1, DigitsBy
    <2>5. DigitsOf(-n, 10) \in Seq(Nat) /\ MINUS \in Nat
        <3> DEFINE d == DigitsOf(-n, 10)
        <3> HIDE DEF d
        <3>1. d \in Seq(0 .. 10 - 1) => d \in Seq(Nat)
            OBVIOUS
        <3>2. QED
            BY <2>4, <3>1 DEF d, MINUS
    <2>6. Reversed(Append(DigitsOf(-n, 10), MINUS)) = <<MINUS>> \o Reversed(DigitsOf(-n, 10))
        BY <2>5, ReversedBy
    <2>7. QED
        BY <1>4, <2>2, <2>3, <2>6 DEF Signed
<1>5. CASE ~(n < 0)
    <2>1. n \in Nat
        BY <1>1, <1>5
    <2>2. PrintedInt(n) = Reversed(DigitsOf(n, 10))
        BY <1>3, <1>5, <2>1 DEF PrintedInt
    <2>3. intToString(n) = Reversed(DigitsOf(n, 10))
        BY <1>5 DEF intToString
    <2>4. QED
        BY <1>5, <2>2, <2>3 DEF Signed
<1> QED
    BY <1>4, <1>5

\* satoi reads the sign and the digits of a number as the number.
LEMMA SignedIsRead ==
    ASSUME NEW n \in Int
    PROVE  satoi(Signed(n)) = n
<1>1. \A m \in Nat : LET s == Reversed(DigitsOf(m, 10)) IN
                     s \in Seq(0 .. 9) /\ Len(s) > 0 /\ ValueOf(s, 10) = m
    <2>1. ASSUME NEW m \in Nat PROVE LET s == Reversed(DigitsOf(m, 10)) IN
                     s \in Seq(0 .. 9) /\ Len(s) > 0 /\ ValueOf(s, 10) = m
        <3>1. 10 \in Nat \ {0, 1} /\ 10 - 1 = 9
            OBVIOUS
        <3>2. QED
            BY <3>1, Written
    <2>2. QED
        BY <2>1
<1>2. CASE n < 0
    <2> DEFINE s == Reversed(DigitsOf(-n, 10))
               t == <<MINUS>> \o s
    <2>1. s \in Seq(0 .. 9) /\ Len(s) > 0 /\ ValueOf(s, 10) = -n
        <3>1. -n \in Nat
            BY <1>2
        <3>2. QED
            BY <1>1, <3>1
    <2> HIDE DEF s
    <2>2. t # <<>> /\ t[1] = MINUS /\ Tail(t) = s /\ Len(t) = Len(s) + 1
        BY <2>1
    <2> HIDE DEF t
    <2>3. t # s
        <3>1. Len(s) \in Nat
            BY <2>1
        <3>2. Len(t) # Len(s)
            BY <2>2, <3>1
        <3>3. QED
            BY <3>2
    <2>4. Unsigned(t) = s
        BY <2>2 DEF Unsigned
    <2>5. \A j \in DOMAIN s : IsDigit(s[j])
        BY <2>1 DEF IsDigit
    <2>6. satoi(t) = (-n) * (-1)
        BY <2>1, <2>3, <2>4, <2>5 DEF satoi
    <2>7. Signed(n) = t
        BY <1>2 DEF Signed, s, t
    <2>8. (-n) * (-1) = n
        OBVIOUS
    <2>9. QED
        BY <2>6, <2>7, <2>8
<1>3. CASE ~(n < 0)
    <2> DEFINE s == Reversed(DigitsOf(n, 10))
    <2>1. s \in Seq(0 .. 9) /\ Len(s) > 0 /\ ValueOf(s, 10) = n
        <3>1. n \in Nat
            BY <1>3
        <3>2. QED
            BY <1>1, <3>1
    <2> HIDE DEF s
    <2>2. s[1] # MINUS
        BY <2>1 DEF MINUS
    <2>3. Unsigned(s) = s
        BY <2>2 DEF Unsigned
    <2>4. \A j \in DOMAIN s : IsDigit(s[j])
        BY <2>1 DEF IsDigit
    <2>5. satoi(s) = n * 1
        BY <2>1, <2>3, <2>4 DEF satoi
    <2>6. Signed(n) = s
        BY <1>3 DEF Signed, s
    <2>7. QED
        BY <2>5, <2>6
<1> QED
    BY <1>2, <1>3

\* A text that stringToInt takes for a number has, behind its spaces, the digits of one.
LEMMA ReadAlike ==
    ASSUME NEW s \in Seq(Nat), stringToInt(s) # ERROR
    PROVE  stringToInt(s) = Int32(satoi(Unspaced(s)))
<1> DEFINE digits == Unspaced(s)
<1>1. digits \in Seq(Nat)
    <2>1. IsFiniteSet(LeadingSpaces(s))
        <3>1. LeadingSpaces(s) \subseteq 1 .. Len(s) /\ IsFiniteSet(1 .. Len(s))
            BY FS_Interval DEF LeadingSpaces
        <3> QED
            BY <3>1, FS_Subset
    <2>2. Cardinality(LeadingSpaces(s)) + 1 \in Nat \ {0}
        BY <2>1, FS_CardinalityType
    <2>3. \A m \in Nat \ {0} : SubSeq(s, m, Len(s)) \in Seq(Nat)
        OBVIOUS
    <2> QED
        BY <2>2, <2>3 DEF Unspaced
<1>2. digits # <<>> /\ \A j \in DOMAIN digits : IsDigit(digits[j])
    BY DEF stringToInt
<1>3. stringToInt(s) = Int32(ValueOf(digits, 10))
    BY <1>2 DEF stringToInt
<1> HIDE DEF digits
<1>4. 1 \in DOMAIN digits
    BY <1>1, <1>2
<1>5. digits[1] # MINUS
    BY SMTT(40), <1>2, <1>4 DEF IsDigit, MINUS
<1>6. Unsigned(digits) = digits
    BY <1>5 DEF Unsigned
<1>7. satoi(digits) = ValueOf(digits, 10) * 1
    BY <1>2, <1>6 DEF satoi
<1>8. ValueOf(digits, 10) \in Nat
    BY <1>1, ValueBy
<1> QED
    BY <1>3, <1>7, <1>8 DEF digits

\* print_padded_int takes as many columns as were asked for, or as it needs.
LEMMA PaddedFits ==
    ASSUME NEW n \in IntValues, n # INT_MIN, NEW width \in Nat
    PROVE  Padded(n, width) \in {width, Len(PrintedInt(n))} /\ Padded(n, width) >= width
<1>1. n \in Int
    BY IntStays
<1> DEFINE m == IF n < 0 THEN -n ELSE n
           d == Len(DigitsOf(m, 10))
<1>2. m \in Nat
    BY <1>1
<1>3. Reversed(DigitsOf(m, 10)) \in Seq(Nat) /\ Len(Reversed(DigitsOf(m, 10))) = d /\ d \in Nat
    <2>1. 10 \in Nat \ {0, 1}
        OBVIOUS
    <2> HIDE DEF m
    <2>2. DigitsOf(m, 10) \in Seq(0 .. 10 - 1)
        BY <1>2, <2>1, DigitsBy
    <2> DEFINE s == DigitsOf(m, 10)
    <2> HIDE DEF s
    <2>3. s \in Seq(0 .. 10 - 1) => s \in Seq(Nat)
        OBVIOUS
    <2>4. DigitsOf(m, 10) \in Seq(Nat)
        BY <2>2, <2>3 DEF s
    <2>5. 0 \in Nat
        OBVIOUS
    <2>6. Reversed(DigitsOf(m, 10)) \in Seq(Nat)
          /\ Len(Reversed(DigitsOf(m, 10))) = Len(DigitsOf(m, 10))
        BY <2>4, <2>5, ReversedBy
    <2>7. Len(DigitsOf(m, 10)) \in Nat
        BY <2>4
    <2>8. QED
        BY <2>6, <2>7
<1>4. Len(PrintedInt(n)) = IF n < 0 THEN d + 1 ELSE d
    <2>1. PrintedInt(n) = IF n < 0 THEN <<MINUS>> \o Reversed(DigitsOf(m, 10))
                          ELSE Reversed(DigitsOf(m, 10))
        BY IntIsSigned DEF Signed
    <2> DEFINE r == Reversed(DigitsOf(m, 10))
    <2> HIDE DEF m, d, r
    <2>2. r \in Seq(Nat) /\ Len(r) = d
        BY <1>3 DEF r
    <2>3. Len(<<MINUS>> \o r) = d + 1
        BY <1>3, <2>2
    <2>4. QED
        BY <2>1, <2>2, <2>3 DEF r
<1>5. Padded(n, width) = LET len == IF n < 0 THEN d + 1 ELSE d
                         IN  Len(PrintedInt(n)) + (IF width > len THEN width - len ELSE 0)
    BY DEF Padded
<1> HIDE DEF d, m
<1> QED
    BY <1>3, <1>4, <1>5

\* convert keeps the value.
LEMMA ConvertKeeps ==
    ASSUME NEW s \in Seq(Nat), NEW from \in Bases, NEW to \in Bases
    PROVE  LET out == convert(s, from, to) IN
           IF \E j \in DOMAIN s : s[j] >= from THEN out = <<ERROR>>
           ELSE ValueOf(s, from) \in IntValues =>
                   /\ ValueOf(out, to) = ValueOf(s, from)
                   /\ out[1] = 0 => Len(out) = 1
                   /\ \A j \in DOMAIN out : out[j] < to
<1>1. from \in Nat \ {0, 1} /\ to \in Nat \ {0, 1}
    BY DEF Bases
<1>2. CASE \E j \in DOMAIN s : s[j] >= from
    BY <1>2 DEF convert, to_decimal
<1>3. CASE ~(\E j \in DOMAIN s : s[j] >= from) /\ ValueOf(s, from) \in IntValues
    <2> DEFINE v == ValueOf(s, from)
               out == Reversed(DigitsOf(v, to))
    <2>1. v \in Nat
        BY <1>1, ValueBy
    <2>2. Int32(v) = v
        BY <1>3, IntStays
    <2>3. to_decimal(s, from) = v
        BY <1>3, <2>2 DEF to_decimal
    <2>4. v # ERROR /\ ~(v < 0)
        BY <2>1 DEF ERROR
    <2>5. convert(s, from, to) = out
        BY <2>3, <2>4 DEF convert, from_decimal
    <2> HIDE DEF v
    <2>6. /\ out \in Seq(0 .. to - 1) /\ ValueOf(out, to) = v /\ Len(out) > 0
          /\ (out[1] = 0 => v = 0) /\ (v = 0 => Len(out) = 1)
        BY <1>1, <2>1, Written
    <2> HIDE DEF out
    <2>7. \A j \in DOMAIN out : out[j] < to
        BY <1>1, <2>6
    <2>8. QED
        BY <1>3, <2>5, <2>6, <2>7 DEF v
<1> QED
    BY <1>2, <1>3

\* The bar of mem is never shorter than the share it stands for.
LEMMA BarIsLong ==
    ASSUME NEW p \in 0 .. 100
    PROVE  BarOf(p) \in 1 .. 13 /\ 13 * p <= 100 * BarOf(p) /\ (BarOf(p) = 13 => p >= 90)
<1>1. CASE p <= 9
    <2>1. p \in {0, 1, 2, 3, 4, 5, 6, 7, 8, 9}
        BY <1>1
    <2>2. QED
        BY <2>1 DEF BarOf
<1>2. CASE p = 100
    BY <1>2 DEF BarOf
<1>3. CASE p \in 10 .. 99
    <2> DEFINE q == p \div 10
    <2>1. BarOf(p) = 4 + q
        BY <1>3 DEF BarOf
    <2>2. q \in 1 .. 9 /\ 10 * q <= p /\ p < 10 * q + 10
        BY <1>3
    <2> HIDE DEF q
    <2>3. QED
        BY <2>1, <2>2
<1> QED
    BY <1>1, <1>2, <1>3

\* mem shows an amount to half a unit, and a full bar only from nine tenths on.
LEMMA MemClose ==
    ASSUME NEW used \in Nat, NEW total \in Nat \ {0}, used <= total
    PROVE  LET out == mem(used, total)
               unit == Power(UNIT, out[1])
           IN  /\ 2 * out[2] * unit - 2 * used \in -unit .. unit
               /\ out[4] \in 1 .. 13 /\ 13 * out[3] <= 100 * out[4]
               /\ out[4] = 13 => 10 * used >= 9 * total
<1> DEFINE u == UnitOf(used)
           unit == Power(UNIT, u)
           p == (100 * used) \div total
<1>1. \A n \in Nat : Power(UNIT, n) \in Nat \ {0}
    <2>1. UNIT \in Nat \ {0}
        BY NumberAssumption
    <2>2. QED
        BY <2>1, PowerBy
<1>2. u \in 0 .. 3
    <2> DEFINE Fits(k) == /\ k = 3 \/ used < Power(UNIT, k + 1)
                          /\ k = 0 \/ used >= Power(UNIT, k)
    <2>1. \E k \in 0 .. 3 : Fits(k)
        <3> DEFINE a == Power(UNIT, 1)
                   b == Power(UNIT, 2)
                   c == Power(UNIT, 3)
        <3>1. a \in Nat /\ b \in Nat /\ c \in Nat
            BY <1>1
        <3>2. 0 + 1 = 1 /\ 1 + 1 = 2 /\ 2 + 1 = 3
            OBVIOUS
        <3>3. used < a => Fits(0)
            BY <3>2
        <3>4. ~(used < a) /\ used < b => Fits(1)
            BY <3>1, <3>2
        <3>5. ~(used < b) /\ used < c => Fits(2)
            BY <3>1, <3>2
        <3>6. ~(used < c) => Fits(3)
            BY <3>1
        <3>7. 0 \in 0 .. 3 /\ 1 \in 0 .. 3 /\ 2 \in 0 .. 3 /\ 3 \in 0 .. 3
            OBVIOUS
        <3> HIDE DEF Fits
        <3>8. QED
            BY <3>3, <3>4, <3>5, <3>6, <3>7
    <2>2. UnitOf(used) = CHOOSE k \in 0 .. 3 : Fits(k)
        BY DEF UnitOf
    <2> HIDE DEF Fits
    <2>3. QED
        BY <2>1, <2>2
<1>3. unit \in Nat /\ unit > 0
    <2>1. u \in Nat
        BY <1>2
    <2> HIDE DEF u
    <2>2. QED
        BY <1>1, <2>1
<1>4. mem(used, total) = <<u, Rounded(used), p, BarOf(p)>>
    BY DEF mem
<1>5. Rounded(used) = (2 * used + unit) \div (2 * unit)
    BY DEF Rounded
<1>6. p \in 0 .. 100 /\ (p >= 90 => 10 * used >= 9 * total)
    <2>1. \A a \in Nat, b \in Nat \ {0} : b * (a \div b) <= a /\ a < b * (a \div b) + b /\ a \div b \in Nat
        OBVIOUS
    <2>2. 100 * used \in Nat
        OBVIOUS
    <2>3. total * p <= 100 * used /\ p \in Nat
        BY <2>1, <2>2
    <2> HIDE DEF p
    <2>4. p >= 90 => total * p >= total * 90
        BY <2>3
    <2>5. p >= 101 => total * p >= total * 101
        BY <2>3
    <2>6. total * 101 > 100 * used
        OBVIOUS
    <2>7. total * p \in Nat
        BY <2>3
    <2>8. p \in 0 .. 100
        BY <2>3, <2>5, <2>6, <2>7
    <2>9. p >= 90 => 10 * used >= 9 * total
        BY <2>3, <2>4, <2>7
    <2>10. QED
        BY <2>8, <2>9
<1> HIDE DEF u, unit, p
<1>7. 2 * Rounded(used) * unit - 2 * used \in -unit .. unit
    <2> DEFINE q == (2 * used + unit) \div (2 * unit)
    <2>1. \A a \in Nat, b \in Nat \ {0} : b * (a \div b) <= a /\ a < b * (a \div b) + b /\ a \div b \in Nat
        OBVIOUS
    <2>2. 2 * used + unit \in Nat /\ 2 * unit \in Nat \ {0}
        BY <1>3
    <2>3. 2 * unit * q <= 2 * used + unit /\ 2 * used + unit < 2 * unit * q + 2 * unit /\ q \in Nat
        BY <2>1, <2>2
    <2> HIDE DEF q
    <2>4. 2 * q * unit = 2 * unit * q /\ 2 * q * unit \in Nat
        BY <1>3, <2>3
    <2>5. 2 * q * unit - 2 * used \in -unit .. unit
        BY <1>3, <2>3, <2>4
    <2>6. QED
        BY <1>5, <2>5 DEF q
<1>8. BarOf(p) \in 1 .. 13 /\ 13 * p <= 100 * BarOf(p) /\ (BarOf(p) = 13 => p >= 90)
    BY <1>6, BarIsLong
<1>9. /\ mem(used, total)[1] = u /\ mem(used, total)[2] = Rounded(used)
      /\ mem(used, total)[3] = p /\ mem(used, total)[4] = BarOf(p)
    BY <1>4
<1>10. Power(UNIT, mem(used, total)[1]) = unit
    BY <1>9 DEF unit
<1> QED
    BY <1>6, <1>7, <1>8, <1>9, <1>10

(***************************************************************************)
(* Formats.                                                                *)
(***************************************************************************)
Fresh == [buffer |-> <<>>, arg |-> 1, taken |-> FALSE]
\* One character of a format.
After(r, fmt, vals, k) ==
    IF r.taken THEN [r EXCEPT !.taken = FALSE]
    ELSE IF fmt[k] = PERCENT /\ k < Len(fmt)
    THEN [buffer |-> r.buffer \o Converted(fmt[k + 1], vals[r.arg]),
          arg |-> r.arg + Takes(fmt[k + 1]), taken |-> TRUE]
    ELSE [r EXCEPT !.buffer = Append(@, fmt[k])]
IsRun(f, n, fmt, vals) ==
    f = [k \in 0 .. n |->
            IF k = 0 THEN [buffer |-> <<>>, arg |-> 1, taken |-> FALSE]
            ELSE IF f[k - 1].taken THEN [f[k - 1] EXCEPT !.taken = FALSE]
            ELSE IF fmt[k] = PERCENT /\ k < Len(fmt)
            THEN [buffer |-> f[k - 1].buffer \o Converted(fmt[k + 1], vals[f[k - 1].arg]),
                  arg |-> f[k - 1].arg + Takes(fmt[k + 1]), taken |-> TRUE]
            ELSE [f[k - 1] EXCEPT !.buffer = Append(@, fmt[k])]]
IsFlat(f, n, s) == f = [i \in 1 .. n |-> IF i = 1 THEN s[i] ELSE f[i - 1] \o s[i]]

\* The recursion of argsToBuffer, one character at a time.
LEMMA RunSteps ==
    ASSUME NEW f, NEW n \in Nat, NEW fmt, NEW vals
    PROVE  IsRun(f, n, fmt, vals) <=>
               f = [k \in 0 .. n |-> IF k = 0 THEN Fresh ELSE After(f[k - 1], fmt, vals, k)]
BY DEF IsRun, Fresh, After

\* It has a solution for every format and arguments.
LEMMA RunExists ==
    ASSUME NEW n \in Nat, NEW fmt, NEW vals
    PROVE  \E f : IsRun(f, n, fmt, vals)
<1> DEFINE S == {k \in 0 .. n : \E f : IsRun(f, k, fmt, vals)}
<1>1. 0 \in S
    <2> DEFINE f == [k \in 0 .. 0 |-> Fresh]
    <2>1. IsRun(f, 0, fmt, vals)
        <3>1. f = [k \in 0 .. 0 |-> IF k = 0 THEN Fresh ELSE After(f[k - 1], fmt, vals, k)]
            OBVIOUS
        <3>2. QED
            BY <3>1, RunSteps
    <2> HIDE DEF f
    <2>2. QED
        BY <2>1
<1>2. ASSUME NEW k \in 0 .. n - 1, k \in S PROVE k + 1 \in S
    <2>1. PICK f : IsRun(f, k, fmt, vals)
        BY <1>2
    <2> DEFINE last == After(f[k], fmt, vals, k + 1)
               g == [j \in 0 .. k + 1 |-> IF j = k + 1 THEN last ELSE f[j]]
    <2>2. \A j \in 0 .. k : f[j] = IF j = 0 THEN Fresh ELSE After(f[j - 1], fmt, vals, j)
        <3>1. f = [j \in 0 .. k |-> IF j = 0 THEN Fresh ELSE After(f[j - 1], fmt, vals, j)]
            BY <2>1, RunSteps
        <3>2. QED
            BY <3>1
    <2> HIDE DEF last
    <2>3. ASSUME NEW j \in 0 .. k + 1
          PROVE  g[j] = IF j = 0 THEN Fresh ELSE After(g[j - 1], fmt, vals, j)
        <3>1. j # 0 => j - 1 \in 0 .. k /\ g[j - 1] = f[j - 1]
            OBVIOUS
        <3>2. j # k + 1 => j \in 0 .. k /\ g[j] = f[j]
            OBVIOUS
        <3>3. g[k + 1] = last /\ (k + 1) - 1 = k /\ k + 1 # 0
            OBVIOUS
        <3>4. last = After(f[k], fmt, vals, k + 1)
            BY DEF last
        <3> HIDE DEF g
        <3>5. QED
            BY <2>2, <3>1, <3>2, <3>3, <3>4
    <2>4. g = [j \in 0 .. k + 1 |-> g[j]]
        OBVIOUS
    <2> HIDE DEF g
    <2>5. IsRun(g, k + 1, fmt, vals)
        <3>1. g = [j \in 0 .. k + 1 |-> IF j = 0 THEN Fresh ELSE After(g[j - 1], fmt, vals, j)]
            BY <2>3, <2>4
        <3>2. QED
            BY <3>1, RunSteps
    <2>6. k + 1 \in 0 .. n
        OBVIOUS
    <2>7. QED
        BY <2>5, <2>6
<1>3. \A k \in 0 .. n : k \in S
    <2> HIDE DEF S
    <2>1. QED
        BY <1>1, <1>2, UpTo
<1>4. QED
    BY <1>3

\* The recursion of FlattenSeq has a solution for every sequence.
LEMMA FlatExists ==
    ASSUME NEW n \in Nat, NEW s
    PROVE  \E f : IsFlat(f, n, s)
<1> DEFINE S == {k \in 0 .. n : \E f : IsFlat(f, k, s)}
<1>1. 0 \in S
    <2> DEFINE f == [i \in 1 .. 0 |-> <<>>]
    <2>1. IsFlat(f, 0, s)
        BY DEF IsFlat
    <2> HIDE DEF f
    <2>2. QED
        BY <2>1
<1>2. ASSUME NEW k \in 0 .. n - 1, k \in S PROVE k + 1 \in S
    <2>1. PICK f : IsFlat(f, k, s)
        BY <1>2
    <2> DEFINE last == IF k = 0 THEN s[1] ELSE f[k] \o s[k + 1]
               g == [j \in 1 .. k + 1 |-> IF j = k + 1 THEN last ELSE f[j]]
    <2>2. \A j \in 1 .. k : f[j] = IF j = 1 THEN s[j] ELSE f[j - 1] \o s[j]
        BY <2>1 DEF IsFlat
    <2> HIDE DEF last
    <2>3. ASSUME NEW j \in 1 .. k + 1
          PROVE  g[j] = IF j = 1 THEN s[j] ELSE g[j - 1] \o s[j]
        <3>1. j # 1 => j - 1 \in 1 .. k /\ g[j - 1] = f[j - 1]
            OBVIOUS
        <3>2. j # k + 1 => j \in 1 .. k /\ g[j] = f[j]
            OBVIOUS
        <3>3. g[k + 1] = last /\ (k + 1) - 1 = k /\ (k = 0 <=> k + 1 = 1)
            OBVIOUS
        <3>4. last = IF k = 0 THEN s[1] ELSE f[k] \o s[k + 1]
            BY DEF last
        <3> HIDE DEF g
        <3>5. CASE j = k + 1
            BY <3>1, <3>3, <3>4, <3>5
        <3>6. CASE j # k + 1
            BY <2>2, <3>1, <3>2, <3>6
        <3>7. QED
            BY <3>5, <3>6
    <2>4. g = [j \in 1 .. k + 1 |-> g[j]]
        OBVIOUS
    <2> HIDE DEF g
    <2>5. IsFlat(g, k + 1, s)
        BY <2>3, <2>4 DEF IsFlat
    <2>6. k + 1 \in 0 .. n
        OBVIOUS
    <2>7. QED
        BY <2>5, <2>6
<1>3. \A k \in 0 .. n : k \in S
    <2> HIDE DEF S
    <2>1. QED
        BY <1>1, <1>2, UpTo
<1>4. QED
    BY <1>3

\* What the two recursions come to.
LEMMA PrintfRuns ==
    ASSUME NEW fmt, NEW vals, Len(fmt) \in Nat
    PROVE  \E f : /\ f[0] = Fresh
                  /\ \A k \in 1 .. Len(fmt) : f[k] = After(f[k - 1], fmt, vals, k)
                  /\ argsToBuffer(fmt, vals) = f[Len(fmt)].buffer
<1> DEFINE n == Len(fmt)
           e == CHOOSE f : IsRun(f, n, fmt, vals)
<1>1. IsRun(e, n, fmt, vals)
    BY RunExists
<1>2. argsToBuffer(fmt, vals) = e[n].buffer
    BY DEF argsToBuffer, IsRun
<1> HIDE DEF e
<1>3. e = [k \in 0 .. n |-> IF k = 0 THEN Fresh ELSE After(e[k - 1], fmt, vals, k)]
    BY <1>1, RunSteps
<1>4. \A k \in 0 .. n : e[k] = IF k = 0 THEN Fresh ELSE After(e[k - 1], fmt, vals, k)
    BY <1>3
<1>5. 0 \in 0 .. n /\ \A k \in 1 .. n : k \in 0 .. n /\ k # 0
    OBVIOUS
<1> QED
    BY <1>2, <1>4, <1>5

\* What a sequence of sequences is flattened to, one after the other.
LEMMA FlattenRuns ==
    ASSUME NEW T, NEW s \in Seq(T), Len(s) > 0
    PROVE  \E f : /\ f[1] = s[1]
                  /\ \A i \in 2 .. Len(s) : f[i] = f[i - 1] \o s[i]
                  /\ Seqs!FlattenSeq(s) = f[Len(s)]
<1> DEFINE n == Len(s)
           e == CHOOSE f : IsFlat(f, n, s)
<1>0. n \in Nat /\ n # 0
    OBVIOUS
<1>1. IsFlat(e, n, s)
    BY FlatExists
<1>2. Seqs!FlattenSeq(s) = e[n]
    BY <1>0 DEF Seqs!FlattenSeq, IsFlat
<1> HIDE DEF e
<1>3. \A i \in 1 .. n : e[i] = IF i = 1 THEN s[i] ELSE e[i - 1] \o s[i]
    BY <1>1 DEF IsFlat
<1>4. 1 \in 1 .. n /\ \A i \in 2 .. n : i \in 1 .. n /\ i # 1
    BY <1>0
<1> QED
    BY <1>2, <1>3, <1>4

Marks == {PERCENT, SPEC_D, SPEC_C, JUNK}
RunTo(fmt, i) == {j \in 1 .. i : \A k \in j .. i : fmt[k] = PERCENT}

\* A '%' begins a specifier when the one before it does not.
LEMMA SpecifierAfter ==
    ASSUME NEW fmt, NEW n \in Nat, Len(fmt) = n, NEW i \in 1 .. n
    PROVE  i \in Specifiers(fmt) <=> (i < n /\ fmt[i] = PERCENT /\ i - 1 \notin Specifiers(fmt))
<1>1. \A j : j \in Specifiers(fmt) <=>
                 j \in 1 .. n - 1 /\ fmt[j] = PERCENT /\ Cardinality(RunTo(fmt, j)) % 2 = 1
    BY DEF Specifiers, RunTo
<1>2. CASE ~(i < n) \/ fmt[i] # PERCENT
    BY <1>1, <1>2
<1>3. CASE i < n /\ fmt[i] = PERCENT
    <2> DEFINE A == RunTo(fmt, i - 1)
    <2>1. i \in 1 .. n - 1 /\ i \in Nat /\ i - 1 \in Nat
        BY <1>3
    <2>2. A \subseteq 1 .. i - 1 /\ IsFiniteSet(1 .. i - 1) /\ i \notin 1 .. i - 1
        BY <2>1, FS_Interval DEF RunTo
    <2>3. IsFiniteSet(A) /\ i \notin A
        BY <2>2, FS_Subset
    <2>4. RunTo(fmt, i) = A \cup {i}
        <3>1. ASSUME NEW j \in RunTo(fmt, i) PROVE j \in A \cup {i}
            <4>1. j \in 1 .. i /\ \A k \in j .. i : fmt[k] = PERCENT
                BY DEF RunTo
            <4>2. CASE j # i
                <5>1. j \in 1 .. i - 1 /\ \A k \in j .. i - 1 : k \in j .. i
                    BY <2>1, <4>1, <4>2
                <5>2. QED
                    BY <4>1, <5>1 DEF RunTo
            <4>3. QED
                BY <4>2
        <3>2. ASSUME NEW j \in A PROVE j \in RunTo(fmt, i)
            <4>1. j \in 1 .. i - 1 /\ \A k \in j .. i - 1 : fmt[k] = PERCENT
                BY DEF RunTo
            <4>2. j \in 1 .. i /\ \A k \in j .. i : k \in j .. i - 1 \/ k = i
                BY <2>1, <4>1
            <4>3. QED
                BY <1>3, <4>1, <4>2 DEF RunTo
        <3>3. i \in RunTo(fmt, i)
            <4>1. i \in 1 .. i /\ \A k \in i .. i : k = i
                BY <2>1
            <4>2. QED
                BY <1>3, <4>1 DEF RunTo
        <3>4. QED
            BY <3>1, <3>2, <3>3
    <2>5. Cardinality(A \cup {i}) = Cardinality(A) + 1 /\ Cardinality(A) \in Nat
        BY <2>3, FS_AddElement, FS_CardinalityType
    <2>6. i \in Specifiers(fmt) <=> (Cardinality(A) + 1) % 2 = 1
        BY <1>1, <1>3, <2>1, <2>4, <2>5
    <2>7. i - 1 \in Specifiers(fmt) <=> Cardinality(A) % 2 = 1
        <3>1. CASE i - 1 \in 1 .. n - 1 /\ fmt[i - 1] = PERCENT
            BY <1>1, <3>1
        <3>2. CASE ~(i - 1 \in 1 .. n - 1 /\ fmt[i - 1] = PERCENT)
            <4>1. A = {}
                <5> SUFFICES ASSUME NEW j \in A PROVE FALSE
                    OBVIOUS
                <5>1. j \in 1 .. i - 1 /\ \A k \in j .. i - 1 : fmt[k] = PERCENT
                    BY DEF RunTo
                <5>2. i - 1 \in j .. i - 1 /\ i - 1 \in 1 .. n - 1
                    BY <2>1, <5>1
                <5>3. QED
                    BY <3>2, <5>1, <5>2
            <4>2. Cardinality(A) = 0
                BY <4>1, FS_EmptySet
            <4>3. QED
                BY <1>1, <3>2, <4>2
        <3>3. QED
            BY <3>1, <3>2
    <2>8. \A c \in Nat : (c + 1) % 2 = 1 <=> c % 2 # 1
        OBVIOUS
    <2>9. QED
        BY <1>3, <2>5, <2>6, <2>7, <2>8
<1> QED
    BY <1>2, <1>3

\* The specifiers before a position that have taken an argument.
Taken(fmt, i) == {j \in Specifiers(fmt) : j < i /\ fmt[j + 1] \in {SPEC_D, SPEC_C}}

\* There are finitely many of them.
LEMMA TakenFinite ==
    ASSUME NEW fmt, NEW n \in Nat, Len(fmt) = n, NEW i \in Int
    PROVE  IsFiniteSet(Taken(fmt, i)) /\ Cardinality(Taken(fmt, i)) \in Nat
<1>1. IsFiniteSet(1 .. n - 1) /\ Taken(fmt, i) \subseteq 1 .. n - 1
    BY FS_Interval DEF Taken, Specifiers
<1>2. IsFiniteSet(Taken(fmt, i))
    BY <1>1, FS_Subset
<1> QED
    BY <1>2, FS_CardinalityType

\* The next argument is the one after, behind a specifier that takes one.
LEMMA ArgumentBy ==
    ASSUME NEW fmt, NEW n \in Nat, Len(fmt) = n, NEW i \in 1 .. n
    PROVE  ArgumentOf(fmt, i + 1) =
               ArgumentOf(fmt, i) + (IF i \in Specifiers(fmt) THEN Takes(fmt[i + 1]) ELSE 0)
<1>1. ArgumentOf(fmt, i) = 1 + Cardinality(Taken(fmt, i))
    BY DEF ArgumentOf, Taken
<1>2. ArgumentOf(fmt, i + 1) = 1 + Cardinality(Taken(fmt, i + 1))
    BY DEF ArgumentOf, Taken
<1>3. IsFiniteSet(Taken(fmt, i)) /\ Cardinality(Taken(fmt, i)) \in Nat /\ i \notin Taken(fmt, i)
    <2>1. i \in Int /\ ~(i < i)
        OBVIOUS
    <2>2. i \notin Taken(fmt, i)
        BY <2>1 DEF Taken
    <2>3. QED
        BY <2>1, <2>2, TakenFinite
<1>4. \A j \in Specifiers(fmt) : j \in Int /\ (j < i + 1 <=> (j < i \/ j = i))
    <2>1. Specifiers(fmt) \subseteq 1 .. n - 1
        BY DEF Specifiers
    <2>2. \A j \in 1 .. n - 1 : j \in Int /\ (j < i + 1 <=> (j < i \/ j = i))
        OBVIOUS
    <2>3. QED
        BY <2>1, <2>2
<1>5. CASE i \in Specifiers(fmt) /\ fmt[i + 1] \in {SPEC_D, SPEC_C}
    <2>1. Taken(fmt, i + 1) = Taken(fmt, i) \cup {i}
        BY <1>4, <1>5 DEF Taken
    <2>2. Cardinality(Taken(fmt, i) \cup {i}) = Cardinality(Taken(fmt, i)) + 1
        BY <1>3, FS_AddElement
    <2>3. Takes(fmt[i + 1]) = 1
        BY <1>5 DEF Takes
    <2>4. (IF i \in Specifiers(fmt) THEN Takes(fmt[i + 1]) ELSE 0) = 1
        BY <1>5, <2>3
    <2>5. Cardinality(Taken(fmt, i + 1)) = Cardinality(Taken(fmt, i)) + 1
        BY <2>1, <2>2
    <2>6. ArgumentOf(fmt, i + 1) = ArgumentOf(fmt, i) + 1
        BY <1>1, <1>2, <1>3, <2>5
    <2>7. QED
        BY <2>4, <2>6
<1>6. CASE ~(i \in Specifiers(fmt) /\ fmt[i + 1] \in {SPEC_D, SPEC_C})
    <2>1. Taken(fmt, i + 1) = Taken(fmt, i)
        BY <1>4, <1>6 DEF Taken
    <2>2. (IF i \in Specifiers(fmt) THEN Takes(fmt[i + 1]) ELSE 0) = 0
        BY <1>6 DEF Takes
    <2>3. QED
        BY <1>1, <1>2, <1>3, <2>1, <2>2
<1> QED
    BY <1>5, <1>6

\* A specifier that takes an argument finds one.
LEMMA ArgumentFits ==
    ASSUME NEW fmt, NEW n \in Nat, Len(fmt) = n, NEW max \in Nat,
           Cardinality({j \in 1 .. n : fmt[j] \in {SPEC_D, SPEC_C}}) <= max,
           NEW i \in Specifiers(fmt), fmt[i + 1] \in {SPEC_D, SPEC_C}
    PROVE  ArgumentOf(fmt, i) \in 1 .. max
<1> DEFINE A == Taken(fmt, i)
           B == {j \in 1 .. n : fmt[j] \in {SPEC_D, SPEC_C}}
           f == [j \in A \cup {i} |-> j + 1]
<1>1. Specifiers(fmt) \subseteq 1 .. n - 1
    BY DEF Specifiers
<1>2. i \in 1 .. n - 1 /\ IsFiniteSet(A) /\ Cardinality(A) \in Nat /\ i \notin A
    <2>1. i \in 1 .. n - 1
        BY <1>1
    <2>2. i \in Int /\ ~(i < i)
        BY <2>1
    <2>3. i \notin A
        BY <2>2 DEF Taken
    <2>4. QED
        BY <2>1, <2>2, <2>3, TakenFinite
<1>3. \A j \in A \cup {i} : j \in 1 .. n - 1 /\ fmt[j + 1] \in {SPEC_D, SPEC_C}
    BY <1>1, <1>2 DEF Taken
<1>4. \A j \in A \cup {i} : j + 1 \in 1 .. n /\ j \in Int
    BY <1>3
<1>5. IsFiniteSet(1 .. n) /\ B \subseteq 1 .. n
    BY FS_Interval
<1>6. IsFiniteSet(B)
    BY <1>5, FS_Subset
<1>7. IsFiniteSet(A \cup {i}) /\ Cardinality(A \cup {i}) = Cardinality(A) + 1
    BY <1>2, FS_AddElement
<1>8. f \in Injection(A \cup {i}, B)
    <2> HIDE DEF A
    <2>1. \A j \in A \cup {i} : j + 1 \in B
        BY <1>3, <1>4
    <2> HIDE DEF B
    <2>2. f \in [A \cup {i} -> B]
        BY <2>1
    <2>3. \A j, k \in A \cup {i} : f[j] = f[k] => j = k
        BY <1>4
    <2> HIDE DEF f
    <2>4. QED
        BY <2>2, <2>3, Fun_IsInj
<1>9. Cardinality(A \cup {i}) <= Cardinality(B)
    <2> HIDE DEF A, B, f
    <2>1. QED
        BY <1>6, <1>8, FS_Injection
<1>10. ArgumentOf(fmt, i) = 1 + Cardinality(A)
    BY DEF ArgumentOf, Taken
<1>11. Cardinality(B) \in Nat /\ Cardinality(B) <= max
    BY <1>6, FS_CardinalityType
<1> HIDE DEF A, B
<1> QED
    BY <1>2, <1>7, <1>9, <1>10, <1>11

\* A text turned round is a text.
LEMMA ReversedText ==
    ASSUME NEW s \in Seq(Int)
    PROVE  Reversed(s) \in Seq(Int)
<1>1. 0 \in Int
    OBVIOUS
<1> QED
    BY <1>1, ReversedBy

\* The digits of a number, negative or not, are a text.
LEMMA DigitsText ==
    ASSUME NEW n \in Int
    PROVE  (IF n < 0 THEN JunkOf(n, 10) ELSE DigitsOf(n, 10)) \in Seq(Int)
<1>1. \A m \in Nat : DigitsOf(m, 10) \in Seq(Int)
    <2>1. ASSUME NEW m \in Nat PROVE DigitsOf(m, 10) \in Seq(Int)
        <3>1. 10 \in Nat \ {0, 1}
            OBVIOUS
        <3>2. DigitsOf(m, 10) \in Seq(0 .. 10 - 1)
            BY <3>1, DigitsBy
        <3> DEFINE d == DigitsOf(m, 10)
        <3> HIDE DEF d
        <3>3. d \in Seq(0 .. 10 - 1) => d \in Seq(Int)
            OBVIOUS
        <3>4. QED
            BY <3>2, <3>3 DEF d
    <2>2. QED
        BY <2>1
<1>2. CASE n < 0
    <2> DEFINE d == DigitsOf(-n, 10)
               junk == [j \in DOMAIN d |-> IF d[j] = 0 THEN 0 ELSE JUNK]
    <2>1. -n \in Nat
        BY <1>2
    <2>2. d \in Seq(Int)
        BY <1>1, <2>1
    <2>3. JunkOf(n, 10) = junk
        BY DEF JunkOf
    <2> HIDE DEF d
    <2>4. DOMAIN d = 1 .. Len(d) /\ Len(d) \in Nat
        BY <2>2
    <2>5. junk \in [1 .. Len(d) -> Int]
        BY <2>4 DEF JUNK
    <2> HIDE DEF junk
    <2>6. junk \in Seq(Int)
        BY <2>4, <2>5
    <2>7. QED
        BY <1>2, <2>3, <2>6
<1>3. CASE ~(n < 0)
    BY <1>1, <1>3
<1> QED
    BY <1>2, <1>3

\* An int is printed as a text, INT_MIN too.
LEMMA PrintedIsText ==
    ASSUME NEW val \in Int
    PROVE  PrintedInt(val) \in Seq(Int)
<1>1. ASSUME NEW m \in Int PROVE convert_to_base_string(m, 10) \in Seq(Int)
    <2> DEFINE n == IF m < 0 THEN Int32(-m) ELSE m
               sign == IF m < 0 THEN <<MINUS>> ELSE <<>>
               digits == IF n < 0 THEN JunkOf(n, 10) ELSE DigitsOf(n, 10)
    <2>1. n \in Int
        <3>1. -m \in Int
            OBVIOUS
        <3>2. QED
            BY <3>1, IntStays
    <2>2. sign \in Seq(Int)
        BY DEF MINUS
    <2>3. convert_to_base_string(m, 10) = Reversed(sign \o digits)
        BY DEF convert_to_base_string
    <2> HIDE DEF n, sign
    <2>4. digits \in Seq(Int)
        BY <2>1, DigitsText
    <2> HIDE DEF digits
    <2>5. sign \o digits \in Seq(Int)
        BY <2>2, <2>4
    <2>6. QED
        BY <2>3, <2>5, ReversedText
<1>2. CASE val < 0
    <2>1. -val \in Int
        OBVIOUS
    <2>2. Int32(-val) \in Int
        BY <2>1, IntStays
    <2>3. convert_to_base_string(Int32(-val), 10) \in Seq(Int)
        BY <1>1, <2>2
    <2>4. <<MINUS>> \in Seq(Int)
        BY DEF MINUS
    <2> DEFINE t == convert_to_base_string(Int32(-val), 10)
    <2> HIDE DEF t
    <2>5. PrintedInt(val) = <<MINUS>> \o t
        BY <1>2 DEF PrintedInt, t
    <2>6. t \in Seq(Int)
        BY <2>3 DEF t
    <2>7. QED
        BY <2>4, <2>5, <2>6
<1>3. CASE ~(val < 0)
    BY <1>1, <1>3 DEF PrintedInt
<1> QED
    BY <1>2, <1>3

\* So is an argument, for a specifier that the format may have.
LEMMA ConvertedIsText ==
    ASSUME NEW spec \in Marks, NEW arg, spec \in {SPEC_D, SPEC_C} => arg \in Int
    PROVE  Converted(spec, arg) \in Seq(Int)
<1>1. CASE spec = SPEC_D
    <2>1. Converted(spec, arg) = PrintedInt(arg)
        BY <1>1 DEF Converted, SPEC_D, SPEC_C
    <2>2. arg \in Int
        BY <1>1
    <2>3. QED
        BY <2>1, <2>2, PrintedIsText
<1>2. CASE spec = SPEC_C
    <2>1. Converted(spec, arg) = <<arg>>
        BY <1>2 DEF Converted, SPEC_D, SPEC_C
    <2>2. arg \in Int
        BY <1>2
    <2>3. QED
        BY <2>1, <2>2
<1>3. CASE spec \notin {SPEC_D, SPEC_C}
    <2>1. Converted(spec, arg) = <<>>
        BY <1>3 DEF Converted
    <2>2. QED
        BY <2>1
<1> QED
    BY <1>1, <1>2, <1>3

\* Arguments are numbered from 1 on.
LEMMA ArgumentOfType ==
    ASSUME NEW fmt, NEW n \in Nat, Len(fmt) = n, NEW i \in Int
    PROVE  ArgumentOf(fmt, i) \in Nat /\ ArgumentOf(fmt, 1) = 1
<1>1. \A j : ArgumentOf(fmt, j) = 1 + Cardinality(Taken(fmt, j))
    BY DEF ArgumentOf, Taken
<1>2. Cardinality(Taken(fmt, i)) \in Nat
    BY TakenFinite
<1>3. Taken(fmt, 1) = {}
    <2>1. \A j \in 1 .. n - 1 : ~(j < 1)
        OBVIOUS
    <2>2. QED
        BY <2>1 DEF Taken, Specifiers
<1>4. Cardinality(Taken(fmt, 1)) = 0
    BY <1>3, FS_EmptySet
<1> QED
    BY <1>1, <1>2, <1>4

\* What each position of a format prints.
LEMMA PrintedAtIsText ==
    ASSUME NEW fmt \in Seq(Marks), NEW vals \in Seq(Int),
           Cardinality({j \in DOMAIN fmt : fmt[j] \in {SPEC_D, SPEC_C}}) <= Len(vals),
           NEW i \in 1 .. Len(fmt)
    PROVE  PrintedAt(fmt, vals, i) \in Seq(Int)
<1>1. Len(fmt) \in Nat /\ DOMAIN fmt = 1 .. Len(fmt) /\ fmt[i] \in Marks
    OBVIOUS
<1>2. CASE i \in Specifiers(fmt)
    <2>1. i \in 1 .. Len(fmt) - 1
        BY <1>2 DEF Specifiers
    <2>2. fmt[i + 1] \in Marks
        BY <2>1
    <2>3. Len(vals) \in Nat
        OBVIOUS
    <2>4. fmt[i + 1] \in {SPEC_D, SPEC_C} => ArgumentOf(fmt, i) \in 1 .. Len(vals)
        BY <1>1, <1>2, <2>3, ArgumentFits
    <2>5. fmt[i + 1] \in {SPEC_D, SPEC_C} => vals[ArgumentOf(fmt, i)] \in Int
        BY <2>4
    <2>6. Converted(fmt[i + 1], vals[ArgumentOf(fmt, i)]) \in Seq(Int)
        BY <2>2, <2>5, ConvertedIsText
    <2>7. QED
        BY <1>2, <2>6 DEF PrintedAt
<1>3. CASE i \notin Specifiers(fmt)
    <2>1. fmt[i] \in Int
        BY <1>1 DEF Marks, PERCENT, SPEC_D, SPEC_C, JUNK
    <2>2. <<fmt[i]>> \in Seq(Int) /\ <<>> \in Seq(Int)
        BY <2>1
    <2>3. QED
        BY <1>3, <2>2 DEF PrintedAt
<1> QED
    BY <1>2, <1>3

Runs == [buffer : Seq(Int), arg : Nat, taken : BOOLEAN]

\* One character of a format, and what it adds to the buffer.
LEMMA CharacterPrints ==
    ASSUME NEW fmt \in Seq(Marks), NEW vals \in Seq(Int),
           Cardinality({j \in DOMAIN fmt : fmt[j] \in {SPEC_D, SPEC_C}}) <= Len(vals),
           NEW i \in 1 .. Len(fmt), NEW r \in Runs,
           r.arg = ArgumentOf(fmt, i), r.taken <=> i - 1 \in Specifiers(fmt)
    PROVE  /\ After(r, fmt, vals, i) \in Runs
           /\ After(r, fmt, vals, i).buffer = r.buffer \o PrintedAt(fmt, vals, i)
           /\ After(r, fmt, vals, i).arg = ArgumentOf(fmt, i + 1)
           /\ After(r, fmt, vals, i).taken <=> i \in Specifiers(fmt)
<1> DEFINE n == Len(fmt)
           p == PrintedAt(fmt, vals, i)
           a == After(r, fmt, vals, i)
<1>1. n \in Nat /\ i \in Int /\ i + 1 \in Int
    OBVIOUS
<1>2. p \in Seq(Int)
    BY PrintedAtIsText
<1>3. i \in Specifiers(fmt) <=> (i < n /\ fmt[i] = PERCENT /\ i - 1 \notin Specifiers(fmt))
    BY <1>1, SpecifierAfter
<1>4. ArgumentOf(fmt, i + 1) =
          ArgumentOf(fmt, i) + (IF i \in Specifiers(fmt) THEN Takes(fmt[i + 1]) ELSE 0)
    BY <1>1, ArgumentBy
<1>5. ArgumentOf(fmt, i) \in Nat /\ ArgumentOf(fmt, i + 1) \in Nat
    BY <1>1, ArgumentOfType
<1>6. r.buffer \in Seq(Int) /\ r.arg \in Nat /\ r.taken \in BOOLEAN
    BY DEF Runs
<1>7. r = [buffer |-> r.buffer, arg |-> r.arg, taken |-> r.taken]
    BY DEF Runs
<1>8. CASE r.taken
    <2>1. a = [buffer |-> r.buffer, arg |-> r.arg, taken |-> FALSE]
        <3>1. a = [r EXCEPT !.taken = FALSE]
            BY <1>8 DEF After
        <3>2. QED
            BY <1>7, <3>1
    <2>2. i \notin Specifiers(fmt) /\ i - 1 \in Specifiers(fmt)
        BY <1>3, <1>8
    <2>3. p = <<>>
        BY <2>2 DEF PrintedAt
    <2>4. r.buffer \o p = r.buffer
        BY <1>6, <2>3
    <2>5. ArgumentOf(fmt, i + 1) = r.arg
        BY <1>4, <1>5, <2>2
    <2> HIDE DEF a, p
    <2>6. a \in Runs
        BY <1>6, <2>1 DEF Runs
    <2>7. a.buffer = r.buffer \o p /\ a.arg = ArgumentOf(fmt, i + 1) /\ a.taken = FALSE
        BY <2>1, <2>4, <2>5
    <2>8. QED
        BY <2>2, <2>6, <2>7 DEF a, p
<1>9. CASE ~r.taken /\ fmt[i] = PERCENT /\ i < Len(fmt)
    <2> DEFINE c == Converted(fmt[i + 1], vals[r.arg])
    <2>1. a = [buffer |-> r.buffer \o c, arg |-> r.arg + Takes(fmt[i + 1]), taken |-> TRUE]
        BY <1>9 DEF After
    <2>2. i \in Specifiers(fmt)
        BY <1>3, <1>9
    <2>3. p = c
        BY <2>2 DEF PrintedAt
    <2>4. ArgumentOf(fmt, i + 1) = r.arg + Takes(fmt[i + 1])
        BY <1>4, <2>2
    <2> HIDE DEF a, p, c
    <2>5. r.buffer \o c \in Seq(Int) /\ r.arg + Takes(fmt[i + 1]) \in Nat
        BY <1>2, <1>5, <1>6, <2>3, <2>4
    <2>6. a \in Runs
        BY <2>1, <2>5 DEF Runs
    <2>7. a.buffer = r.buffer \o p /\ a.arg = ArgumentOf(fmt, i + 1) /\ a.taken = TRUE
        BY <2>1, <2>3, <2>4
    <2>8. QED
        BY <2>2, <2>6, <2>7 DEF a, p
<1>10. CASE ~r.taken /\ ~(fmt[i] = PERCENT /\ i < Len(fmt))
    <2>1. a = [buffer |-> Append(r.buffer, fmt[i]), arg |-> r.arg, taken |-> FALSE]
        <3>1. a = [r EXCEPT !.buffer = Append(@, fmt[i])]
            BY <1>10 DEF After
        <3>2. r.taken = FALSE
            BY <1>6, <1>10
        <3>3. QED
            BY <1>7, <3>1, <3>2
    <2>2. i \notin Specifiers(fmt) /\ i - 1 \notin Specifiers(fmt)
        BY <1>3, <1>10
    <2>3. p = <<fmt[i]>>
        BY <2>2 DEF PrintedAt
    <2>4. Append(r.buffer, fmt[i]) = r.buffer \o p /\ r.buffer \o p \in Seq(Int)
        <3>1. fmt[i] \in Int
            <4>1. fmt[i] \in Marks
                OBVIOUS
            <4>2. QED
                BY <4>1 DEF Marks, PERCENT, SPEC_D, SPEC_C, JUNK
        <3>2. \A b \in Seq(Int), x \in Int : Append(b, x) = b \o <<x>> /\ b \o <<x>> \in Seq(Int)
            BY SMTT(40)
        <3> HIDE DEF p
        <3>3. QED
            BY <1>6, <2>3, <3>1, <3>2
    <2>5. ArgumentOf(fmt, i + 1) = r.arg
        BY <1>4, <1>5, <2>2
    <2> HIDE DEF a, p
    <2>6. a \in Runs
        BY <1>6, <2>1, <2>4 DEF Runs
    <2>7. a.buffer = r.buffer \o p /\ a.arg = ArgumentOf(fmt, i + 1) /\ a.taken = FALSE
        BY <2>1, <2>4, <2>5
    <2>8. QED
        BY <2>2, <2>6, <2>7 DEF a, p
<1> QED
    BY <1>8, <1>9, <1>10

\* printf prints each part of a format where it is.
LEMMA PrintfIs ==
    ASSUME NEW fmt \in Seq(Marks), NEW vals \in Seq(Int),
           Cardinality({j \in DOMAIN fmt : fmt[j] \in {SPEC_D, SPEC_C}}) <= Len(vals)
    PROVE  argsToBuffer(fmt, vals) =
               Seqs!FlattenSeq([i \in DOMAIN fmt |-> PrintedAt(fmt, vals, i)])
<1> DEFINE n == Len(fmt)
           s == [i \in DOMAIN fmt |-> PrintedAt(fmt, vals, i)]
<1>1. n \in Nat /\ DOMAIN fmt = 1 .. n
    OBVIOUS
<1>2. PICK e : /\ e[0] = Fresh
               /\ \A k \in 1 .. n : e[k] = After(e[k - 1], fmt, vals, k)
               /\ argsToBuffer(fmt, vals) = e[n].buffer
    BY <1>1, PrintfRuns
<1>3. s \in Seq(Seq(Int)) /\ Len(s) = n /\ \A i \in 1 .. n : s[i] = PrintedAt(fmt, vals, i)
    <2>1. s \in [1 .. n -> Seq(Int)]
        BY <1>1, PrintedAtIsText
    <2>2. QED
        BY <1>1, <2>1
<1> HIDE DEF s
<1>4. CASE n = 0
    <2>1. s = <<>>
        BY <1>3, <1>4
    <2>2. Seqs!FlattenSeq(s) = <<>>
        BY <2>1 DEF Seqs!FlattenSeq
    <2>3. e[n].buffer = <<>>
        BY <1>2, <1>4 DEF Fresh
    <2>4. QED
        BY <1>2, <2>2, <2>3 DEF s
<1>5. CASE n # 0
    <2>1. Len(s) > 0
        BY <1>1, <1>3, <1>5
    <2>2. PICK fl : /\ fl[1] = s[1]
                    /\ \A i \in 2 .. Len(s) : fl[i] = fl[i - 1] \o s[i]
                    /\ Seqs!FlattenSeq(s) = fl[Len(s)]
        BY <1>3, <2>1, FlattenRuns
    <2> DEFINE upTo(k) == IF k = 0 THEN <<>> ELSE fl[k]
               S == {k \in 0 .. n : /\ e[k] \in Runs /\ e[k].buffer = upTo(k)
                                    /\ e[k].arg = ArgumentOf(fmt, k + 1)
                                    /\ e[k].taken <=> k \in Specifiers(fmt)}
    <2>3. 0 \in S
        <3>1. e[0] \in Runs /\ e[0].buffer = <<>> /\ e[0].arg = 1 /\ ~e[0].taken
            BY <1>2 DEF Fresh, Runs
        <3>2. 0 \notin Specifiers(fmt)
            BY DEF Specifiers
        <3>3. ArgumentOf(fmt, 0 + 1) = 1
            <4>1. 0 \in Int /\ 0 + 1 = 1
                OBVIOUS
            <4>2. QED
                BY <1>1, <4>1, ArgumentOfType
        <3>4. 0 \in 0 .. n
            BY <1>1
        <3>5. QED
            BY <3>1, <3>2, <3>3, <3>4
    <2>4. ASSUME NEW k \in 0 .. n - 1, k \in S PROVE k + 1 \in S
        <3> DEFINE i == k + 1
        <3>1. i \in 1 .. n /\ i - 1 = k /\ i \in 0 .. n /\ i # 0 /\ k \in Nat
            BY <1>1
        <3>2. /\ e[k] \in Runs /\ e[k].buffer = upTo(k) /\ e[k].arg = ArgumentOf(fmt, i)
              /\ e[k].taken <=> k \in Specifiers(fmt)
            BY <2>4
        <3>3. upTo(i) = upTo(k) \o PrintedAt(fmt, vals, i)
            <4>1. CASE k = 0
                <5>1. PrintedAt(fmt, vals, 1) \in Seq(Int) /\ fl[1] = PrintedAt(fmt, vals, 1)
                    BY <1>3, <2>2, <3>1, <4>1, PrintedAtIsText
                <5>2. <<>> \o PrintedAt(fmt, vals, 1) = PrintedAt(fmt, vals, 1)
                    BY <5>1
                <5>3. QED
                    BY <4>1, <5>1, <5>2
            <4>2. CASE k # 0
                <5>1. i \in 2 .. Len(s) /\ s[i] = PrintedAt(fmt, vals, i)
                    BY <1>1, <1>3, <3>1, <4>2
                <5>2. QED
                    BY <2>2, <3>1, <4>2, <5>1
            <4>3. QED
                BY <4>1, <4>2
        <3>4. e[i] = After(e[k], fmt, vals, i)
            BY <1>2, <3>1
        <3> HIDE DEF i, upTo
        <3> DEFINE r == e[k]
        <3>41. r \in Runs /\ r.arg = ArgumentOf(fmt, i) /\ (r.taken <=> i - 1 \in Specifiers(fmt))
            BY <3>1, <3>2
        <3>42. e[i] = After(r, fmt, vals, i)
            BY <3>4
        <3> HIDE DEF r
        <3>43. i \in 1 .. Len(fmt)
            BY <3>1
        <3>44. /\ After(r, fmt, vals, i) \in Runs
               /\ After(r, fmt, vals, i).buffer = r.buffer \o PrintedAt(fmt, vals, i)
               /\ After(r, fmt, vals, i).arg = ArgumentOf(fmt, i + 1)
               /\ After(r, fmt, vals, i).taken <=> i \in Specifiers(fmt)
            BY <3>41, <3>43, CharacterPrints
        <3>5. /\ e[i] \in Runs /\ e[i].buffer = e[k].buffer \o PrintedAt(fmt, vals, i)
              /\ e[i].arg = ArgumentOf(fmt, i + 1)
              /\ e[i].taken <=> i \in Specifiers(fmt)
            BY <3>42, <3>44 DEF r
        <3>6. i \in S
            BY <3>1, <3>2, <3>3, <3>5
        <3>7. QED
            BY <3>6 DEF i
    <2>5. \A k \in 0 .. n : k \in S
        <3> HIDE DEF S
        <3>1. QED
            BY <1>1, <2>3, <2>4, UpTo
    <2>6. n \in 0 .. n
        BY <1>1
    <2>7. e[n].buffer = fl[n]
        BY <1>5, <2>5, <2>6
    <2>8. QED
        BY <1>2, <1>3, <2>2, <2>7 DEF s
<1> QED
    BY <1>4, <1>5

\* The texts of the model are sequences.
LEMMA TextsAre ==
    ASSUME NEW T, NEW s \in Texts(T)
    PROVE  s \in Seq(T)
<1>1. PICK n \in 0 .. MaxDigits : s \in [1 .. n -> T]
    BY DEF Texts
<1>2. n \in Nat
    BY <1>1, NumberAssumption
<1> QED
    BY <1>1, <1>2

\* What the operations are called with.
LEMMA CallsAre ==
    ASSUME NEW c \in Calls
    PROVE  /\ c.f \in {"print_int", "intToString", "print_padded_int"} => c.n \in IntValues
           /\ c.f = "print_padded_int" => c.width \in Nat
           /\ c.f \in {"stringToInt", "convert"} => c.s \in Seq(Nat)
           /\ c.f = "convert" => c.from \in Bases /\ c.to \in Bases
           /\ c.f = "toUtcMinus3" => c.t \in Clock /\ c.t.day <= LastDay(c.t.month, c.t.year)
           /\ c.f = "mem" => c.used \in Nat /\ c.total \in Nat \ {0} /\ c.used <= c.total
           /\ c.f = "printf" =>
                  /\ c.fmt \in Seq(Marks) /\ c.args \in Seq(Int)
                  /\ Cardinality({j \in DOMAIN c.fmt : c.fmt[j] \in {SPEC_D, SPEC_C}}) <= Len(c.args)
<1> DEFINE Ints == [f : {"print_int", "intToString"}, n : IntValues]
           Padding == [f : {"print_padded_int"}, n : IntValues, width : 0 .. MaxDigits]
           Parsing == [f : {"satoi", "stringToInt"}, s : Texts({0, 1, 9, MINUS, SPACE, JUNK})]
           Converting == [f : {"convert"}, s : Texts({0, 1, 2, 8, 10, 15}), from : Bases, to : Bases]
           Clocks == {t \in [hour : {0, 2, 3, 23}, day : 1 .. 31, month : 1 .. 12, year : {0, 1, 3, 4, 99}] :
                          t.day <= LastDay(t.month, t.year)}
           Times == [f : {"toUtcMinus3"}, t : Clocks]
           Basing == [f : {"convert_to_base_string"}, n : IntValues, base : Bases]
           Printing == [f : {"printf"}, fmt : Formats, args : {Arguments}]
           Amounts == UNION {(0 .. total) \X {total} : total \in Totals}
           Memory == {[f |-> "mem", used |-> m[1], total |-> m[2]] : m \in Amounts}
<1>1. c \in Ints \cup Padding \cup Parsing \cup Converting \cup Times \cup Basing \cup Printing \cup Memory
    BY DEF Calls
<1>2. CASE c \in Ints
    BY <1>2
<1>3. CASE c \in Padding
    <2>1. \A k \in 0 .. MaxDigits : k \in Nat
        BY NumberAssumption
    <2>2. QED
        BY <1>3, <2>1
<1>4. CASE c \in Parsing
    <2>1. c.f \in {"satoi", "stringToInt"} /\ c.s \in Texts({0, 1, 9, MINUS, SPACE, JUNK})
        BY <1>4
    <2>2. c.s \in Seq({0, 1, 9, MINUS, SPACE, JUNK})
        BY <2>1, TextsAre
    <2>3. {0, 1, 9, MINUS, SPACE, JUNK} \subseteq Nat
        BY DEF MINUS, SPACE, JUNK
    <2>4. c.s \in Seq(Nat)
        BY <2>2, <2>3
    <2>5. QED
        BY <2>1, <2>4
<1>5. CASE c \in Converting
    <2>1. c.f = "convert" /\ c.s \in Texts({0, 1, 2, 8, 10, 15}) /\ c.from \in Bases /\ c.to \in Bases
        BY <1>5
    <2>2. c.s \in Seq({0, 1, 2, 8, 10, 15})
        BY <2>1, TextsAre
    <2>3. {0, 1, 2, 8, 10, 15} \subseteq Nat
        OBVIOUS
    <2>4. c.s \in Seq(Nat)
        BY <2>2, <2>3
    <2>5. QED
        BY <2>1, <2>4
<1>6. CASE c \in Times
    <2>1. c.f = "toUtcMinus3" /\ c.t \in Clocks
        BY <1>6
    <2>2. c.t \in Clock /\ c.t.day <= LastDay(c.t.month, c.t.year)
        BY <2>1 DEF Clock
    <2> HIDE DEF Clocks
    <2>3. QED
        BY <2>1, <2>2
<1>7. CASE c \in Basing
    BY <1>7
<1>8. CASE c \in Printing
    <2>1. c.f = "printf" /\ c.fmt \in Formats /\ c.args = Arguments
        BY <1>8
    <2>2. /\ c.fmt \in Texts(Marks)
          /\ Cardinality({j \in DOMAIN c.fmt : c.fmt[j] \in {SPEC_D, SPEC_C}}) <= Len(c.args)
        BY <2>1 DEF Formats, Marks
    <2>3. c.fmt \in Seq(Marks)
        BY <2>2, TextsAre
    <2>4. c.args \in Seq(Int)
        BY <2>1 DEF Arguments
    <2>5. QED
        BY <2>1, <2>2, <2>3, <2>4
<1>9. CASE c \in Memory
    <2>1. PICK m \in Amounts : c = [f |-> "mem", used |-> m[1], total |-> m[2]]
        BY <1>9
    <2>2. PICK total \in Totals : m \in (0 .. total) \X {total}
        BY <2>1
    <2>3. c.f = "mem" /\ c.used \in 0 .. total /\ c.total = total
        BY <2>1, <2>2
    <2>4. total \in Nat \ {0}
        BY <2>2, NumberAssumption
    <2>5. c.used \in Nat /\ c.used <= total
        BY <2>3, <2>4
    <2>6. QED
        BY <2>3, <2>4, <2>5
<1> HIDE DEF Ints, Padding, Parsing, Converting, Times, Basing, Printing, Memory
<1> QED
    BY <1>1, <1>2, <1>3, <1>4, <1>5, <1>6, <1>7, <1>8, <1>9

\* What a call has returned is its result.
NumberInv == call \in Calls /\ (returned => output = Result)

\* The operations are functions of what they are called with.
LEMMA NumberInvHolds == NumberSpec => []NumberInv
<1>1. NumberInit => NumberInv
    BY DEF NumberInit, NumberInv
<1>2. NumberInv /\ [NumberNext]_numberVars => NumberInv'
    <2> SUFFICES ASSUME NumberInv, [NumberNext]_numberVars PROVE NumberInv'
        OBVIOUS
    <2>1. CASE NumberNext
        <3>1. call' = call /\ output' = Result
            BY <2>1 DEF NumberNext
        <3>2. Result' = Result
            BY <3>1 DEF Result
        <3>3. Calls' = Calls
            BY DEF Calls
        <3>4. QED
            BY <3>1, <3>2, <3>3 DEF NumberInv
    <2>2. CASE UNCHANGED numberVars
        <3>1. call' = call /\ output' = output /\ returned' = returned
            BY <2>2 DEF numberVars
        <3>2. Result' = Result
            BY <3>1 DEF Result
        <3>3. Calls' = Calls
            BY DEF Calls
        <3>4. QED
            BY <3>1, <3>2, <3>3 DEF NumberInv
    <2>3. QED
        BY <2>1, <2>2
<1> QED
    BY <1>1, <1>2, PTL DEF NumberSpec

\* The time command shows the time three hours before the clock of the machine (LocalTimeIsUtcMinus3).
THEOREM LocalTimeIsRight == NumberSpec => []LocalTimeIsUtcMinus3
<1>1. NumberInv => LocalTimeIsUtcMinus3
    <2> SUFFICES ASSUME NumberInv, call.f = "toUtcMinus3", returned, Hours(call.t) >= 3
                 PROVE  /\ Hours(output[1]) = Hours(call.t) - 3
                        /\ output[1].hour \in 0 .. 23 /\ output[1].month \in 1 .. 12
                        /\ output[1].day >= 1
        BY DEF LocalTimeIsUtcMinus3
    <2>1. output = <<toUtcMinus3(call.t)>>
        BY DEF NumberInv, Result
    <2>2. call.t \in Clock /\ call.t.day <= LastDay(call.t.month, call.t.year)
        BY CallsAre DEF NumberInv
    <2>3. output[1] = toUtcMinus3(call.t)
        BY <2>1
    <2>4. QED
        BY <2>2, <2>3, ThreeHoursBack
<1> QED
    BY <1>1, NumberInvHolds, PTL

\* For ints of any width, any unit of memory and texts of any length: what the library writes it reads
\* back, and a format prints its arguments where its specifiers are (NumbersRoundTrip).
THEOREM NumbersComeBack == NumberSpec => []NumbersRoundTrip
<1>1. NumberInv => NumbersRoundTrip
    <2> SUFFICES ASSUME NumberInv, returned PROVE NumbersRoundTrip
        BY DEF NumbersRoundTrip
    <2>1. output = Result /\ call \in Calls
        BY DEF NumberInv
    <2>2. (call.f \in {"print_int", "intToString"} /\ call.n # INT_MIN) => satoi(output) = call.n
        <3> SUFFICES ASSUME call.f \in {"print_int", "intToString"}, call.n # INT_MIN
                     PROVE  satoi(output) = call.n
            OBVIOUS
        <3>1. call.n \in IntValues
            BY <2>1, CallsAre
        <3>2. call.n \in Int /\ PrintedInt(call.n) = Signed(call.n) /\ intToString(call.n) = Signed(call.n)
            BY <3>1, IntStays, IntIsSigned
        <3>3. output = Signed(call.n)
            BY <2>1, <3>2 DEF Result
        <3>4. QED
            BY <3>2, <3>3, SignedIsRead
    <2>3. (call.f = "stringToInt" /\ output # <<ERROR>>) => output = <<Int32(satoi(Unspaced(call.s)))>>
        <3> SUFFICES ASSUME call.f = "stringToInt", output # <<ERROR>>
                     PROVE  output = <<Int32(satoi(Unspaced(call.s)))>>
            OBVIOUS
        <3>1. output = <<stringToInt(call.s)>>
            BY <2>1 DEF Result
        <3>2. stringToInt(call.s) # ERROR
            BY <3>1
        <3>3. call.s \in Seq(Nat)
            BY <2>1, CallsAre
        <3>4. QED
            BY <3>1, <3>2, <3>3, ReadAlike
    <2>4. call.f = "convert" => ConvertKeepsTheValue
        <3> SUFFICES ASSUME call.f = "convert" PROVE ConvertKeepsTheValue
            OBVIOUS
        <3>1. output = convert(call.s, call.from, call.to)
            BY <2>1 DEF Result
        <3>2. call.s \in Seq(Nat) /\ call.from \in Bases /\ call.to \in Bases
            BY <2>1, CallsAre
        <3> DEFINE out == convert(call.s, call.from, call.to)
        <3>3. IF \E j \in DOMAIN call.s : call.s[j] >= call.from THEN out = <<ERROR>>
              ELSE ValueOf(call.s, call.from) \in IntValues =>
                      /\ ValueOf(out, call.to) = ValueOf(call.s, call.from)
                      /\ out[1] = 0 => Len(out) = 1
                      /\ \A j \in DOMAIN out : out[j] < call.to
            BY <3>2, ConvertKeeps
        <3>4. output = out
            BY <3>1
        <3> HIDE DEF out
        <3>5. QED
            BY <3>3, <3>4 DEF ConvertKeepsTheValue
    <2>5. call.f = "mem" => MemIsClose
        <3> SUFFICES ASSUME call.f = "mem" PROVE MemIsClose
            OBVIOUS
        <3>1. output = mem(call.used, call.total)
            BY <2>1 DEF Result
        <3>2. call.used \in Nat /\ call.total \in Nat \ {0} /\ call.used <= call.total
            BY <2>1, CallsAre
        <3> DEFINE out == mem(call.used, call.total)
                   unit == Power(UNIT, out[1])
        <3>3. /\ 2 * out[2] * unit - 2 * call.used \in -unit .. unit
              /\ out[4] \in 1 .. 13 /\ 13 * out[3] <= 100 * out[4]
              /\ out[4] = 13 => 10 * call.used >= 9 * call.total
            BY <3>2, MemClose
        <3>4. output = out
            BY <3>1
        <3> HIDE DEF out
        <3>5. QED
            BY <3>3, <3>4 DEF MemIsClose
    <2>6. (call.f = "print_padded_int" /\ call.n # INT_MIN) =>
              output[1] \in {call.width, Len(PrintedInt(call.n))} /\ output[1] >= call.width
        <3> SUFFICES ASSUME call.f = "print_padded_int", call.n # INT_MIN
                     PROVE  output[1] \in {call.width, Len(PrintedInt(call.n))} /\ output[1] >= call.width
            OBVIOUS
        <3>1. output = <<Padded(call.n, call.width)>>
            BY <2>1 DEF Result
        <3>2. call.n \in IntValues /\ call.width \in Nat
            BY <2>1, CallsAre
        <3>3. output[1] = Padded(call.n, call.width)
            BY <3>1
        <3>4. QED
            BY <3>2, <3>3, PaddedFits
    <2>7. call.f = "printf" =>
              output = Seqs!FlattenSeq([i \in DOMAIN call.fmt |-> PrintedAt(call.fmt, call.args, i)])
        <3> SUFFICES ASSUME call.f = "printf"
                     PROVE  output = Seqs!FlattenSeq(
                                [i \in DOMAIN call.fmt |-> PrintedAt(call.fmt, call.args, i)])
            OBVIOUS
        <3>1. output = argsToBuffer(call.fmt, call.args)
            BY <2>1 DEF Result
        <3>2. /\ call.fmt \in Seq(Marks) /\ call.args \in Seq(Int)
              /\ Cardinality({j \in DOMAIN call.fmt : call.fmt[j] \in {SPEC_D, SPEC_C}}) <= Len(call.args)
            BY <2>1, CallsAre
        <3>3. QED
            BY <3>1, <3>2, PrintfIs
    <2>8. QED
        BY <2>2, <2>3, <2>4, <2>5, <2>6, <2>7 DEF NumbersRoundTrip
<1> QED
    BY <1>1, NumberInvHolds, PTL
====
