---- MODULE ConsoleProofs ----
(***************************************************************************)
(* Proofs about the console.  Glyphs stay inside the margins, for every    *)
(* geometry of the screen that has room for one column, every font scale   *)
(* and every line length: all that is needed of a behaviour is that the    *)
(* cursor has coordinates; the rest is about the wrap and the scroll of    *)
(* printChar.  The line the shell holds is the one it shows, until it is   *)
(* erased back over the start of a line: then their lengths are.  Keys are *)
(* read in the order typed, for every size of the ring: its indices are as *)
(* far apart as it holds keys; and no reader sleeps on a key, because keys *)
(* and tokens are as many.                                                 *)
(***************************************************************************)
EXTENDS Console, WaitQueueProofs, FiniteSetTheorems, TLAPS

\* No cursor is a whole column left of the border.
Reached == {c \in [x : Int, y : Int] : c.x > BORDER_PADDING - Advance}
CursorOK == cursor \in Reached

LEMMA Geometry ==
    /\ WINDOW_WIDTH \in Int /\ WINDOW_HEIGHT \in Int /\ BORDER_PADDING \in Int
    /\ CHAR_WIDTH \in Int /\ CHAR_HEIGHT \in Int /\ fontScale \in Int
    /\ VERTICAL_PADDING \in Int /\ HORIZONTAL_PADDING \in Int
    /\ Advance \in Int /\ LineHeight \in Int /\ LastY \in Int
    BY ScreenAssumption DEF Advance, LineHeight, LastY

\* A glyph at scale fontScale is at least as high as the font.
LEMMA ScaledUp == CHAR_HEIGHT * fontScale \in Int /\ CHAR_HEIGHT <= CHAR_HEIGHT * fontScale
    <1>1. \A a, b \in Nat : b >= 1 => a * b \in Int /\ a <= a * b
        OBVIOUS
    <1>. QED BY <1>1, ScreenAssumption

\* printChar, printNewLine, deleteChar and clear leave the cursor at whole pixels.
LEMMA MovesAreTyped ==
    ASSUME NEW cur \in [x : Int, y : Int]
    PROVE  /\ NewLine(cur) \in [x : Int, y : Int]
           /\ Wrapped(cur) \in [x : Int, y : Int]
           /\ Place(cur) \in [x : Int, y : Int]
           /\ After(cur) \in [x : Int, y : Int]
           /\ Clamped(cur) \in [x : Int, y : Int]
           /\ Deleted(cur) \in [x : Int, y : Int]
           /\ Cleared(cur) \in [x : Int, y : Int]
    <1>1. \A c \in [x : Int, y : Int] : NewLine(c) \in [x : Int, y : Int]
        BY Geometry DEF NewLine
    <1>2. Wrapped(cur) \in [x : Int, y : Int]
        BY <1>1 DEF Wrapped
    <1>3. \A c \in [x : Int, y : Int] : Scrolled(c) \in [x : Int, y : Int]
        BY Geometry DEF Scrolled
    <1>4. Place(cur) \in [x : Int, y : Int]
        BY <1>2, <1>3 DEF Place
    <1>5. After(cur) \in [x : Int, y : Int]
        BY <1>4, Geometry DEF After
    <1>6. Clamped(cur) \in [x : Int, y : Int]
        BY Geometry DEF Clamped
    <1>7. Deleted(cur) \in [x : Int, y : Int]
        <2>1. (CHAR_WIDTH + HORIZONTAL_PADDING) * fontScale \in Int
            BY Geometry
        <2>. QED BY <2>1, Geometry DEF Deleted
    <1>8. Cleared(cur) \in [x : Int, y : Int]
        BY Geometry DEF Cleared
    <1>. QED BY <1>1, <1>2, <1>4, <1>5, <1>6, <1>7, <1>8

\* A column has a width, and deleteChar goes at most one column back, or to the last one.
LEMMA DeletedIsReached ==
    /\ Advance > 0
    /\ \A cur \in Reached : Deleted(cur) \in Reached
    <1>. DEFINE w == CHAR_WIDTH * fontScale
                h == HORIZONTAL_PADDING * fontScale
    <1>1. \A a, b, c \in Nat : a * c \in Nat /\ (a + b) * c = a * c + b * c
                                /\ (a <= b => a * c <= b * c) /\ (a > 0 /\ c > 0 => a * c > 0)
                                /\ (a = 0 => a * c = 0)
        OBVIOUS
    <1>2. /\ w \in Nat /\ w > 0 /\ h \in Nat /\ h <= w
          /\ HORIZONTAL_PADDING \in Nat /\ (HORIZONTAL_PADDING = 0 => h = 0)
          /\ (CHAR_WIDTH + HORIZONTAL_PADDING) * fontScale = w + h
        BY <1>1, ScreenAssumption, ColumnAssumption
    <1>3. Advance = w + HORIZONTAL_PADDING
        BY DEF Advance
    <1>. HIDE DEF w, h
    <1>4. Advance > 0
        BY <1>2, <1>3, ScreenAssumption
    <1>5. ASSUME NEW cur \in Reached PROVE Deleted(cur) \in Reached
        <2>1. cur \in [x : Int, y : Int] /\ Deleted(cur) \in [x : Int, y : Int]
            BY MovesAreTyped DEF Reached
        <2>2. CASE AtLineStart(cur)
            <3>1. Deleted(cur).x = WINDOW_WIDTH - BORDER_PADDING - (w + h)
                BY <1>2, <2>2 DEF Deleted
            <3>2. Deleted(cur).x > BORDER_PADDING - Advance
                BY <1>2, <1>3, <3>1, Geometry, ColumnAssumption
            <3>. QED BY <2>1, <3>2 DEF Reached
        <2>3. CASE ~AtLineStart(cur)
            <3>1. Deleted(cur).x = cur.x - Advance /\ cur.x > BORDER_PADDING
                BY <2>1, <2>3, Geometry DEF Deleted, AtLineStart
            <3>. QED BY <2>1, <3>1, Geometry DEF Reached
        <2>. QED BY <2>2, <2>3
    <1>. QED BY <1>4, <1>5

LEMMA NewLineIsReached ==
    ASSUME NEW cur \in [x : Int, y : Int]
    PROVE  NewLine(cur) \in Reached
    BY Geometry, DeletedIsReached DEF NewLine, Reached

\* A glyph is drawn where the cursor was, or at the start of a line.
LEMMA AfterIsReached ==
    ASSUME NEW cur \in Reached
    PROVE  Place(cur) \in Reached /\ After(cur) \in Reached /\ ~AtLineStart(After(cur))
    <1>1. cur \in [x : Int, y : Int] /\ Place(cur) \in [x : Int, y : Int]
        BY MovesAreTyped DEF Reached
    <1>2. Wrapped(cur) \in [x : Int, y : Int] /\ Wrapped(cur) \in Reached
        BY <1>1, NewLineIsReached, MovesAreTyped DEF Wrapped
    <1>3. Place(cur).x = Wrapped(cur).x
        BY <1>2 DEF Place, Scrolled
    <1>4. Place(cur) \in Reached
        BY <1>1, <1>2, <1>3 DEF Reached
    <1>5. After(cur) = [x |-> Place(cur).x + Advance, y |-> Place(cur).y]
        BY <1>1 DEF After
    <1>. QED BY <1>1, <1>4, <1>5, Geometry, DeletedIsReached DEF Reached, AtLineStart

LEMMA PrintedIsTyped ==
    ASSUME CursorOK, NEW c
    PROVE  Printed(c) \in Reached
    <1>1. \A d \in Reached :
              NewLine(d) \in Reached /\ Deleted(d) \in Reached /\ After(d) \in Reached
        BY NewLineIsReached, DeletedIsReached, AfterIsReached DEF Reached
    <1>2. \A d \in Reached : Clamped(d) \in Reached
        BY Geometry DEF Clamped, Reached
    <1>3. Back(cursor) \in Reached
        BY <1>1 DEF Back, CursorOK
    <1>. QED BY <1>1, <1>2, <1>3 DEF Printed, CursorOK

LEMMA CursorInit == Init => CursorOK
    BY Geometry, DeletedIsReached DEF Init, CursorOK, Reached, Home

LEMMA CursorNext == CursorOK /\ [Next]_vars => CursorOK'
    <1>. SUFFICES ASSUME CursorOK, [Next]_vars PROVE CursorOK'
        OBVIOUS
    <1>1. CASE ShellStep
        <2>1. ASSUME Prompt PROVE CursorOK'
            BY <2>1, PrintedIsTyped DEF Prompt, CursorOK
        <2>2. ASSUME Read("shell") \/ Resume("shell") PROVE CursorOK'
            BY <2>2 DEF Read, Resume, screenVars, CursorOK
        <2>3. ASSUME Edit PROVE CursorOK'
            <3>1. cursor' = cursor \/ \E c \in {"back", held["shell"]} : cursor' = Printed(c)
                BY <2>3 DEF Edit, Erase, screenVars
            <3>. QED BY <3>1, PrintedIsTyped DEF CursorOK
        <2>4. ASSUME Enter PROVE CursorOK'
            BY <2>4, PrintedIsTyped DEF Enter, CursorOK
        <2>. QED BY <1>1, <2>1, <2>2, <2>3, <2>4 DEF ShellStep
    <1>2. CASE RunStep
        <2>1. ASSUME RunClear PROVE CursorOK'
            BY <2>1, Geometry DEF RunClear, Cleared, Reached, CursorOK
        <2>2. ASSUME RunOther \/ RunKill \/ \E f \in BOOLEAN : RunCopy(f) PROVE CursorOK'
            BY <2>2 DEF RunOther, RunKill, RunCopy, screenVars, CursorOK
        <2>. QED BY <1>2, <2>1, <2>2 DEF RunStep
    <1>3. CASE CommandStep
        <2>1. ASSUME Copy PROVE CursorOK'
            BY <2>1, PrintedIsTyped DEF Copy, CursorOK
        <2>2. ASSUME Read("cmd") \/ Resume("cmd") \/ SkipNul \/ CopyEnds PROVE CursorOK'
            BY <2>2 DEF Read, Resume, SkipNul, CopyEnds, screenVars, CursorOK
        <2>. QED BY <1>3, <2>1, <2>2 DEF CommandStep
    <1>4. CASE KeyInterrupt
        <2>1. ASSUME Caret PROVE CursorOK'
            BY <2>1, PrintedIsTyped DEF Caret, screenVars, CursorOK
        <2>2. ASSUME Ctrl \/ Key PROVE CursorOK'
            BY <2>2 DEF Ctrl, Key, screenVars, CursorOK
        <2>. QED BY <1>4, <2>1, <2>2 DEF KeyInterrupt, CtrlS, CtrlD, CtrlC
    <1>5. CASE UNCHANGED vars
        BY <1>5 DEF vars, screenVars, CursorOK
    <1>. QED BY <1>1, <1>2, <1>3, <1>4, <1>5 DEF Next

\* A wrap leaves room for a glyph, because a line has room for one.
LEMMA WrapMakesRoom ==
    ASSUME NEW cur \in [x : Int, y : Int]
    PROVE  Wrapped(cur).x + Advance <= WINDOW_WIDTH - BORDER_PADDING
    BY Geometry, ColumnAssumption DEF Wrapped, NewLine

\* A scroll brings a cursor at most one line below the last one back onto it.
LEMMA ScrollBringsBack ==
    ASSUME NEW cur \in [x : Int, y : Int], cur.y <= LastY + LineHeight
    PROVE  Scrolled(cur).x = cur.x /\ Scrolled(cur).y <= LastY
    <1>1. CASE cur.y <= LastY
        <2>1. ~Scrolls(cur)
            BY <1>1, Geometry DEF Scrolls, LastY
        <2>. QED BY <1>1, <2>1 DEF Scrolled
    <1>2. CASE cur.y > LastY
        <2>1. cur.y + CHAR_HEIGHT > WINDOW_HEIGHT - BORDER_PADDING
            BY <1>2, Geometry DEF LastY
        <2>2. cur.y >= WINDOW_HEIGHT - CHAR_HEIGHT * fontScale - BORDER_PADDING
            <3>. DEFINE scaled == CHAR_HEIGHT * fontScale
            <3>1. scaled \in Int /\ CHAR_HEIGHT <= scaled
                BY ScaledUp
            <3>2. cur.y \in Int
                OBVIOUS
            <3>. HIDE DEF scaled
            <3>3. cur.y >= WINDOW_HEIGHT - scaled - BORDER_PADDING
                BY <1>2, <3>1, <3>2, Geometry DEF LastY
            <3>. QED BY <3>3 DEF scaled
        <2>3. Scrolls(cur)
            BY <2>1, <2>2 DEF Scrolls
        <2>. QED BY <2>3, Geometry DEF Scrolled
    <1>. QED BY <1>1, <1>2, Geometry

\* Only a wrap moves the cursor down, and at the start of a line nothing wraps.
LEMMA WrapStaysNear ==
    ASSUME NEW cur \in [x : Int, y : Int],
           \/ cur.y <= LastY
           \/ cur.y <= LastY + LineHeight /\ AtLineStart(cur)
    PROVE  Wrapped(cur).y <= LastY + LineHeight
    <1>1. LineHeight >= 0
        <2>1. \A a, b \in Nat : a * b >= 0
            OBVIOUS
        <2>. QED BY <2>1, ScreenAssumption DEF LineHeight
    <1>2. CASE cur.y <= LastY
        BY <1>1, <1>2, Geometry DEF Wrapped, NewLine
    <1>3. CASE cur.y <= LastY + LineHeight /\ AtLineStart(cur)
        BY <1>3, Geometry, ColumnAssumption DEF Wrapped, AtLineStart
    <1>. QED BY <1>2, <1>3

LEMMA GlyphsAreInside == CursorOK => TextStaysInside
    <1>. SUFFICES ASSUME CursorOK,
                         \/ cursor.y <= LastY
                         \/ cursor.y <= LastY + LineHeight /\ AtLineStart(cursor)
                  PROVE  InsideMargins(Place(cursor))
        BY DEF TextStaysInside
    <1>1. Wrapped(cursor) \in [x : Int, y : Int] /\ Place(cursor) \in [x : Int, y : Int]
        BY MovesAreTyped DEF CursorOK, Reached
    <1>2. Wrapped(cursor).y <= LastY + LineHeight
        BY WrapStaysNear DEF CursorOK, Reached
    <1>3. Place(cursor).x = Wrapped(cursor).x /\ Place(cursor).y <= LastY
        BY <1>1, <1>2, ScrollBringsBack DEF Place
    <1>4. RightEnd(Place(cursor)) <= WINDOW_WIDTH - BORDER_PADDING
        BY <1>3, WrapMakesRoom DEF CursorOK, Reached, RightEnd
    <1>5. BottomEnd(Place(cursor))
              <= WINDOW_HEIGHT - BORDER_PADDING + CHAR_HEIGHT * (fontScale - 1)
        <2>1. \A a \in Nat, b \in Nat : a * (b - 1) = a * b - a /\ a * b \in Nat
            OBVIOUS
        <2>2. /\ CHAR_HEIGHT * (fontScale - 1) = CHAR_HEIGHT * fontScale - CHAR_HEIGHT
              /\ CHAR_HEIGHT * fontScale \in Nat
            BY <2>1, ScreenAssumption
        <2>. DEFINE tall == CHAR_HEIGHT * fontScale
        <2>3. tall \in Nat /\ CHAR_HEIGHT * (fontScale - 1) = tall - CHAR_HEIGHT
            BY <2>2
        <2>4. BottomEnd(Place(cursor)) = Place(cursor).y + tall
            BY DEF BottomEnd
        <2>. HIDE DEF tall
        <2>. QED BY <1>1, <1>3, <2>3, <2>4, Geometry DEF LastY
    <1>. QED BY <1>4, <1>5 DEF InsideMargins

\* Unless more than one newline was printed below the last line, the next glyph is not drawn
\* across the right margin, nor across the bottom one by more than the scale adds to its height:
\* at scale 1 not at all (printChar, moveScreenUpIfFull and deleteChar of videoDriver.c).
THEOREM TextAlwaysInside == Spec => []TextStaysInside
    BY CursorInit, CursorNext, GlyphsAreInside, PTL DEF Spec
----------------------------------------------------------------------------
\* The ring of keys

Ring == [v : [Cell -> Char \cup {NULL}], readIndex : Cell, writeIndex : Cell, size : Nat]
CellOf(q, m) == (q.readIndex + m) % BUFFER_SIZE
Keys(q) == [m \in 1 .. q.size |-> q.v[(q.readIndex + m - 1) % BUFFER_SIZE]]

\* What a ring looks like between two calls.  A full one has equal indices, as an empty one.
GoodRing(q) ==
    /\ q \in Ring
    /\ q.size <= BUFFER_SIZE
    /\ q.writeIndex = CellOf(q, q.size)
    /\ \A m \in 0 .. q.size - 1 : q.v[CellOf(q, m)] \in Char

LEMMA Wraps ==
    ASSUME NEW a \in Cell, NEW b \in 0 .. BUFFER_SIZE
    PROVE  /\ (a + b) % BUFFER_SIZE \in Cell
           /\ (a + b) % BUFFER_SIZE =
                  IF a + b < BUFFER_SIZE THEN a + b ELSE a + b - BUFFER_SIZE
    <1>1. \A x \in Nat : x < BUFFER_SIZE => x % BUFFER_SIZE = x
        BY BufferAssumption
    <1>2. \A x \in Nat : x >= BUFFER_SIZE /\ x < 2 * BUFFER_SIZE
                            => x % BUFFER_SIZE = x - BUFFER_SIZE
        BY BufferAssumption
    <1>3. a + b \in Nat /\ a + b < 2 * BUFFER_SIZE
        BY BufferAssumption DEF Cell
    <1>. QED BY <1>1, <1>2, <1>3, BufferAssumption DEF Cell

LEMMA CellsFollow ==
    ASSUME NEW a \in Cell, NEW m \in 0 .. BUFFER_SIZE - 1
    PROVE  /\ (((a + m) % BUFFER_SIZE) + 1) % BUFFER_SIZE = (a + (m + 1)) % BUFFER_SIZE
           /\ (((a + 1) % BUFFER_SIZE) + m) % BUFFER_SIZE = (a + (m + 1)) % BUFFER_SIZE
    <1>1. /\ m \in 0 .. BUFFER_SIZE /\ m + 1 \in 0 .. BUFFER_SIZE /\ 1 \in 0 .. BUFFER_SIZE
        BY BufferAssumption
    <1>. DEFINE c == (a + m) % BUFFER_SIZE
                d == (a + 1) % BUFFER_SIZE
                e == (a + (m + 1)) % BUFFER_SIZE
    <1>2. c \in Cell /\ c = IF a + m < BUFFER_SIZE THEN a + m ELSE a + m - BUFFER_SIZE
        BY <1>1, Wraps
    <1>3. d \in Cell /\ d = IF a + 1 < BUFFER_SIZE THEN a + 1 ELSE a + 1 - BUFFER_SIZE
        BY <1>1, Wraps
    <1>4. e = IF a + (m + 1) < BUFFER_SIZE THEN a + (m + 1) ELSE a + (m + 1) - BUFFER_SIZE
        BY <1>1, Wraps
    <1>. HIDE DEF c, d, e
    <1>5. (c + 1) % BUFFER_SIZE = IF c + 1 < BUFFER_SIZE THEN c + 1 ELSE c + 1 - BUFFER_SIZE
        BY <1>1, <1>2, Wraps
    <1>6. (d + m) % BUFFER_SIZE = IF d + m < BUFFER_SIZE THEN d + m ELSE d + m - BUFFER_SIZE
        BY <1>1, <1>3, Wraps
    <1>7. (c + 1) % BUFFER_SIZE = e
        BY <1>2, <1>4, <1>5, BufferAssumption DEF Cell
    <1>8. (d + m) % BUFFER_SIZE = e
        BY <1>3, <1>4, <1>6, BufferAssumption DEF Cell
    <1>. QED BY <1>7, <1>8 DEF c, d, e

LEMMA CellsDiffer ==
    ASSUME NEW a \in Cell, NEW m \in 0 .. BUFFER_SIZE - 1, NEW j \in 0 .. BUFFER_SIZE - 1,
           (a + m) % BUFFER_SIZE = (a + j) % BUFFER_SIZE
    PROVE  m = j
    <1>1. m \in 0 .. BUFFER_SIZE /\ j \in 0 .. BUFFER_SIZE
        BY BufferAssumption
    <1>2. /\ (a + m) % BUFFER_SIZE = IF a + m < BUFFER_SIZE THEN a + m ELSE a + m - BUFFER_SIZE
          /\ (a + j) % BUFFER_SIZE = IF a + j < BUFFER_SIZE THEN a + j ELSE a + j - BUFFER_SIZE
        BY <1>1, Wraps
    <1>3. \A k, l, n \in Int : \A b \in 0 .. n - 1 :
              /\ k \in 0 .. n - 1 /\ l \in 0 .. n - 1
              /\ (IF b + k < n THEN b + k ELSE b + k - n) = (IF b + l < n THEN b + l ELSE b + l - n)
              => k = l
        OBVIOUS
    <1>4. (IF a + m < BUFFER_SIZE THEN a + m ELSE a + m - BUFFER_SIZE)
              = (IF a + j < BUFFER_SIZE THEN a + j ELSE a + j - BUFFER_SIZE)
        BY <1>2, Zenon
    <1>5. BUFFER_SIZE \in Int /\ m \in Int /\ j \in Int /\ a \in 0 .. BUFFER_SIZE - 1
        BY BufferAssumption DEF Cell
    <1>. QED BY <1>3, <1>4, <1>5

LEMMA Fields ==
    ASSUME NEW q, GoodRing(q)
    PROVE  /\ q.v \in [Cell -> Char \cup {NULL}]
           /\ q.readIndex \in Cell /\ q.writeIndex \in Cell
           /\ q.size \in 0 .. BUFFER_SIZE
           /\ BUFFER_SIZE \in Nat \ {0}
    BY BufferAssumption DEF GoodRing, Ring

\* The keys as a sequence, and the cell of each.
LEMMA KeysAre ==
    ASSUME NEW q, GoodRing(q)
    PROVE  /\ Keys(q) \in Seq(Char) /\ Len(Keys(q)) = q.size
           /\ DOMAIN Keys(q) = 1 .. q.size
           /\ \A m \in 1 .. q.size : Keys(q)[m] = q.v[CellOf(q, m - 1)] /\ m - 1 \in 0 .. q.size - 1
    <1>1. q.size \in Nat /\ q.readIndex \in Int
        BY Fields DEF Cell
    <1>2. \A m \in 1 .. q.size : q.readIndex + m - 1 = q.readIndex + (m - 1) /\ m - 1 \in 0 .. q.size - 1
        BY <1>1
    <1>3. \A m \in 1 .. q.size : Keys(q)[m] = q.v[CellOf(q, m - 1)]
        BY <1>2 DEF Keys, CellOf
    <1>4. \A m \in 1 .. q.size : Keys(q)[m] \in Char
        BY <1>2, <1>3 DEF GoodRing
    <1>5. Keys(q) = [m \in 1 .. q.size |-> Keys(q)[m]]
        BY DEF Keys
    <1>6. DOMAIN Keys(q) = 1 .. q.size
        BY DEF Keys
    <1>7. Keys(q) \in Seq(Char) /\ Len(Keys(q)) = q.size
        <2>1. Keys(q) \in [1 .. q.size -> Char]
            BY <1>4, <1>5
        <2>. QED BY <1>1, <2>1
    <1>. QED BY <1>2, <1>3, <1>6, <1>7

LEMMA EmptyIsGood == GoodRing(EmptyBuffer)
    <1>1. 0 \in Cell /\ (0 + 0) % BUFFER_SIZE = 0
        BY BufferAssumption, Wraps DEF Cell
    <1>2. EmptyBuffer \in Ring
        BY <1>1 DEF EmptyBuffer, Ring
    <1>. QED BY <1>1, <1>2, BufferAssumption DEF GoodRing, EmptyBuffer, CellOf

\* A key goes behind the others.
LEMMA OneMore ==
    ASSUME NEW q, GoodRing(q), q.size < BUFFER_SIZE, NEW c \in Char
    PROVE  LET r == [v |-> [q.v EXCEPT ![q.writeIndex] = c], readIndex |-> q.readIndex,
                     writeIndex |-> (q.writeIndex + 1) % BUFFER_SIZE, size |-> q.size + 1]
           IN  GoodRing(r) /\ Keys(r) = Append(Keys(q), c)
    <1>. DEFINE r == [v |-> [q.v EXCEPT ![q.writeIndex] = c], readIndex |-> q.readIndex,
                      writeIndex |-> (q.writeIndex + 1) % BUFFER_SIZE, size |-> q.size + 1]
    <1>1. /\ r.v = [q.v EXCEPT ![q.writeIndex] = c] /\ r.readIndex = q.readIndex
          /\ r.writeIndex = (q.writeIndex + 1) % BUFFER_SIZE /\ r.size = q.size + 1
        OBVIOUS
    <1>2. /\ q.size \in 0 .. BUFFER_SIZE - 1 /\ q.size + 1 \in 0 .. BUFFER_SIZE
          /\ q.size \in Nat /\ q.size + 1 \in Nat
        BY Fields
    <1>3. r.writeIndex = CellOf(r, r.size)
        BY <1>1, <1>2, Fields, CellsFollow DEF CellOf, GoodRing
    <1>4. CellOf(q, q.size + 1) \in Cell
        BY <1>2, Fields, Wraps DEF CellOf
    <1>5. r \in Ring
        <2>1. (q.writeIndex + 1) % BUFFER_SIZE \in Cell
            BY <1>1, <1>3, <1>4 DEF CellOf
        <2>2. [q.v EXCEPT ![q.writeIndex] = c] \in [Cell -> Char \cup {NULL}]
            BY Fields
        <2>. QED BY <1>2, <2>1, <2>2, Fields DEF Ring
    <1>. HIDE DEF r
    <1>6. ASSUME NEW m \in 0 .. q.size - 1
          PROVE  r.v[CellOf(r, m)] = q.v[CellOf(q, m)]
        <2>1. m \in 0 .. BUFFER_SIZE - 1 /\ m \in 0 .. BUFFER_SIZE /\ m # q.size
            BY <1>2, Fields
        <2>2. CellOf(q, m) \in Cell
            BY <2>1, Fields, Wraps DEF CellOf
        <2>3. CellOf(q, m) # q.writeIndex
            BY <1>2, <2>1, Fields, CellsDiffer DEF CellOf, GoodRing
        <2>4. CellOf(r, m) = CellOf(q, m)
            BY <1>1 DEF CellOf
        <2>. QED BY <1>1, <2>2, <2>3, <2>4, Fields
    <1>7. r.v[CellOf(r, q.size)] = c
        <2>1. CellOf(r, q.size) = q.writeIndex
            BY <1>1 DEF CellOf, GoodRing
        <2>. QED BY <1>1, <2>1, Fields
    <1>8. GoodRing(r)
        <2>1. ASSUME NEW m \in 0 .. r.size - 1 PROVE r.v[CellOf(r, m)] \in Char
            <3>1. m \in 0 .. q.size - 1 \/ m = q.size
                BY <1>1, <1>2
            <3>. QED BY <1>6, <1>7, <3>1 DEF GoodRing
        <2>. QED BY <1>1, <1>2, <1>3, <1>5, <2>1 DEF GoodRing
    <1>9. Keys(r) = Append(Keys(q), c)
        <2>1. /\ Keys(q) \in Seq(Char) /\ Len(Keys(q)) = q.size
              /\ \A m \in 1 .. q.size : Keys(q)[m] = q.v[CellOf(q, m - 1)] /\ m - 1 \in 0 .. q.size - 1
            BY KeysAre
        <2>2. /\ Keys(r) \in Seq(Char) /\ Len(Keys(r)) = q.size + 1
              /\ \A m \in 1 .. q.size + 1 : Keys(r)[m] = r.v[CellOf(r, m - 1)]
            BY <1>1, <1>8, KeysAre
        <2>3. \A m \in 1 .. q.size : Keys(r)[m] = Keys(q)[m]
            BY <1>2, <1>6, <2>1, <2>2
        <2>4. Keys(r)[q.size + 1] = c
            <3>1. ASSUME NEW m \in 1 .. q.size + 1, m = q.size + 1 PROVE Keys(r)[m] = c
                <4>1. m - 1 = q.size
                    BY <1>2, <3>1
                <4>2. CellOf(r, m - 1) = CellOf(r, q.size)
                    BY <4>1
                <4>. QED BY <1>7, <2>2, <4>2
            <3>. QED BY <1>2, <3>1
        <2>. QED BY <1>2, <2>1, <2>2, <2>3, <2>4
    <1>. QED BY <1>8, <1>9 DEF r

\* The key before the others is taken.
LEMMA OneLess ==
    ASSUME NEW q, GoodRing(q), q.size > 0
    PROVE  LET r == [v |-> [q.v EXCEPT ![q.readIndex] = NULL],
                     readIndex |-> (q.readIndex + 1) % BUFFER_SIZE,
                     writeIndex |-> q.writeIndex, size |-> q.size - 1]
           IN  /\ GoodRing(r) /\ Keys(r) = Tail(Keys(q))
               /\ Keys(q) # <<>> /\ Head(Keys(q)) = q.v[q.readIndex] /\ q.v[q.readIndex] \in Char
    <1>. DEFINE r == [v |-> [q.v EXCEPT ![q.readIndex] = NULL],
                      readIndex |-> (q.readIndex + 1) % BUFFER_SIZE,
                      writeIndex |-> q.writeIndex, size |-> q.size - 1]
    <1>1. /\ r.v = [q.v EXCEPT ![q.readIndex] = NULL]
          /\ r.readIndex = (q.readIndex + 1) % BUFFER_SIZE
          /\ r.writeIndex = q.writeIndex /\ r.size = q.size - 1
        OBVIOUS
    <1>2. /\ q.size \in 1 .. BUFFER_SIZE /\ q.size - 1 \in 0 .. BUFFER_SIZE - 1
          /\ q.size \in Nat /\ q.size - 1 \in Nat /\ 1 \in 0 .. BUFFER_SIZE
          /\ q.size - 1 + 1 = q.size
        BY Fields
    <1>3. (q.readIndex + 1) % BUFFER_SIZE \in Cell
        BY <1>2, Fields, Wraps
    <1>4. r \in Ring
        <2>1. [q.v EXCEPT ![q.readIndex] = NULL] \in [Cell -> Char \cup {NULL}]
            BY Fields
        <2>. QED BY <1>2, <1>3, <2>1, Fields DEF Ring
    <1>. HIDE DEF r
    <1>5. ASSUME NEW m \in 0 .. BUFFER_SIZE - 1 PROVE CellOf(r, m) = CellOf(q, m + 1)
        BY <1>1, Fields, CellsFollow DEF CellOf
    <1>6. r.writeIndex = CellOf(r, r.size)
        <2>1. CellOf(r, q.size - 1) = CellOf(q, q.size - 1 + 1)
            BY <1>2, <1>5
        <2>. QED BY <1>1, <1>2, <2>1 DEF GoodRing
    <1>7. CellOf(q, 0) = q.readIndex
        <2>1. 0 \in 0 .. BUFFER_SIZE /\ q.readIndex \in 0 .. BUFFER_SIZE - 1
            BY Fields DEF Cell
        <2>2. (q.readIndex + 0) % BUFFER_SIZE =
                  IF q.readIndex + 0 < BUFFER_SIZE THEN q.readIndex + 0
                  ELSE q.readIndex + 0 - BUFFER_SIZE
            BY <2>1, Fields, Wraps
        <2>. QED BY <2>1, <2>2, Fields DEF CellOf
    <1>8. ASSUME NEW m \in 0 .. q.size - 2
          PROVE  r.v[CellOf(r, m)] = q.v[CellOf(q, m + 1)]
        <2>1. /\ m \in 0 .. BUFFER_SIZE - 1 /\ m + 1 \in 0 .. BUFFER_SIZE - 1
              /\ m + 1 \in 0 .. BUFFER_SIZE /\ 0 \in 0 .. BUFFER_SIZE - 1 /\ m + 1 # 0
            BY <1>2, Fields
        <2>2. CellOf(q, m + 1) \in Cell
            BY <2>1, Fields, Wraps DEF CellOf
        <2>3. CellOf(q, m + 1) # CellOf(q, 0)
            BY <2>1, Fields, CellsDiffer DEF CellOf
        <2>. QED BY <1>1, <1>5, <1>7, <2>1, <2>2, <2>3, Fields
    <1>9. GoodRing(r)
        <2>1. ASSUME NEW m \in 0 .. r.size - 1 PROVE r.v[CellOf(r, m)] \in Char
            <3>1. m \in 0 .. q.size - 2 /\ m + 1 \in 0 .. q.size - 1
                BY <1>1, <1>2
            <3>. QED BY <1>8, <3>1 DEF GoodRing
        <2>2. r.size <= BUFFER_SIZE
            BY <1>1, <1>2, Fields
        <2>. QED BY <1>4, <1>6, <2>1, <2>2 DEF GoodRing
    <1>10. /\ Keys(q) \in Seq(Char) /\ Len(Keys(q)) = q.size
           /\ \A m \in 1 .. q.size : Keys(q)[m] = q.v[CellOf(q, m - 1)] /\ m - 1 \in 0 .. q.size - 1
        BY KeysAre
    <1>11. Keys(q) # <<>> /\ Head(Keys(q)) = q.v[q.readIndex] /\ q.v[q.readIndex] \in Char
        <2>1. 1 \in 1 .. q.size /\ 1 - 1 = 0 /\ 0 \in 0 .. q.size - 1
            BY <1>2
        <2>2. Keys(q)[1] = q.v[q.readIndex] /\ q.v[q.readIndex] \in Char
            BY <1>7, <1>10, <2>1 DEF GoodRing
        <2>. QED BY <1>2, <1>10, <2>2
    <1>12. Keys(r) = Tail(Keys(q))
        <2>1. /\ Keys(r) \in Seq(Char) /\ Len(Keys(r)) = q.size - 1
              /\ \A m \in 1 .. q.size - 1 : Keys(r)[m] = r.v[CellOf(r, m - 1)]
            BY <1>1, <1>9, KeysAre
        <2>2. ASSUME NEW m \in 1 .. q.size - 1 PROVE Keys(r)[m] = Keys(q)[m + 1]
            <3>1. /\ m - 1 \in 0 .. q.size - 2 /\ m - 1 + 1 = m
                  /\ m + 1 \in 1 .. q.size /\ m + 1 - 1 = m
                BY <1>2
            <3>. QED BY <1>8, <1>10, <2>1, <3>1
        <2>3. /\ Tail(Keys(q)) \in Seq(Char) /\ Len(Tail(Keys(q))) = q.size - 1
              /\ \A m \in 1 .. q.size - 1 : Tail(Keys(q))[m] = Keys(q)[m + 1]
            BY <1>2, <1>10, <1>11
        <2>. QED BY <1>2, <2>1, <2>2, <2>3
    <1>. QED BY <1>9, <1>11, <1>12 DEF r

LEMMA SizeExcept ==
    ASSUME NEW q \in Ring, NEW y \in Nat
    PROVE  [q EXCEPT !.size = y] = [v |-> q.v, readIndex |-> q.readIndex,
                                    writeIndex |-> q.writeIndex, size |-> y]
    BY DEF Ring

LEMMA PushedIs ==
    ASSUME GoodRing(buffer), NEW c, ~cb_isfull, c \in Char
    PROVE  Pushed(c) = [v |-> [buffer.v EXCEPT ![buffer.writeIndex] = c], readIndex |-> buffer.readIndex,
                        writeIndex |-> (buffer.writeIndex + 1) % BUFFER_SIZE, size |-> buffer.size + 1]
    <1>. DEFINE q == buffer
                cells == [q.v EXCEPT ![q.writeIndex] = c]
                written == [q EXCEPT !.v = cells, !.writeIndex = NextIndex(q.writeIndex)]
    <1>1. /\ cells \in [Cell -> Char \cup {NULL}] /\ q.size + 1 \in Nat /\ q \in Ring
          /\ NextIndex(q.writeIndex) \in Cell
        <2>1. 1 \in 0 .. BUFFER_SIZE
            BY Fields
        <2>. QED BY <2>1, Fields, Wraps DEF GoodRing, NextIndex
    <1>. HIDE DEF cells
    <1>2. /\ written \in Ring /\ written.v = cells /\ written.readIndex = q.readIndex
          /\ written.writeIndex = NextIndex(q.writeIndex)
        BY <1>1 DEF Ring
    <1>. HIDE DEF written
    <1>3. [written EXCEPT !.size = q.size + 1] =
              [v |-> cells, readIndex |-> q.readIndex,
               writeIndex |-> NextIndex(q.writeIndex), size |-> q.size + 1]
        BY <1>1, <1>2, SizeExcept
    <1>. QED BY <1>3, Zenon DEF Pushed, written, cells, NextIndex

LEMMA PoppedIs ==
    ASSUME GoodRing(buffer), cb_pop, ~end_of_file, ~cb_isEmpty
    PROVE  /\ buffer.size > 0
           /\ buffer' = [v |-> [buffer.v EXCEPT ![buffer.readIndex] = NULL],
                         readIndex |-> (buffer.readIndex + 1) % BUFFER_SIZE,
                         writeIndex |-> buffer.writeIndex, size |-> buffer.size - 1]
    <1>. DEFINE q == buffer
                cells == [q.v EXCEPT ![q.readIndex] = NULL]
                read == [q EXCEPT !.v = cells, !.readIndex = NextIndex(q.readIndex)]
    <1>1. q.size > 0
        <2>1. CASE q.size = 0
            <3>1. 0 \in 0 .. BUFFER_SIZE /\ q.readIndex \in 0 .. BUFFER_SIZE - 1
                BY Fields DEF Cell
            <3>2. (q.readIndex + 0) % BUFFER_SIZE =
                      IF q.readIndex + 0 < BUFFER_SIZE THEN q.readIndex + 0
                      ELSE q.readIndex + 0 - BUFFER_SIZE
                BY <3>1, Fields, Wraps
            <3>3. q.writeIndex = q.readIndex
                BY <2>1, <3>1, <3>2, Fields DEF GoodRing, CellOf
            <3>. QED BY <3>3 DEF cb_isEmpty
        <2>. QED BY <2>1, Fields
    <1>2. /\ cells \in [Cell -> Char \cup {NULL}] /\ q.size - 1 \in Nat /\ q \in Ring
          /\ NextIndex(q.readIndex) \in Cell
        <2>1. 1 \in 0 .. BUFFER_SIZE
            BY Fields
        <2>. QED BY <1>1, <2>1, Fields, Wraps DEF GoodRing, NextIndex
    <1>. HIDE DEF cells
    <1>3. /\ read \in Ring /\ read.v = cells /\ read.writeIndex = q.writeIndex
          /\ read.readIndex = NextIndex(q.readIndex)
        BY <1>2 DEF Ring
    <1>. HIDE DEF read
    <1>4. [read EXCEPT !.size = q.size - 1] =
              [v |-> cells, readIndex |-> NextIndex(q.readIndex),
               writeIndex |-> q.writeIndex, size |-> q.size - 1]
        BY <1>2, <1>3, SizeExcept
    <1>5. buffer' = [read EXCEPT !.size = q.size - 1]
        BY Zenon DEF cb_pop, read, cells
    <1>. QED BY <1>1, <1>4, <1>5, Zenon DEF cells, NextIndex

LEMMA PopTakesHead ==
    ASSUME GoodRing(buffer), cb_pop
    PROVE  /\ GoodRing(buffer')
           /\ \/ Unread' = Unread
              \/ /\ Unread # <<>> /\ Unread' = Tail(Unread)
                 /\ CharRead = Head(Unread) /\ CharRead \in Char
    <1>1. CASE end_of_file \/ cb_isEmpty
        <2>1. buffer' = buffer
            BY <1>1 DEF cb_pop
        <2>. QED BY <2>1 DEF Unread
    <1>2. CASE ~(end_of_file \/ cb_isEmpty)
        <2>. DEFINE r == [v |-> [buffer.v EXCEPT ![buffer.readIndex] = NULL],
                          readIndex |-> (buffer.readIndex + 1) % BUFFER_SIZE,
                          writeIndex |-> buffer.writeIndex, size |-> buffer.size - 1]
        <2>1. buffer.size > 0 /\ buffer' = r
            BY <1>2, PoppedIs
        <2>2. /\ GoodRing(r) /\ Keys(r) = Tail(Keys(buffer)) /\ Keys(buffer) # <<>>
              /\ Head(Keys(buffer)) = buffer.v[buffer.readIndex]
              /\ buffer.v[buffer.readIndex] \in Char
            BY <2>1, OneLess
        <2>. HIDE DEF r
        <2>3. CharRead = buffer.v[buffer.readIndex]
            BY <1>2 DEF CharRead
        <2>4. Unread' = Keys(r) /\ Unread = Keys(buffer)
            BY <2>1 DEF Unread, Keys
        <2>. QED BY <2>1, <2>2, <2>3, <2>4
    <1>. QED BY <1>1, <1>2

LEMMA PushAppends ==
    ASSUME GoodRing(buffer), NEW c \in Char, buffer' = Pushed(c)
    PROVE  GoodRing(buffer') /\ (Unread' = Unread \/ Unread' = Append(Unread, c))
    <1>1. CASE cb_isfull
        <2>1. buffer' = buffer
            BY <1>1 DEF Pushed
        <2>. QED BY <2>1 DEF Unread
    <1>2. CASE ~cb_isfull
        <2>. DEFINE r == [v |-> [buffer.v EXCEPT ![buffer.writeIndex] = c],
                          readIndex |-> buffer.readIndex,
                          writeIndex |-> (buffer.writeIndex + 1) % BUFFER_SIZE,
                          size |-> buffer.size + 1]
        <2>1. buffer.size < BUFFER_SIZE /\ buffer' = r
            BY SMTT(40), <1>2, PushedIs, Fields DEF cb_isfull
        <2>2. GoodRing(r) /\ Keys(r) = Append(Keys(buffer), c)
            BY <2>1, OneMore
        <2>. HIDE DEF r
        <2>3. Unread' = Keys(r) /\ Unread = Keys(buffer)
            BY <2>1 DEF Unread, Keys
        <2>. QED BY <2>1, <2>2, <2>3
    <1>. QED BY <1>1, <1>2

----------------------------------------------------------------------------
\* Keys are read in order

KeysOK ==
    /\ GoodRing(buffer)
    /\ held \in [Reader -> {NULL, NUL, EOF} \cup Char]

LEMMA KeysInit == Init => KeysOK
    BY EmptyIsGood DEF Init, KeyboardInit, KeysOK

\* The steps that do not touch the ring: what they hand over is forgotten.
LEMMA KeysStay ==
    ASSUME KeysOK, buffer' = buffer,
           held' = held \/ \E p \in Reader : held' = [held EXCEPT ![p] = NULL]
    PROVE  KeysOK' /\ FifoStep
    <1>1. Unread' = Unread
        BY DEF Unread
    <1>2. held' \in [Reader -> {NULL, NUL, EOF} \cup Char]
        BY DEF KeysOK
    <1>. QED BY <1>1, <1>2 DEF KeysOK, FifoStep

LEMMA TakeStep ==
    ASSUME KeysOK, NEW p \in Reader, at[p] \in {"running", "reading"}, cb_pop, Takes(p)
    PROVE  KeysOK' /\ FifoStep
    <1>1. /\ GoodRing(buffer')
          /\ \/ Unread' = Unread
             \/ /\ Unread # <<>> /\ Unread' = Tail(Unread)
                /\ CharRead = Head(Unread) /\ CharRead \in Char
        BY PopTakesHead DEF KeysOK
    <1>2. CharRead \in {NULL, NUL, EOF} \cup Char
        BY Fields DEF CharRead, KeysOK
    <1>3. p = "shell" \/ p = "cmd"
        BY ReaderAssumption
    <1>4. PICK c \in {NULL, NUL, EOF} \cup Char :
              /\ held' = [held EXCEPT ![p] = c]
              /\ CharRead \in Char => c \in {NULL, CharRead}
        <2>1. CASE p = "shell"
            BY <1>2, <2>1 DEF Takes, ShellTakes
        <2>2. CASE p = "cmd"
            BY <1>2, <2>2 DEF Takes, CommandTakes, Char, NUL, EOF
        <2>. QED BY <1>3, <2>1, <2>2
    <1>5. held'[p] = c /\ held' \in [Reader -> {NULL, NUL, EOF} \cup Char]
        BY <1>4 DEF KeysOK
    <1>. QED BY <1>1, <1>4, <1>5 DEF KeysOK, FifoStep

LEMMA KeysNext == ASSUME KeysOK, [Next]_vars PROVE KeysOK' /\ FifoStep
    <1>. "shell" \in Reader /\ "cmd" \in Reader
        BY ReaderAssumption
    <1>1. ASSUME NEW p \in Reader, Read(p) PROVE KeysOK' /\ FifoStep
        <2>1. CASE ReadNow(p) /\ Takes(p)
            BY <1>1, <2>1, TakeStep DEF Read, ReadNow
        <2>2. CASE ReadWaits(p) /\ UNCHANGED held
            BY <2>2, KeysStay DEF ReadWaits
        <2>. QED BY <1>1, <2>1, <2>2 DEF Read
    <1>2. ASSUME NEW p \in Reader, Resume(p) PROVE KeysOK' /\ FifoStep
        BY <1>2, TakeStep DEF Resume, ReadResumes
    <1>3. CASE Prompt \/ Edit \/ Enter
        BY <1>3, KeysStay DEF Prompt, Edit, Enter, keyboardVars
    <1>4. CASE RunStep
        <2>1. CASE RunKill
            BY <2>1, KeysStay DEF RunKill
        <2>2. CASE RunOther \/ RunClear \/ \E f \in BOOLEAN : RunCopy(f)
            BY <2>2, KeysStay DEF RunOther, RunClear, RunCopy, keyboardVars
        <2>. QED BY <1>4, <2>1, <2>2 DEF RunStep
    <1>5. CASE Copy \/ SkipNul \/ CopyEnds
        BY <1>5, KeysStay DEF Copy, SkipNul, CopyEnds, CommandEnds, keyboardVars
    <1>6. CASE KeyInterrupt
        <2>1. ASSUME NEW c \in Typed, PressKey(c), UNCHANGED held PROVE KeysOK' /\ FifoStep
            <3>1. c \in Char /\ buffer' = Pushed(c)
                BY <2>1, BufferAssumption DEF PressKey
            <3>2. GoodRing(buffer') /\ (Unread' = Unread \/ Unread' = Append(Unread, c))
                BY <3>1, PushAppends DEF KeysOK
            <3>. QED BY <2>1, <3>1, <3>2 DEF KeysOK, FifoStep
        <2>2. CASE Ctrl \/ CtrlS \/ CtrlD
            BY <2>2, KeysStay DEF Ctrl, CtrlS, CtrlD, PressCtrl, SendEof, keyboardVars
        <2>3. CASE CtrlC
            BY <2>3, KeysStay DEF CtrlC, KillCommand, CommandEnds, keyboardVars
        <2>. QED BY <1>6, <2>1, <2>2, <2>3 DEF KeyInterrupt, Key
    <1>7. CASE UNCHANGED vars
        BY <1>7, KeysStay DEF vars, keyboardVars
    <1>. QED BY <1>1, <1>2, <1>3, <1>4, <1>5, <1>6, <1>7 DEF Next, ShellStep, CommandStep

\* Whatever is typed, read, interrupted and killed, the ring gives each key to one reader, once,
\* in the order typed (cb_push, cb_pop, kb_getchar).
THEOREM KeysInOrder == Spec => StdinIsFifo
    <1>1. KeysOK /\ [Next]_vars => KeysOK'
        BY KeysNext
    <1>2. KeysOK /\ [Next]_vars => [FifoStep]_vars
        BY KeysNext
    <1>. QED BY KeysInit, <1>1, <1>2, PTL DEF Spec, StdinIsFifo

----------------------------------------------------------------------------
\* The line that is shown

Places == {"prompt", "running", "reading", "got", "entered", "waiting", "absent"}
AtOK == at \in [Reader -> Places]

Point == [x : Int, y : Int]
\* Right of a glyph there is no room for another.
LastInLine(glyph) ==
    /\ glyph.x + Advance <= WINDOW_WIDTH - BORDER_PADDING
    /\ glyph.x + 2 * Advance > WINDOW_WIDTH - BORDER_PADDING
\* A backspace at cur clears the glyph at from; at the start of a line from ends the line above.
Follows(cur, from) ==
    IF AtLineStart(cur) THEN from.y = cur.y - LineHeight /\ LastInLine(from)
    ELSE Deleted(cur) = from

Fits(glyph) == glyph.x + Advance <= WINDOW_WIDTH - BORDER_PADDING

Editing == at["shell"] \in {"running", "reading", "got"} /\ ~smudged
Placed == Editing /\ ~misplaced
\* From each glyph of the line a backspace goes to the one before it.
LineOK ==
    /\ AtOK /\ CursorOK /\ i \in Nat /\ smudged \in BOOLEAN /\ misplaced \in BOOLEAN
    /\ Editing => drawn \in Seq(Point) /\ Len(drawn) = i + 1
    /\ Placed => /\ Follows(cursor, drawn[i + 1])
                 /\ \A j \in 1 .. i : Follows(drawn[j + 1], drawn[j])
                 /\ \A j \in 1 .. i + 1 : Fits(drawn[j])

\* A reader goes from one place to another, the others stay.
LEMMA Moves ==
    ASSUME AtOK, NEW p \in Reader, NEW place \in Places, Goto(p, place)
    PROVE  AtOK' /\ at'[p] = place /\ \A r \in Reader : r # p => at'[r] = at[r]
    BY DEF AtOK, Goto

\* The glyphs of a line after a scroll by m pixels.
Shifted(d, m) == [d EXCEPT !.y = @ - m]

LEMMA ShiftFollows ==
    ASSUME NEW a \in Point, NEW b \in Point, NEW m \in Int, Follows(a, b)
    PROVE  /\ Shifted(a, m) \in Point /\ Follows(Shifted(a, m), Shifted(b, m))
           /\ Fits(b) => Fits(Shifted(b, m))
    <1>1. /\ Shifted(a, m) = [x |-> a.x, y |-> a.y - m]
          /\ Shifted(b, m) = [x |-> b.x, y |-> b.y - m]
        BY DEF Shifted, Point
    <1>2. ~AtLineStart(a) => b = [x |-> a.x - Advance, y |-> a.y]
        BY DEF Follows, Deleted, Point
    <1>3. \A c : ~AtLineStart(c) => Deleted(c) = [c EXCEPT !.x = @ - Advance]
        BY DEF Deleted
    <1>4. AtLineStart(Shifted(a, m)) <=> AtLineStart(a)
        BY <1>1 DEF AtLineStart
    <1>5. CASE AtLineStart(a)
        <2>1. b.y = a.y - LineHeight /\ LastInLine(b)
            BY <1>5 DEF Follows
        <2>2. Shifted(b, m).y = Shifted(a, m).y - LineHeight /\ LastInLine(Shifted(b, m))
            BY <1>1, <2>1, Geometry DEF Point, LastInLine
        <2>3. Follows(Shifted(a, m), Shifted(b, m))
            BY <1>4, <1>5, <2>2 DEF Follows
        <2>. QED BY <1>1, <2>3 DEF Point, Fits
    <1>6. CASE ~AtLineStart(a)
        <2>1. Deleted(Shifted(a, m)) = Shifted(b, m)
            BY <1>1, <1>2, <1>3, <1>4, <1>6 DEF Point
        <2>2. Follows(Shifted(a, m), Shifted(b, m))
            BY <1>4, <1>6, <2>1 DEF Follows
        <2>. QED BY <1>1, <2>2 DEF Point, Fits
    <1>. QED BY <1>5, <1>6

\* The next glyph is drawn where the line has come to, and a backspace after it goes back there.
LEMMA GlyphFollows ==
    ASSUME NEW cur \in Reached, NEW last \in Point, NEW m,
           m = IF Scrolls(Wrapped(cur)) THEN LineHeight ELSE 0
    PROVE  /\ Place(cur) \in Point /\ m \in Int /\ Fits(Place(cur))
           /\ Follows(cur, last) /\ Fits(last) => Follows(Place(cur), Shifted(last, m))
           /\ Follows(After(cur), Place(cur))
    <1>0. cur \in Point
        BY DEF Reached, Point
    <1>1. Place(cur) \in Point /\ After(cur) \in Point /\ m \in Int
        BY <1>0, MovesAreTyped, Geometry DEF Point
    <1>2. Follows(After(cur), Place(cur))
        <2>1. \A c \in Point : ~AtLineStart([c EXCEPT !.x = @ + Advance])
                                   => Deleted([c EXCEPT !.x = @ + Advance]) = c
            <3>. SUFFICES ASSUME NEW c \in Point,
                                 ~AtLineStart([c EXCEPT !.x = @ + Advance])
                          PROVE  Deleted([c EXCEPT !.x = @ + Advance]) = c
                OBVIOUS
            <3>1. [c EXCEPT !.x = @ + Advance] = [x |-> c.x + Advance, y |-> c.y]
                BY DEF Point
            <3>2. Deleted([c EXCEPT !.x = @ + Advance])
                      = [[x |-> c.x + Advance, y |-> c.y] EXCEPT !.x = @ - Advance]
                BY <3>1 DEF Deleted
            <3>. QED BY <3>2, Geometry DEF Point
        <2>2. ~AtLineStart(After(cur))
            BY AfterIsReached
        <2>. QED BY <1>1, <2>1, <2>2 DEF After, Follows
    <1>3. ASSUME Follows(cur, last), Fits(last) PROVE Follows(Place(cur), Shifted(last, m))
        <2>1. Place(cur) = Shifted(Wrapped(cur), m)
            <3>1. Wrapped(cur) \in Point
                BY <1>0, MovesAreTyped DEF Point
            <3>2. Shifted(Wrapped(cur), 0) = Wrapped(cur)
                BY <3>1 DEF Shifted, Point
            <3>. QED BY <3>2 DEF Place, Scrolled, Shifted
        <2>2. CASE Wrapped(cur) = cur
            BY <1>0, <1>1, <1>3, <2>1, <2>2, ShiftFollows
        <2>3. CASE cur.x + Advance > WINDOW_WIDTH - BORDER_PADDING /\ Wrapped(cur) = NewLine(cur)
            <3>1. Place(cur) = [x |-> BORDER_PADDING, y |-> (cur.y + LineHeight) - m]
                <4>1. Place(cur) = [NewLine(cur) EXCEPT !.y = @ - m]
                    BY <2>1, <2>3 DEF Shifted
                <4>2. NewLine(cur) = [x |-> BORDER_PADDING, y |-> cur.y + LineHeight]
                    BY DEF NewLine
                <4>3. NewLine(cur).x = BORDER_PADDING /\ NewLine(cur).y = cur.y + LineHeight
                    BY <4>2
                <4>4. [NewLine(cur) EXCEPT !.y = @ - m]
                          = [x |-> NewLine(cur).x, y |-> NewLine(cur).y - m]
                    BY <4>2
                <4>. QED BY <4>1, <4>3, <4>4
            <3>2. ~AtLineStart(cur)
                BY <1>0, <2>3, Geometry, ColumnAssumption DEF AtLineStart, Point
            <3>3. last = [x |-> cur.x - Advance, y |-> cur.y]
                BY <1>0, <1>3, <3>2 DEF Follows, Deleted, Point
            <3>4. Shifted(last, m) = [x |-> cur.x - Advance, y |-> cur.y - m]
                BY <3>3 DEF Shifted
            <3>5. LastInLine(Shifted(last, m))
                BY <1>0, <1>3, <2>3, <3>3, <3>4, Geometry DEF LastInLine, Fits, Point
            <3>6. Shifted(last, m).y = Place(cur).y - LineHeight
                BY <1>0, <1>1, <3>1, <3>4, Geometry DEF Point
            <3>. QED BY <3>1, <3>5, <3>6, Geometry DEF Follows, AtLineStart
        <2>. QED BY <2>2, <2>3 DEF Wrapped
    <1>4. Fits(Place(cur))
        <2>1. Wrapped(cur) \in Point /\ Place(cur).x = Wrapped(cur).x
            BY <1>0, MovesAreTyped DEF Place, Scrolled, Point
        <2>. QED BY <1>0, <2>1, WrapMakesRoom DEF Fits, Point
    <1>. QED BY <1>1, <1>2, <1>3, <1>4

\* gets echoes a glyph: the line is one longer, and may have been scrolled.
LEMMA LineGrows ==
    ASSUME LineOK, Editing
    PROVE  /\ LineDrawn \in Seq(Point) /\ Len(LineDrawn) = i + 2
           /\ Follows(After(cursor), LineDrawn[i + 2])
           /\ Placed => /\ \A j \in 1 .. i + 1 : Follows(LineDrawn[j + 1], LineDrawn[j])
                        /\ \A j \in 1 .. i + 2 : Fits(LineDrawn[j])
    <1>. DEFINE m == IF Scrolls(Wrapped(cursor)) THEN LineHeight ELSE 0
                s == [j \in DOMAIN drawn |-> Shifted(drawn[j], m)]
    <1>1. /\ i \in Nat /\ drawn \in Seq(Point) /\ Len(drawn) = i + 1 /\ DOMAIN drawn = 1 .. i + 1
          /\ cursor \in Reached /\ drawn[i + 1] \in Point
          /\ \A j \in 1 .. i + 1 : drawn[j] \in Point
        <2>1. /\ i \in Nat /\ drawn \in Seq(Point) /\ Len(drawn) = i + 1
              /\ cursor \in Reached
            BY DEF LineOK, CursorOK
        <2>2. DOMAIN drawn = 1 .. i + 1 /\ \A j \in 1 .. i + 1 : drawn[j] \in Point
            BY <2>1
        <2>. QED BY <2>1, <2>2
    <1>2. /\ Place(cursor) \in Point /\ m \in Int /\ Fits(Place(cursor))
          /\ Follows(cursor, drawn[i + 1]) /\ Fits(drawn[i + 1])
                => Follows(Place(cursor), Shifted(drawn[i + 1], m))
          /\ Follows(After(cursor), Place(cursor))
        BY <1>1, GlyphFollows
    <1>3. LineDrawn = Append(s, Place(cursor))
        BY DEF LineDrawn, Shifted
    <1>. HIDE DEF m
    <1>4. \A j \in 1 .. i + 1 : Shifted(drawn[j], m) \in Point
        <2>1. \A d \in Point : Shifted(d, m) = [x |-> d.x, y |-> d.y - m]
            BY DEF Shifted, Point
        <2>2. \A d \in Point : Shifted(d, m) \in Point
            BY <1>2, <2>1 DEF Point
        <2>. QED BY <1>1, <2>2
    <1>5. s \in Seq(Point) /\ Len(s) = i + 1 /\ \A j \in 1 .. i + 1 : s[j] = Shifted(drawn[j], m)
        <2>1. s \in [1 .. i + 1 -> Point]
            BY <1>1, <1>4
        <2>. QED BY <1>1, <2>1
    <1>. HIDE DEF s
    <1>6. /\ LineDrawn \in Seq(Point) /\ Len(LineDrawn) = i + 2
          /\ LineDrawn[i + 2] = Place(cursor)
          /\ \A j \in 1 .. i + 1 : LineDrawn[j] = Shifted(drawn[j], m)
        BY <1>1, <1>2, <1>3, <1>5
    <1>7. ASSUME Placed
          PROVE  /\ \A j \in 1 .. i + 1 : Follows(LineDrawn[j + 1], LineDrawn[j])
                 /\ \A j \in 1 .. i + 2 : Fits(LineDrawn[j])
        <2>1. /\ Follows(cursor, drawn[i + 1])
              /\ \A j \in 1 .. i : Follows(drawn[j + 1], drawn[j])
              /\ \A j \in 1 .. i + 1 : Fits(drawn[j])
            BY <1>7 DEF LineOK
        <2>2. \A d \in Point : Fits(d) => Fits(Shifted(d, m))
            BY DEF Point, Fits, Shifted
        <2>3. ASSUME NEW j \in 1 .. i + 2 PROVE Fits(LineDrawn[j])
            <3>1. CASE j = i + 2
                BY <1>2, <1>6, <3>1
            <3>2. CASE j # i + 2
                <4>1. j \in 1 .. i + 1
                    BY <1>1, <3>2
                <4>. QED BY <1>1, <1>6, <2>1, <2>2, <4>1
            <3>. QED BY <3>1, <3>2
        <2>4. ASSUME NEW j \in 1 .. i + 1 PROVE Follows(LineDrawn[j + 1], LineDrawn[j])
            <3>1. CASE j = i + 1
                <4>1. Follows(Place(cursor), Shifted(drawn[i + 1], m)) /\ i + 1 \in 1 .. i + 1
                    BY <1>1, <1>2, <2>1
                <4>. QED BY <1>1, <1>6, <3>1, <4>1
            <3>2. CASE j # i + 1
                <4>1. j \in 1 .. i /\ j + 1 \in 1 .. i + 1
                    BY <1>1, <3>2
                <4>2. drawn[j] \in Point /\ drawn[j + 1] \in Point /\ Follows(drawn[j + 1], drawn[j])
                    BY <1>1, <2>1, <4>1
                <4>3. Follows(Shifted(drawn[j + 1], m), Shifted(drawn[j], m))
                    BY <1>2, <4>2, ShiftFollows
                <4>. QED BY <1>6, <4>1, <4>3
            <3>. QED BY <3>1, <3>2
        <2>. QED BY <2>3, <2>4
    <1>. QED BY <1>2, <1>6, <1>7

\* gets erases a glyph.
LEMMA LineShrinks ==
    ASSUME LineOK, Editing, i > 0
    PROVE  LET less == SubSeq(drawn, 1, Len(drawn) - 1)
           IN  /\ less \in Seq(Point) /\ Len(less) = i /\ i - 1 \in Nat
               /\ Placed /\ ~AtLineStart(cursor) =>
                      /\ Follows(Back(cursor), less[i])
                      /\ \A j \in 1 .. i - 1 : Follows(less[j + 1], less[j])
                      /\ \A j \in 1 .. i : Fits(less[j])
    <1>. DEFINE less == SubSeq(drawn, 1, Len(drawn) - 1)
    <1>1. i \in Nat \ {0} /\ drawn \in Seq(Point) /\ Len(drawn) = i + 1
        BY DEF LineOK
    <1>2. less \in Seq(Point) /\ Len(less) = i /\ \A j \in 1 .. i : less[j] = drawn[j]
        BY <1>1
    <1>. HIDE DEF less
    <1>3. ASSUME Placed, ~AtLineStart(cursor)
          PROVE  /\ Follows(Back(cursor), less[i])
                 /\ \A j \in 1 .. i - 1 : Follows(less[j + 1], less[j])
                 /\ \A j \in 1 .. i : Fits(less[j])
        <2>1. /\ Follows(cursor, drawn[i + 1]) /\ \A j \in 1 .. i : Follows(drawn[j + 1], drawn[j])
              /\ \A j \in 1 .. i + 1 : Fits(drawn[j])
            BY <1>3 DEF LineOK
        <2>2. Back(cursor) = drawn[i + 1]
            BY <1>3, <2>1 DEF Back, Follows
        <2>3. Follows(Back(cursor), less[i])
            BY <1>1, <1>2, <2>1, <2>2
        <2>4. \A j \in 1 .. i - 1 : Follows(less[j + 1], less[j])
            BY <1>1, <1>2, <2>1
        <2>5. \A j \in 1 .. i : Fits(less[j])
            BY <1>1, <1>2, <2>1
        <2>. QED BY <2>3, <2>4, <2>5
    <1>. QED BY <1>1, <1>2, <1>3 DEF less

\* Steps that leave the screen and do not begin a line.
LEMMA LineStays ==
    ASSUME LineOK, AtOK', UNCHANGED screenVars, Editing' => Editing
    PROVE  LineOK'
    BY DEF LineOK, CursorOK, Editing, Placed, Follows, LastInLine, Fits, AtLineStart, Deleted, screenVars

\* Steps that print something that is not in the line.
LEMMA LineSmudged ==
    ASSUME AtOK', CursorOK', i' \in Nat, smudged' = TRUE, misplaced' \in BOOLEAN
    PROVE  LineOK'
    BY DEF LineOK, Editing, Placed

\* The shell edits its line.
LEMMA LineEdited ==
    ASSUME LineOK, CursorOK', Edit
    PROVE  LineOK'
    <1>1. /\ at["shell"] = "got" /\ i \in Nat /\ CursorOK /\ AtOK' /\ smudged \in BOOLEAN
          /\ misplaced \in BOOLEAN
        BY Moves, ReaderAssumption DEF Edit, LineOK, Places
    <1>2. smudged = FALSE => Editing
        BY <1>1 DEF Editing
    <1>. DEFINE c == held["shell"]
    <1>3. CASE c = "back" /\ Erase /\ smudged /\ Smudge
        <2>1. i' \in Nat
            BY <1>1, <1>3 DEF Erase
        <2>. QED BY <1>1, <1>3, <2>1, LineSmudged DEF Smudge
    <1>4. CASE c = "back" /\ Erase /\ ~smudged
               /\ drawn' = SubSeq(drawn, 1, Len(drawn) - 1) /\ UNCHANGED smudged
               /\ misplaced' = (misplaced \/ AtLineStart(cursor))
        <2>1. i' = i - 1 /\ i > 0 /\ cursor' = Back(cursor) /\ Editing
            BY <1>1, <1>2, <1>4 DEF Erase, Printed
        <2>2. drawn' \in Seq(Point) /\ Len(drawn') = i' + 1 /\ i' \in Nat /\ i = i' + 1
            BY <1>1, <1>4, <2>1, LineShrinks
        <2>3. ASSUME ~misplaced'
              PROVE  /\ Follows(cursor', drawn'[i' + 1])
                     /\ \A j \in 1 .. i' : Follows(drawn'[j + 1], drawn'[j])
                     /\ \A j \in 1 .. i' + 1 : Fits(drawn'[j])
            <3>1. Placed /\ ~AtLineStart(cursor)
                BY <1>4, <2>1, <2>3 DEF Placed
            <3>. QED BY <1>4, <2>1, <2>2, <3>1, LineShrinks
        <2>4. misplaced' \in BOOLEAN
            BY <1>1, <1>4
        <2>. QED BY <1>1, <1>4, <2>2, <2>3, <2>4
                 DEF LineOK, Placed, Follows, LastInLine, Fits, AtLineStart, Deleted
    <1>5. CASE UNCHANGED screenVars
        <2>1. Editing' => Editing
            BY <1>1, <1>5 DEF Editing, screenVars
        <2>. QED BY <1>1, <1>5, <2>1, LineStays
    <1>6. CASE c = "glyph" /\ i' = i + 1 /\ cursor' = Printed(c) /\ UNCHANGED <<smudged, misplaced>>
               /\ drawn' = IF smudged THEN <<>> ELSE LineDrawn
        <2>1. CASE smudged
            BY <1>1, <1>6, <2>1, LineSmudged
        <2>2. CASE ~smudged
            <3>1. i' = i + 1 /\ cursor' = After(cursor) /\ drawn' = LineDrawn /\ Editing
                BY <1>1, <1>2, <1>6, <2>2 DEF Printed
            <3>2. /\ drawn' \in Seq(Point) /\ Len(drawn') = i + 2
                  /\ Follows(cursor', drawn'[i + 2])
                  /\ Placed => /\ \A j \in 1 .. i + 1 : Follows(drawn'[j + 1], drawn'[j])
                               /\ \A j \in 1 .. i + 2 : Fits(drawn'[j])
                BY <3>1, LineGrows
            <3>3. /\ Len(drawn') = i' + 1 /\ i' \in Nat /\ Follows(cursor', drawn'[i' + 1])
                  /\ Placed => /\ \A j \in 1 .. i' : Follows(drawn'[j + 1], drawn'[j])
                               /\ \A j \in 1 .. i' + 1 : Fits(drawn'[j])
                <4>1. i' = i + 1 /\ i' + 1 = i + 2 /\ i' \in Nat
                    BY <1>1, <3>1
                <4>. QED BY <3>2, <4>1
            <3>4. ~misplaced' => Placed
                BY <1>6, <3>1 DEF Placed
            <3>. QED BY <1>1, <1>6, <3>2, <3>3, <3>4
                     DEF LineOK, Placed, Follows, LastInLine, Fits, AtLineStart, Deleted
        <2>. QED BY <2>1, <2>2
    <1>7. CASE i' = i + 1 /\ Smudge
        <2>1. i' \in Nat
            BY <1>1, <1>7
        <2>. QED BY <1>1, <1>7, <2>1, LineSmudged DEF Smudge
    <1>. QED BY <1>3, <1>4, <1>5, <1>6, <1>7 DEF Edit

\* The prompt is about to be printed.
LEMMA LineInit == Init => LineOK
    <1>1. Init => AtOK
        BY ReaderAssumption DEF Init, AtOK, Places
    <1>2. ASSUME Init PROVE ~Editing /\ i \in Nat /\ smudged \in BOOLEAN /\ misplaced \in BOOLEAN
        <2>1. /\ at = [shell |-> "prompt", cmd |-> "absent"] /\ i = 0
              /\ smudged = FALSE /\ misplaced = FALSE
            BY <1>2 DEF Init
        <2>2. at["shell"] = "prompt"
            BY <2>1
        <2>. QED BY <2>1, <2>2 DEF Editing
    <1>. QED BY <1>1, <1>2, CursorInit DEF LineOK, Placed

\* Where a step leaves the readers.
LEMMA AtNext == AtOK /\ [Next]_vars => AtOK'
    <1>. SUFFICES ASSUME AtOK, [Next]_vars PROVE AtOK'
        OBVIOUS
    <1>. "shell" \in Reader /\ "cmd" \in Reader
        BY ReaderAssumption
    <1>1. ASSUME NEW p \in Reader, Read(p) \/ Resume(p) PROVE AtOK'
        BY <1>1, Moves, ReaderAssumption
           DEF Read, Resume, Takes, ShellTakes, CommandTakes, Places
    <1>2. CASE Prompt \/ Edit \/ Enter \/ RunOther \/ RunClear \/ Copy \/ SkipNul
        BY <1>2, Moves DEF Prompt, Edit, Enter, RunOther, RunClear, Copy, SkipNul, Places
    <1>3. CASE RunKill \/ (\E f \in BOOLEAN : RunCopy(f)) \/ CopyEnds
        BY <1>3, ReaderAssumption DEF RunKill, RunCopy, CopyEnds, CommandEnds, AtOK, Places
    <1>4. CASE KeyInterrupt
        BY <1>4, ReaderAssumption
           DEF KeyInterrupt, Ctrl, Key, CtrlS, CtrlD, CtrlC, KillCommand, CommandEnds, AtOK, Places
    <1>5. CASE UNCHANGED vars
        BY <1>5 DEF vars, AtOK
    <1>. QED BY <1>1, <1>2, <1>3, <1>4, <1>5 DEF Next, ShellStep, RunStep, CommandStep

\* A step keeps the line and the screen alike.
LEMMA LineNext == LineOK /\ [Next]_vars => LineOK'
    <1>. SUFFICES ASSUME LineOK, [Next]_vars PROVE LineOK'
        OBVIOUS
    <1>0. CursorOK' /\ AtOK' /\ AtOK /\ i \in Nat
        BY CursorNext, AtNext DEF LineOK
    <1>. "shell" \in Reader /\ "cmd" \in Reader
        BY ReaderAssumption
    <1>1. CASE Edit
        BY <1>0, <1>1, LineEdited
    <1>2. CASE Prompt
        <2>1. /\ i' = 0 /\ drawn' = <<Place(cursor)>> /\ smudged' = FALSE /\ misplaced' = FALSE
              /\ cursor' = After(cursor)
            BY <1>2 DEF Prompt, Printed
        <2>2. cursor \in Reached /\ cursor \in Point
            BY DEF LineOK, CursorOK, Reached, Point
        <2>3. /\ Place(cursor) \in Point /\ Fits(Place(cursor))
              /\ Follows(After(cursor), Place(cursor))
            BY <2>2, GlyphFollows
        <2>4. drawn' \in Seq(Point) /\ Len(drawn') = 1 /\ drawn'[1] = Place(cursor)
            BY <2>1, <2>3
        <2>5. /\ i' \in Nat /\ Len(drawn') = i' + 1 /\ drawn'[i' + 1] = Place(cursor)
              /\ \A j \in 1 .. i' : Follows(drawn'[j + 1], drawn'[j])
              /\ \A j \in 1 .. i' + 1 : Fits(drawn'[j])
            BY <2>1, <2>3, <2>4
        <2>6. Follows(cursor', drawn'[i' + 1])
            BY <2>1, <2>3, <2>5
        <2>7. misplaced' \in BOOLEAN /\ smudged' \in BOOLEAN
            BY <2>1
        <2>. QED BY <1>0, <2>4, <2>5, <2>6, <2>7
                 DEF LineOK, Placed, Follows, LastInLine, Fits, AtLineStart, Deleted
    <1>3. CASE Enter \/ Copy
        <2>1. i' \in Nat /\ smudged' = TRUE /\ misplaced' = FALSE
            BY <1>0, <1>3 DEF Enter, Copy, Smudge
        <2>. QED BY <1>0, <2>1, LineSmudged
    <1>4. CASE RunClear
        <2>1. /\ at'["shell"] = "prompt" /\ i' = i /\ smudged' = smudged
              /\ misplaced' = misplaced
            BY <1>0, <1>4, Moves DEF RunClear, Places
        <2>. QED BY <1>0, <2>1 DEF LineOK, Editing, Placed
    <1>5. ASSUME UNCHANGED screenVars, Editing' => Editing PROVE LineOK'
        BY <1>0, <1>5, LineStays
    <1>6. ASSUME NEW p \in Reader, Read(p) \/ Resume(p) PROVE LineOK'
        <2>1. UNCHANGED screenVars /\ at[p] \in {"running", "reading"}
            BY <1>6 DEF Read, Resume
        <2>2. at'["shell"] = at["shell"] \/ p = "shell"
            BY <1>0, <1>6, Moves, ReaderAssumption
               DEF Read, Resume, Takes, ShellTakes, CommandTakes, Places
        <2>. QED BY <1>5, <2>1, <2>2 DEF Editing, screenVars
    <1>7. CASE RunOther \/ RunKill \/ (\E f \in BOOLEAN : RunCopy(f))
        <2>1. UNCHANGED screenVars /\ at'["shell"] \in {"prompt", "waiting"}
            BY <1>0, <1>7, Moves DEF RunOther, RunKill, RunCopy, Places
        <2>. QED BY <1>5, <2>1 DEF Editing
    <1>8. CASE SkipNul \/ CopyEnds \/ Ctrl \/ Key \/ UNCHANGED vars
        <2>1. UNCHANGED screenVars /\ (at'["shell"] = at["shell"] \/ at'["shell"] = "prompt")
            BY <1>0, <1>8, Moves
               DEF SkipNul, CopyEnds, CommandEnds, Ctrl, Key, vars, Places
        <2>. QED BY <1>5, <2>1 DEF Editing, screenVars
    <1>9. CASE CtrlS \/ CtrlD \/ CtrlC
        <2>1. /\ Caret
              /\ at'["shell"] = at["shell"] \/ at'["shell"] = "prompt"
            BY <1>0, <1>9 DEF CtrlS, CtrlD, CtrlC, KillCommand, CommandEnds
        <2>2. CASE i' = i /\ Smudge
            BY <1>0, <2>2, LineSmudged DEF Smudge
        <2>3. CASE UNCHANGED screenVars
            BY <1>5, <2>1, <2>3 DEF Editing, screenVars
        <2>. QED BY <2>1, <2>2, <2>3 DEF Caret
    <1>. QED BY <1>1, <1>2, <1>3, <1>4, <1>6, <1>7, <1>8, <1>9
             DEF Next, ShellStep, RunStep, CommandStep, KeyInterrupt

\* The cell that deleteChar clears, over the start of a line: the last column, give or take one.
LEMMA FollowedIsNext ==
    ASSUME NEW cur \in Point, NEW glyph \in Point, Follows(cur, glyph)
    PROVE  NextToErase(cur, glyph)
    <1>. DEFINE w == CHAR_WIDTH * fontScale
                h == HORIZONTAL_PADDING * fontScale
    <1>1. \A a, b, c \in Nat : a * c \in Nat /\ (a + b) * c = a * c + b * c
                                /\ (a <= b => a * c <= b * c) /\ (c > 0 => a <= a * c)
                                /\ (a = 0 => a * c = 0)
        OBVIOUS
    <1>2. /\ w \in Nat /\ w > 0 /\ h \in Nat /\ h <= w
          /\ HORIZONTAL_PADDING \in Nat /\ HORIZONTAL_PADDING <= h
          /\ (HORIZONTAL_PADDING = 0 => h = 0)
          /\ (CHAR_WIDTH + HORIZONTAL_PADDING) * fontScale = w + h
        BY <1>1, ScreenAssumption, ColumnAssumption
    <1>3. Advance = w + HORIZONTAL_PADDING
        BY DEF Advance
    <1>. HIDE DEF w, h
    <1>4. CASE ~AtLineStart(cur)
        BY <1>4 DEF Follows, NextToErase
    <1>5. CASE AtLineStart(cur)
        <2>1. Deleted(cur) = [x |-> WINDOW_WIDTH - BORDER_PADDING - (w + h), y |-> cur.y - LineHeight]
            BY <1>2, <1>5 DEF Deleted
        <2>2. glyph.y = cur.y - LineHeight /\ LastInLine(glyph)
            BY <1>5 DEF Follows
        <2>3. Deleted(cur).x - glyph.x \in 1 - Advance .. Advance - 1
            <3>1. Deleted(cur).x = WINDOW_WIDTH - BORDER_PADDING - (w + h) /\ glyph.x \in Int
                BY <2>1 DEF Point
            <3>. QED BY <1>2, <1>3, <2>2, <3>1, Geometry DEF LastInLine
        <2>. QED BY <1>5, <2>1, <2>2, <2>3 DEF NextToErase
    <1>. QED BY <1>4, <1>5

\* The shell shows a glyph for each character of its line, for every geometry of the screen and
\* every length of the line, and until it has erased back over the start of a line a backspace
\* clears the last of them: wraps, scrolls and backspaces move both alike (gets in stdLib.c,
\* printChar and deleteChar in videoDriver.c).
THEOREM LineIsAlwaysShown == Spec => []LineIsWhatIsShown
    <1>1. ASSUME LineOK PROVE LineIsWhatIsShown
        <2>1. ASSUME Placed PROVE NextToErase(cursor, drawn[i + 1])
            <3>1. /\ cursor \in Point /\ Follows(cursor, drawn[i + 1])
                  /\ drawn \in Seq(Point) /\ Len(drawn) = i + 1 /\ i \in Nat
                BY <1>1, <2>1 DEF LineOK, Placed, CursorOK, Reached, Point
            <3>2. drawn[i + 1] \in Point
                BY <3>1
            <3>. QED BY <3>1, <3>2, FollowedIsNext
        <2>. QED BY <1>1, <2>1 DEF LineOK, LineIsWhatIsShown, Editing, Placed
    <1>. QED BY LineInit, LineNext, <1>1, PTL DEF Spec

----------------------------------------------------------------------------
(***************************************************************************)
(* Tokens and keys.  A key, or an EOF, comes with a token, and the token   *)
(* is in the semaphore or with a reader that has been woken with it, until *)
(* that reader has taken a key for it or has been killed and the token is  *)
(* posted again.                                                           *)
(***************************************************************************)
\* The readers that hold a token, when q is the queue and a says where each reader is.
Holders(q, a) == {p \in Reader : a[p] = "reading" /\ ~In(q, p)}

WaitersOK(q, a) ==
    q \in Seq(Reader) /\ Distinct(q) /\ \A p \in Reader : In(q, p) => a[p] = "reading"

Unserved == IF end_of_file THEN buffer.size + 1 ELSE buffer.size

TokensOK ==
    /\ AtOK /\ KeysOK
    /\ tokens \in Nat /\ end_of_file \in BOOLEAN
    /\ WaitersOK(waiters, at)
    /\ waiters # <<>> => tokens = 0
    /\ ~cb_isfull => Unserved <= tokens + Cardinality(Holders(waiters, at))

\* There are two readers.
LEMMA HoldersAreFinite ==
    ASSUME NEW q, NEW a
    PROVE  IsFiniteSet(Holders(q, a)) /\ Cardinality(Holders(q, a)) \in Nat
    <1>1. IsFiniteSet(Reader) /\ Holders(q, a) \in SUBSET Reader
        <2>1. Reader = {"shell"} \cup {"cmd"}
            BY ReaderAssumption
        <2>. QED BY <2>1, FS_Singleton, FS_AddElement DEF Holders
    <1>. QED BY <1>1, FS_Subset, FS_CardinalityType

\* What holders depend on, and how many they are with one more or one less.
LEMMA HoldersChange ==
    ASSUME NEW q, NEW a, NEW r, NEW b, NEW p \in Reader,
           \A o \in Reader \ {p} : (b[o] = "reading" /\ ~In(r, o)) <=> (a[o] = "reading" /\ ~In(q, o))
    PROVE  /\ (p \in Holders(q, a) <=> p \in Holders(r, b)) => Holders(r, b) = Holders(q, a)
           /\ p \notin Holders(q, a) /\ p \in Holders(r, b) =>
                  Cardinality(Holders(r, b)) = Cardinality(Holders(q, a)) + 1
           /\ p \in Holders(q, a) /\ p \notin Holders(r, b) =>
                  Cardinality(Holders(r, b)) = Cardinality(Holders(q, a)) - 1
    <1>1. \A o \in Reader \ {p} : o \in Holders(r, b) <=> o \in Holders(q, a)
        BY DEF Holders
    <1>2. Holders(q, a) \subseteq Reader /\ Holders(r, b) \subseteq Reader
        BY DEF Holders
    <1>3. (p \in Holders(q, a) <=> p \in Holders(r, b)) => Holders(r, b) = Holders(q, a)
        BY <1>1, <1>2
    <1>4. p \notin Holders(q, a) /\ p \in Holders(r, b) => Holders(r, b) = Holders(q, a) \cup {p}
        BY <1>1, <1>2
    <1>5. p \in Holders(q, a) /\ p \notin Holders(r, b) => Holders(r, b) = Holders(q, a) \ {p}
        BY <1>1, <1>2
    <1>. QED BY <1>3, <1>4, <1>5, HoldersAreFinite, FS_AddElement, FS_RemoveElement

\* semPost: one token more, in the semaphore or with the reader it wakes.
Post(q, t, r, u) ==
    \/ q = <<>> /\ r = <<>> /\ u = t + 1
    \/ q # <<>> /\ r = Tail(q) /\ u = t

LEMMA PostCounts ==
    ASSUME NEW q, NEW a, WaitersOK(q, a), NEW t \in Nat, q # <<>> => t = 0, NEW r, NEW u,
           Post(q, t, r, u)
    PROVE  /\ WaitersOK(r, a) /\ u \in Nat /\ (r # <<>> => u = 0)
           /\ u + Cardinality(Holders(r, a)) = t + Cardinality(Holders(q, a)) + 1
    <1>1. CASE q = <<>>
        BY <1>1, HoldersAreFinite DEF Post
    <1>2. CASE q # <<>>
        <2>1. r = Tail(q) /\ u = t /\ t = 0
            BY <1>2 DEF Post
        <2>2. PICK p \in Reader : p = Head(q)
            BY <1>2, QueueMoves DEF WaitersOK
        <2>3. /\ In(q, p) /\ r \in Seq(Reader) /\ Distinct(r)
              /\ \A o : In(r, o) <=> In(q, o) /\ o # p
            BY <1>2, <2>1, <2>2, QueueMoves DEF WaitersOK
        <2>4. WaitersOK(r, a) /\ a[p] = "reading"
            BY <2>3 DEF WaitersOK
        <2>5. /\ p \notin Holders(q, a) /\ p \in Holders(r, a)
              /\ \A o \in Reader \ {p} :
                    (a[o] = "reading" /\ ~In(r, o)) <=> (a[o] = "reading" /\ ~In(q, o))
            BY <2>3, <2>4 DEF Holders
        <2>6. Cardinality(Holders(r, a)) = Cardinality(Holders(q, a)) + 1
            BY <2>5, HoldersChange
        <2>. QED BY <2>1, <2>4, <2>6, HoldersAreFinite
    <1>. QED BY <1>1, <1>2

\* cb_pop: a key or the EOF is taken if there is one, and a full ring stays full.
LEMMA PopCounts ==
    ASSUME KeysOK, end_of_file \in BOOLEAN, cb_pop
    PROVE  /\ end_of_file' = FALSE
           /\ ~cb_isfull' => /\ ~cb_isfull
                             /\ \/ Unserved' = Unserved - 1
                                \/ Unserved = 0 /\ Unserved' = 0
    <1>1. GoodRing(buffer) /\ buffer.size \in Nat /\ buffer.size <= BUFFER_SIZE
        BY Fields DEF KeysOK, GoodRing
    <1>2. end_of_file' = FALSE /\ Unserved' = buffer'.size
        BY DEF cb_pop, Unserved
    <1>3. CASE end_of_file
        BY <1>1, <1>2, <1>3 DEF cb_pop, Unserved, cb_isfull
    <1>4. CASE ~end_of_file /\ cb_isEmpty
        <2>1. buffer' = buffer /\ (buffer.size = 0 \/ buffer.size = BUFFER_SIZE)
            <3>1. buffer.readIndex \in Cell /\ buffer.writeIndex = CellOf(buffer, buffer.size)
                BY <1>1, Fields DEF GoodRing
            <3>2. CellOf(buffer, 0) = buffer.readIndex
                BY <3>1, Wraps, BufferAssumption DEF CellOf, Cell
            <3>3. buffer.size < BUFFER_SIZE => buffer.size = 0
                BY <1>1, <1>4, <3>1, <3>2, CellsDiffer, BufferAssumption DEF cb_isEmpty, CellOf
            <3>. QED BY <1>1, <1>4, <3>3, BufferAssumption DEF cb_pop
        <2>. QED BY <1>1, <1>2, <1>4, <2>1 DEF Unserved, cb_isfull
    <1>5. CASE ~end_of_file /\ ~cb_isEmpty
        <2>1. buffer.size > 0 /\ buffer'.size = buffer.size - 1
            BY <1>1, <1>5, PoppedIs
        <2>2. buffer.size # BUFFER_SIZE
            <3>1. buffer.readIndex \in Cell /\ buffer.writeIndex = CellOf(buffer, buffer.size)
                BY <1>1, Fields DEF GoodRing
            <3>2. CellOf(buffer, BUFFER_SIZE) = buffer.readIndex
                BY <3>1, Wraps, BufferAssumption DEF CellOf, Cell
            <3>. QED BY <1>5, <3>1, <3>2 DEF cb_isEmpty
        <2>. QED BY <1>1, <1>2, <1>5, <2>1, <2>2 DEF Unserved, cb_isfull
    <1>. QED BY <1>3, <1>4, <1>5

\* cb_push: one key more, or the ring was full.
LEMMA PushCounts ==
    ASSUME KeysOK, NEW c \in Char, buffer' = Pushed(c), UNCHANGED end_of_file
    PROVE  ~cb_isfull' => ~cb_isfull /\ Unserved' = Unserved + 1
    <1>1. buffer.size \in Nat
        BY Fields DEF KeysOK
    <1>2. CASE cb_isfull
        BY <1>2 DEF Pushed, cb_isfull
    <1>3. CASE ~cb_isfull
        <2>1. buffer'.size = buffer.size + 1
            BY <1>3, PushedIs DEF KeysOK
        <2>. QED BY <1>1, <1>3, <2>1 DEF Unserved
    <1>. QED BY <1>2, <1>3

\* Steps that leave the keyboard and who is inside a read alone.
LEMMA TokensStay ==
    ASSUME TokensOK, AtOK', KeysOK', UNCHANGED <<waiters, tokens, end_of_file, buffer>>,
           \A p \in Reader : at'[p] = "reading" <=> at[p] = "reading"
    PROVE  TokensOK'
    <1>1. Holders(waiters, at)' = Holders(waiters, at) /\ WaitersOK(waiters, at)'
        BY DEF Holders, WaitersOK, TokensOK
    <1>2. ~cb_isfull' => ~cb_isfull /\ Unserved' = Unserved
        BY DEF cb_isfull, Unserved
    <1>. QED BY <1>1, <1>2 DEF TokensOK

\* A read that finds a token.
LEMMA TokensReadNow ==
    ASSUME TokensOK, AtOK', KeysOK', NEW p \in Reader, ReadNow(p),
           \A r \in Reader : at'[r] = "reading" <=> at[r] = "reading"
    PROVE  TokensOK'
    <1>1. /\ tokens \in Nat \ {0} /\ tokens' = tokens - 1 /\ waiters' = waiters /\ waiters = <<>>
          /\ cb_pop
        BY DEF TokensOK, ReadNow
    <1>2. Holders(waiters', at') = Holders(waiters, at) /\ WaitersOK(waiters', at')
        BY <1>1 DEF Holders, WaitersOK, TokensOK
    <1>3. /\ end_of_file' = FALSE
          /\ ~cb_isfull' => /\ ~cb_isfull
                            /\ \/ Unserved' = Unserved - 1
                               \/ Unserved = 0 /\ Unserved' = 0
        BY <1>1, PopCounts DEF TokensOK
    <1>4. Unserved \in Nat
        BY Fields DEF Unserved, TokensOK, KeysOK
    <1>5. ~cb_isfull' => Unserved' <= tokens' + Cardinality(Holders(waiters', at'))
        <2>. DEFINE h == Cardinality(Holders(waiters, at))
        <2>1. h \in Nat
            BY HoldersAreFinite
        <2>2. ~cb_isfull => Unserved <= tokens + h
            BY DEF TokensOK
        <2>3. Cardinality(Holders(waiters', at')) = h
            BY <1>2
        <2>. HIDE DEF h
        <2>. QED BY <1>1, <1>3, <1>4, <2>1, <2>2, <2>3
    <1>6. tokens' \in Nat /\ waiters' = <<>>
        BY <1>1
    <1>. QED BY <1>2, <1>3, <1>5, <1>6 DEF TokensOK

\* A read that finds none.
LEMMA TokensReadWaits ==
    ASSUME TokensOK, AtOK', KeysOK', NEW p \in Reader, ReadWaits(p), at[p] = "running",
           Goto(p, "reading")
    PROVE  TokensOK'
    <1>1. /\ waiters' = Append(waiters, p) /\ tokens' = tokens /\ tokens = 0
          /\ buffer' = buffer /\ end_of_file' = end_of_file
          /\ at'[p] = "reading" /\ \A r \in Reader : r # p => at'[r] = at[r]
        BY Moves DEF ReadWaits, TokensOK, Places
    <1>2. ~In(waiters, p) /\ waiters \in Seq(Reader) /\ Distinct(waiters)
        BY DEF TokensOK, WaitersOK
    <1>3. /\ waiters' \in Seq(Reader) /\ Distinct(waiters')
          /\ \A r : In(waiters', r) <=> In(waiters, r) \/ r = p
        BY <1>1, <1>2, QueueGrows
    <1>4. Holders(waiters', at') = Holders(waiters, at)
        BY <1>1, <1>3 DEF Holders
    <1>5. WaitersOK(waiters', at')
        BY <1>1, <1>3 DEF WaitersOK, TokensOK
    <1>6. ~cb_isfull' => ~cb_isfull /\ Unserved' = Unserved
        BY <1>1 DEF cb_isfull, Unserved
    <1>. QED BY <1>1, <1>4, <1>5, <1>6 DEF TokensOK

\* A reader that has been woken takes what there is.
LEMMA TokensResume ==
    ASSUME TokensOK, AtOK', KeysOK', NEW p \in Reader, ReadResumes(p), at[p] = "reading",
           at'[p] # "reading", \A r \in Reader : r # p => at'[r] = at[r]
    PROVE  TokensOK'
    <1>1. cb_pop /\ tokens' = tokens /\ waiters' = waiters /\ ~In(waiters, p)
        BY DEF ReadResumes, IsQueued, In
    <1>2. WaitersOK(waiters', at')
        BY <1>1 DEF WaitersOK, TokensOK
    <1>3. p \in Holders(waiters, at) /\ p \notin Holders(waiters', at')
        BY <1>1 DEF Holders
    <1>. DEFINE h == Cardinality(Holders(waiters, at))
    <1>4. /\ h \in Nat /\ Cardinality(Holders(waiters', at')) = h - 1
          /\ Cardinality(Holders(waiters', at')) \in Nat
        BY <1>1, <1>3, HoldersChange, HoldersAreFinite
    <1>5. /\ end_of_file' = FALSE
          /\ ~cb_isfull' => /\ ~cb_isfull
                            /\ \/ Unserved' = Unserved - 1
                               \/ Unserved = 0 /\ Unserved' = 0
        BY <1>1, PopCounts DEF TokensOK
    <1>6. /\ Unserved \in Nat /\ tokens \in Nat
          /\ ~cb_isfull => Unserved <= tokens + h
        BY Fields DEF Unserved, TokensOK, KeysOK
    <1>. HIDE DEF h
    <1>7. ~cb_isfull' => Unserved' <= tokens' + Cardinality(Holders(waiters', at'))
        BY <1>1, <1>4, <1>5, <1>6
    <1>. QED BY <1>1, <1>2, <1>5, <1>6, <1>7 DEF TokensOK

\* A reader that ends or is killed: if it was inside a read its token, or one it never had, is
\* posted.
LEMMA TokensCleanup ==
    ASSUME TokensOK, AtOK', KeysOK', StdinCleanup("cmd"), UNCHANGED <<buffer, end_of_file>>,
           at'["cmd"] # "reading", at'["shell"] = "reading" <=> at["shell"] = "reading"
    PROVE  TokensOK'
    <1>. "shell" \in Reader /\ "cmd" \in Reader /\ Reader \ {"cmd"} = {"shell"}
        BY ReaderAssumption
    <1>1. CASE at["cmd"] # "reading"
        <2>1. UNCHANGED <<tokens, waiters>>
            BY <1>1 DEF StdinCleanup
        <2>. QED BY <1>1, <2>1, TokensStay
    <1>2. CASE at["cmd"] = "reading"
        <2>. DEFINE others == Without(waiters, "cmd")
        <2>1. /\ others \in Seq(Reader) /\ Distinct(others)
              /\ \A r : In(others, r) <=> In(waiters, r) /\ r # "cmd"
              /\ waiters = <<>> => others = <<>>
            BY QueueWithout DEF TokensOK, WaitersOK
        <2>2. Post(others, tokens, waiters', tokens')
            BY <1>2 DEF StdinCleanup, Post
        <2>. HIDE DEF others
        <2>3. WaitersOK(others, at')
            BY <2>1 DEF WaitersOK, TokensOK
        <2>4. \A o \in Reader \ {"cmd"} :
                  (at'[o] = "reading" /\ ~In(others, o)) <=> (at[o] = "reading" /\ ~In(waiters, o))
            BY <2>1
        <2>. DEFINE h == Cardinality(Holders(waiters, at))
                    k == Cardinality(Holders(others, at'))
        <2>5. "cmd" \notin Holders(others, at')
            BY DEF Holders
        <2>6. h \in Nat /\ k \in Nat /\ k \in {h, h - 1}
            BY <2>4, <2>5, HoldersChange, HoldersAreFinite
        <2>7. tokens \in Nat /\ (others # <<>> => tokens = 0)
            BY <2>1 DEF TokensOK
        <2>8. /\ WaitersOK(waiters', at') /\ tokens' \in Nat /\ (waiters' # <<>> => tokens' = 0)
              /\ tokens' + Cardinality(Holders(waiters', at')) = tokens + k + 1
            BY <2>2, <2>3, <2>7, PostCounts
        <2>9. Cardinality(Holders(waiters', at')) \in Nat
            BY HoldersAreFinite
        <2>10. /\ ~cb_isfull' => ~cb_isfull /\ Unserved' = Unserved
               /\ Unserved \in Nat
               /\ ~cb_isfull => Unserved <= tokens + h
            BY Fields DEF cb_isfull, Unserved, TokensOK, KeysOK
        <2>. HIDE DEF h, k
        <2>11. ~cb_isfull' => Unserved' <= tokens' + Cardinality(Holders(waiters', at'))
            BY <2>6, <2>7, <2>8, <2>9, <2>10
        <2>. QED BY <2>8, <2>11 DEF TokensOK
    <1>. QED BY <1>1, <1>2

\* A key or Ctrl-D: one thing more to read and one token more.
LEMMA TokensPost ==
    ASSUME TokensOK, KeysOK', at' = at, semPost, end_of_file' \in BOOLEAN,
           ~cb_isfull' => ~cb_isfull /\ Unserved' <= Unserved + 1, Unserved' \in Nat
    PROVE  TokensOK'
    <1>1. Post(waiters, tokens, waiters', tokens')
        BY DEF semPost, Post
    <1>. DEFINE h == Cardinality(Holders(waiters, at))
    <1>2. /\ WaitersOK(waiters', at) /\ tokens' \in Nat /\ (waiters' # <<>> => tokens' = 0)
          /\ tokens' + Cardinality(Holders(waiters', at)) = tokens + h + 1
        BY <1>1, PostCounts DEF TokensOK
    <1>3. h \in Nat /\ Cardinality(Holders(waiters', at)) \in Nat
        BY HoldersAreFinite
    <1>4. Unserved \in Nat /\ tokens \in Nat /\ (~cb_isfull => Unserved <= tokens + h)
        BY Fields DEF Unserved, TokensOK, KeysOK
    <1>. HIDE DEF h
    <1>5. ~cb_isfull' => Unserved' <= tokens' + Cardinality(Holders(waiters', at))
        BY <1>2, <1>3, <1>4
    <1>. QED BY <1>2, <1>5 DEF TokensOK, AtOK

\* There is nothing to read and no token.
LEMMA TokensInit == Init => TokensOK
    <1>. SUFFICES ASSUME Init PROVE TokensOK
        OBVIOUS
    <1>1. AtOK /\ KeysOK
        BY LineInit, KeysInit DEF LineOK
    <1>2. /\ tokens = 0 /\ waiters = <<>> /\ end_of_file = FALSE /\ buffer.size = 0
        BY DEF Init, KeyboardInit, EmptyBuffer
    <1>3. WaitersOK(waiters, at)
        BY <1>2 DEF WaitersOK, Distinct, In
    <1>4. Unserved = 0 /\ Cardinality(Holders(waiters, at)) \in Nat
        BY <1>2, HoldersAreFinite DEF Unserved
    <1>5. Unserved <= tokens + Cardinality(Holders(waiters, at))
        BY <1>2, <1>4
    <1>6. tokens \in Nat /\ end_of_file \in BOOLEAN
        BY <1>2
    <1>. QED BY <1>1, <1>2, <1>3, <1>5, <1>6 DEF TokensOK

\* A step keeps keys and tokens together.
LEMMA TokensNext == TokensOK /\ [Next]_vars => TokensOK'
    <1>. SUFFICES ASSUME TokensOK, [Next]_vars PROVE TokensOK'
        OBVIOUS
    <1>0. AtOK' /\ KeysOK' /\ AtOK
        BY AtNext, KeysNext DEF TokensOK
    <1>. "shell" \in Reader /\ "cmd" \in Reader /\ \A r \in Reader : r = "shell" \/ r = "cmd"
        BY ReaderAssumption
    <1>1. ASSUME NEW p \in Reader, Read(p) PROVE TokensOK'
        <2>1. at[p] = "running"
            BY <1>1 DEF Read
        <2>2. CASE ReadNow(p) /\ Takes(p)
            <3>1. at'[p] # "reading" /\ \A r \in Reader : r # p => at'[r] = at[r]
                BY <1>0, <2>2, Moves DEF Takes, ShellTakes, CommandTakes, Places
            <3>. QED BY <1>0, <2>1, <2>2, <3>1, TokensReadNow
        <2>3. CASE ReadWaits(p) /\ Goto(p, "reading")
            BY <1>0, <2>1, <2>3, TokensReadWaits
        <2>. QED BY <1>1, <2>2, <2>3 DEF Read
    <1>2. ASSUME NEW p \in Reader, Resume(p) PROVE TokensOK'
        <2>1. at'[p] # "reading" /\ \A r \in Reader : r # p => at'[r] = at[r]
            BY <1>0, <1>2, Moves DEF Resume, Takes, ShellTakes, CommandTakes, Places
        <2>. QED BY <1>0, <1>2, <2>1, TokensResume DEF Resume
    <1>3. CASE Prompt \/ Edit \/ Enter \/ RunOther \/ RunClear \/ Copy \/ SkipNul
        <2>1. UNCHANGED keyboardVars
            BY <1>3 DEF Prompt, Edit, Enter, RunOther, RunClear, Copy, SkipNul
        <2>2. PICK p \in Reader, place \in Places \ {"reading"} : Goto(p, place) /\ at[p] # "reading"
            BY <1>3 DEF Prompt, Edit, Enter, RunOther, RunClear, Copy, SkipNul, Places
        <2>3. \A r \in Reader : at'[r] = "reading" <=> at[r] = "reading"
            BY <1>0, <2>2, Moves
        <2>. QED BY <1>0, <2>1, <2>3, TokensStay DEF keyboardVars
    <1>4. CASE (\E f \in BOOLEAN : RunCopy(f)) \/ CopyEnds
        <2>1. /\ UNCHANGED keyboardVars /\ at["cmd"] # "reading" /\ at'["cmd"] # "reading"
              /\ at'["shell"] = "reading" <=> at["shell"] = "reading"
            BY <1>4 DEF RunCopy, CopyEnds, CommandEnds
        <2>. QED BY <1>0, <2>1, TokensStay DEF keyboardVars
    <1>5. CASE RunKill
        BY <1>0, <1>5, TokensCleanup DEF RunKill
    <1>6. CASE CtrlC
        <2>1. CASE at["shell"] = "waiting"
            BY <1>0, <1>6, <2>1, TokensCleanup DEF CtrlC, KillCommand, CommandEnds
        <2>2. CASE at["shell"] # "waiting"
            BY <1>0, <1>6, <2>2, TokensStay DEF CtrlC, keyboardVars
        <2>. QED BY <2>1, <2>2
    <1>7. CASE Ctrl \/ CtrlS \/ UNCHANGED vars
        BY <1>0, <1>7, TokensStay DEF Ctrl, CtrlS, PressCtrl, vars, keyboardVars
    <1>8. CASE CtrlD
        <2>1. /\ at' = at /\ semPost /\ end_of_file' = TRUE /\ buffer' = buffer
            BY <1>8 DEF CtrlD, SendEof
        <2>2. buffer.size \in Nat
            BY Fields DEF TokensOK, KeysOK
        <2>3. /\ ~cb_isfull' => ~cb_isfull /\ Unserved' <= Unserved + 1
              /\ Unserved' \in Nat
            BY <2>1, <2>2 DEF cb_isfull, Unserved, TokensOK
        <2>. QED BY <1>0, <2>1, <2>3, TokensPost
    <1>9. CASE Key
        <2>1. PICK c \in Typed : PressKey(c)
            BY <1>9 DEF Key
        <2>2. /\ at' = at /\ semPost /\ UNCHANGED end_of_file /\ buffer' = Pushed(c)
              /\ c \in Char
            BY <1>9, <2>1, BufferAssumption DEF Key, PressKey
        <2>3. ~cb_isfull' => ~cb_isfull /\ Unserved' = Unserved + 1
            BY <2>2, PushCounts DEF TokensOK
        <2>4. Unserved \in Nat /\ Unserved' \in Nat
            BY <1>0, Fields DEF Unserved, TokensOK, KeysOK
        <2>. QED BY <1>0, <2>2, <2>3, <2>4, TokensPost DEF TokensOK
    <1>. QED BY <1>1, <1>2, <1>3, <1>4, <1>5, <1>6, <1>7, <1>8, <1>9
             DEF Next, ShellStep, RunStep, CommandStep, KeyInterrupt

\* For every size of the ring: a reader sleeps in the keyboard's semaphore only while each key in
\* the ring, and the EOF, are for a reader that has been given its token, whoever was killed in
\* the middle of a read (kb_getchar, pressedKey, send_eof_to_stdin, release_stdin).
THEOREM NobodySleepsOnKeys == Spec => []NoReaderSleepsOnKeys
    <1>1. TokensOK => NoReaderSleepsOnKeys
        <2>1. Served = Holders(waiters, at)
            BY DEF Served, Holders, IsQueued, In
        <2>. SUFFICES ASSUME TokensOK, waiters # <<>>, ~cb_isfull
                      PROVE  buffer.size + (IF end_of_file THEN 1 ELSE 0) <= Cardinality(Served)
            BY DEF NoReaderSleepsOnKeys
        <2>2. tokens = 0 /\ Unserved <= tokens + Cardinality(Served)
            BY <2>1 DEF TokensOK
        <2>3. buffer.size \in Nat /\ Cardinality(Served) \in Nat
            BY <2>1, Fields, HoldersAreFinite DEF TokensOK, KeysOK
        <2>. QED BY <2>2, <2>3 DEF Unserved
    <1>. QED BY TokensInit, TokensNext, <1>1, PTL DEF Spec
====
