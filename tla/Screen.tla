---- MODULE Screen ----
(***************************************************************************)
(* The text cursor of 3_Kernel/3_drivers/videoDriver.c, in pixels: where a *)
(* character is drawn, where a newline and a backspace move the cursor,    *)
(* when the screen scrolls.  currentLinePosition is left out: it counts    *)
(* all that has been printed since boot and is not reset by anything, so   *)
(* canDelete() holds once there is a welcome message.                      *)
(***************************************************************************)
EXTENDS Integers

CONSTANTS
    WINDOW_WIDTH, WINDOW_HEIGHT,   \* 1024 and 768
    BORDER_PADDING, VERTICAL_PADDING, HORIZONTAL_PADDING,
    CHAR_WIDTH, CHAR_HEIGHT,
    fontScale

ASSUME ScreenAssumption ==
    /\ WINDOW_WIDTH \in Nat /\ WINDOW_HEIGHT \in Nat
    /\ {BORDER_PADDING, VERTICAL_PADDING, HORIZONTAL_PADDING} \subseteq Nat
    /\ {CHAR_WIDTH, CHAR_HEIGHT, fontScale} \subseteq Nat \ {0}

Advance == CHAR_WIDTH * fontScale + HORIZONTAL_PADDING
LineHeight == (CHAR_HEIGHT + VERTICAL_PADDING) * fontScale

ASSUME ColumnAssumption ==
    2 * BORDER_PADDING + Advance <= WINDOW_WIDTH /\ HORIZONTAL_PADDING <= CHAR_WIDTH

Home == [x |-> BORDER_PADDING, y |-> BORDER_PADDING]

\* printNewLine, which does not scroll.
NewLine(cur) == [x |-> BORDER_PADDING, y |-> cur.y + LineHeight]

\* moveScreenUpIfFull, behind the test of printChar: by one line, however far below.
Scrolls(cur) ==
    /\ cur.y + CHAR_HEIGHT > WINDOW_HEIGHT - BORDER_PADDING
    /\ cur.y >= WINDOW_HEIGHT - CHAR_HEIGHT * fontScale - BORDER_PADDING
Scrolled(cur) == IF Scrolls(cur) THEN [cur EXCEPT !.y = @ - LineHeight] ELSE cur

\* printChar for a character that is drawn: after the wrap, before the scroll.
\* Variant with a bug: the line wraps one column late.
WrappedLate(cur) == IF cur.x > WINDOW_WIDTH - BORDER_PADDING THEN NewLine(cur) ELSE cur
Wrapped(cur) ==
    IF cur.x + Advance > WINDOW_WIDTH - BORDER_PADDING THEN NewLine(cur) ELSE cur
\* Where it is drawn, and the cursor after it.
Place(cur) == Scrolled(Wrapped(cur))
After(cur) == [Place(cur) EXCEPT !.x = @ + Advance]

\* deleteChar: the cell it clears is the cursor's new place.
AtLineStart(cur) == cur.x <= BORDER_PADDING
Deleted(cur) ==
    IF AtLineStart(cur)
    THEN [x |-> WINDOW_WIDTH - BORDER_PADDING - (CHAR_WIDTH + HORIZONTAL_PADDING) * fontScale,
          y |-> cur.y - LineHeight]
    ELSE [cur EXCEPT !.x = @ - Advance]

\* clear and resetCursor leave currentX as it is.
Cleared(cur) == [cur EXCEPT !.y = BORDER_PADDING]

\* How far a glyph reaches to the right and down.
RightEnd(cur) == cur.x + Advance
BottomEnd(cur) == cur.y + CHAR_HEIGHT * fontScale

\* The test of printChar for the bottom margin has no fontScale: a glyph may pass the margin by
\* as much as the scale adds to its height.
InsideMargins(cur) ==
    /\ RightEnd(cur) <= WINDOW_WIDTH - BORDER_PADDING
    /\ BottomEnd(cur) <= WINDOW_HEIGHT - BORDER_PADDING + CHAR_HEIGHT * (fontScale - 1)
====
