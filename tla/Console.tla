---- MODULE Console ----
(***************************************************************************)
(* The console: the keyboard, the shell that edits a line (gets, in        *)
(* stdLib.c) and one command that copies what is typed (cat, wc, filter),  *)
(* all on one screen.  The command runs in the foreground, and the shell   *)
(* waits for it, or is the first of a pipe in the background ("cat | wc    *)
(* &"), where it still reads the keyboard and competes with the shell.     *)
(*                                                                         *)
(* A system call and an interrupt are steps; what the second of a pipe     *)
(* prints is printed with what the first reads (Pipe.tla has the pipe).    *)
(* Waking the shell when the command ends is one step (Scheduler.tla).     *)
(***************************************************************************)
EXTENDS Keyboard, Screen

CONSTANTS
    MAX_COMMAND_LENGTH,   \* the n of gets
    MaxFeeds              \* bound of the model: lines below the last one that are told apart

ASSUME LineAssumption == MAX_COMMAND_LENGTH \in Nat \ {0} /\ MaxFeeds \in Nat

VARIABLES
    held,      \* what each reader has read and not yet acted on
    i,         \* of gets: how many characters of the line are in its buffer
    cursor,    \* currentX and currentY
    drawn,     \* history: where the prompt and the glyphs after it are, until it is smudged
    smudged,   \* history: since the prompt, something else has been printed, or a character
               \* that is not drawn has gone into the line
    misplaced  \* history: since the prompt, a backspace has gone back over the start of a line

screenVars == <<i, cursor, drawn, smudged, misplaced>>
vars == <<keyboardVars, at, held, screenVars>>

ASSUME ReaderAssumption == Reader = {"shell", "cmd"}

\* initKeyboardDriver and initShell: the prompt is about to be printed.
Init ==
    /\ KeyboardInit
    /\ at = [shell |-> "prompt", cmd |-> "absent"]
    /\ held = [p \in Reader |-> NULL]
    /\ i = 0 /\ cursor = Home /\ drawn = <<>>
    /\ smudged = FALSE /\ misplaced = FALSE

Goto(p, place) == at' = [at EXCEPT ![p] = place]

----------------------------------------------------------------------------
\* Printing

LastY == WINDOW_HEIGHT - BORDER_PADDING - CHAR_HEIGHT
\* Lines more than MaxFeeds below the last one are not told apart.
Clamped(cur) == IF cur.y > LastY + MaxFeeds * LineHeight THEN [cur EXCEPT !.y = @ - LineHeight]
                ELSE cur
\* In the top line the code's currentY wraps around and the model's stays.
Back(cur) == IF AtLineStart(cur) /\ cur.y <= BORDER_PADDING THEN Deleted(NewLine(cur))
             ELSE Deleted(cur)

\* printChar.
Printed(c) ==
    CASE c = "glyph" -> After(cursor)
      [] c = "enter" -> Clamped(NewLine(cursor))
      [] c = "back"  -> Back(cursor)
      [] OTHER       -> cursor

\* The glyphs of the line after another one is drawn.
LineDrawn ==
    LET moved == IF Scrolls(Wrapped(cursor)) THEN LineHeight ELSE 0
    IN  Append([j \in DOMAIN drawn |-> [drawn[j] EXCEPT !.y = @ - moved]], Place(cursor))

\* Something is printed, or goes into the line, that is not one glyph of the line.
Smudge == smudged' = TRUE /\ drawn' = <<>> /\ misplaced' = FALSE

----------------------------------------------------------------------------
\* The shell

\* prompt().
Prompt ==
    /\ at["shell"] = "prompt"
    /\ cursor' = Printed("glyph")
    /\ i' = 0 /\ drawn' = <<Place(cursor)>>
    /\ smudged' = FALSE /\ misplaced' = FALSE
    /\ Goto("shell", "running")
    /\ UNCHANGED <<keyboardVars, held>>

\* getchar: nothing and EOF are read again, but the half of its int that sys_read does not
\* write may make a key be passed over or EOF be returned.
ShellTakes ==
    LET c == CharRead
    IN  \/ held' = [held EXCEPT !["shell"] = NULL] /\ Goto("shell", "running")
        \/ /\ c # NUL
           /\ held' = [held EXCEPT !["shell"] = c] /\ Goto("shell", "got")

\* Variant with a bug: a backspace in an empty line is echoed.
EraseAlways == i' = (IF i > 0 THEN i - 1 ELSE i) /\ cursor' = Printed("back")
Erase == i > 0 /\ i' = i - 1 /\ cursor' = Printed("back")

LineIsFull == i >= MAX_COMMAND_LENGTH - 1

\* The body of gets for a character that is not '\n'.  At i = 0 a backspace does nothing.
Edit ==
    /\ at["shell"] = "got" /\ held["shell"] # "enter"
    /\ LET c == held["shell"]
       IN  CASE c = "back" ->
                  \/ /\ Erase
                     /\ IF smudged THEN Smudge
                        ELSE /\ drawn' = SubSeq(drawn, 1, Len(drawn) - 1)
                             /\ misplaced' = (misplaced \/ AtLineStart(cursor))
                             /\ UNCHANGED smudged
                  \/ i = 0 /\ UNCHANGED screenVars
             [] c # "back" /\ LineIsFull -> UNCHANGED screenVars
             [] c = "glyph" /\ ~LineIsFull ->
                  /\ i' = i + 1 /\ cursor' = Printed(c)
                  /\ drawn' = IF smudged THEN <<>> ELSE LineDrawn
                  /\ UNCHANGED <<smudged, misplaced>>
             [] OTHER -> i' = i + 1 /\ cursor' = Printed(c) /\ Smudge
    /\ held' = [held EXCEPT !["shell"] = NULL] /\ Goto("shell", "running")
    /\ UNCHANGED keyboardVars
Enter ==
    /\ at["shell"] = "got" /\ held["shell"] = "enter"
    /\ cursor' = Printed("enter") /\ Smudge /\ i' = 0   \* gets returns: i is no more
    /\ held' = [held EXCEPT !["shell"] = NULL] /\ Goto("shell", "entered")
    /\ UNCHANGED keyboardVars

\* getCmdInput, for the commands that touch the console.
RunOther ==
    /\ at["shell"] = "entered" /\ Goto("shell", "prompt")
    /\ UNCHANGED <<keyboardVars, held, screenVars>>
RunClear ==
    /\ at["shell"] = "entered" /\ Goto("shell", "prompt")
    /\ cursor' = Cleared(cursor)
    /\ UNCHANGED <<keyboardVars, held, i, drawn, smudged, misplaced>>
RunCopy(foreground) ==
    /\ at["shell"] = "entered" /\ at["cmd"] = "absent"
    /\ at' = [shell |-> IF foreground THEN "waiting" ELSE "prompt", cmd |-> "running"]
    /\ UNCHANGED <<keyboardVars, held, screenVars>>

\* What happens to the readers when the command ends or is killed.
CommandEnds ==
    /\ at' = [shell |-> IF at["shell"] = "waiting" THEN "prompt" ELSE at["shell"], cmd |-> "absent"]
    /\ held' = [held EXCEPT !["cmd"] = NULL]
KillCommand ==
    /\ CommandEnds
    /\ StdinCleanup("cmd")
    /\ UNCHANGED <<buffer, end_of_file, activeCtrl>>
RunKill ==
    /\ at["shell"] = "entered" /\ at["cmd"] # "absent" /\ tokens <= MaxTokens
    /\ at' = [shell |-> "prompt", cmd |-> "absent"]
    /\ held' = [held EXCEPT !["cmd"] = NULL]
    /\ StdinCleanup("cmd")
    /\ UNCHANGED <<buffer, end_of_file, activeCtrl, screenVars>>

----------------------------------------------------------------------------
\* The command, and what both readers do inside sys_read

\* getCharNoWait: when there is nothing it returns a character it never wrote, which may be any.
CommandTakes ==
    \E c \in IF CharRead = NUL THEN {NUL, EOF} \cup Char ELSE {CharRead} :
        held' = [held EXCEPT !["cmd"] = c] /\ Goto("cmd", "got")
Takes(p) == IF p = "shell" THEN ShellTakes ELSE CommandTakes

Read(p) ==
    /\ at[p] = "running"
    /\ \/ ReadNow(p) /\ Takes(p)
       \/ ReadWaits(p) /\ Goto(p, "reading") /\ UNCHANGED held
    /\ UNCHANGED screenVars
Resume(p) == at[p] = "reading" /\ ReadResumes(p) /\ Takes(p) /\ UNCHANGED screenVars

\* The loop of cat.
Copy ==
    /\ at["cmd"] = "got" /\ held["cmd"] \notin {NUL, EOF}
    /\ cursor' = Printed(held["cmd"]) /\ Smudge /\ UNCHANGED i
    /\ held' = [held EXCEPT !["cmd"] = NULL] /\ Goto("cmd", "running")
    /\ UNCHANGED keyboardVars
SkipNul ==
    /\ at["cmd"] = "got" /\ held["cmd"] = NUL
    /\ held' = [held EXCEPT !["cmd"] = NULL] /\ Goto("cmd", "running")
    /\ UNCHANGED <<keyboardVars, screenVars>>
CopyEnds ==
    /\ at["cmd"] = "got" /\ held["cmd"] = EOF
    /\ CommandEnds
    /\ UNCHANGED <<keyboardVars, screenVars>>

----------------------------------------------------------------------------
\* The key interrupt.  The messages of Ctrl are arrays of uint16_t, so only their '^' is drawn.

\* sys_write in the name of the process that runs: on the screen, or into its pipe, where nothing
\* is drawn (Pipe.tla has what that does to the pipe).
Caret ==
    \/ cursor' = Printed("glyph") /\ Smudge /\ UNCHANGED i
    \/ UNCHANGED screenVars
Ctrl == PressCtrl /\ UNCHANGED <<at, held, screenVars>>
Key == (\E c \in Typed : PressKey(c)) /\ UNCHANGED <<at, held, screenVars>>
CtrlS == activeCtrl /\ Caret /\ UNCHANGED <<keyboardVars, at, held>>
CtrlD == SendEof /\ Caret /\ UNCHANGED <<at, held>>
\* killForegroundProcess: the one the shell waits for.
CtrlC ==
    /\ activeCtrl /\ tokens <= MaxTokens
    /\ Caret
    /\ IF at["shell"] = "waiting" THEN KillCommand ELSE UNCHANGED <<keyboardVars, at, held>>

ShellStep == Prompt \/ Read("shell") \/ Resume("shell") \/ Edit \/ Enter
RunStep == RunOther \/ RunClear \/ RunKill \/ \E f \in BOOLEAN : RunCopy(f)
CommandStep == Read("cmd") \/ Resume("cmd") \/ Copy \/ SkipNul \/ CopyEnds
KeyInterrupt == Ctrl \/ Key \/ CtrlS \/ CtrlD \/ CtrlC

Next == ShellStep \/ RunStep \/ CommandStep \/ KeyInterrupt
Spec == Init /\ [][Next]_vars

\* The scheduler is round robin and every process has a turn, so a command that can go on does.
FairSpec == Spec /\ WF_vars(CommandStep)

----------------------------------------------------------------------------
\* Properties

\* One step of stdin: nothing, a key typed, or a key read by who had a token.
FifoStep ==
    \/ Unread' = Unread
    \/ \E c \in Char : Unread' = Append(Unread, c)
    \/ /\ Unread # <<>> /\ Unread' = Tail(Unread)
       /\ \E p \in Reader : at[p] \in {"running", "reading"} /\ held'[p] \in {NULL, Head(Unread)}

\* Two readers and the interrupt share the ring, and a key typed is taken by one reader, once,
\* in the order typed: a step adds one key at the end, or takes the first, and whoever takes it
\* is the one that had a token.
StdinIsFifo == [][FifoStep]_vars

\* The semaphore and the ring agree: a reader is left asleep only when every key in the ring,
\* and the EOF, are for a reader that has been given its token, also after a reader was killed
\* in the middle of its read.  A ring that has once been full is no longer read at all.
NoReaderSleepsOnKeys ==
    (waiters # <<>> /\ ~cb_isfull)
        => buffer.size + (IF end_of_file THEN 1 ELSE 0) <= Cardinality(Served)

\* Where a backspace clears the last glyph: its cell, when both are in the same line.  Over the
\* start of a line deleteChar goes to the right line, but up to a column off the glyph.
NextToErase(cur, glyph) ==
    IF AtLineStart(cur)
    THEN /\ Deleted(cur).y = glyph.y
         /\ Deleted(cur).x - glyph.x \in 1 - Advance .. Advance - 1
    ELSE Deleted(cur) = glyph

\* While only what gets echoes is printed, and only characters that are drawn go into the line,
\* the shell has put as many glyphs behind the prompt as it holds characters, and the next
\* backspace clears the last of them.  Once a backspace has gone back over the start of a line,
\* the cursor is off the column of the glyphs before it and only their number is claimed.
LineIsWhatIsShown ==
    (at["shell"] \in {"running", "reading", "got"} /\ ~smudged)
        => /\ Len(drawn) = i + 1
           /\ misplaced \/ NextToErase(cursor, drawn[i + 1])

\* "Chequea que la palabra no se pase de los margenes de la pantalla": wherever typing, echoing,
\* erasing and clearing have left the cursor, the next glyph is drawn inside the right margin,
\* and inside the bottom one at scale 1; at scale 2 it may pass that by the 16 pixels which
\* printChar forgets.  Unless more than one newline was printed below the last line, since
\* printChar scrolls one line at a time.
TextStaysInside ==
    \/ cursor.y <= LastY
    \/ cursor.y <= LastY + LineHeight /\ AtLineStart(cursor)
    => InsideMargins(Place(cursor))

\* Ctrl-D ends the command the shell waits for, although keys typed before are still unread.
EofEndsCommand == (end_of_file /\ at["shell"] = "waiting") ~> (at["cmd"] = "absent")
====
