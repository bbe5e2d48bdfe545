---- MODULE CommandLine ----
(***************************************************************************)
(* getCmdInput and fillCommandAndArgs of shellFunctions.c: a line is cut   *)
(* in place into one or two commands with their arguments, the programs    *)
(* among them are started, joined by a pipe when there are two, and waited *)
(* for.  A command is found among the builtins, among the programs or not  *)
(* at all; createPipe and newProcess may fail.                             *)
(*                                                                         *)
(* A character is one that matters to the shell or a letter.  A line's     *)
(* last cell is its '\0'.                                                  *)
(***************************************************************************)
EXTENDS Integers, Sequences, FiniteSets

CONSTANTS
    MAX_ARGS,     \* 5
    MaxLine       \* bound of the model: the longest line

ASSUME CommandAssumption == MAX_ARGS \in Nat \ {0} /\ MaxLine \in Nat

VARIABLES
    typed,        \* history: the line as it was typed
    line,         \* the same buffer, in which words are cut off with '\0'
    pc,           \* "check", "scan", "pipe", "start", "wait", "destroy" or "done"
    half,         \* which of the commands is scanned, started or waited for
    current,      \* of fillCommandAndArgs; 0 before the first character of a half is looked at
    command,      \* where each command begins
    args,         \* where the arguments of each begin
    foreground,
    pipe,         \* whether the pipe exists
    started,      \* the halves whose process is alive
    outcome       \* history: the way getCmdInput took out

lineVars == <<typed, line, pc, half, current, command, args, foreground, pipe, started, outcome>>

BLANK == "blank"   \* the character ' '
Lines == UNION {[1 .. n -> {"a", BLANK, "&", "|"}] : n \in 0 .. MaxLine}
Terminated(s) == Append(s, "0")

LineInit ==
    /\ typed \in Lines /\ line = Terminated(typed) /\ pc = "check"
    /\ half = 1 /\ current = 0
    /\ command = <<1, 1>> /\ args = <<<<>>, <<>>>>
    /\ foreground = TRUE /\ pipe = FALSE /\ started = {} /\ outcome = "none"

Bars == {j \in DOMAIN typed : typed[j] = "|"}
Halves == IF Bars = {} THEN 1 ELSE 2

\* The empty line, and the '|' that cuts it in two; a second '|' is refused.
CheckLine ==
    /\ pc = "check"
    /\ IF typed = <<>> \/ Cardinality(Bars) > 1
       THEN pc' = "done" /\ outcome' = "refused" /\ UNCHANGED <<line, command>>
       ELSE /\ pc' = "scan" /\ UNCHANGED outcome
            /\ line' = [j \in DOMAIN line |-> IF j \in Bars THEN "0" ELSE line[j]]
            /\ command' = IF Bars = {} THEN command ELSE <<1, 1 + CHOOSE j \in Bars : TRUE>>
    /\ UNCHANGED <<typed, half, current, args, foreground, pipe, started>>

----------------------------------------------------------------------------
\* fillCommandAndArgs, one step per character

Scanning == pc = "scan" /\ UNCHANGED <<typed, pipe, started, outcome>>

\* Every call starts with the foreground, so the last command of the line decides.
SkipSpaces ==
    /\ Scanning /\ current = 0
    /\ IF line[command[half]] = BLANK
       THEN command' = [command EXCEPT ![half] = @ + 1] /\ UNCHANGED <<current, foreground>>
       ELSE current' = command[half] /\ foreground' = TRUE /\ UNCHANGED command
    /\ UNCHANGED <<line, pc, half, args>>

ScanNext ==
    IF half < Halves THEN half' = half + 1 /\ current' = 0 /\ UNCHANGED pc
    ELSE half' = 1 /\ current' = 0 /\ pc' = (IF Halves = 2 THEN "pipe" ELSE "start")

\* Variant with a bug: any '&' ends the command.
AnyAmpersand == line[current] = "&"
IsAmpersand == line[current] = "&" /\ line[current + 1] \in {"0", BLANK}
StartsArgument == line[current] = BLANK /\ line[current + 1] \notin {"0", BLANK, "&"}
Zeroed == [line EXCEPT ![current] = "0"]

ScanEnd ==
    /\ Scanning /\ current # 0 /\ line[current] = "0"
    /\ ScanNext /\ UNCHANGED <<line, command, args, foreground>>
ScanAmpersand ==
    /\ Scanning /\ current # 0 /\ IsAmpersand
    /\ foreground' = FALSE /\ line' = Zeroed
    /\ ScanNext /\ UNCHANGED <<command, args>>
\* With MAX_ARGS arguments the rest of the command stays in the last of them, '&' and all.
ScanArgument ==
    /\ Scanning /\ current # 0 /\ StartsArgument
    /\ args' = [args EXCEPT ![half] = Append(@, current + 1)]
    /\ line' = Zeroed
    /\ IF Len(args'[half]) >= MAX_ARGS THEN ScanNext
       ELSE current' = current + 1 /\ UNCHANGED <<pc, half>>
    /\ UNCHANGED <<command, foreground>>
ScanOther ==
    /\ Scanning /\ current # 0 /\ line[current] # "0"
    /\ ~IsAmpersand /\ ~StartsArgument
    /\ line' = IF line[current] = BLANK THEN Zeroed ELSE line
    /\ current' = current + 1
    /\ UNCHANGED <<pc, half, command, args, foreground>>

----------------------------------------------------------------------------
\* The processes of the line

CreatePipe ==
    /\ pc = "pipe"
    /\ \/ pipe' = TRUE /\ pc' = "start" /\ UNCHANGED outcome
       \/ outcome' = "noPipe" /\ pc' = "done" /\ UNCHANGED pipe
    /\ UNCHANGED <<typed, line, half, current, command, args, foreground, started>>

Starting == pc = "start" /\ UNCHANGED <<typed, line, current, command, args, foreground, pipe>>
IsEmpty(h) == line[command[h]] = "0"
Leave(way) == pc' = "done" /\ outcome' = way /\ UNCHANGED half

StartProgram ==
    /\ Starting /\ ~IsEmpty(half)
    /\ started' = started \cup {half}
    /\ IF half < Halves THEN half' = half + 1 /\ UNCHANGED <<pc, outcome>>
       ELSE IF foreground THEN half' = 1 /\ pc' = "wait" /\ UNCHANGED outcome
       ELSE Leave("background")
\* The function of a builtin is called and its result returned, whatever else is in the line;
\* newProcess may fail.  Neither undoes anything.
RunBuiltin == Starting /\ ~IsEmpty(half) /\ Leave("builtin") /\ UNCHANGED started
NewProcessFails == Starting /\ ~IsEmpty(half) /\ Leave("noProcess") /\ UNCHANGED started
\* Variant with a bug: what was started before is left running.
NotFoundUnnoticed == Starting /\ Leave("notFound") /\ UNCHANGED started
NotFound == Starting /\ Leave("notFound") /\ started' = {}

\* A process ends when it likes, and waitPid returns when the one it names has ended.
ProgramEnds ==
    /\ pc \in {"start", "wait"}
    /\ \E h \in started : started' = started \ {h}
    /\ UNCHANGED <<typed, line, pc, half, current, command, args, foreground, pipe, outcome>>
WaitProgram ==
    /\ pc = "wait" /\ half \notin started
    /\ IF half < Halves THEN half' = half + 1 /\ UNCHANGED pc ELSE pc' = "destroy" /\ UNCHANGED half
    /\ UNCHANGED <<typed, line, current, command, args, foreground, pipe, started, outcome>>
DestroyPipe ==
    /\ pc = "destroy"
    /\ pipe' = FALSE /\ Leave("ran")
    /\ UNCHANGED <<typed, line, current, command, args, foreground, started>>

LineNext ==
    \/ CheckLine \/ SkipSpaces
    \/ ScanEnd \/ ScanAmpersand \/ ScanArgument \/ ScanOther
    \/ CreatePipe \/ StartProgram \/ RunBuiltin \/ NewProcessFails \/ NotFound
    \/ ProgramEnds \/ WaitProgram \/ DestroyPipe

LineSpec == LineInit /\ [][LineNext]_lineVars

----------------------------------------------------------------------------
\* Properties

\* The string that begins at a cell of the buffer.
StringAt(k) ==
    LET ends == {j \in k .. Len(line) : line[j] = "0"}
    IN  SubSeq(line, k, (CHOOSE e \in ends : \A j \in ends : e <= j) - 1)
Parsed == [h \in 1 .. Halves |->
              <<StringAt(command[h])>> \o [j \in DOMAIN args[h] |-> StringAt(args[h][j])]]

\* The reference: the words of a text, and the text before the first '&' that ends a word.
TextOf(h) ==
    IF Bars = {} THEN typed
    ELSE LET b == CHOOSE j \in Bars : TRUE
         IN  IF h = 1 THEN SubSeq(typed, 1, b - 1) ELSE SubSeq(typed, b + 1, Len(typed))
BlankAt(s, k) == k \notin DOMAIN s \/ s[k] = BLANK
Ampersands(s) == {k \in DOMAIN s : s[k] = "&" /\ BlankAt(s, k + 1)}
Kept(s) ==
    IF Ampersands(s) = {} THEN s
    ELSE SubSeq(s, 1, (CHOOSE k \in Ampersands(s) : \A j \in Ampersands(s) : k <= j) - 1)
Words(s) ==
    LET spans == {w \in (DOMAIN s) \X (DOMAIN s) :
                     /\ w[1] <= w[2] /\ BlankAt(s, w[1] - 1) /\ BlankAt(s, w[2] + 1)
                     /\ \A i \in w[1] .. w[2] : s[i] # BLANK}
        nth(n) == CHOOSE w \in spans : Cardinality({v \in spans : v[1] <= w[1]}) = n
    IN  [n \in 1 .. Cardinality(spans) |-> SubSeq(s, nth(n)[1], nth(n)[2])]

\* Cutting the line in place finds the words: of each command those up to the '&' that ends a
\* word, of the line whether the last command has one.  Left out are lines with MAX_ARGS
\* arguments or more, with a word that begins with '&', which is lost, or with a command that is
\* nothing but an '&' or blanks.
LineIsParsed ==
    (pc \in {"start", "pipe"} /\ half = 1) =>
        \A h \in 1 .. Halves :
            LET words == Words(Kept(TextOf(h)))
            IN  (/\ words # <<>> /\ Len(words) <= MAX_ARGS
                 /\ \A w \in DOMAIN words : words[w][1] # "&")
                => /\ Parsed[h] = words
                   /\ h = Halves => foreground = (Ampersands(TextOf(h)) = {})

\* A line is over when its programs are: when getCmdInput returns, none of them runs and the pipe
\* is gone, unless the line is to run in the background.  A command that is not found leaves the
\* pipe, and a builtin or a newProcess that fails after another program was started leaves both.
NothingLeftBehind ==
    pc = "done" =>
        CASE outcome = "background" -> started \subseteq 1 .. Halves
          [] outcome = "notFound" -> started = {}
          [] outcome \in {"builtin", "noProcess"} -> half = 1 => started = {}
          [] OTHER -> started = {} /\ ~pipe
====
