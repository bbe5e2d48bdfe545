---- MODULE Filters ----
(***************************************************************************)
(* The commands of shellFunctions.c that read standard input to its end:   *)
(* cat, wc and filter.  getCharNoWait gives a character, 0 when there is   *)
(* none yet, or EOF.                                                       *)
(***************************************************************************)
EXTENDS Integers, FiniteSets, Sequences

CONSTANTS
    BUFFER_SIZE, \* the cells that filter has for what it keeps
    MaxText      \* bound of the model: the most that getCharNoWait returns before EOF

ASSUME FilterAssumption == BUFFER_SIZE \in Nat \ {0}

VARIABLES
    tool,        \* "cat", "wc", "filter", or "fr" for filter with that argument
    text,        \* what getCharNoWait will return
    position,
    echoed,
    counts,      \* lines, words and chars
    vocales,
    spilled      \* history: filter has written behind its array

filterVars == <<tool, text, position, echoed, counts, vocales, spilled>>

NOTHING == "0"
BACKSPACE == "bs"
\* A vowel, a letter that is one in French, another, and the three that are treated apart.
TextChars == {"a", "y", "b", " ", "\n", BACKSPACE}

FilterInit ==
    /\ tool \in {"cat", "wc", "filter", "fr"}
    /\ text \in UNION {[1 .. k -> TextChars \cup {NOTHING}] : k \in 0 .. MaxText}
    /\ position = 0 /\ echoed = <<>>
    /\ counts = [lines |-> 0, words |-> 0, chars |-> 0]
    /\ vocales = <<>> /\ spilled = FALSE

isStandardVowel(c) == c \in {"a", "\n"}
isFrenchVowel(c) == isStandardVowel(c) \/ c = "y"
isVowel(c) == IF tool = "fr" THEN isFrenchVowel(c) ELSE isStandardVowel(c)

LastKept == vocales[Len(vocales)]
\* Variant with a bug: a space is kept wherever it stands.
KeptAnywhere(c) == isVowel(c) \/ c = " "
IsKept(c) == isVowel(c) \/ (c = " " /\ vocales # <<>> /\ LastKept # " ")
Removes(c) == c = BACKSPACE /\ vocales # <<>> /\ isVowel(LastKept)

Filtered(c) ==
    IF IsKept(c) THEN Append(vocales, c)
    ELSE IF Removes(c) THEN SubSeq(vocales, 1, Len(vocales) - 1) ELSE vocales
\* words begins with 0, and 1 is added when it is printed.
Counted(c) ==
    [lines |-> counts.lines + (IF c = "\n" THEN 1 ELSE 0),
     words |-> counts.words + (IF c = " " THEN 1 ELSE 0),
     chars |-> counts.chars + (IF c = NOTHING THEN 0 ELSE 1)]

\* Nothing keeps filter inside its array; what lies behind it on the stack is overwritten, and
\* what it keeps may then be lost.
KeptText(c) ==
    IF tool \notin {"filter", "fr"} \/ c = NOTHING THEN vocales ELSE Filtered(c)

FilterChar ==
    /\ position < Len(text) /\ position' = position + 1
    /\ LET c == text[position + 1]
       IN  /\ echoed' = IF c = NOTHING THEN echoed ELSE Append(echoed, c)
           /\ counts' = IF tool = "wc" THEN Counted(c) ELSE counts
           /\ vocales' \in {KeptText(c)} \cup (IF spilled THEN {<<>>} ELSE {})
    /\ spilled' = (spilled \/ Len(vocales') > BUFFER_SIZE)
    /\ UNCHANGED <<tool, text>>

FilterSpec == FilterInit /\ [][FilterChar]_filterVars

----------------------------------------------------------------------------
\* Properties

\* A text with its backspaces carried out, and the characters they take.
Edited(s) ==
    LET edit[k \in 0 .. Len(s)] ==
            IF k = 0 THEN [kept |-> <<>>, taken |-> {}]
            ELSE IF s[k] # BACKSPACE THEN [edit[k - 1] EXCEPT !.kept = Append(@, s[k])]
            ELSE IF edit[k - 1].kept = <<>> THEN edit[k - 1]
            ELSE [kept |-> SubSeq(edit[k - 1].kept, 1, Len(edit[k - 1].kept) - 1),
                  taken |-> edit[k - 1].taken \cup {edit[k - 1].kept[Len(edit[k - 1].kept)]}]
    IN  edit[Len(s)]

\* The vowels of a text, and between two of them or after them one space where there are any.
Before(s, k) == {j \in 1 .. k - 1 : isVowel(s[j]) \/ s[j] = " "}
InFilter(s, k) ==
    \/ isVowel(s[k])
    \/ s[k] = " " /\ \E j \in Before(s, k) : isVowel(s[j]) /\ \A i \in Before(s, k) : i <= j
VowelsOf(s) ==
    LET v[k \in 0 .. Len(s)] ==
            IF k = 0 THEN <<>> ELSE IF InFilter(s, k) THEN Append(v[k - 1], s[k]) ELSE v[k - 1]
    IN  v[Len(s)]

WordStarts(s) ==
    {k \in DOMAIN s : s[k] \notin {" ", "\n"} /\ (k = 1 \/ s[k - 1] \in {" ", "\n"})}
\* One line of words with one space between them.
PlainLine(s) ==
    /\ s # <<>> /\ \A k \in DOMAIN s : s[k] \notin {"\n", BACKSPACE}
    /\ \A k \in DOMAIN s : s[k] = " " => k \notin {1, Len(s)} /\ s[k - 1] # " "

\* However the text comes in pieces, what filter keeps are the vowels of the text as the user has
\* corrected it, as long as they have fitted its array, with a cell for the end mark, and only
\* vowels were taken back (a backspace over another letter takes the vowel before it); and wc counts
\* the words of a plain line, and of any text all the characters.
FiltersTellTheText ==
    /\ (/\ tool \in {"filter", "fr"} /\ ~spilled /\ Len(vocales) < BUFFER_SIZE
        /\ \A c \in Edited(echoed).taken : isVowel(c)) =>
           vocales = VowelsOf(Edited(echoed).kept)
    /\ tool = "wc" =>
           /\ counts.chars = Len(echoed)
           /\ PlainLine(echoed) => counts.words + 1 = Cardinality(WordStarts(echoed))
====
