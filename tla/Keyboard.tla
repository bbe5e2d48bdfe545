---- MODULE Keyboard ----
(***************************************************************************)
(* 3_Kernel/3_drivers/keyboard.c and the part of sys_read that reads from  *)
(* it: the ring of keys, the EOF flag, and the semaphore os_kb_sem whose   *)
(* tokens should let as many reads through as there is to read.            *)
(*                                                                         *)
(* The key interrupt and a system call are atomic; a read that finds no    *)
(* token has a second step, once it is woken.  waiting_for_stdin is set    *)
(* exactly while a process is inside the read (at = "reading").  A key is  *)
(* kept as the kind of character it stands for, so Shift and CapsLock,     *)
(* which choose among printable characters, are left out.                  *)
(***************************************************************************)
EXTENDS Integers, Sequences, FiniteSets, WaitQueue

CONSTANTS
    BUFFER_SIZE,   \* 256 in keyboard.c
    MaxTokens,     \* bound of the model: no key is pressed when there are more tokens
    Typed,         \* the kinds of key that are typed
    Reader,        \* the processes that read from the keyboard
    NULL

VARIABLES
    buffer,        \* the ring of keys
    end_of_file,
    activeCtrl,
    tokens,        \* os_kb_sem
    waiters,
    at             \* where each reader is; "reading" inside sys_read, "absent" if it has ended

keyboardVars == <<buffer, end_of_file, activeCtrl, tokens, waiters>>

NUL == "NUL"   \* what cb_pop returns when there is nothing
EOF == "EOF"

\* What scancodeToAscii can return for a key that has a character: one that is drawn, one that
\* is not (TAB and ESC), and the two that edit.
Char == {"glyph", "tab", "back", "enter"}
ASSUME BufferAssumption ==
    BUFFER_SIZE \in Nat \ {0} /\ MaxTokens \in Nat /\ Typed \subseteq Char

Cell == 0 .. BUFFER_SIZE - 1
EmptyBuffer == [v |-> [i \in Cell |-> NULL], readIndex |-> 0, writeIndex |-> 0, size |-> 0]

KeyboardInit ==
    /\ buffer = EmptyBuffer
    /\ end_of_file = FALSE /\ activeCtrl = FALSE
    /\ tokens = 0 /\ waiters = <<>>

----------------------------------------------------------------------------
\* The ring

NextIndex(i) == (i + 1) % BUFFER_SIZE
cb_isEmpty == buffer.readIndex = buffer.writeIndex
cb_isfull == buffer.size = BUFFER_SIZE

\* Variant with a bug: a key overwrites the oldest one when the ring is full.
PushedOver(c) ==
    [buffer EXCEPT !.v[buffer.writeIndex] = c, !.writeIndex = NextIndex(@), !.size = @ + 1]
\* cb_push.
Pushed(c) ==
    IF cb_isfull THEN buffer
    ELSE [buffer EXCEPT !.v[buffer.writeIndex] = c, !.writeIndex = NextIndex(@), !.size = @ + 1]

\* cb_pop: what it returns and the ring after it.  A full ring has equal indices and counts
\* as empty.  What a cell holds after it was read, which nothing can see, is forgotten.
CharRead ==
    IF end_of_file THEN EOF ELSE IF cb_isEmpty THEN NUL ELSE buffer.v[buffer.readIndex]
cb_pop ==
    /\ end_of_file' = FALSE
    /\ buffer' = IF end_of_file \/ cb_isEmpty THEN buffer
                 ELSE [buffer EXCEPT !.v[buffer.readIndex] = NULL,
                                     !.readIndex = NextIndex(@), !.size = @ - 1]

----------------------------------------------------------------------------
\* os_kb_sem

semPost ==
    IF waiters = <<>> THEN tokens' = tokens + 1 /\ UNCHANGED waiters
    ELSE waiters' = Tail(waiters) /\ UNCHANGED tokens

IsQueued(p) == \E i \in DOMAIN waiters : waiters[i] = p

\* kb_getchar, for a read that goes on at once, one that has to wait, and its end.
ReadNow(p) ==
    /\ tokens > 0 /\ tokens' = tokens - 1
    /\ cb_pop /\ UNCHANGED <<activeCtrl, waiters>>
ReadWaits(p) ==
    /\ tokens = 0 /\ waiters' = Append(waiters, p)
    /\ UNCHANGED <<buffer, end_of_file, activeCtrl, tokens>>
ReadResumes(p) == ~IsQueued(p) /\ cb_pop /\ UNCHANGED <<activeCtrl, tokens, waiters>>

\* Variant with a bug: the token a killed reader had been given is not posted again.
StdinForgotten(p) == waiters' = Without(waiters, p) /\ UNCHANGED tokens
\* cleanupProcessResources: out of the queue, then release_stdin if it was inside a read,
\* whether it was still waiting or had been given a token.
StdinCleanup(p) ==
    LET others == Without(waiters, p)
    IN  IF at[p] # "reading" THEN UNCHANGED <<tokens, waiters>>
        ELSE IF others = <<>> THEN waiters' = <<>> /\ tokens' = tokens + 1
        ELSE waiters' = Tail(others) /\ UNCHANGED tokens

----------------------------------------------------------------------------
\* pressedKey

PressCtrl ==
    /\ activeCtrl' = ~activeCtrl   \* pressed or released
    /\ UNCHANGED <<buffer, end_of_file, tokens, waiters>>
\* The token is posted whether or not the key has found room.
PressKey(c) ==
    /\ ~activeCtrl /\ tokens <= MaxTokens
    /\ buffer' = Pushed(c)
    /\ semPost
    /\ UNCHANGED <<end_of_file, activeCtrl>>
\* send_eof_to_stdin.
\* Variant with a bug: no token is posted for the end of file.
EofUnposted ==
    /\ activeCtrl /\ end_of_file' = TRUE /\ UNCHANGED <<buffer, activeCtrl, tokens, waiters>>
SendEof ==
    /\ activeCtrl /\ tokens <= MaxTokens
    /\ end_of_file' = TRUE
    /\ semPost
    /\ UNCHANGED <<buffer, activeCtrl>>

----------------------------------------------------------------------------
\* Properties

\* What the ring holds, in order.
Unread == [i \in 1 .. buffer.size |-> buffer.v[(buffer.readIndex + i - 1) % BUFFER_SIZE]]

\* The readers that have been given a token and have not yet taken a key for it.
Served == {p \in Reader : at[p] = "reading" /\ ~IsQueued(p)}
====
