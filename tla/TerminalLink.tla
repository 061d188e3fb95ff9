---------------------------- MODULE TerminalLink ----------------------------
(***************************************************************************)
(* What the UART promises a program that polls it: a two-way link to the   *)
(* user.  What is typed reaches the program, once and in order; what the   *)
(* program writes is printed, once and in order; only a reset of the       *)
(* machine loses something, and it loses at most one character.            *)
(***************************************************************************)
EXTENDS Naturals, Sequences

CONSTANTS
    Keys,          \* what can be typed
    Output,        \* what the program writes
    Arrives(_),    \* the characters a key press stands for
    Silent         \* the characters that print nothing

VARIABLES
    incoming,      \* characters on their way to the program
    got,           \* characters the program has read
    written,       \* characters the program has written
    printed,       \* characters the user has seen
    resets         \* number of resets

vars == <<incoming, got, written, printed, resets>>

Init ==
    /\ incoming = <<>> /\ got = <<>>
    /\ written = <<>> /\ printed = <<>>
    /\ resets = 0

Press(key) ==
    /\ incoming' = incoming \o Arrives(key)
    /\ UNCHANGED <<got, written, printed, resets>>

Read ==
    /\ incoming # <<>>
    /\ got' = Append(got, Head(incoming))
    /\ incoming' = Tail(incoming)
    /\ UNCHANGED <<written, printed, resets>>

Write(ch) ==
    /\ written' = Append(written, ch)
    /\ printed' = IF ch \in Silent THEN printed ELSE Append(printed, ch)
    /\ UNCHANGED <<incoming, got, resets>>

Reset ==
    /\ resets' = resets + 1
    /\ \/ UNCHANGED incoming
       \/ incoming # <<>> /\ incoming' = Tail(incoming)
    /\ UNCHANGED <<got, written, printed>>

Next ==
    \/ \E key \in Keys : Press(key)
    \/ Read
    \/ \E ch \in Output : Write(ch)
    \/ Reset

Safe == Init /\ [][Next]_vars
Spec == Safe /\ WF_vars(Read)
=============================================================================
