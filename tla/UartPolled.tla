----------------------------- MODULE UartPolled -----------------------------
(***************************************************************************)
(* The UART driven the way the boards' ROM monitors and BASICs drive it:   *)
(* status_r first, and data_r or data_w only when the last status read     *)
(* showed RxRDY or TxRDY.  Between the two, timers may expire, keys may be *)
(* pressed and the machine may be reset.  The composition implements       *)
(* TerminalLink.                                                           *)
(***************************************************************************)
EXTENDS Uart, SequencesExt

VARIABLES
    sawRx, sawTx,    \* the bits of the last status read that are still unused
    got, written     \* ghost: what the program has read and written

progVars == <<sawRx, sawTx, got, written>>
allVars  == <<vars, progVars>>

PInit ==
    /\ Init
    /\ sawRx = FALSE /\ sawTx = FALSE
    /\ got = <<>> /\ written = <<>>

\* Faulty variant: the status register does not follow the transmitter.
StatusRAlwaysTx ==
    /\ sawRx' = RxRdy /\ sawTx' = TRUE
    /\ UNCHANGED <<vars, got, written>>

\* status_r: stores and returns the register; only the program keeps it.
StatusR ==
    /\ sawRx' = RxRdy /\ sawTx' = TxRdy
    /\ UNCHANGED <<vars, got, written>>

ReadChar ==
    /\ sawRx
    /\ DataR
    /\ got' = Append(got, data_r)
    /\ sawRx' = FALSE
    /\ UNCHANGED <<sawTx, written>>

WriteChar(ch) ==
    /\ sawTx
    /\ DataW(ch)
    /\ written' = Append(written, ch)
    /\ sawTx' = FALSE
    /\ UNCHANGED <<sawRx, got>>

\* A soft reset restarts the program with the device.
ResetAll ==
    /\ DeviceReset
    /\ sawRx' = FALSE /\ sawTx' = FALSE
    /\ UNCHANGED <<got, written>>

Device ==
    /\ UpdateTimerRxd \/ UpdateTimerTxd \/ User \/ Elapse
    /\ UNCHANGED progVars

PNext ==
    \/ StatusR
    \/ ReadChar
    \/ \E ch \in Output : Len(written) < MaxScreen /\ WriteChar(ch)
    \/ ResetAll
    \/ Device

\* The program keeps polling and reads what it has been told is there.
PFairness ==
    /\ WF_allVars(UpdateTimerRxd /\ UNCHANGED progVars)
    /\ WF_allVars(UpdateTimerTxd /\ UNCHANGED progVars)
    /\ WF_allVars(Elapse /\ UNCHANGED progVars)
    /\ WF_allVars(StatusR)
    /\ WF_allVars(ReadChar)

PSpec == PInit /\ [][PNext]_allVars /\ PFairness

-----------------------------------------------------------------------------
(* The refinement.                                                         *)

\* Ctrl-O stands for a Nul, the file, and a Nul at its end.
Arrives(key) ==
    CASE key = OpenFile -> <<Nul>> \o FileText \o <<Nul>>
      [] key = Del      -> <<BackSpace>>
      [] OTHER          -> <<key>>

Incoming ==
    LET ready   == IF data_r_ready THEN <<data_r>> ELSE <<>>
        restOf  == IF fd = "file" THEN file \o <<Nul>> ELSE <<>>
        waiting == FlattenSeq([i \in 1 .. Len(keyboard) |-> Arrives(keyboard[i])])
    IN  ready \o restOf \o waiting

Link == INSTANCE TerminalLink WITH
            incoming <- Incoming, printed <- screen, Silent <- Marks

\* The polled UART is a TerminalLink: nothing typed is lost, duplicated or
\* reordered (through the redirection to the file and back, too), nothing
\* written is overrun, a reset costs at most the one unread character, and
\* every character that arrives is read.
LinkSpec == Link!Spec

\* The same but for the last: every step is a TerminalLink's or none.
LinkSafe == Link!Safe

\* A status read is never out of date when it is used: what the program saw
\* ready is still ready, whatever timer expired in between.
StatusStillTrue == (sawRx => RxRdy) /\ (sawTx => TxRdy)
=============================================================================
