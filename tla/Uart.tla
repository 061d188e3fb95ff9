-------------------------------- MODULE Uart --------------------------------
(***************************************************************************)
(* The UART every board of mame-sbc talks to: src/devices/machine/         *)
(* uart_tty.cpp, a transmitter and a receiver on top of the host terminal. *)
(*                                                                         *)
(* The emulated CPU calls status_r, data_r and data_w between              *)
(* instructions; the scheduler calls update_timer_rxd and update_timer_txd *)
(* when their timers expire; the host supplies key presses and, after      *)
(* Ctrl-O, the bytes of a file.  Everything runs on one thread, so one     *)
(* action is one such call, and calls interleave in any order.             *)
(*                                                                         *)
(* Time is counted in units of which Period make one get_tick(), so that a *)
(* CPU access can fall between two ticks of the receiver's poll.           *)
(***************************************************************************)
EXTENDS Integers, Sequences

CONSTANTS
    Char,        \* the bytes the registers can hold
    Keys,        \* the bytes that can be typed
    Output,      \* the bytes the program writes
    OpenFile,    \* 0x0f (Ctrl-O): the key that redirects input to the file
    Del,         \* 0x7f, which getch turns into BackSpace
    BackSpace,   \* 0x08
    Nul,         \* 0x00: what getch returns when it has no character to give
    ResetR,      \* 0xe5, the receiver's data register after a reset
    ResetW,      \* 0xe3, the transmitter's
    Marks,       \* 0x0b and 0x0c: putch starts/stops a stopwatch, prints nothing
    LineEnds,    \* '\r' and 'n': the bytes update_timer_rxd delays after
    FileText,    \* the contents of ASCIIART.BAS
    FilePresent, \* can the file be opened?
    TtyFails,    \* can the terminal be at its end, or reading it fail?
    Period,      \* get_tick(), in units
    LineDelay,   \* the 100 ms delay after a line end, in units
    MaxTyped,    \* bound: key presses in a behaviour
    MaxScreen,   \* bound: characters printed in a behaviour
    MaxResets    \* bound: soft resets in a behaviour

ASSUME CharAssumption ==
    /\ {BackSpace, Nul, ResetR, ResetW} \subseteq Char
    /\ Keys \subseteq Char /\ Output \subseteq Char
    /\ FileText \in Seq(Char)
    /\ FilePresent \in BOOLEAN /\ TtyFails \in BOOLEAN
    /\ OpenFile # Del

ASSUME TimeAssumption ==
    /\ Period \in Nat \ {0}
    /\ LineDelay \in Nat

ASSUME BoundAssumption ==
    /\ MaxTyped \in Nat
    /\ MaxScreen \in Nat
    /\ MaxResets \in Nat

VARIABLES
    data_r, data_r_ready, phase_rxd, timer_rxd,              \* receiver
    data_w, data_w_ready, data_w_empty, data_w_overrun,      \* transmitter
    phase_txd, timer_txd,
    rxrdy,       \* the level last passed to m_rxrdy_handler: the CPU's INT line
    fd,          \* m_fd: where getch reads
    keyboard,    \* typed keys the device has not read yet
    file,        \* what is left to read of the open file
    screen,      \* what putch has written to the terminal
    typed,       \* ghost: number of key presses so far
    resets,      \* ghost: number of soft resets so far
    sinceRise,   \* ghost: units since the receiver last raised rxrdy, capped
    sincePut     \* ghost: units since data_w last accepted a character, capped

rxVars   == <<data_r, data_r_ready, phase_rxd, timer_rxd, rxrdy>>
txVars   == <<data_w, data_w_ready, data_w_empty, data_w_overrun, phase_txd,
              timer_txd, screen>>
hostVars == <<fd, keyboard, file, typed>>
ages     == <<sinceRise, sincePut>>
vars     == <<rxVars, txVars, hostVars, resets, ages>>

Never   == -1                          \* attotime::never: a timer not armed
MaxTime == 2 * Period + LineDelay      \* bound: ghost ages stop counting here

Input == {"stdin", "file", "closed"}   \* m_fd = 0, > 0, and -1 (failed open)

-----------------------------------------------------------------------------
(* The status register, as the CPU sees it.                                *)

\* uart_device's two bits, which the i8251 variant of sbc8080 has as well.
RxRdy == data_r_ready

\* Faulty variant: a character being printed does not make the transmitter busy.
TxRdyTooSoon == ~data_w_ready
TxRdy == ~data_w_ready /\ data_w_empty

-----------------------------------------------------------------------------
(* The host side.                                                          *)

\* kbhit: select on m_fd.  A file is always readable, at its end too, and so is a
\* terminal that is at its end or fails.  On a failed descriptor FD_SET and
\* FD_ISSET index the set with -1, which is undefined: either answer is possible.
KbHit(ready) ==
    \/ fd = "stdin"  /\ IF keyboard # <<>> THEN ready ELSE ready => TtyFails
    \/ fd = "file"   /\ ready
    \/ fd = "closed" /\ ready \in BOOLEAN

\* getch, when it reads the terminal: Ctrl-O opens the file and itself reads
\* as Nul, DEL reads as backspace.
GetKey(ch) ==
    /\ fd = "stdin" /\ keyboard # <<>>
    /\ keyboard' = Tail(keyboard)
    /\ IF Head(keyboard) = OpenFile
       THEN /\ ch = Nul
            /\ fd' = IF FilePresent THEN "file" ELSE "closed"
            /\ file' = IF FilePresent THEN FileText ELSE <<>>
       ELSE /\ ch = IF Head(keyboard) = Del THEN BackSpace ELSE Head(keyboard)
            /\ UNCHANGED <<fd, file>>

\* Faulty variant: the file stays the input after its end.
GetByteForEver(ch) ==
    /\ fd = "file"
    /\ IF file # <<>> THEN ch = Head(file) /\ file' = Tail(file)
                      ELSE ch = Nul /\ UNCHANGED file
    /\ UNCHANGED <<fd, keyboard>>

\* getch, when it reads the file: a byte as it is; at the end of the file Nul,
\* and the terminal is the input again.
GetByte(ch) ==
    /\ fd = "file"
    /\ UNCHANGED keyboard
    /\ IF file # <<>>
       THEN ch = Head(file) /\ file' = Tail(file) /\ UNCHANGED fd
       ELSE ch = Nul /\ fd' = "stdin" /\ UNCHANGED file

\* getch, when read() fails, or the terminal has come to its end: that is ignored,
\* Nul is returned, and the next poll finds the same.
GetError(ch) ==
    /\ fd = "closed" \/ (fd = "stdin" /\ keyboard = <<>>)
    /\ ch = Nul
    /\ UNCHANGED <<fd, keyboard, file>>

GetCh(ch) == GetKey(ch) \/ GetByte(ch) \/ GetError(ch)

\* putch.
PutCh(ch) == screen' = IF ch \in Marks THEN screen ELSE Append(screen, ch)

-----------------------------------------------------------------------------
(* Initial state: device_start and the device_reset that follows it before *)
(* any instruction runs.                                                   *)

Init ==
    /\ data_r = ResetR /\ data_r_ready = FALSE
    /\ phase_rxd = 0 /\ timer_rxd = Period
    /\ data_w = ResetW /\ data_w_ready = FALSE
    /\ data_w_empty = TRUE /\ data_w_overrun = FALSE
    /\ phase_txd \in {0, 1} /\ timer_txd = Never   \* m_phase_txd starts unset
    /\ rxrdy = FALSE
    /\ fd = "stdin" /\ keyboard = <<>> /\ file = <<>> /\ screen = <<>>
    /\ typed = 0 /\ resets = 0
    /\ sinceRise = MaxTime /\ sincePut = MaxTime

-----------------------------------------------------------------------------
(* The CPU's accesses.                                                     *)

\* data_r: returns m_data_r; a read of a character that is there takes it and
\* lowers RxRDY, any other read has no effect.
DataR ==
    /\ IF data_r_ready
       THEN data_r_ready' = FALSE /\ rxrdy' = FALSE
       ELSE UNCHANGED <<data_r_ready, rxrdy>>
    /\ UNCHANGED <<data_r, phase_rxd, timer_rxd, sinceRise, sincePut>>
    /\ UNCHANGED <<txVars, hostVars, resets>>

\* start_timer_txd, and faulty variants: the timer is not armed, it is armed
\* with no delay, the phase is not set.
StartNoTimer == phase_txd' = 1 /\ UNCHANGED timer_txd
StartNoDelay == phase_txd' = 1 /\ timer_txd' = 0
StartNoPhase == timer_txd' = Period /\ UNCHANGED phase_txd
StartTimerTxd == phase_txd' = 1 /\ timer_txd' = Period

\* data_w: an empty transmitter prints the character and starts its timer; a
\* busy one drops it and records the overrun.
DataW(ch) ==
    /\ Len(screen) < MaxScreen
    /\ data_w' = ch
    /\ data_w_ready' = FALSE
    /\ IF data_w_empty
       THEN /\ PutCh(ch) /\ StartTimerTxd
            /\ data_w_empty' = FALSE /\ sincePut' = 0
            /\ UNCHANGED data_w_overrun
       ELSE /\ data_w_overrun' = TRUE
            /\ UNCHANGED <<screen, phase_txd, timer_txd, data_w_empty, sincePut>>
    /\ UNCHANGED <<rxVars, hostVars, resets, sinceRise>>

-----------------------------------------------------------------------------
(* The timer callbacks.                                                    *)

\* The receiver holds one character.  Faulty variant: it never looks.
AlwaysRoom == TRUE
HasRoom == ~data_r_ready

\* update_timer_rxd in phase 0 with a character waiting and room for it.
Receive ==
    /\ timer_rxd = 0 /\ phase_rxd = 0
    /\ HasRoom /\ KbHit(TRUE)
    /\ \E ch \in Char :
          /\ GetCh(ch)
          /\ data_r' = ch
          \* m_fd is tested after getch, which may just have changed it
          /\ timer_rxd' = Period
                 + IF fd' # "stdin" /\ ch \in LineEnds THEN LineDelay ELSE 0
    /\ data_r_ready' = TRUE /\ rxrdy' = TRUE /\ phase_rxd' = 1
    /\ sinceRise' = 0
    /\ UNCHANGED <<txVars, typed, resets, sincePut>>

\* Faulty variant: the one-shot timer is not armed again.
PollOnce ==
    /\ timer_rxd = 0 /\ phase_rxd = 0
    /\ ~HasRoom \/ KbHit(FALSE)
    /\ timer_rxd' = Never
    /\ UNCHANGED <<data_r, data_r_ready, phase_rxd, rxrdy>>
    /\ UNCHANGED <<txVars, hostVars, resets, ages>>

\* update_timer_rxd in phase 0 with nothing to do: poll again a tick later.
PollAgain ==
    /\ timer_rxd = 0 /\ phase_rxd = 0
    /\ ~HasRoom \/ KbHit(FALSE)
    /\ timer_rxd' = Period
    /\ UNCHANGED <<data_r, data_r_ready, phase_rxd, rxrdy>>
    /\ UNCHANGED <<txVars, hostVars, resets, ages>>

\* Faulty variants: the next poll comes at once; the phase goes on to 2.
EndAtOnce ==
    /\ timer_rxd = 0 /\ phase_rxd = 1
    /\ phase_rxd' = 0
    /\ UNCHANGED <<timer_rxd, data_r, data_r_ready, rxrdy>>
    /\ UNCHANGED <<txVars, hostVars, resets, ages>>
EndInPhaseTwo ==
    /\ timer_rxd = 0 /\ phase_rxd = 1
    /\ phase_rxd' = 2
    /\ timer_rxd' = Period
    /\ UNCHANGED <<data_r, data_r_ready, rxrdy>>
    /\ UNCHANGED <<txVars, hostVars, resets, ages>>

\* update_timer_rxd in phase 1: the character's time on the wire is over.
EndOfCharacter ==
    /\ timer_rxd = 0 /\ phase_rxd = 1
    /\ phase_rxd' = 0
    /\ timer_rxd' = Period
    /\ UNCHANGED <<data_r, data_r_ready, rxrdy>>
    /\ UNCHANGED <<txVars, hostVars, resets, ages>>

UpdateTimerRxd == Receive \/ PollAgain \/ EndOfCharacter

\* update_timer_txd: the timer is one-shot.  m_data_w_ready is what the source
\* tests for a second buffered character.
UpdateTimerTxd ==
    /\ timer_txd = 0
    /\ timer_txd' = Never
    /\ IF phase_txd = 1
       THEN /\ phase_txd' = 0
            /\ data_w_ready' = FALSE
            /\ IF data_w_ready
               THEN PutCh(data_w) /\ data_w_empty' = FALSE
               ELSE data_w_empty' = TRUE /\ UNCHANGED screen
       ELSE UNCHANGED <<phase_txd, data_w_ready, data_w_empty, screen>>
    /\ UNCHANGED <<data_w, data_w_overrun>>
    /\ UNCHANGED <<rxVars, hostVars, resets, ages>>

-----------------------------------------------------------------------------
(* device_reset, called for every device by a soft reset of the machine.   *)
(* It re-arms the receiver, disarms the transmitter, and does not call     *)
(* m_rxrdy_handler.                                                        *)

DeviceReset ==
    /\ resets < MaxResets
    /\ resets' = resets + 1
    /\ data_r' = ResetR /\ data_r_ready' = FALSE
    /\ phase_rxd' = 0 /\ timer_rxd' = Period
    /\ data_w' = ResetW /\ data_w_ready' = FALSE /\ data_w_empty' = TRUE
    /\ timer_txd' = Never
    /\ UNCHANGED <<data_w_overrun, phase_txd, rxrdy, screen>>
    /\ UNCHANGED hostVars
    \* pacing is promised between resets only
    /\ sinceRise' = MaxTime /\ sincePut' = MaxTime

-----------------------------------------------------------------------------
(* The environment: somebody types, time passes.                           *)

Type(ch) ==
    /\ typed < MaxTyped
    /\ typed' = typed + 1
    /\ keyboard' = Append(keyboard, ch)
    /\ UNCHANGED <<fd, file>>
    /\ UNCHANGED <<rxVars, txVars, resets, ages>>

Older(age) == IF age < MaxTime THEN age + 1 ELSE age

\* Emulated time advances only once the timers due now have been called back.
Elapse ==
    /\ timer_rxd # 0 /\ timer_txd # 0
    /\ timer_rxd' = IF timer_rxd = Never THEN Never ELSE timer_rxd - 1
    /\ timer_txd' = IF timer_txd = Never THEN Never ELSE timer_txd - 1
    /\ sinceRise' = Older(sinceRise)
    /\ sincePut' = Older(sincePut)
    /\ UNCHANGED <<data_r, data_r_ready, phase_rxd, rxrdy>>
    /\ UNCHANGED <<data_w, data_w_ready, data_w_empty, data_w_overrun>>
    /\ UNCHANGED <<phase_txd, screen, hostVars, resets>>

\* The program the board runs may access the UART in any way.
Cpu  == DataR \/ \E ch \in Output : DataW(ch)
User == \E ch \in Keys : Type(ch)
Next == Cpu \/ UpdateTimerRxd \/ UpdateTimerTxd \/ DeviceReset \/ User \/ Elapse

\* The scheduler always runs the timers it holds and emulated time never stops.
Fairness == WF_vars(UpdateTimerRxd) /\ WF_vars(UpdateTimerTxd) /\ WF_vars(Elapse)

Spec == Init /\ [][Next]_vars /\ Fairness

-----------------------------------------------------------------------------
(* Properties.                                                             *)

Timer == -1 .. (Period + LineDelay)

\* Every register, timer and host stream holds a value of its type.
TypeOK ==
    /\ data_r \in Char /\ data_r_ready \in BOOLEAN
    /\ phase_rxd \in {0, 1} /\ timer_rxd \in Timer
    /\ data_w \in Char /\ data_w_ready \in BOOLEAN
    /\ data_w_empty \in BOOLEAN /\ data_w_overrun \in BOOLEAN
    /\ phase_txd \in {0, 1} /\ timer_txd \in Timer
    /\ rxrdy \in BOOLEAN
    /\ fd \in Input /\ keyboard \in Seq(Char) /\ file \in Seq(Char)
    /\ screen \in Seq(Char)
    /\ typed \in 0 .. MaxTyped /\ resets \in 0 .. MaxResets
    /\ sinceRise \in 0 .. MaxTime /\ sincePut \in 0 .. MaxTime

\* The transmitter cannot get stuck or be taken by surprise: it is busy exactly
\* while its timer is armed, and when that timer expires m_phase_txd is 1, so
\* update_timer_txd never meets its "unexpected state", whatever the order of
\* writes, expiries and resets (device_reset leaves m_phase_txd alone).
TxTimerCoherent ==
    /\ (timer_txd # Never) <=> ~data_w_empty
    /\ timer_txd # Never => phase_txd = 1

\* The receiver cannot get stuck: its one-shot timer, which polls the terminal, is
\* armed again on every path through update_timer_rxd and device_reset, and RxRDY
\* is high while a character waits, whatever was read or reset in between.
RxTimerArmed == timer_rxd # Never
ReadyIsAnnounced == data_r_ready => rxrdy
ReceiverCoherent == RxTimerArmed /\ ReadyIsAnnounced

\* "never occur overrun": a received character stays in m_data_r until it is
\* read or a reset discards it.
NoRxOverrun ==
    [][data_r_ready /\ data_r_ready' => data_r' = data_r]_vars

\* Characters arrive at the line's pace: between two of them pass the
\* character's own time (phase 1) and a poll period, however the program reads.
RxPaced == [][~data_r_ready /\ data_r_ready' => sinceRise >= 2 * Period]_vars

\* Characters are printed at the line's pace too, though data_w does not look
\* at the clock.
TxPaced == [][screen' # screen => sincePut >= Period]_vars

\* A busy transmitter becomes empty again: status_r's TxRDY always comes back.
TxDrains == ~TxRdy ~> TxRdy

\* A program that always reads what is ready gets every key: the terminal is
\* read again even after a file was (Ctrl-O).
ProgramReads == WF_vars(DataR /\ data_r_ready)
KeysAreRead  == keyboard # <<>> ~> keyboard = <<>>
=============================================================================
