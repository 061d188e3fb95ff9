----------------------------- MODULE Uart_proofs -----------------------------
(***************************************************************************)
(* For any alphabet, file, tick and line delay: the UART's timers and its  *)
(* state never disagree, no received character is overrun, and both        *)
(* directions keep the line's pace.                                        *)
(***************************************************************************)
EXTENDS Uart, TLAPS

USE CharAssumption, TimeAssumption, BoundAssumption

-----------------------------------------------------------------------------
(* Type correctness.                                                       *)

\* What getch returns is a byte, and it leaves the host's streams well typed.
LEMMA GetChTypes ==
    ASSUME TypeOK, KbHit(TRUE), NEW ch \in Char, GetCh(ch)
    PROVE  fd' \in Input /\ keyboard' \in Seq(Char) /\ file' \in Seq(Char)
<1>1. CASE GetKey(ch)
    <2>1. keyboard # <<>>
        BY <1>1 DEF GetKey, KbHit
    <2>2. Tail(keyboard) \in Seq(Char)
        BY <2>1 DEF TypeOK
    <2>3. fd' \in Input
        BY <1>1 DEF TypeOK, GetKey, Input
    <2>4. <<>> \in Seq(Char)
        OBVIOUS
    <2>5. file' \in Seq(Char)
        BY <1>1, <2>4 DEF TypeOK, GetKey
    <2>6. QED
        BY <1>1, <2>2, <2>3, <2>5 DEF GetKey
<1>2. CASE GetByte(ch)
    <2>1. file # <<>> => Tail(file) \in Seq(Char)
        BY DEF TypeOK
    <2>2. file' \in Seq(Char)
        BY <1>2, <2>1 DEF TypeOK, GetByte
    <2>3. fd' \in Input /\ keyboard' \in Seq(Char)
        BY <1>2 DEF TypeOK, GetByte, Input
    <2>4. QED
        BY <2>2, <2>3
<1>3. CASE GetError(ch)
    BY <1>3 DEF TypeOK, GetError
<1>4. QED
    BY <1>1, <1>2, <1>3 DEF GetCh

\* putch leaves the screen well typed.
LEMMA PutChTypes ==
    ASSUME TypeOK, NEW ch \in Char, PutCh(ch)
    PROVE  screen' \in Seq(Char)
BY DEF TypeOK, PutCh

\* The initial state is well typed.
LEMMA TypeInit == Init => TypeOK
<1> SUFFICES ASSUME Init PROVE TypeOK
    OBVIOUS
<1>1. Period \in Timer /\ Never \in Timer
    BY DEF Timer, Never
<1>2. MaxTime \in Nat
    BY DEF MaxTime
<1>3. sinceRise \in 0 .. MaxTime /\ sincePut \in 0 .. MaxTime
    BY <1>2 DEF Init
<1>4. keyboard \in Seq(Char) /\ file \in Seq(Char) /\ screen \in Seq(Char)
    BY DEF Init
<1>5. fd \in Input
    BY DEF Init, Input
<1>6. typed \in 0 .. MaxTyped /\ resets \in 0 .. MaxResets
    BY DEF Init
<1>7. QED
    BY <1>1, <1>3, <1>4, <1>5, <1>6 DEF Init, TypeOK

\* Every step leaves every variable in its type.
LEMMA TypeStep == TypeOK /\ [Next]_vars => TypeOK'
<1> SUFFICES ASSUME TypeOK, [Next]_vars PROVE TypeOK'
    OBVIOUS
<1> USE DEF Timer, MaxTime, Never
<1>1. CASE DataR
    <2>1. data_r_ready' \in BOOLEAN /\ rxrdy' \in BOOLEAN
        BY Zenon, <1>1 DEF TypeOK, DataR
    <2>2. QED
        BY <1>1, <2>1 DEF TypeOK, DataR, txVars, hostVars
<1>2. ASSUME NEW ch \in Output, DataW(ch) PROVE TypeOK'
    <2>1. screen' \in Seq(Char)
        BY <1>2, PutChTypes DEF DataW, TypeOK
    <2>2. phase_txd' \in {0, 1} /\ timer_txd' \in Timer
        BY <1>2 DEF DataW, StartTimerTxd, TypeOK
    <2>3. sincePut' \in 0 .. MaxTime
        BY <1>2 DEF DataW, TypeOK
    <2>4. QED
        BY <1>2, <2>1, <2>2, <2>3 DEF DataW, TypeOK, rxVars, hostVars
<1>3. CASE Receive
    <2>1. PICK ch \in Char :
              /\ GetCh(ch) /\ data_r' = ch
              /\ timer_rxd' = Period
                     + IF fd' # "stdin" /\ ch \in LineEnds THEN LineDelay ELSE 0
        BY <1>3 DEF Receive
    <2>2. fd' \in Input /\ keyboard' \in Seq(Char) /\ file' \in Seq(Char)
        BY <1>3, <2>1, GetChTypes DEF Receive
    <2>3. timer_rxd' \in Timer
        BY <2>1
    <2>4. QED
        BY <1>3, <2>1, <2>2, <2>3 DEF Receive, TypeOK, txVars
<1>4. CASE PollAgain
    BY <1>4 DEF PollAgain, TypeOK, txVars, hostVars, ages
<1>5. CASE EndOfCharacter
    BY <1>5 DEF EndOfCharacter, TypeOK, txVars, hostVars, ages
<1>6. CASE UpdateTimerTxd
    <2>1. screen' \in Seq(Char)
        BY <1>6, PutChTypes DEF UpdateTimerTxd, TypeOK
    <2>2. data_w_ready' \in BOOLEAN /\ data_w_empty' \in BOOLEAN
        BY Zenon, <1>6 DEF UpdateTimerTxd, TypeOK
    <2>3. phase_txd' \in {0, 1} /\ timer_txd' \in Timer
        BY <1>6 DEF UpdateTimerTxd, TypeOK
    <2>4. QED
        BY <1>6, <2>1, <2>2, <2>3 DEF UpdateTimerTxd, TypeOK, rxVars, hostVars, ages
<1>7. CASE DeviceReset
    <2>1. resets' \in 0 .. MaxResets
        BY <1>7 DEF DeviceReset, TypeOK
    <2>2. MaxTime \in 0 .. MaxTime
        OBVIOUS
    <2>3. Period \in Timer /\ Never \in Timer
        OBVIOUS
    <2> HIDE DEF MaxTime, Timer, Never
    <2>4. QED
        BY <1>7, <2>1, <2>2, <2>3 DEF DeviceReset, TypeOK, hostVars
<1>8. ASSUME NEW ch \in Keys, Type(ch) PROVE TypeOK'
    BY <1>8 DEF Type, TypeOK, rxVars, txVars, ages
<1>9. CASE Elapse
    BY <1>9 DEF Elapse, Older, TypeOK, hostVars
<1>10. CASE UNCHANGED vars
    BY <1>10 DEF vars, rxVars, txVars, hostVars, ages, TypeOK
<1>11. QED
    BY <1>1, <1>2, <1>3, <1>4, <1>5, <1>6, <1>7, <1>8, <1>9, <1>10
    DEF Next, Cpu, User, UpdateTimerRxd

\* Every reachable state is well typed.
THEOREM TypeCorrect == Spec => []TypeOK
BY TypeInit, TypeStep, PTL DEF Spec

-----------------------------------------------------------------------------
(* The receiver.                                                           *)

\* What is left of the current character's time: its own tick while phase_rxd
\* is 1, then a tick until the next poll.
CharacterTime == IF phase_rxd = 1 THEN Period ELSE 2 * Period

\* The age of the last character and the armed timer add up to that time.
RxInv ==
    /\ TypeOK
    /\ RxTimerArmed
    /\ ReadyIsAnnounced
    /\ sinceRise + timer_rxd >= CharacterTime

\* A sum is as large as either of its terms.
LEMMA SumBound == \A m, n, p \in Nat : n >= p => m + n >= p
OBVIOUS

\* It holds after start.
LEMMA RxInit == Init => RxInv
<1> SUFFICES ASSUME Init PROVE RxInv
    OBVIOUS
<1>1. RxTimerArmed /\ ReadyIsAnnounced
    BY DEF Init, RxTimerArmed, ReadyIsAnnounced, Never
<1>2. sinceRise + timer_rxd >= CharacterTime
    BY DEF Init, CharacterTime, MaxTime
<1>3. QED
    BY <1>1, <1>2, TypeInit DEF RxInv

\* The steps that touch the receiver keep it: the poll, the end of a character
\* and a reset arm the timer anew, a read only lowers the line, and the others
\* leave it alone.
LEMMA RxStep == RxInv /\ [Next]_vars => RxInv'
<1> SUFFICES ASSUME RxInv, [Next]_vars PROVE RxInv'
    OBVIOUS
<1> USE DEF RxTimerArmed, CharacterTime, Never
<1>0. TypeOK /\ TypeOK'
    BY TypeStep DEF RxInv
<1>1. /\ sinceRise \in Nat /\ timer_rxd \in Int /\ phase_rxd \in {0, 1}
      /\ timer_rxd >= 0 /\ sinceRise + timer_rxd >= CharacterTime
      /\ data_r_ready \in BOOLEAN /\ data_r_ready => rxrdy
    BY <1>0 DEF RxInv, TypeOK, Timer, MaxTime, ReadyIsAnnounced
<1> HIDE DEF RxInv
<1>2. ASSUME UNCHANGED <<data_r_ready, rxrdy, phase_rxd, timer_rxd, sinceRise>>
      PROVE  RxInv'
    BY <1>0, <1>1, <1>2 DEF RxInv, ReadyIsAnnounced
<1>3. CASE DataR
    <2>1. ReadyIsAnnounced'
        BY <1>1, <1>3 DEF DataR, ReadyIsAnnounced
    <2>2. QED
        BY <1>0, <1>1, <1>3, <2>1 DEF DataR, RxInv
<1>4. ASSUME NEW ch \in Output, DataW(ch) PROVE RxInv'
    BY <1>2, <1>4 DEF DataW, rxVars
<1>5. CASE Receive
    <2>1. ReadyIsAnnounced'
        BY <1>5 DEF Receive, ReadyIsAnnounced
    <2>2. CharacterTime' = Period /\ sinceRise' \in Nat
        BY <1>5 DEF Receive
    <2>3. Period \in Nat /\ timer_rxd' \in Nat /\ timer_rxd' >= Period
        BY <1>5 DEF Receive
    <2>4. /\ sinceRise' + timer_rxd' >= Period
          /\ timer_rxd' # -1
        <3>1. sinceRise' + timer_rxd' >= Period
            BY <2>2, <2>3, SumBound, Zenon
        <3>2. QED
            BY <2>3, <3>1
    <2>5. QED
        BY <1>0, <2>1, <2>2, <2>4 DEF RxInv
<1>6. CASE PollAgain \/ EndOfCharacter
    <2>1. UNCHANGED <<data_r_ready, rxrdy, sinceRise>> /\ timer_rxd' = Period
        BY <1>6 DEF PollAgain, EndOfCharacter, ages
    <2>2. timer_rxd = 0 /\ phase_rxd' = 0
        BY <1>6 DEF PollAgain, EndOfCharacter
    <2>3. sinceRise >= Period
        BY <1>1, <2>2
    <2>4. sinceRise' + timer_rxd' >= CharacterTime'
        BY <1>1, <2>1, <2>2, <2>3
    <2>5. QED
        BY <1>0, <1>1, <2>1, <2>4 DEF RxInv, ReadyIsAnnounced
<1>7. CASE UpdateTimerTxd
    BY <1>2, <1>7 DEF UpdateTimerTxd, rxVars, ages
<1>8. CASE DeviceReset
    <2>1. /\ data_r_ready' = FALSE /\ phase_rxd' = 0
          /\ timer_rxd' = Period /\ sinceRise' = MaxTime
        BY <1>8 DEF DeviceReset
    <2>2. QED
        BY <1>0, <2>1 DEF RxInv, ReadyIsAnnounced, MaxTime
<1>9. ASSUME NEW ch \in Keys, Type(ch) PROVE RxInv'
    BY <1>2, <1>9 DEF Type, rxVars, ages
<1>10. CASE Elapse
    <2>1. UNCHANGED <<data_r_ready, rxrdy, phase_rxd>>
        BY <1>10 DEF Elapse
    <2>2. timer_rxd' = timer_rxd - 1 /\ timer_rxd' >= 0
        BY <1>1, <1>10 DEF Elapse
    <2>3. \/ sinceRise' = sinceRise + 1
          \/ sinceRise' = sinceRise /\ sinceRise >= MaxTime
        BY <1>1, <1>10 DEF Elapse, Older, MaxTime
    <2>4. sinceRise' + timer_rxd' >= CharacterTime'
        BY <1>1, <2>1, <2>2, <2>3 DEF MaxTime
    <2>5. QED
        BY <1>0, <1>1, <2>1, <2>2, <2>4 DEF RxInv, ReadyIsAnnounced
<1>11. CASE UNCHANGED vars
    BY <1>2, <1>11 DEF vars, rxVars, ages
<1>12. QED
    BY <1>3, <1>4, <1>5, <1>6, <1>7, <1>8, <1>9, <1>10, <1>11
    DEF Next, Cpu, User, UpdateTimerRxd

\* Somebody always polls the terminal, and a character that is ready is announced
\* to the CPU.
THEOREM ReceiverIsCoherent == Spec => []ReceiverCoherent
<1>1. RxInv => ReceiverCoherent
    BY DEF RxInv, ReceiverCoherent
<1>2. QED
    BY <1>1, RxInit, RxStep, PTL DEF Spec

\* Characters arrive no faster than the line brings them, for every tick length
\* and every pattern of reads.
THEOREM ReceiverPaced == Spec => RxPaced
<1>1. ASSUME RxInv, [Next]_vars, ~data_r_ready, data_r_ready'
      PROVE  sinceRise >= 2 * Period
    <2>1. CASE Receive
        <3>1. sinceRise \in Nat
            BY <1>1 DEF RxInv, TypeOK, MaxTime
        <3>2. timer_rxd = 0 /\ phase_rxd = 0
            BY <2>1 DEF Receive
        <3>3. QED
            BY <1>1, <3>1, <3>2 DEF RxInv, CharacterTime
    <2>2. CASE ~Receive
        BY <1>1, <2>2
        DEF Next, Cpu, DataR, DataW, UpdateTimerRxd, PollAgain, EndOfCharacter,
            UpdateTimerTxd, DeviceReset, User, Type, Elapse, vars, rxVars
    <2>3. QED
        BY <2>1, <2>2
<1>2. RxInv /\ [Next]_vars =>
          [~data_r_ready /\ data_r_ready' => sinceRise >= 2 * Period]_vars
    BY <1>1
<1>3. QED
    BY <1>2, RxInit, RxStep, PTL DEF Spec, RxPaced

\* A received character stays until it is read or a reset discards it.
THEOREM NoOverrun == Spec => NoRxOverrun
<1>1. ASSUME TypeOK, [Next]_vars, data_r_ready, data_r_ready'
      PROVE  data_r' = data_r
    BY <1>1
    DEF Next, Cpu, DataR, DataW, UpdateTimerRxd, Receive, HasRoom, PollAgain,
        EndOfCharacter, UpdateTimerTxd, DeviceReset, User, Type, Elapse, vars, rxVars
<1>2. TypeOK /\ [Next]_vars =>
          [data_r_ready /\ data_r_ready' => data_r' = data_r]_vars
    BY <1>1
<1>3. QED
    BY <1>2, TypeInit, TypeStep, PTL DEF Spec, NoRxOverrun

-----------------------------------------------------------------------------
(* The transmitter.                                                        *)

\* A time since the last character and the time left of it are a tick at least.
Paced(age, left) == age + left >= Period

\* While the timer is armed, the age of the last character and the time left
\* add up to a tick; once the transmitter is empty that tick is over.  Nothing
\* ever fills m_data_w_ready, so update_timer_txd prints nothing.
TxInv ==
    /\ TypeOK
    /\ TxTimerCoherent
    /\ ~data_w_ready
    /\ data_w_empty => sincePut >= Period
    /\ ~data_w_empty => Paced(sincePut, timer_txd)

\* It holds after start.
LEMMA TxInit == Init => TxInv
<1> SUFFICES ASSUME Init PROVE TxInv
    OBVIOUS
<1>1. TxTimerCoherent /\ ~data_w_ready /\ data_w_empty
    BY DEF Init, TxTimerCoherent
<1>2. sincePut >= Period
    BY DEF Init, MaxTime
<1>3. QED
    BY <1>1, <1>2, TypeInit DEF TxInv

\* One unit later, the sum is no smaller.
LEMMA PacedElapse ==
    ASSUME NEW age \in 0 .. MaxTime, NEW left \in Nat \ {0}, Paced(age, left)
    PROVE  Paced(Older(age), left - 1)
<1>1. CASE age < MaxTime
    BY <1>1 DEF Paced, Older, MaxTime
<1>2. CASE ~(age < MaxTime)
    BY <1>2 DEF Paced, Older, MaxTime
<1>3. QED
    BY <1>1, <1>2

\* The writes, the expiries and the resets keep it, the other steps leave the
\* transmitter alone.
LEMMA TxStep == TxInv /\ [Next]_vars => TxInv'
<1> SUFFICES ASSUME TxInv, [Next]_vars PROVE TxInv'
    OBVIOUS
<1>0. TypeOK /\ TypeOK'
    BY TypeStep DEF TxInv
<1>1. /\ sincePut \in 0 .. MaxTime /\ timer_txd \in Timer
      /\ data_w_empty \in BOOLEAN /\ ~data_w_ready
      /\ TxTimerCoherent
      /\ data_w_empty => sincePut >= Period
      /\ ~data_w_empty => Paced(sincePut, timer_txd)
    BY <1>0 DEF TxInv, TypeOK
<1> HIDE DEF TxInv
<1>2. ASSUME UNCHANGED <<data_w_ready, data_w_empty, phase_txd, timer_txd, sincePut>>
      PROVE  TxInv'
    BY <1>0, <1>1, <1>2 DEF TxInv, TxTimerCoherent, Paced
<1>3. CASE DataR
    BY <1>2, <1>3 DEF DataR, txVars
<1>4. ASSUME NEW ch \in Output, DataW(ch) PROVE TxInv'
    <2>1. ~data_w_ready'
        BY <1>4 DEF DataW
    <2>2. CASE data_w_empty
        <3>1. /\ data_w_empty' = FALSE /\ sincePut' = 0
              /\ phase_txd' = 1 /\ timer_txd' = Period
            BY <1>4, <2>2 DEF DataW, StartTimerTxd
        <3>2. TxTimerCoherent'
            BY <3>1 DEF TxTimerCoherent, Never
        <3>3. Paced(sincePut', timer_txd')
            BY <3>1 DEF Paced
        <3>4. QED
            BY <1>0, <2>1, <3>1, <3>2, <3>3 DEF TxInv
    <2>3. CASE ~data_w_empty
        <3>1. UNCHANGED <<data_w_empty, phase_txd, timer_txd, sincePut>>
            BY <1>4, <2>3 DEF DataW
        <3>2. QED
            BY <1>0, <1>1, <2>1, <2>3, <3>1 DEF TxInv, TxTimerCoherent
    <2>4. QED
        BY <2>2, <2>3
<1>5. CASE UpdateTimerRxd
    BY <1>2, <1>5 DEF UpdateTimerRxd, Receive, PollAgain, EndOfCharacter, txVars, ages
<1>6. CASE UpdateTimerTxd
    <2>1. timer_txd = 0 /\ timer_txd' = Never /\ sincePut' = sincePut
        BY <1>6 DEF UpdateTimerTxd, ages
    <2>2. ~data_w_empty /\ phase_txd = 1
        BY <1>1, <2>1 DEF TxTimerCoherent, Never
    <2>3. data_w_empty' /\ ~data_w_ready'
        BY <1>1, <1>6, <2>2 DEF UpdateTimerTxd
    <2>4. sincePut >= Period
        BY <1>1, <2>1, <2>2 DEF Paced, MaxTime
    <2>5. QED
        BY <1>0, <2>1, <2>3, <2>4 DEF TxInv, TxTimerCoherent
<1>7. CASE DeviceReset
    <2>1. /\ ~data_w_ready' /\ data_w_empty'
          /\ timer_txd' = Never /\ sincePut' = MaxTime
        BY <1>7 DEF DeviceReset
    <2>2. MaxTime >= Period
        BY DEF MaxTime
    <2>3. QED
        BY <1>0, <2>1, <2>2 DEF TxInv, TxTimerCoherent
<1>8. ASSUME NEW ch \in Keys, Type(ch) PROVE TxInv'
    BY <1>2, <1>8 DEF Type, txVars, ages
<1>9. CASE Elapse
    <2>1. /\ UNCHANGED <<data_w_ready, data_w_empty, phase_txd>>
          /\ sincePut' = Older(sincePut)
          /\ timer_txd # 0
          /\ timer_txd' = IF timer_txd = Never THEN Never ELSE timer_txd - 1
        BY <1>9 DEF Elapse
    <2>2. CASE data_w_empty
        <3>1. timer_txd = Never /\ timer_txd' = Never
            BY <1>1, <2>1, <2>2 DEF TxTimerCoherent
        <3>2. Older(sincePut) >= Period
            BY <1>1, <2>2 DEF Older, MaxTime
        <3>3. QED
            BY <1>0, <1>1, <2>1, <2>2, <3>1, <3>2 DEF TxInv, TxTimerCoherent
    <2>3. CASE ~data_w_empty
        <3>1. timer_txd \in Nat \ {0} /\ phase_txd = 1
            BY <1>1, <2>1, <2>3 DEF TxTimerCoherent, Never, Timer
        <3>2. timer_txd' = timer_txd - 1 /\ timer_txd' # Never
            BY <2>1, <3>1 DEF Never
        <3>3. Paced(sincePut', timer_txd')
            BY <1>1, <2>1, <2>3, <3>1, <3>2, PacedElapse
        <3>4. QED
            BY <1>0, <1>1, <2>1, <2>3, <3>1, <3>2, <3>3 DEF TxInv, TxTimerCoherent
    <2>4. QED
        BY <2>2, <2>3
<1>10. CASE UNCHANGED vars
    BY <1>2, <1>10 DEF vars, txVars, ages
<1>11. QED
    BY <1>3, <1>4, <1>5, <1>6, <1>7, <1>8, <1>9, <1>10 DEF Next, Cpu, User

\* The transmitter is busy exactly while its timer is armed, and no expiry finds
\* m_phase_txd in the state update_timer_txd calls unexpected.
THEOREM TransmitterCoherent == Spec => []TxTimerCoherent
<1>1. TxInv => TxTimerCoherent
    BY DEF TxInv
<1>2. QED
    BY <1>1, TxInit, TxStep, PTL DEF Spec

\* Characters are printed a tick apart at least, for every tick length.
THEOREM TransmitterPaced == Spec => TxPaced
<1>1. ASSUME TxInv, [Next]_vars, screen' # screen
      PROVE  sincePut >= Period
    <2>1. CASE \E ch \in Output : DataW(ch)
        <3>1. data_w_empty
            BY <1>1, <2>1 DEF DataW
        <3>2. QED
            BY <1>1, <3>1 DEF TxInv
    <2>2. CASE UpdateTimerTxd
        BY <1>1, <2>2 DEF UpdateTimerTxd, TxInv
    <2>3. CASE ~(\E ch \in Output : DataW(ch)) /\ ~UpdateTimerTxd
        BY <1>1, <2>3
        DEF Next, Cpu, DataR, UpdateTimerRxd, Receive, PollAgain, EndOfCharacter,
            DeviceReset, User, Type, Elapse, vars, txVars
    <2>4. QED
        BY <2>1, <2>2, <2>3
<1>2. TxInv /\ [Next]_vars => [screen' # screen => sincePut >= Period]_vars
    BY <1>1
<1>3. QED
    BY <1>2, TxInit, TxStep, PTL DEF Spec, TxPaced
=============================================================================
