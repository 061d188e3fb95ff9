------------------------ MODULE SchedulerTime_proofs ------------------------
(***************************************************************************)
(* The scheduler's clocks, for any devices, cycle periods, quantum and     *)
(* calls: cycles are accounted for, time moves forward, and the devices    *)
(* keep together.                                                          *)
(***************************************************************************)
EXTENDS Scheduler_proofs

-----------------------------------------------------------------------------
(* Arithmetic.                                                             *)

LEMMA Distribute ==
    ASSUME NEW a \in Nat, NEW b \in Nat, NEW p \in Nat
    PROVE  (a + b) * p = a * p + b * p /\ a * p \in Nat /\ b * p \in Nat
OBVIOUS

LEMMA Monotone ==
    ASSUME NEW a \in Nat, NEW b \in Nat, NEW p \in Nat, a <= b
    PROVE  a * p <= b * p /\ a * p \in Nat /\ b * p \in Nat
<1>1. b - a \in Nat /\ b = a + (b - a)
    OBVIOUS
<1>2. b * p = a * p + (b - a) * p /\ a * p \in Nat /\ (b - a) * p \in Nat
    BY <1>1, Distribute
<1>3. QED
    BY <1>2

LEMMA Quotient ==
    ASSUME NEW t \in Nat, NEW S \in Nat \ {0}
    PROVE  t \div S \in Nat /\ (t \div S) * S <= t /\ t < (t \div S) * S + S
OBVIOUS

\* The difference of two times from their seconds and sub-second parts, as Delta
\* takes it: never too much, and exact for times less than a second apart.
LEMMA SubSeconds ==
    ASSUME NEW t \in Nat, NEW l \in Nat, NEW S \in Nat \ {0}, t \div S >= l \div S,
           NEW D, D = IF (t % S) - (l % S) < 0 /\ t \div S > l \div S
                      THEN (t % S) - (l % S) + S ELSE (t % S) - (l % S)
    PROVE  D \in Int /\ D <= t - l /\ (t - l < S => D = t - l)
<1> DEFINE q == t \div S
           r == l \div S
           x == t % S
           y == l % S
<1>1. /\ q \in Nat /\ x \in 0 .. S - 1 /\ t = q * S + x
      /\ r \in Nat /\ y \in 0 .. S - 1 /\ l = r * S + y
    OBVIOUS
<1>2. q >= r /\ D = IF x - y < 0 /\ q > r THEN x - y + S ELSE x - y
    OBVIOUS
<1> HIDE DEF q, r, x, y
<1>3. /\ q * S \in Nat /\ r * S \in Nat
      /\ q = r \/ q * S >= r * S + S
    <2>1. q * S \in Nat /\ r * S \in Nat
        BY <1>1, Product
    <2>2. CASE q > r
        <3>1. (r + 1) * S = r * S + 1 * S /\ 1 * S = S
            BY <1>1, Distribute
        <3>2. (r + 1) * S <= q * S
            BY <1>1, <2>2, Monotone
        <3>3. QED
            BY <2>1, <3>1, <3>2
    <2>3. QED
        BY <1>1, <1>2, <2>1, <2>2
<1>4. QED
    BY <1>1, <1>2, <1>3

-----------------------------------------------------------------------------
(* Cycles.                                                                 *)

\* Cycles used by the slice under way.
Used(c) == IF c = executing THEN running - icount ELSE 0

Accounted ==
    \A c \in Cpu : /\ localtime[c] = totalcycles[c] * CyclePeriod[c]
                   /\ worked[c] = totalcycles[c] + Used(c)

LEMMA AccountedInit == Init => Accounted
BY Numbers DEF Init, Accounted, Used, Nobody

LEMMA AccountedQuiet ==
    ASSUME Typed, Accounted, UNCHANGED <<localtime, totalcycles, worked, executing>>,
           executing # Nobody => running' - icount' = running - icount
    PROVE  Accounted'
<1>1. executing \in Cpu => executing # Nobody
    BY Numbers DEF Nobody
<1>2. QED
    BY <1>1 DEF Accounted, Used

LEMMA AccountedAccount ==
    ASSUME Typed, Accounted, NEW c \in Cpu, NEW n \in Nat, Account(c, n), executing' = Nobody,
           \A d \in Cpu : worked'[d] = IF d = c THEN totalcycles[c] + n ELSE worked[d],
           executing \in {c, Nobody}
    PROVE  Accounted'
<1>1. /\ localtime'[c] = localtime[c] + n * CyclePeriod[c]
      /\ totalcycles'[c] = totalcycles[c] + n
      /\ \A d \in Cpu \ {c} : localtime'[d] = localtime[d] /\ totalcycles'[d] = totalcycles[d]
    BY AccountTyped DEF Typed
<1>2. totalcycles[c] \in Nat /\ CyclePeriod[c] \in Nat /\ c # Nobody
    BY Numbers DEF Typed, CycleTypes, Nobody
<1>3. localtime'[c] = totalcycles'[c] * CyclePeriod[c]
    <2>1. localtime[c] = totalcycles[c] * CyclePeriod[c]
        BY DEF Accounted
    <2>2. (totalcycles[c] + n) * CyclePeriod[c] = totalcycles[c] * CyclePeriod[c] + n * CyclePeriod[c]
        BY <1>2, Distribute
    <2>3. QED
        BY <1>1, <2>1, <2>2
<1>4. ASSUME NEW d \in Cpu
      PROVE  /\ localtime'[d] = totalcycles'[d] * CyclePeriod[d]
             /\ worked'[d] = totalcycles'[d] + 0
    <2>1. totalcycles[d] \in Nat
        BY DEF Typed, CycleTypes
    <2>2. CASE d = c
        BY <1>1, <1>2, <1>3, <2>2
    <2>3. CASE d # c
        <3>1. localtime[d] = totalcycles[d] * CyclePeriod[d] /\ worked[d] = totalcycles[d] + 0
            BY <2>3, Numbers DEF Accounted, Used, Nobody
        <3>2. QED
            BY <1>1, <2>3, <3>1
    <2>4. QED
        BY <2>2, <2>3
<1>5. \A d \in Cpu : d # Nobody
    BY Numbers DEF Nobody
<1>6. QED
    BY <1>4, <1>5 DEF Accounted, Used

LEMMA AccountedEat == ASSUME Typed, Accounted, NEW c \in Cpu, EatCpu(c) PROVE Accounted'
<1> DEFINE n == CyclesToTarget(c)
<1>1. n \in Nat /\ Account(c, n) /\ worked' = [worked EXCEPT ![c] = @ + n]
    BY CyclesType DEF EatCpu
<1> HIDE DEF n
<1>2. executing = Nobody /\ executing' = Nobody
    BY DEF EatCpu, Typed, Phased
<1>3. worked[c] = totalcycles[c]
    BY <1>2, Numbers DEF Accounted, Used, Nobody, Typed, CycleTypes
<1>4. \A d \in Cpu : worked'[d] = IF d = c THEN totalcycles[c] + n ELSE worked[d]
    BY <1>1, <1>3 DEF Typed, CycleTypes
<1>5. QED
    BY <1>1, <1>2, <1>4, AccountedAccount

LEMMA AccountedStop == ASSUME Typed, Accounted, StopCpu PROVE Accounted'
<1> DEFINE n == ran - icount - stolen
           c == executing
<1>1. n \in Nat /\ c \in Cpu /\ n = running - icount /\ Account(c, n)
    BY UsedType DEF StopCpu
<1>2. executing' = Nobody /\ worked' = worked /\ worked[c] = totalcycles[c] + n
    BY <1>1 DEF StopCpu, Accounted, Used
<1>3. PICK d \in Cpu : d = c
    BY <1>1
<1>4. PICK m \in Nat : m = n
    BY <1>1
<1>5. Account(d, m)
    BY <1>1, <1>3, <1>4
<1>6. \A e \in Cpu : worked'[e] = IF e = d THEN totalcycles[d] + m ELSE worked[e]
    BY <1>2, <1>3, <1>4
<1>7. executing \in {d, Nobody}
    BY <1>3
<1> HIDE DEF n, c
<1>8. QED
    BY <1>2, <1>5, <1>6, <1>7, AccountedAccount

LEMMA AccountedRun == ASSUME Typed, Accounted, NEW c \in Cpu, RunCpu(c) PROVE Accounted'
<1>1. /\ executing = Nobody /\ executing' = c /\ UNCHANGED <<localtime, totalcycles, worked>>
      /\ running' \in Nat /\ icount' = running'
    BY CyclesType DEF RunCpu, Typed, Phased, cpuVars
<1>2. \A d \in Cpu : Used(d) = 0
    <2>1. \A d \in Cpu : d # Nobody
        BY Numbers DEF Nobody
    <2>2. QED
        BY <1>1, <2>1 DEF Used
<1>3. running' - icount' = 0
    <2>1. \A r \in Nat : r - r = 0
        OBVIOUS
    <2>2. QED
        BY <1>1, <2>1
<1>4. \A d \in Cpu : Used(d)' = 0
    BY <1>1, <1>3 DEF Used
<1>5. QED
    BY <1>1, <1>2, <1>4 DEF Accounted

LEMMA AccountedSpends == ASSUME Typed, Accounted, NEW k, Spends(k) PROVE Accounted'
<1>1. /\ UNCHANGED <<executing, localtime, totalcycles, running>>
      /\ phase = "run" /\ k \in Nat /\ icount' = icount - k
      /\ worked' = [worked EXCEPT ![executing] = @ + k]
    BY DEF Spends, loopVars
<1>2. /\ executing \in Cpu /\ worked \in [Cpu -> Nat] /\ totalcycles \in [Cpu -> Nat]
      /\ running \in Nat /\ icount \in Int
    BY <1>1 DEF Typed, LoopTypes, CycleTypes, Phased
<1>3. ASSUME NEW c \in Cpu PROVE worked'[c] = totalcycles'[c] + Used(c)'
    <2>1. worked[c] = totalcycles[c] + Used(c) /\ worked[c] \in Nat /\ totalcycles[c] \in Nat
        BY <1>2 DEF Accounted
    <2>2. CASE c = executing
        <3>1. worked'[c] = worked[c] + k /\ Used(c) = running - icount
              /\ Used(c)' = running - (icount - k)
            BY <1>1, <1>2, <2>2 DEF Used
        <3>2. QED
            BY <1>1, <1>2, <2>1, <3>1
    <2>3. CASE c # executing
        BY <1>1, <1>2, <2>1, <2>3 DEF Used
    <2>4. QED
        BY <2>2, <2>3
<1>4. QED
    BY <1>1, <1>3 DEF Accounted

\* What a call does to the cycle counts of the slice it comes from.
LEMMA CallIs ==
    ASSUME Typed, Call
    PROVE  /\ CanCall /\ CutsShort /\ UNCHANGED <<loopVars, cpuVars, ran, midInstr>>
           /\ executing # Nobody => running' - icount' = running - icount
<1>1. CanCall
    BY DEF Call, Adjust, Enable, SetTimer, SuspendResume
<1>2. CutsShort
    <2>1. ASSUME NEW t \in Permanent, NEW delay \in Delays, NEW per \in Periods, Adjust(t, delay, per)
          PROVE  CutsShort
        BY <2>1 DEF Adjust, AbortIfHead, CutsShort
    <2>2. ASSUME NEW t \in Permanent, NEW on \in BOOLEAN, Enable(t, on) PROVE CutsShort
        BY <2>2 DEF Enable, CutsShort
    <2>3. ASSUME NEW t \in Temporary, NEW delay \in Delays, SetTimer(t, delay) PROVE CutsShort
        BY <2>3 DEF SetTimer, AbortIfHead, CutsShort
    <2>4. ASSUME NEW c \in Cpu, NEW how \in Modes, SuspendResume(c, how) PROVE CutsShort
        BY <2>4, CpuAssumption DEF SuspendResume, CutsShort, Abort, Nobody
    <2>5. QED
        BY <2>1, <2>2, <2>3, <2>4 DEF Call
<1>3. UNCHANGED <<loopVars, cpuVars, ran, midInstr>> /\ UNCHANGED <<phase, executing, ran>>
    BY <1>1 DEF CanCall, loopVars
<1>4. executing # Nobody => running' - icount' = running - icount
    BY <1>2, <1>3, CutsCounts DEF Typed, Phased
<1>5. QED
    BY <1>1, <1>2, <1>3, <1>4

\* The steps that touch neither the clocks nor a slice.
Quiet ==
    \/ Begin \/ StartPass \/ EndPass \/ EndLoop \/ CallBack \/ CallbackDone \/ TimersDone
    \/ \E c \in Cpu : SkipCpu(c)
    \/ UNCHANGED vars

LEMMA QuietIs == ASSUME Quiet PROVE UNCHANGED <<executing, midInstr, cpuVars, cycleVars>>
<1>1. CASE Begin \/ StartPass \/ EndPass \/ EndLoop
    BY <1>1 DEF Begin, StartPass, EndPass, EndLoop
<1>2. CASE CallBack \/ CallbackDone \/ TimersDone
    BY <1>2 DEF CallBack, CallbackDone, TimersDone
<1>3. CASE \E c \in Cpu : SkipCpu(c)
    BY <1>3 DEF SkipCpu
<1>4. CASE UNCHANGED vars
    BY <1>4 DEF vars, loopVars
<1>5. QED
    BY <1>1, <1>2, <1>3, <1>4 DEF Quiet

LEMMA StepsAre ==
    ASSUME Typed, [Next]_vars
    PROVE  \/ Call \/ Quiet \/ StopCpu
           \/ \E k \in 0 .. MaxInstr : Spends(k) /\ (StartInstruction \/ FinishInstruction)
           \/ \E c \in Cpu : EatCpu(c) \/ RunCpu(c)
BY InstructionTyped DEF Next, Timeslice, Quiet

LEMMA AccountedStep == Typed /\ Accounted /\ [Next]_vars => Accounted'
<1> SUFFICES ASSUME Typed, Accounted, [Next]_vars PROVE Accounted'
    OBVIOUS
<1>1. CASE Call
    BY <1>1, CallIs, AccountedQuiet DEF cpuVars, loopVars
<1>2. CASE Quiet
    BY <1>2, QuietIs, AccountedQuiet DEF cpuVars, cycleVars
<1>3. QED
    BY <1>1, <1>2, StepsAre, AccountedStop, AccountedSpends, AccountedEat, AccountedRun

\* Cycles are neither invented nor lost: whatever cuts slices short, a device's
\* count and clock agree with the cycles it has executed or had eaten.
THEOREM CyclesAreAccounted == Spec => []CyclesAccounted
<1>1. Typed /\ Accounted => CyclesAccounted
    <2> SUFFICES ASSUME Typed, Accounted, NEW c \in Cpu \ {executing}
                 PROVE  /\ totalcycles[c] = worked[c]
                        /\ localtime[c] = worked[c] * CyclePeriod[c]
        BY DEF CyclesAccounted
    <2>1. totalcycles[c] \in Nat /\ worked[c] = totalcycles[c] + 0
          /\ localtime[c] = totalcycles[c] * CyclePeriod[c]
        BY DEF Typed, CycleTypes, Accounted, Used
    <2>2. QED
        BY <2>1
<1>2. QED
    BY <1>1, AlwaysTyped, AccountedInit, AccountedStep, PTL DEF Spec

-----------------------------------------------------------------------------
(* Time.                                                                   *)

\* What accounting for n cycles of device c does to time.
LEMMA AccountForward ==
    ASSUME Typed, NEW c \in Cpu, NEW n \in Nat, Account(c, n)
    PROVE  \A d \in Cpu : localtime'[d] >= localtime[d]
<1>1. n * CyclePeriod[c] \in Nat
    BY Numbers, Product
<1>2. /\ localtime'[c] = localtime[c] + n * CyclePeriod[c]
      /\ \A d \in Cpu \ {c} : localtime'[d] = localtime[d]
    BY AccountTyped DEF Typed
<1>3. \A d \in Cpu : localtime[d] \in Nat
    BY DEF Typed, CycleTypes
<1> DEFINE p == n * CyclePeriod[c]
<1>4. p \in Nat /\ localtime'[c] = localtime[c] + p
    BY <1>1, <1>2
<1> HIDE DEF p
<1>5. QED
    BY <1>2, <1>3, <1>4

\* "everything moves forward from here": no step takes the base time or the clock
\* of a device back.
THEOREM TimeGoesForward == Spec => TimeMovesForward
<1> DEFINE Forward == /\ basetime' >= basetime
                      /\ \A c \in Cpu : localtime'[c] >= localtime[c]
<1>1. ASSUME Typed, [Next]_vars PROVE Forward
    <2>1. /\ basetime \in Nat /\ target \in Nat
          /\ \A c \in Cpu : localtime[c] \in Nat
        BY <1>1 DEF Typed, LoopTypes, CycleTypes
    <2>2. CASE UNCHANGED <<basetime, localtime>>
        BY <2>1, <2>2
    <2>3. CASE Call
        BY <1>1, <2>2, <2>3, CallIs DEF loopVars, cpuVars
    <2>4. CASE EndPass
        BY <1>1, <2>1, <2>4 DEF EndPass, cpuVars, Typed, Bounded
    <2>5. CASE StopCpu
        <3>1. PICK c \in Cpu, n \in Nat : Account(c, n)
            BY <1>1, <2>5, UsedType DEF StopCpu
        <3>2. basetime' = basetime
            BY <2>5 DEF StopCpu
        <3>3. QED
            BY <1>1, <2>1, <3>1, <3>2, AccountForward
    <2>6. ASSUME NEW c \in Cpu, EatCpu(c) PROVE Forward
        <3>1. PICK n \in Nat : Account(c, n)
            BY <1>1, <2>6, CyclesType DEF EatCpu
        <3>2. basetime' = basetime
            BY <2>6 DEF EatCpu
        <3>3. QED
            BY <1>1, <2>1, <3>1, <3>2, AccountForward
    <2>7. ASSUME NEW c \in Cpu, RunCpu(c) \/ SkipCpu(c) PROVE Forward
        BY <2>2, <2>7 DEF RunCpu, SkipCpu, cpuVars
    <2>8. CASE StartInstruction \/ FinishInstruction
        BY <2>2, <2>8 DEF StartInstruction, FinishInstruction, loopVars
    <2>9. CASE Begin \/ StartPass \/ EndLoop \/ CallBack \/ CallbackDone \/ TimersDone
        BY <2>2, <2>9 DEF Begin, StartPass, EndLoop, CallBack, CallbackDone, TimersDone, cpuVars
    <2>10. CASE UNCHANGED vars
        BY <2>2, <2>10 DEF vars, loopVars, cpuVars
    <2> HIDE DEF Forward
    <2>11. QED
        BY <1>1, <2>3, <2>4, <2>5, <2>6, <2>7, <2>8, <2>9, <2>10 DEF Next, Timeslice
<1>2. QED
    BY <1>1, AlwaysTyped, PTL DEF Spec, TimeMovesForward

-----------------------------------------------------------------------------
(* The devices keep together.                                              *)

\* The sub-second parts of two times tell them apart as long as the target and a
\* device are less than a second apart.
SecondIsLong == \A c \in Cpu : Quantum + CyclePeriod[c] <= Second

\* A stalled device's clock stands still.  No other is a whole cycle behind the
\* base time, nor behind the target once the pass has dealt with it.
Standing == \A c \in Cpu : mode[c] = "stall" => c \in stalled
NearBase == \A c \in Cpu \ stalled : basetime - localtime[c] < CyclePeriod[c]
NearTarget ==
    phase \in {"cpus", "run"} =>
        \A c \in Cpu \ (stalled \cup todo) : target - localtime[c] < CyclePeriod[c]

\* What a slice was given ends within a quantum; its last instruction, which
\* starts with a cycle left, overdraws by all its other cycles at most.
Rest == IF midInstr = Between THEN 0 ELSE midInstr
Overdrawn ==
    phase = "run" =>
        /\ icount > 0 => stolen = 0
        /\ running - icount + Rest <= ran + MaxInstr - 1
Within ==
    phase = "run" =>
        localtime[executing] + ran * CyclePeriod[executing] <= basetime + Quantum

Together ==
    Standing /\ NearBase /\ NearTarget /\ Overdrawn /\ Within /\ NotFarAhead

LEMMA Clocks ==
    ASSUME Typed
    PROVE  /\ basetime \in Nat /\ target \in Nat /\ Quantum \in Nat /\ MaxInstr \in Nat \ {0}
           /\ \A c \in Cpu : /\ localtime[c] \in Nat /\ CyclePeriod[c] \in Nat \ {0}
                            /\ (MaxInstr - 1) * CyclePeriod[c] \in Nat
<1>1. \A c \in Cpu : CyclePeriod[c] \in Nat \ {0} /\ MaxInstr - 1 \in Nat
    BY Numbers
<1>2. \A c \in Cpu : (MaxInstr - 1) * CyclePeriod[c] \in Nat
    BY <1>1, Product
<1>3. QED
    BY <1>1, <1>2, Numbers DEF Typed, LoopTypes, CycleTypes

LEMMA DeltaIs ==
    ASSUME Typed, NEW c \in Cpu, Considered(c)
    PROVE  /\ Delta(c) \in Int /\ Delta(c) <= target - localtime[c]
           /\ target - localtime[c] < Second => Delta(c) = target - localtime[c]
<1>1. target \in Nat /\ localtime[c] \in Nat /\ Second \in Nat \ {0}
    BY Clocks, Numbers
<1>2. target \div Second >= localtime[c] \div Second
    BY DEF Considered
<1>3. Delta(c) = IF (target % Second) - (localtime[c] % Second) < 0
                    /\ target \div Second > localtime[c] \div Second
                 THEN (target % Second) - (localtime[c] % Second) + Second
                 ELSE (target % Second) - (localtime[c] % Second)
    BY DEF Delta
<1>4. QED
    BY <1>1, <1>2, <1>3, SubSeconds

LEMMA LessThanASecond ==
    ASSUME SecondIsLong, Typed, NearBase, phase \in {"cpus", "run"}, NEW c \in Cpu \ stalled
    PROVE  target - localtime[c] < Second
<1>1. basetime - localtime[c] < CyclePeriod[c] /\ target <= basetime + Quantum
      /\ Quantum + CyclePeriod[c] <= Second
    BY DEF NearBase, Typed, Bounded, SecondIsLong
<1>2. QED
    BY <1>1, Clocks, Numbers

LEMMA TogetherInit == Init => Together
<1> SUFFICES ASSUME Init PROVE Together
    OBVIOUS
<1>1. /\ phase = "idle" /\ basetime = 0 /\ \A c \in Cpu : localtime[c] = 0 /\ mode[c] = "run"
    BY DEF Init
<1>2. \A c \in Cpu : CyclePeriod[c] > 0 /\ (MaxInstr - 1) * CyclePeriod[c] \in Nat /\ Quantum \in Nat
    BY TypedInit, Clocks
<1>3. NearBase /\ NotFarAhead
    BY <1>1, <1>2 DEF NearBase, NotFarAhead
<1>4. QED
    BY <1>1, <1>3 DEF Together, Standing, NearTarget, Overdrawn, Within

\* Steps between the passes.
LEMMA TogetherOutside ==
    ASSUME Together, UNCHANGED <<basetime, target, todo, stalled, mode, localtime>>,
           phase \notin {"cpus", "run"}, phase' \notin {"cpus", "run"}
    PROVE  Together'
BY DEF Together, Standing, NearBase, NearTarget, Overdrawn, Within, NotFarAhead

LEMMA TogetherStartPass == ASSUME Typed, Together, StartPass PROVE Together'
<1>1. /\ mode' = nextmode /\ stalled' = stalled \cup {c \in Cpu : nextmode[c] = "stall"}
      /\ todo' = Cpu /\ phase' = "cpus" /\ UNCHANGED <<basetime, localtime>>
    BY DEF StartPass, cpuVars
<1>2. QED
    BY <1>1 DEF Together, Standing, NearBase, NearTarget, Overdrawn, Within, NotFarAhead

LEMMA TogetherEndPass == ASSUME Typed, Together, EndPass PROVE Together'
<1>1. /\ phase = "cpus" /\ todo = {} /\ basetime' = target /\ phase' = "loop"
      /\ UNCHANGED <<mode, stalled, localtime>> /\ basetime <= target
    BY DEF EndPass, modeVars, cpuVars, Typed, Bounded
<1>2. NearBase'
    BY <1>1 DEF Together, NearTarget, NearBase
<1>3. NotFarAhead'
    <2> SUFFICES ASSUME NEW c \in Cpu
                 PROVE  localtime[c] - target <= Quantum + (MaxInstr - 1) * CyclePeriod[c]
        BY <1>1 DEF NotFarAhead
    <2> DEFINE m == (MaxInstr - 1) * CyclePeriod[c]
    <2>1. m \in Nat /\ localtime[c] - basetime <= Quantum + m
        BY Clocks DEF Together, NotFarAhead
    <2> HIDE DEF m
    <2>2. localtime[c] - target <= Quantum + m
        BY <1>1, <2>1, Clocks
    <2>3. QED
        BY <2>2 DEF m
<1>4. QED
    BY <1>1, <1>2, <1>3 DEF Together, Standing, NearTarget, Overdrawn, Within

\* Within a pass, a step that deals with device c and leaves a target no later.
LEMMA TogetherDealt ==
    ASSUME Typed, Together, phase \in {"cpus", "run"}, phase' = "cpus",
           UNCHANGED <<basetime, mode, stalled>>,
           NEW c \in Cpu, todo' = todo \ {c}, target' \in Nat, target' <= target,
           localtime' \in [Cpu -> Nat], localtime'[c] >= localtime[c],
           \A d \in Cpu \ {c} : localtime'[d] = localtime[d],
           c \notin stalled => target' - localtime'[c] < CyclePeriod[c],
           localtime'[c] - basetime <= Quantum + (MaxInstr - 1) * CyclePeriod[c]
    PROVE  Together'
<1>1. \A d \in Cpu : localtime'[d] \in Nat /\ localtime[d] \in Nat /\ localtime'[d] >= localtime[d]
    BY Clocks
<1>2. NearBase'
    <2> SUFFICES ASSUME NEW d \in Cpu \ stalled PROVE basetime - localtime'[d] < CyclePeriod[d]
        BY DEF NearBase
    <2>1. basetime - localtime[d] < CyclePeriod[d]
        BY DEF Together, NearBase
    <2>2. QED
        BY <1>1, <2>1, Clocks
<1>3. NearTarget'
    <2> SUFFICES ASSUME NEW d \in Cpu \ (stalled \cup todo')
                 PROVE  target' - localtime'[d] < CyclePeriod[d]
        BY DEF NearTarget
    <2>1. CASE d = c
        BY <2>1
    <2>2. CASE d # c
        <3>1. target - localtime[d] < CyclePeriod[d] /\ localtime'[d] = localtime[d]
            BY <2>2 DEF Together, NearTarget
        <3>2. QED
            BY <1>1, <3>1, Clocks
    <2>3. QED
        BY <2>1, <2>2
<1>4. NotFarAhead'
    BY DEF Together, NotFarAhead
<1>5. QED
    BY <1>2, <1>3, <1>4 DEF Together, Standing, Overdrawn, Within

LEMMA TogetherSkip ==
    ASSUME SecondIsLong, Typed, Together, NEW c \in Cpu, SkipCpu(c)
    PROVE  Together'
<1>1. /\ phase = "cpus" /\ phase' = phase /\ todo' = todo \ {c} /\ ~Behind(c)
      /\ UNCHANGED <<basetime, target, mode, stalled, localtime>>
    BY DEF SkipCpu, modeVars, cpuVars
<1>2. ASSUME c \notin stalled PROVE target - localtime[c] < CyclePeriod[c]
    <2>1. mode[c] # "stall"
        BY <1>2 DEF Together, Standing
    <2>2. CASE Considered(c)
        <3>1. target - localtime[c] < Second
            BY <1>1, <1>2, LessThanASecond DEF Together
        <3>2. Delta(c) = target - localtime[c] /\ ~(Delta(c) >= CyclePeriod[c])
            BY <1>1, <2>2, <3>1, DeltaIs DEF Behind
        <3>3. QED
            BY <3>2, Clocks
    <2>3. CASE ~Considered(c)
        <3>1. ~(target \div Second >= localtime[c] \div Second)
            BY <2>1, <2>3 DEF Considered
        <3>2. target < localtime[c]
            <4> DEFINE q == target \div Second
                       r == localtime[c] \div Second
            <4>1. /\ q \in Nat /\ target < q * Second + Second
                  /\ r \in Nat /\ r * Second <= localtime[c]
                <5>1. target \in Nat /\ localtime[c] \in Nat /\ Second \in Nat \ {0}
                    BY Clocks, Numbers
                <5>2. QED
                    BY <5>1, Quotient
            <4>2. q + 1 <= r
                BY <3>1, <4>1
            <4> HIDE DEF q, r
            <4>3. (q + 1) * Second <= r * Second /\ (q + 1) * Second = q * Second + 1 * Second
                  /\ 1 * Second = Second /\ q * Second \in Nat /\ r * Second \in Nat
                BY <4>1, <4>2, Monotone, Distribute, Numbers
            <4>4. QED
                BY <4>1, <4>3, Clocks, Numbers
        <3>3. QED
            BY <3>2, Clocks
    <2>4. QED
        BY <2>2, <2>3
<1>3. localtime[c] - basetime <= Quantum + (MaxInstr - 1) * CyclePeriod[c]
    BY DEF Together, NotFarAhead
<1>4. localtime \in [Cpu -> Nat] /\ target \in Nat /\ localtime[c] >= localtime[c] /\ target <= target
    BY Clocks DEF Typed, CycleTypes
<1>5. /\ target' \in Nat /\ target' <= target /\ localtime' \in [Cpu -> Nat]
      /\ localtime'[c] >= localtime[c] /\ \A d \in Cpu \ {c} : localtime'[d] = localtime[d]
      /\ c \notin stalled => target' - localtime'[c] < CyclePeriod[c]
      /\ localtime'[c] - basetime <= Quantum + (MaxInstr - 1) * CyclePeriod[c]
    BY <1>1, <1>2, <1>3, <1>4
<1>6. QED
    BY <1>1, <1>5, TogetherDealt

LEMMA TogetherEat ==
    ASSUME SecondIsLong, Typed, Together, NEW c \in Cpu, EatCpu(c)
    PROVE  Together'
<1> DEFINE n == CyclesToTarget(c)
           p == n * CyclePeriod[c]
           m == (MaxInstr - 1) * CyclePeriod[c]
<1>1. n \in Nat /\ Account(c, n) /\ Considered(c)
      /\ Delta(c) \in Nat /\ p <= Delta(c) /\ Delta(c) < p + CyclePeriod[c]
    BY CyclesType DEF EatCpu, Behind
<1>2. p \in Nat /\ m \in Nat
    <2>1. CyclePeriod[c] \in Nat
        BY Clocks
    <2>2. QED
        BY <1>1, <2>1, Product, Clocks
<1> HIDE DEF n
<1>3. /\ localtime' \in [Cpu -> Nat] /\ localtime'[c] = localtime[c] + p
      /\ \A d \in Cpu \ {c} : localtime'[d] = localtime[d]
      /\ target' \in Nat
      /\ target' = target \/ target' < target \/ target' = basetime
    BY <1>1, AccountTyped, Clocks DEF Typed
<1>4. /\ phase = "cpus" /\ phase' = "cpus" /\ todo' = todo \ {c}
      /\ UNCHANGED <<basetime, mode, stalled>>
    BY <1>1 DEF EatCpu, Account, modeVars
<1> HIDE DEF p, m
<1>5. Delta(c) <= target - localtime[c] /\ target <= basetime + Quantum
    BY <1>1, <1>4, DeltaIs DEF Typed, Bounded
<1>6. target' <= target /\ localtime'[c] >= localtime[c]
    <2>1. basetime <= target
        BY <1>4 DEF Typed, Bounded
    <2>2. QED
        BY <1>2, <1>3, <2>1, Clocks
<1>7. c \notin stalled => target' - localtime'[c] < CyclePeriod[c]
    <2> SUFFICES ASSUME c \notin stalled PROVE target' - localtime'[c] < CyclePeriod[c]
        OBVIOUS
    <2>1. Delta(c) = target - localtime[c]
        BY <1>1, <1>4, DeltaIs, LessThanASecond DEF Together
    <2>2. QED
        BY <1>1, <1>2, <1>3, <1>6, <2>1, Clocks
<1>8. localtime'[c] - basetime <= Quantum + (MaxInstr - 1) * CyclePeriod[c]
    <2>1. localtime'[c] - basetime <= Quantum + m
        BY <1>1, <1>2, <1>3, <1>5, Clocks
    <2>2. QED
        BY <2>1 DEF m
<1>9. QED
    BY <1>3, <1>4, <1>6, <1>7, <1>8, TogetherDealt

LEMMA TogetherRun == ASSUME Typed, Together, NEW c \in Cpu, RunCpu(c) PROVE Together'
<1> DEFINE n == CyclesToTarget(c)
           p == n * CyclePeriod[c]
<1>1. n \in Nat /\ p <= Delta(c) /\ Delta(c) \in Nat /\ Considered(c)
    BY CyclesType DEF RunCpu, Behind
<1>2. ran' = n /\ running' = n /\ icount' = n /\ stolen' = 0 /\ executing' = c
    BY DEF RunCpu
<1>3. /\ phase = "cpus" /\ phase' = "run" /\ midInstr' = Between
      /\ UNCHANGED <<basetime, target, todo, mode, stalled, localtime>>
    BY DEF RunCpu, modeVars, cpuVars, Typed, Phased
<1>4. p \in Nat
    BY <1>1, Product, Clocks
<1> HIDE DEF n
<1>5. Within'
    <2>1. p \in Nat /\ p <= Delta(c)
        BY <1>1, <1>4
    <2>2. Delta(c) <= target - localtime[c] /\ target <= basetime + Quantum
        BY <1>1, <1>3, DeltaIs DEF Typed, Bounded
    <2>3. localtime'[executing'] + ran' * CyclePeriod[executing'] = localtime[c] + p
        BY <1>2, <1>3
    <2> HIDE DEF p
    <2>4. localtime[c] + p <= basetime + Quantum
        BY <1>1, <2>1, <2>2, Clocks
    <2>5. QED
        BY <1>3, <2>3, <2>4 DEF Within
<1>6. Overdrawn'
    <2>1. running' - icount' = 0
        <3>1. \A r \in Nat : r - r = 0
            OBVIOUS
        <3>2. QED
            BY <1>1, <1>2, <3>1
    <2>2. Rest' = 0
        BY <1>3 DEF Rest
    <2>3. 0 + 0 <= ran' + MaxInstr - 1
        BY <1>1, <1>2, Numbers
    <2>4. running' - icount' + Rest' <= ran' + MaxInstr - 1
        BY <2>1, <2>2, <2>3
    <2>5. QED
        BY <1>2, <2>4 DEF Overdrawn
<1>7. QED
    BY <1>3, <1>5, <1>6 DEF Together, Standing, NearBase, NearTarget, NotFarAhead

\* Steps within a slice, which leave the clocks alone.
LEMMA TogetherWithin ==
    ASSUME Together, phase = "run", Overdrawn',
           UNCHANGED <<phase, basetime, target, todo, stalled, mode, localtime, executing, ran>>
    PROVE  Together'
BY DEF Together, Standing, NearBase, NearTarget, Within, NotFarAhead

LEMMA TogetherInstruction ==
    ASSUME Typed, Together, StartInstruction \/ FinishInstruction
    PROVE  Together'
<1>1. /\ UNCHANGED <<phase, basetime, target, todo, stalled, mode, localtime, executing, ran>>
      /\ UNCHANGED <<running, stolen>> /\ phase = "run"
    BY DEF StartInstruction, FinishInstruction, loopVars
<1>2. /\ running \in Nat /\ ran \in Nat /\ icount \in Int /\ stolen \in Int
      /\ MaxInstr \in Nat \ {0} /\ midInstr \in Between .. MaxInstr
      /\ running + stolen = ran
    BY <1>1, Numbers DEF Typed, LoopTypes, CycleTypes, SliceCounts
<1>3. /\ icount > 0 => stolen = 0
      /\ running - icount + Rest <= ran + MaxInstr - 1
    BY <1>1 DEF Together, Overdrawn
<1>4. CASE StartInstruction
    <2>1. PICK k \in 0 .. MaxInstr : icount' = icount - k /\ midInstr' = MaxInstr - k
        BY <1>4 DEF StartInstruction
    <2>2. icount > 0 /\ running = ran /\ stolen = 0
        BY <1>2, <1>3, <1>4 DEF StartInstruction
    <2>3. Rest' = MaxInstr - k
        BY <1>2, <2>1 DEF Rest, Between
    <2>4. running' - icount' + Rest' <= ran' + MaxInstr - 1
        BY <1>1, <1>2, <2>1, <2>2, <2>3
    <2>5. Overdrawn'
        BY <1>1, <2>2, <2>4 DEF Overdrawn
    <2>6. QED
        BY <1>1, <2>5, TogetherWithin
<1>5. CASE FinishInstruction
    <2>1. PICK k \in 0 .. midInstr : icount' = icount - k
        BY <1>5 DEF FinishInstruction
    <2>2. Rest = midInstr /\ Rest' = 0 /\ midInstr \in 0 .. MaxInstr
        BY <1>2, <1>5 DEF FinishInstruction, Rest, Between
    <2>3. running' - icount' + Rest' <= ran' + MaxInstr - 1
        BY <1>1, <1>2, <1>3, <2>1, <2>2
    <2>4. icount' > 0 => stolen' = 0
        BY <1>1, <1>2, <1>3, <2>1, <2>2
    <2>5. Overdrawn'
        BY <2>3, <2>4 DEF Overdrawn
    <2>6. QED
        BY <1>1, <2>5, TogetherWithin
<1>6. QED
    BY <1>4, <1>5

LEMMA TogetherCall == ASSUME Typed, Together, Call PROVE Together'
<1>1. /\ UNCHANGED <<phase, basetime, target, todo, stalled, mode, localtime, executing, ran, midInstr>>
      /\ phase \in {"run", "callback"} /\ CutsShort
      /\ executing # Nobody => running' - icount' = running - icount
    BY CallIs DEF loopVars, cpuVars, CanCall
<1>2. CASE phase = "callback"
    BY <1>1, <1>2, TogetherOutside
<1>3. CASE phase = "run"
    <2>1. running' - icount' = running - icount
        BY <1>1, <1>3 DEF Typed, Phased
    <2>2. icount' > 0 => stolen' = 0
        <3>1. CASE UNCHANGED <<icount, stolen, running>>
            BY <1>3, <3>1 DEF Together, Overdrawn
        <3>2. CASE StealCycles
            BY <3>2 DEF StealCycles
        <3>3. QED
            BY <1>1, <3>1, <3>2 DEF CutsShort, Abort
    <2>3. Rest' = Rest
        BY <1>1 DEF Rest
    <2>4. Overdrawn'
        BY <1>1, <1>3, <2>1, <2>2, <2>3 DEF Together, Overdrawn
    <2>5. QED
        BY <1>1, <1>3, <2>4, TogetherWithin
<1>4. QED
    BY <1>1, <1>2, <1>3

LEMMA TogetherStop == ASSUME Typed, Together, StopCpu PROVE Together'
<1>1. /\ phase = "run" /\ midInstr = Between /\ phase' = "cpus"
      /\ UNCHANGED <<basetime, mode, stalled>>
    BY DEF StopCpu, modeVars
<1>2. PICK c \in Cpu : c = executing
    BY <1>1, UsedType
<1>3. PICK n \in Nat : n = running - icount
    BY <1>1, UsedType
<1>4. Account(c, n)
    BY <1>1, <1>2, <1>3, UsedType DEF StopCpu
<1> DEFINE p == n * CyclePeriod[c]
           m == (MaxInstr - 1) * CyclePeriod[c]
           r == ran * CyclePeriod[c]
<1>5. p \in Nat /\ m \in Nat /\ r \in Nat /\ p <= r + m
    <2>1. ran \in Nat /\ MaxInstr - 1 \in Nat /\ CyclePeriod[c] \in Nat
        BY Clocks DEF Typed, CycleTypes
    <2>2. n <= ran + (MaxInstr - 1)
        <3>1. Rest = 0 /\ running - icount + Rest <= ran + MaxInstr - 1
            BY <1>1 DEF Rest, Together, Overdrawn
        <3>2. QED
            BY <1>3, <2>1, <3>1, Numbers
    <2>3. p <= (ran + (MaxInstr - 1)) * CyclePeriod[c] /\ p \in Nat
        BY <2>1, <2>2, Monotone
    <2>4. (ran + (MaxInstr - 1)) * CyclePeriod[c] = r + m /\ r \in Nat /\ m \in Nat
        BY <2>1, Distribute
    <2>5. QED
        BY <2>3, <2>4
<1>6. /\ localtime' \in [Cpu -> Nat] /\ localtime'[c] = localtime[c] + p
      /\ \A d \in Cpu \ {c} : localtime'[d] = localtime[d]
      /\ target' \in Nat /\ todo' = todo \ {c}
      /\ \/ target' = target /\ localtime'[c] >= target
         \/ target' = localtime'[c] /\ localtime'[c] < target
         \/ target' = basetime /\ localtime'[c] < target
    BY <1>4, AccountTyped DEF Typed, Account
<1>7. r + localtime[c] <= basetime + Quantum
    BY <1>1, <1>2, <1>5, Clocks DEF Together, Within
<1>8. basetime <= target
    BY <1>1 DEF Typed, Bounded
<1>9. c \notin stalled => basetime - localtime[c] < CyclePeriod[c]
    BY DEF Together, NearBase
<1>10. localtime'[c] - basetime <= Quantum + m
    <2> HIDE DEF p, m, r
    <2>1. QED
        BY <1>5, <1>6, <1>7, Clocks
<1>11. /\ target' <= target /\ localtime'[c] >= localtime[c]
       /\ c \notin stalled => target' - localtime'[c] < CyclePeriod[c]
    <2> HIDE DEF p, m, r
    <2>1. QED
        BY <1>5, <1>6, <1>8, <1>9, Clocks
<1>12. localtime'[c] - basetime <= Quantum + (MaxInstr - 1) * CyclePeriod[c]
    BY <1>10
<1> HIDE DEF p, m, r
<1>13. QED
    BY <1>1, <1>6, <1>11, <1>12, TogetherDealt

LEMMA TogetherStep ==
    ASSUME SecondIsLong
    PROVE  Typed /\ Together /\ [Next]_vars => Together'
<1> SUFFICES ASSUME Typed, Together, [Next]_vars PROVE Together'
    OBVIOUS
<1>1. CASE Begin \/ EndLoop \/ CallBack \/ CallbackDone \/ TimersDone
    BY <1>1, TogetherOutside DEF Begin, EndLoop, CallBack, CallbackDone, TimersDone,
                                 modeVars, cpuVars
<1>2. CASE UNCHANGED vars
    <2>1. UNCHANGED <<phase, basetime, target, todo, stalled, mode, localtime, executing, ran,
                      running, icount, stolen, midInstr>>
        BY <1>2 DEF vars, loopVars, cpuVars, cycleVars
    <2>2. QED
        BY <2>1 DEF Together, Standing, NearBase, NearTarget, Overdrawn, Within, NotFarAhead, Rest
<1>3. QED
    BY <1>1, <1>2, TogetherCall, TogetherStartPass, TogetherEndPass, TogetherSkip, TogetherEat,
       TogetherRun, TogetherInstruction, TogetherStop DEF Next, Timeslice

LEMMA AlwaysTogether == ASSUME SecondIsLong PROVE Spec => []Together
BY TogetherInit, TogetherStep, AlwaysTyped, PTL DEF Spec

\* The devices keep together: none is further ahead of the base time than a quantum
\* and the rest of an instruction, and none that has never stood still is a whole
\* cycle behind it, whatever cuts slices short and moves the target back.
THEOREM DevicesAreTogether ==
    ASSUME SecondIsLong
    PROVE  Spec => []DevicesKeepTogether
<1>1. Together => DevicesKeepTogether
    BY DEF Together, DevicesKeepTogether, CaughtUp, NearBase
<1>2. QED
    BY <1>1, AlwaysTogether, PTL

\* What timeslice asserts of delta holds of every device that has never stood still:
\* the sub-second parts tell how far it is behind, across a second's roll-over too.
THEOREM DeltaIsRight ==
    ASSUME SecondIsLong
    PROVE  Spec => []DeltaOfRunners
<1>1. Typed /\ Together => DeltaOfRunners
    <2> SUFFICES ASSUME Typed, Together, phase = "cpus", NEW c \in todo \ stalled, Considered(c)
                 PROVE  Delta(c) = target - localtime[c]
        BY DEF DeltaOfRunners
    <2>1. c \in Cpu
        BY DEF Typed, LoopTypes
    <2>2. QED
        BY <2>1, LessThanASecond, DeltaIs DEF Together
<1>2. QED
    BY <1>1, AlwaysTyped, AlwaysTogether, PTL

-----------------------------------------------------------------------------
(* Timers are called back in time.                                         *)

FewDevices == IsFiniteSet(Cpu) /\ Cpu # {}

LEMMA Longest ==
    ASSUME FewDevices
    PROVE  LongestInstr \in Nat /\ \A c \in Cpu : MaxInstr * CyclePeriod[c] <= LongestInstr
<1> DEFINE S == {MaxInstr * CyclePeriod[c] : c \in Cpu}
<1>1. PICK n \in Nat : \E f : f \in Surjection(1 .. n, Cpu)
    BY FS_NatSurjection DEF FewDevices, ExistsSurjection
<1>2. PICK f : f \in Surjection(1 .. n, Cpu)
    BY <1>1
<1>3. f \in [1 .. n -> Cpu] /\ \A c \in Cpu : \E i \in 1 .. n : f[i] = c
    BY <1>2 DEF Surjection
<1>4. \A c \in Cpu : MaxInstr * CyclePeriod[c] \in Nat
    BY Numbers, Product
<1> DEFINE g == [i \in 1 .. n |-> MaxInstr * CyclePeriod[f[i]]]
<1>5. \A i \in 1 .. n : g[i] = MaxInstr * CyclePeriod[f[i]]
    OBVIOUS
<1>6. \A i \in 1 .. n : g[i] \in Nat
    BY <1>3, <1>4, <1>5
<1> HIDE DEF g
<1>7. PICK m \in Nat : \A i \in 1 .. n : g[i] <= m
    BY <1>6, Bounds
<1>8. \A c \in Cpu : MaxInstr * CyclePeriod[c] <= m
    BY <1>3, <1>5, <1>7
<1>9. S \in SUBSET Nat /\ S # {} /\ \A s \in S : s <= m
    BY <1>4, <1>8 DEF FewDevices
<1>10. \A c \in Cpu : MaxInstr * CyclePeriod[c] \in S
    OBVIOUS
<1>11. LongestInstr = Max(S)
    BY DEF LongestInstr
<1> HIDE DEF S
<1>12. Max(S) \in S /\ \A s \in S : s <= Max(S)
    BY <1>9, MaxIs
<1>13. QED
    BY <1>9, <1>10, <1>11, <1>12

\* A timer does not come too late if the target is where it is owed, or if the slice
\* under way has no cycles left and its last instruction ends there.
Near(t) == target <= owed[t] + LongestInstr
Ends(t) ==
    /\ icount <= 0
    /\ localtime[executing] + (running - icount + Rest) * CyclePeriod[executing]
          <= owed[t] + LongestInstr

Owing ==
    /\ \A t \in Elements(active) : expire[t] <= owed[t] /\ basetime <= owed[t] + LongestInstr
    /\ phase = "cpus" => \A t \in Elements(active) : Near(t)
    /\ phase = "run" => \A t \in Elements(active) : Near(t) \/ Ends(t)
    /\ phase = "callback" => basetime <= owed[cbTimer] + LongestInstr
    /\ phase \in {"cpus", "run", "loop", "idle"} => cbTimer = NoTimer

LEMMA OwingInit == Init => Owing
BY DEF Init, Owing, Elements

\* Steps that neither move a target nor change what is owed.
LEMMA OwingQuiet ==
    ASSUME Owing, UNCHANGED <<phase, basetime, target, active, expire, owed, cbTimer>>,
           phase # "run"
    PROVE  Owing'
BY DEF Owing, Near, Elements

LEMMA OwingAccount ==
    ASSUME FewDevices, Typed, Owing, NEW c \in Cpu, NEW n \in Nat, Account(c, n),
           phase \in {"cpus", "run"}, phase' = "cpus",
           UNCHANGED <<basetime, active, expire, owed, cbTimer>>,
           phase = "run" =>
              \A t \in Elements(active) :
                 Near(t) \/ localtime[c] + n * CyclePeriod[c] <= owed[t] + LongestInstr
    PROVE  Owing'
<1> DEFINE L == LongestInstr
<1>1. L \in Nat /\ \A t \in Elements(active) : owed[t] \in Nat
    BY Longest, ElementsOf DEF Typed, TimerTypes
<1>2. /\ localtime'[c] = localtime[c] + n * CyclePeriod[c]
      /\ target' \in Nat
      /\ \/ target' = target /\ localtime'[c] >= target
         \/ target' = localtime'[c] /\ localtime'[c] < target
         \/ target' = basetime /\ localtime'[c] < target
      /\ basetime <= target /\ localtime' \in [Cpu -> Nat]
    BY AccountTyped DEF Typed, Bounded
<1>3. localtime'[c] \in Nat /\ target \in Nat /\ basetime \in Nat
    BY <1>2, Clocks
<1>4. \A t \in Elements(active) : /\ basetime <= owed[t] + L
                                  /\ target <= owed[t] + L \/ localtime'[c] <= owed[t] + L
    BY <1>2 DEF Owing, Near
<1>5. \A t \in Elements(active) : target' <= owed[t] + L
    BY <1>1, <1>2, <1>3, <1>4
<1>6. QED
    BY <1>4, <1>5 DEF Owing, Near

LEMMA OwingStop == ASSUME FewDevices, Typed, Owing, StopCpu PROVE Owing'
<1>1. /\ phase = "run" /\ phase' = "cpus" /\ midInstr = Between
      /\ UNCHANGED <<basetime, active, expire, owed, cbTimer>>
    BY DEF StopCpu, listVars, timerVars, cbVars
<1>2. PICK c \in Cpu : c = executing
    BY <1>1, UsedType
<1>3. PICK n \in Nat : n = running - icount
    BY <1>1, UsedType
<1>4. Account(c, n)
    BY <1>1, <1>2, <1>3, UsedType DEF StopCpu
<1>5. running - icount + Rest = n
    BY <1>1, <1>3 DEF Rest
<1>6. \A t \in Elements(active) :
         Near(t) \/ localtime[c] + n * CyclePeriod[c] <= owed[t] + LongestInstr
    BY <1>1, <1>2, <1>5 DEF Owing, Ends
<1>7. QED
    BY <1>1, <1>4, <1>6, OwingAccount

LEMMA OwingInstruction ==
    ASSUME FewDevices, Typed, Owing, StartInstruction \/ FinishInstruction
    PROVE  Owing'
<1>1. /\ UNCHANGED <<phase, basetime, target, executing, localtime, running>>
      /\ UNCHANGED <<active, expire, owed, cbTimer>> /\ phase = "run"
    BY DEF StartInstruction, FinishInstruction, loopVars, listVars, timerVars, cbVars
<1>2. /\ running \in Nat /\ icount \in Int /\ running - icount \in Nat
      /\ MaxInstr \in Nat \ {0} /\ midInstr \in Between .. MaxInstr /\ executing \in Cpu
    BY <1>1, UsedType, Numbers DEF Typed, LoopTypes, CycleTypes
<1>3. ASSUME NEW t \in Elements(active), Ends(t) PROVE Ends(t)'
    <2> DEFINE p == CyclePeriod[executing]
    <2>1. FinishInstruction /\ midInstr \in 0 .. MaxInstr
        BY <1>2, <1>3 DEF Ends, StartInstruction, FinishInstruction, Between
    <2>2. PICK k \in 0 .. midInstr : icount' = icount - k
        BY <2>1 DEF FinishInstruction
    <2>3. Rest = midInstr /\ Rest' = 0
        BY <2>1 DEF FinishInstruction, Rest, Between
    <2>4. p \in Nat /\ localtime[executing] \in Nat /\ owed[t] \in Nat /\ LongestInstr \in Nat
        BY <1>2, Clocks, Longest, ElementsOf DEF Typed, TimerTypes
    <2>5. PICK used \in Nat : used = running - icount
        BY <1>2
    <2>6. running' - icount' + Rest' = used + k /\ running - icount + Rest = used + midInstr
        BY <1>1, <1>2, <2>1, <2>2, <2>3, <2>5
    <2> HIDE DEF p
    <2>7. /\ (used + k) * p <= (used + midInstr) * p
          /\ (used + k) * p \in Nat /\ (used + midInstr) * p \in Nat
        <3>1. used + k \in Nat /\ used + midInstr \in Nat /\ used + k <= used + midInstr
            BY <2>1
        <3>2. QED
            BY <2>4, <3>1, Monotone
    <2>8. localtime[executing] + (used + midInstr) * p <= owed[t] + LongestInstr
        BY <1>3, <2>6 DEF Ends, p
    <2>9. localtime[executing] + (used + k) * p <= owed[t] + LongestInstr
        BY <2>4, <2>7, <2>8
    <2>10. icount' <= 0
        BY <1>2, <1>3, <2>2 DEF Ends
    <2>11. QED
        BY <1>1, <2>6, <2>9, <2>10 DEF Ends, p
<1>4. ASSUME NEW t \in Elements(active), Near(t) PROVE Near(t)'
    BY <1>1, <1>4 DEF Near
<1>5. Elements(active)' = Elements(active)
    BY <1>1
<1>6. QED
    BY <1>1, <1>3, <1>4, <1>5 DEF Owing

LEMMA OwingStartPass == ASSUME FewDevices, Typed, Listed, Owing, StartPass PROVE Owing'
<1>1. /\ phase = "loop" /\ phase' = "cpus" /\ target' = Lesser(basetime + Quantum, HeadExpire)
      /\ UNCHANGED <<basetime, active, expire, owed, cbTimer>>
    BY DEF StartPass, listVars, timerVars, cbVars
<1>2. ASSUME NEW t \in Elements(active) PROVE target' <= owed[t] + LongestInstr
    <2>1. active \in Seq(Timer) /\ \A u \in Timer : expire[u] \in Nat
        BY DEF Typed, TimerTypes
    <2>2. t \in Timer /\ active # <<>>
        BY <2>1, ElementsOf DEF Elements
    <2>3. IsTimerList(active, expire)
        BY DEF Listed, InLists
    <2>4. HeadExpire <= expire[t]
        BY <2>1, <2>2, <2>3, HeadIsFirst DEF HeadExpire
    <2>5. /\ owed[t] \in Nat /\ expire[t] \in Nat /\ HeadExpire \in Nat /\ LongestInstr \in Nat
          /\ basetime + Quantum \in Nat /\ expire[t] <= owed[t]
        <3>1. owed[t] \in Nat /\ expire[t] \in Nat
            BY <2>2 DEF Typed, TimerTypes
        <3>2. HeadExpire \in Nat /\ LongestInstr \in Nat
            BY Longest, HeadType
        <3>3. basetime + Quantum \in Nat
            BY Clocks
        <3>4. expire[t] <= owed[t]
            BY DEF Owing
        <3>5. QED
            BY <3>1, <3>2, <3>3, <3>4
    <2>6. target' <= HeadExpire /\ target' \in Nat
        BY <1>1, <2>5 DEF Lesser
    <2>7. QED
        BY <2>4, <2>5, <2>6
<1>3. QED
    BY <1>1, <1>2 DEF Owing, Near

LEMMA OwingEndPass == ASSUME Owing, EndPass PROVE Owing'
BY DEF Owing, Near, EndPass, listVars, timerVars, cbVars

LEMMA OwingRun == ASSUME Owing, NEW c \in Cpu, RunCpu(c) PROVE Owing'
BY DEF Owing, Near, RunCpu, listVars, timerVars, cbVars

LEMMA OwingEat == ASSUME FewDevices, Typed, Owing, NEW c \in Cpu, EatCpu(c) PROVE Owing'
<1>1. PICK n \in Nat : Account(c, n)
    BY CyclesType DEF EatCpu
<1>2. /\ phase = "cpus" /\ phase' = "cpus" /\ UNCHANGED <<basetime, active, expire, owed, cbTimer>>
    BY DEF EatCpu, listVars, timerVars, cbVars
<1>3. QED
    BY <1>1, <1>2, OwingAccount

LEMMA RestType == ASSUME Typed PROVE Rest \in Nat /\ Rest <= MaxInstr
BY Numbers DEF Typed, LoopTypes, Rest, Between

\* A timer is set, by a callback or by an instruction: what it is owed is no sooner
\* than where the slice under way ends, or the timer in front of it vouches for it.
LEMMA OwingSet ==
    ASSUME FewDevices, Typed, Typed', Owing, NEW t \in Timer, NEW when \in Nat, Owe(t, when),
           phase' \in {"run", "callback", "timers"}, phase' # "timers" => phase' = phase,
           UNCHANGED <<basetime, target, executing, localtime, midInstr, cbTimer>>,
           phase = "run" => running' - icount' = running - icount,
           icount' = icount \/ icount' = 0,
           Elements(active') \subseteq Elements(active) \cup {t},
           \A u \in Timer \ {t} : expire'[u] = expire[u],
           t \in Elements(active') => expire'[t] <= when,
           phase = "run" /\ t \in Elements(active')
              => \/ when >= target \/ Head(active') # t
                 \/ icount' = 0 /\ when >= localtime[executing]
                                        + (running - icount) * CyclePeriod[executing]
    PROVE  Owing'
<1> DEFINE L == LongestInstr
<1>1. /\ L \in Nat /\ basetime \in Nat /\ target \in Nat
      /\ \A u \in Timer : owed[u] \in Nat
      /\ active' \in Seq(Timer)
    BY Longest, Clocks DEF Typed, TimerTypes
<1>2. /\ \A u \in Timer \ {t} : owed'[u] = owed[u]
      /\ owed'[t] \in Nat /\ owed'[t] >= when /\ owed'[t] >= basetime
      /\ \A u \in InFront(active', t) : owed'[t] >= owed[u] /\ u \in Timer
    <2>1. owed' \in [Timer -> Nat]
        BY DEF Typed, TimerTypes
    <2>2. QED
        BY <1>1, <2>1, OweIs DEF Typed, TimerTypes
<1>3. Elements(active) \subseteq Timer /\ Elements(active') \subseteq Timer
    BY <1>1, ElementsOf DEF Typed, TimerTypes
<1>4. \A u \in Timer : owed'[u] \in Nat
    BY <1>1, <1>2
<1>5. \A u \in Elements(active') : expire'[u] <= owed'[u] /\ basetime <= owed'[u] + L
    <2> SUFFICES ASSUME NEW u \in Elements(active')
                 PROVE  expire'[u] <= owed'[u] /\ basetime <= owed'[u] + L
        OBVIOUS
    <2>1. CASE u = t
        <3>1. expire'[t] \in Nat /\ expire'[t] <= when
            BY <2>1 DEF Typed, TimerTypes
        <3>2. QED
            BY <1>1, <1>2, <2>1, <3>1
    <2>2. CASE u # t
        BY <1>2, <1>3, <2>2 DEF Owing
    <2>3. QED
        BY <2>1, <2>2
<1>6. ASSUME phase' = "callback" PROVE basetime <= owed'[cbTimer] + L
    <2>1. cbTimer \in Timer /\ basetime <= owed[cbTimer] + L
        BY <1>6 DEF Typed, Phased, Owing
    <2>2. CASE cbTimer = t
        BY <1>1, <1>2, <2>2
    <2>3. CASE cbTimer # t
        BY <1>2, <2>1, <2>3
    <2>4. QED
        BY <2>2, <2>3
<1>7. ASSUME phase' = "run", NEW u \in Elements(active') PROVE Near(u)' \/ Ends(u)'
    <2>1. phase = "run" /\ executing \in Cpu /\ running' - icount' = running - icount
        BY <1>7, UsedType
    <2>2. Rest' = Rest /\ (icount <= 0 => icount' <= 0)
        <3>1. icount \in Int
            BY DEF Typed, CycleTypes
        <3>2. QED
            BY <3>1 DEF Rest
    <2>3. ASSUME NEW v \in Elements(active), Near(v) \/ Ends(v),
                 NEW w \in Timer, owed'[w] >= owed[v]
          PROVE  Near(w)' \/ Ends(w)'
        <3>1. owed[v] \in Nat /\ owed'[w] \in Nat
            BY <1>1, <1>3, <1>4
        <3>2. CASE Near(v)
            <4>1. target <= owed[v] + L
                BY <3>2 DEF Near
            <4>2. target <= owed'[w] + L
                BY <1>1, <2>3, <3>1, <4>1
            <4>3. QED
                BY <4>2 DEF Near
        <3>3. CASE Ends(v)
            <4> DEFINE end == localtime[executing] + (running - icount + Rest) * CyclePeriod[executing]
            <4>1. end <= owed[v] + L /\ end \in Int
                <5>1. /\ running - icount \in Nat /\ Rest \in Nat /\ CyclePeriod[executing] \in Nat
                      /\ localtime[executing] \in Nat
                    BY <2>1, UsedType, Clocks, RestType
                <5>2. (running - icount + Rest) * CyclePeriod[executing] \in Nat
                    <6>1. running - icount + Rest \in Nat
                        BY <5>1
                    <6>2. QED
                        BY <5>1, <6>1, Product
                <5>3. end \in Int
                    BY <5>1, <5>2
                <5>4. QED
                    BY <3>3, <5>3 DEF Ends
            <4>2. end' = end
                BY <2>1, <2>2
            <4> HIDE DEF end
            <4>3. end <= owed'[w] + L
                BY <1>1, <2>3, <3>1, <4>1
            <4>4. icount' <= 0
                BY <2>2, <3>3 DEF Ends
            <4>5. QED
                BY <4>2, <4>3, <4>4 DEF Ends, end
        <3>4. QED
            BY <2>3, <3>2, <3>3
    <2>4. \A v \in Elements(active) : Near(v) \/ Ends(v)
        BY <2>1 DEF Owing
    <2>5. CASE u # t
        <3>1. u \in Elements(active) /\ u \in Timer /\ owed'[u] >= owed[u]
            BY <1>1, <1>2, <1>3, <2>5
        <3>2. QED
            BY <2>3, <2>4, <3>1
    <2>6. CASE u = t /\ Head(active') # t
        <3>1. PICK k \in 1 .. Len(active') : active'[k] = t
            BY <1>1, <2>6, ElementsOf
        <3>2. /\ active'[1] = Head(active') /\ 1 \in 1 .. Len(active') /\ 1 < k
              /\ DOMAIN active' = 1 .. Len(active')
            BY <1>1, <2>6, <3>1
        <3>3. Head(active') \in Elements(active')
            BY <3>2 DEF Elements
        <3>4. Head(active') \in InFront(active', t)
            BY <3>1, <3>2, <3>3 DEF InFront
        <3>5. Head(active') \in Elements(active) /\ owed'[t] >= owed[Head(active')]
            BY <1>2, <2>6, <3>3, <3>4
        <3>6. QED
            BY <2>3, <2>4, <2>6, <3>5
    <2>7. CASE u = t /\ when >= target
        <3>1. target <= owed'[t] + L
            BY <1>1, <1>2, <2>7
        <3>2. QED
            BY <2>7, <3>1 DEF Near
    <2>8. CASE /\ u = t /\ icount' = 0
               /\ when >= localtime[executing] + (running - icount) * CyclePeriod[executing]
        <3> DEFINE p == CyclePeriod[executing]
        <3>1. /\ p \in Nat /\ localtime[executing] \in Nat /\ Rest \in Nat /\ Rest <= MaxInstr
              /\ MaxInstr \in Nat /\ MaxInstr * p <= L
            BY <2>1, Longest, Clocks, RestType
        <3>2. PICK used \in Nat : used = running - icount
            BY <2>1, UsedType
        <3> HIDE DEF p
        <3>3. /\ (used + Rest) * p = used * p + Rest * p /\ Rest * p <= MaxInstr * p
              /\ used * p \in Nat /\ Rest * p \in Nat /\ MaxInstr * p \in Nat
            BY <3>1, Distribute, Monotone
        <3>4. when >= localtime[executing] + used * p
            BY <2>8, <3>2 DEF p
        <3>5. localtime[executing] + (used + Rest) * p <= owed'[t] + L
            <4> DEFINE a == used * p
                       b == Rest * p
                       e == MaxInstr * p
            <4>1. /\ a \in Nat /\ b \in Nat /\ e \in Nat /\ b <= e /\ e <= L
                  /\ (used + Rest) * p = a + b /\ when >= localtime[executing] + a
                BY <3>1, <3>3, <3>4
            <4>2. owed'[t] >= when /\ owed'[t] \in Nat /\ L \in Nat /\ localtime[executing] \in Nat
                BY <1>1, <1>2, <3>1
            <4> HIDE DEF a, b, e, L
            <4>3. localtime[executing] + (a + b) <= owed'[t] + L
                BY <4>1, <4>2
            <4>4. QED
                BY <4>1, <4>3
        <3>6. localtime'[executing'] + (running' - icount' + Rest') * CyclePeriod[executing']
                 <= owed'[t] + L
            BY <2>1, <2>2, <3>2, <3>5 DEF p
        <3>7. QED
            BY <2>8, <3>6 DEF Ends
    <2>9. QED
        BY <2>1, <2>5, <2>6, <2>7, <2>8
<1>8. phase' \in {"cpus", "run", "loop", "idle"} => cbTimer' = NoTimer
    BY DEF Owing
<1>9. QED
    BY <1>5, <1>6, <1>7, <1>8 DEF Owing

\* What a step that sets timer t and may cut the slice short has in common with others.
LEMMA CallFrame ==
    ASSUME Typed, Owing, Call
    PROVE  /\ phase \in {"run", "callback"}
           /\ UNCHANGED <<phase, basetime, target, executing, localtime, midInstr>>
           /\ phase = "run" => running' - icount' = running - icount
           /\ icount' = icount \/ icount' = 0
           /\ phase = "run" => Time = LocalTime
<1>1. /\ phase \in {"run", "callback"}
      /\ UNCHANGED <<phase, basetime, target, executing, localtime, midInstr>>
      /\ CutsShort
      /\ executing # Nobody => running' - icount' = running - icount
    BY CallIs DEF CanCall, loopVars, cpuVars
<1>2. phase = "run" => executing # Nobody /\ cbTimer = NoTimer
    BY DEF Typed, Phased, Owing
<1>3. icount' = icount \/ icount' = 0
    BY <1>1 DEF CutsShort, Abort, StealCycles
<1>4. QED
    BY <1>1, <1>2, <1>3 DEF Time

LEMMA OwingAdjust ==
    ASSUME FewDevices, Typed, Typed', Listed, Listed', Owing, Call,
           NEW t \in Permanent, NEW delay \in Delays, NEW per \in Periods, Adjust(t, delay, per)
    PROVE  Owing'
<1>1. t \in Timer /\ delay \in Nat /\ Time \in Nat
    BY TimerAssumption, TimeType DEF Timer
<1>2. PICK when \in Nat : when = Plus(Time, delay) /\ (when >= Time \/ when = Never)
    BY <1>1, PlusType
<1>3. expire' = [expire EXCEPT ![t] = when] /\ Reinsert(t, expire', enabled')
      /\ Owe(t, expire'[t]) /\ AbortIfHead(t) /\ cbTimer' = cbTimer
    BY <1>2 DEF Adjust
<1>4. /\ expire'[t] = when /\ \A u \in Timer : expire'[u] \in Nat
      /\ \A u \in Timer \ {t} : expire'[u] = expire[u]
    BY <1>1, <1>3 DEF Typed, TimerTypes
<1>5. Owe(t, when)
    BY <1>3, <1>4
<1>6. Elements(active') \subseteq Elements(active) \cup {t}
    BY <1>3, <1>4, StillListed DEF Listed, Typed, TimerTypes
<1>7. t \in Elements(active') => when # Never
    BY <1>4 DEF Listed, InLists
<1>8. ASSUME phase = "run", t \in Elements(active')
      PROVE  \/ Head(active') # t
             \/ icount' = 0 /\ when >= localtime[executing]
                                    + (running - icount) * CyclePeriod[executing]
    <2>1. CASE Head(active') = t
        <3>1. active' # <<>>
            BY <1>8 DEF Elements
        <3>2. icount' = 0
            BY <1>3, <1>8, <2>1, <3>1 DEF AbortIfHead, Abort, StealCycles, Typed, Phased
        <3>3. when >= LocalTime
            BY <1>2, <1>7, <1>8, CallFrame
        <3>4. QED
            BY <3>2, <3>3 DEF LocalTime
    <2>2. QED
        BY <2>1
<1>9. QED
    BY <1>1, <1>3, <1>4, <1>5, <1>6, <1>8, CallFrame, OwingSet

LEMMA OwingEnable ==
    ASSUME FewDevices, Typed, Typed', Listed, Owing, Call,
           NEW t \in Permanent, NEW on \in BOOLEAN, Enable(t, on)
    PROVE  Owing'
<1>1. t \in Timer /\ expire[t] \in Nat
    BY DEF Timer, Typed, TimerTypes
<1>2. PICK when \in Nat : /\ Owe(t, when) /\ when >= expire[t]
                          /\ executing # Nobody => when >= target
    <2> DEFINE w == IF executing = Nobody THEN expire[t] ELSE Greater(expire[t], target)
    <2>1. Owe(t, w)
        BY DEF Enable
    <2>2. w \in Nat /\ w >= expire[t] /\ (executing # Nobody => w >= target)
        BY <1>1, Clocks DEF Greater
    <2> HIDE DEF w
    <2>3. QED
        BY <2>1, <2>2
<1>3. Reinsert(t, expire, enabled') /\ expire' = expire /\ cbTimer' = cbTimer
    BY DEF Enable, cbVars
<1>4. Elements(active') \subseteq Elements(active) \cup {t}
    BY <1>3, StillListed DEF Listed, Typed, TimerTypes
<1>5. phase = "run" => when >= target
    BY <1>2 DEF Typed, Phased
<1>6. t \in Elements(active') => expire'[t] <= when
    BY <1>1, <1>2, <1>3
<1>7. QED
    BY <1>1, <1>2, <1>3, <1>4, <1>5, <1>6, CallFrame, OwingSet

LEMMA OwingSetTimer ==
    ASSUME FewDevices, Typed, Typed', Listed, Listed', Owing, Call,
           NEW t \in Temporary, NEW delay \in Delays, SetTimer(t, delay)
    PROVE  Owing'
<1>1. t \in Timer /\ delay \in Nat /\ Time \in Nat
    BY TimerAssumption, TimeType DEF Timer
<1>2. PICK when \in Nat : when = Plus(Time, delay) /\ when >= Time
    <2>1. Plus(Time, delay) # Never
        BY DEF SetTimer
    <2>2. QED
        BY <1>1, <2>1, PlusType
<1>3. expire' = [expire EXCEPT ![t] = when] /\ active' = ListInsert(active, expire', t)
      /\ Owe(t, expire'[t]) /\ AbortIfHead(t) /\ cbTimer' = cbTimer
    BY <1>2 DEF SetTimer, cbVars
<1>4. /\ expire'[t] = when /\ \A u \in Timer : expire'[u] \in Nat
      /\ \A u \in Timer \ {t} : expire'[u] = expire[u]
    BY <1>1, <1>3 DEF Typed, TimerTypes
<1>5. Owe(t, when)
    BY <1>3, <1>4
<1>6. Elements(active') \subseteq Elements(active) \cup {t}
    <2>1. PICK exp : exp = expire'
        OBVIOUS
    <2>2. PICK v : v = ListInsert(active, exp, t)
        OBVIOUS
    <2>3. \A u \in Timer : exp[u] \in Nat
        BY <1>4, <2>1
    <2>4. Elements(v) = Elements(active) \cup {t}
        <3>1. active \in Seq(Timer)
            BY DEF Typed, TimerTypes
        <3>2. QED
            BY <1>1, <2>2, <2>3, <3>1, InsertIs
    <2>5. active' = v
        BY <1>3, <2>1, <2>2
    <2>6. QED
        BY <2>4, <2>5
<1>7. ASSUME phase = "run", t \in Elements(active')
      PROVE  \/ Head(active') # t
             \/ icount' = 0 /\ when >= localtime[executing]
                                    + (running - icount) * CyclePeriod[executing]
    <2>1. CASE Head(active') = t
        <3>1. active' # <<>>
            BY <1>7 DEF Elements
        <3>2. icount' = 0
            BY <1>3, <1>7, <2>1, <3>1 DEF AbortIfHead, Abort, StealCycles, Typed, Phased
        <3>3. when >= LocalTime
            BY <1>2, <1>7, CallFrame
        <3>4. QED
            BY <3>2, <3>3 DEF LocalTime
    <2>2. QED
        BY <2>1
<1>8. expire'[t] <= when
    BY <1>4
<1>9. QED
    BY <1>1, <1>3, <1>4, <1>5, <1>6, <1>7, <1>8, CallFrame, OwingSet

LEMMA OwingSuspend ==
    ASSUME Typed, Owing, Call, NEW c \in Cpu, NEW how \in Modes, SuspendResume(c, how)
    PROVE  Owing'
<1>1. /\ UNCHANGED <<phase, basetime, target, executing, localtime, midInstr>>
      /\ UNCHANGED <<active, expire, owed, cbTimer>>
      /\ phase \in {"run", "callback"}
      /\ phase = "run" => running' - icount' = running - icount
      /\ icount' = icount \/ icount' = 0
    BY CallFrame DEF SuspendResume, listVars, timerVars, cbVars
<1>2. icount <= 0 => icount' <= 0
    BY <1>1
<1>3. \A t \in Elements(active) :
        phase = "run" /\ (Near(t) \/ Ends(t)) => Near(t)' \/ Ends(t)'
    BY <1>1, <1>2 DEF Near, Ends, Rest
<1>4. Elements(active)' = Elements(active)
    BY <1>1
<1>5. QED
    BY <1>1, <1>3, <1>4 DEF Owing

LEMMA OwingCallBack == ASSUME Typed, Owing, CallBack PROVE Owing'
<1>1. /\ phase' = "callback" /\ cbTimer' = Head(active) /\ UNCHANGED <<basetime, active, expire, owed>>
      /\ active # <<>> /\ active \in Seq(Timer)
    BY HeadType DEF CallBack, listVars, Typed, TimerTypes
<1>2. Head(active) \in Elements(active)
    <2>1. Head(active) = active[1] /\ 1 \in DOMAIN active
        BY <1>1
    <2>2. QED
        BY <2>1 DEF Elements
<1>3. QED
    BY <1>1, <1>2 DEF Owing

LEMMA OwingCallbackDone ==
    ASSUME FewDevices, Typed, Typed', Listed, Owing, CallbackDone PROVE Owing'
<1>1. /\ phase = "callback" /\ phase' = "timers" /\ cbTimer \in Timer
      /\ UNCHANGED <<basetime, target, executing, localtime, midInstr, running, icount, cbTimer>>
    BY DEF CallbackDone, cpuVars, cycleVars, cbVars, Typed, Phased
<1>2. CASE UNCHANGED <<expire, owed, active>>
    BY <1>1, <1>2 DEF Owing
<1>3. CASE active' = ListRemove(active, cbTimer) /\ UNCHANGED <<expire, owed>>
    <2>1. Elements(active') \subseteq Elements(active)
        BY <1>3, RemoveIs DEF Typed, TimerTypes
    <2>2. QED
        BY <1>1, <1>3, <2>1 DEF Owing
<1>4. CASE /\ cbTimer \in Permanent
           /\ expire' = [expire EXCEPT ![cbTimer] = Plus(@, period[cbTimer])]
           /\ Reinsert(cbTimer, expire', enabled) /\ Owe(cbTimer, expire'[cbTimer])
    <2>1. PICK t \in Permanent : t = cbTimer
        BY <1>4
    <2>2. PICK when \in Nat : when = Plus(expire[t], period[t])
        BY <1>1, <2>1, PlusType DEF Typed, TimerTypes
    <2>3. expire' = [expire EXCEPT ![t] = when] /\ Reinsert(t, expire', enabled)
          /\ Owe(t, expire'[t])
        BY <1>4, <2>1, <2>2
    <2>4. /\ expire'[t] = when /\ \A u \in Timer : expire'[u] \in Nat
          /\ \A u \in Timer \ {t} : expire'[u] = expire[u]
        BY <1>1, <2>1, <2>3 DEF Typed, TimerTypes
    <2>5. Owe(t, when) /\ t \in Timer
        BY <2>3, <2>4 DEF Timer
    <2>6. Elements(active') \subseteq Elements(active) \cup {t}
        BY <2>3, <2>4, StillListed DEF Listed, Typed, TimerTypes
    <2>7. t \in Elements(active') => expire'[t] <= when
        BY <2>4
    <2>8. QED
        BY <1>1, <2>4, <2>5, <2>6, <2>7, OwingSet
<1>5. QED
    BY <1>2, <1>3, <1>4 DEF CallbackDone, listVars

LEMMA OwingBetween ==
    ASSUME Owing, Begin \/ EndLoop \/ TimersDone \/ \E c \in Cpu : SkipCpu(c)
    PROVE  Owing'
<1>1. CASE Begin \/ EndLoop
    BY <1>1 DEF Owing, Begin, EndLoop, listVars, timerVars, cbVars
<1>2. CASE TimersDone
    BY <1>2 DEF Owing, TimersDone, listVars, timerVars
<1>3. CASE \E c \in Cpu : SkipCpu(c)
    <2>1. phase # "run" /\ UNCHANGED <<phase, basetime, target, active, expire, owed, cbTimer>>
        BY <1>3 DEF SkipCpu, listVars, timerVars, cbVars
    <2>2. QED
        BY <2>1, OwingQuiet
<1>4. QED
    BY <1>1, <1>2, <1>3

LEMMA OwingStep ==
    ASSUME FewDevices
    PROVE  Typed /\ Typed' /\ Listed /\ Listed' /\ Owing /\ [Next]_vars => Owing'
<1> SUFFICES ASSUME Typed, Typed', Listed, Listed', Owing, [Next]_vars PROVE Owing'
    OBVIOUS
<1>1. CASE Call
    <2> USE <1>1
    <2>1. CASE \E t \in Permanent, delay \in Delays, per \in Periods : Adjust(t, delay, per)
        BY <2>1, OwingAdjust
    <2>2. CASE \E t \in Permanent, on \in BOOLEAN : Enable(t, on)
        BY <2>2, OwingEnable
    <2>3. CASE \E t \in Temporary, delay \in Delays : SetTimer(t, delay)
        BY <2>3, OwingSetTimer
    <2>4. CASE \E c \in Cpu, how \in Modes : SuspendResume(c, how)
        BY <2>4, OwingSuspend
    <2>5. QED
        BY <2>1, <2>2, <2>3, <2>4 DEF Call
<1>2. CASE Timeslice
    BY <1>2, OwingBetween, OwingStartPass, OwingEat, OwingRun, OwingInstruction, OwingStop,
       OwingEndPass, OwingCallBack, OwingCallbackDone DEF Timeslice
<1>3. CASE UNCHANGED vars
    <2>1. UNCHANGED <<phase, basetime, target, executing, localtime, running, icount, midInstr>>
        BY <1>3 DEF vars, loopVars, cpuVars, cycleVars
    <2>2. UNCHANGED <<active, expire, owed, cbTimer>>
        BY <1>3 DEF vars, listVars, timerVars, cbVars
    <2>3. QED
        BY <2>1, <2>2 DEF Owing, Near, Ends, Rest
<1>4. QED
    BY <1>1, <1>2, <1>3 DEF Next

\* A timer is called back late by the longest instruction at most, whoever sets it and
\* whatever targets timeslice holds: setting a timer that becomes the first ends the
\* slice under way, and one that does not is behind a timer for which that was done.
THEOREM TimersAreInTime ==
    ASSUME FewDevices
    PROVE  Spec => []CalledBackInTime
<1>1. Typed /\ Owing => CalledBackInTime
    <2> SUFFICES ASSUME Typed, Owing, phase = "callback"
                 PROVE  basetime - owed[cbTimer] <= LongestInstr
        BY DEF CalledBackInTime
    <2>1. cbTimer \in Timer /\ basetime <= owed[cbTimer] + LongestInstr
        BY DEF Typed, Phased, Owing
    <2>2. owed[cbTimer] \in Nat /\ LongestInstr \in Nat /\ basetime \in Nat
        BY <2>1, Longest, Clocks DEF Typed, TimerTypes
    <2>3. QED
        BY <2>1, <2>2
<1>2. Spec => [](Typed /\ Listed)
    BY TypedInit, TypedStep, ListedInit, ListedStep, PTL DEF Spec
<1>3. QED
    BY <1>1, <1>2, OwingInit, OwingStep, PTL DEF Spec

-----------------------------------------------------------------------------
(* Timers are called back in order.                                        *)

\* Clocks that never stand still, and timers that nobody arms in the past.
Orderly == FewDevices /\ SecondIsLong /\ "stall" \notin Modes /\ ~EnablePast

NoneStands ==
    stalled = {} /\ \A c \in Cpu : nextmode[c] # "stall"

\* The timers still to come are due at most a cycle before the last one called back.
Ordered ==
    /\ cbExpire <= basetime
    /\ \A t \in Elements(active) : expire[t] > cbExpire - LongestCycle

\* The timer being called keeps its time until it is set anew.
KeepsTime ==
    phase = "callback" => /\ ~cbModified => expire[cbTimer] = cbExpire
                          /\ cbTimer \in Temporary => cbTimer \in Elements(active)

LEMMA LongestCycleIs ==
    ASSUME FewDevices
    PROVE  /\ LongestCycle \in Nat \ {0}
           /\ \A c \in Cpu : CyclePeriod[c] <= LongestCycle
<1> DEFINE L == LongestInstr
           q == L \div MaxInstr
<1>1. L \in Nat /\ MaxInstr \in Nat \ {0}
    BY Longest, Numbers
<1> HIDE DEF L
<1>2. q \in Nat /\ L < q * MaxInstr + MaxInstr
    BY <1>1, Quotient
<1>3. ASSUME NEW c \in Cpu PROVE CyclePeriod[c] <= q
    <2> DEFINE p == CyclePeriod[c]
    <2>1. p \in Nat /\ MaxInstr * p <= L
        BY Numbers, Longest DEF L
    <2> HIDE DEF p, q
    <2>2. p * MaxInstr = MaxInstr * p /\ p * MaxInstr \in Nat
        BY <1>1, <2>1
    <2>3. ASSUME q + 1 <= p PROVE FALSE
        <3>1. (q + 1) * MaxInstr <= p * MaxInstr
            BY <1>1, <1>2, <2>1, <2>3, Monotone
        <3>2. (q + 1) * MaxInstr = q * MaxInstr + 1 * MaxInstr /\ q * MaxInstr \in Nat
            BY <1>1, <1>2, Distribute
        <3>3. 1 * MaxInstr = MaxInstr
            BY <1>1
        <3>4. QED
            BY <1>1, <1>2, <2>1, <2>2, <3>1, <3>2, <3>3
    <2>4. p <= q
        BY <1>2, <2>1, <2>3
    <2>5. QED
        BY <2>4 DEF p
<1>4. q # 0
    <2>1. PICK c \in Cpu : TRUE
        BY DEF FewDevices
    <2>2. CyclePeriod[c] \in Nat \ {0} /\ CyclePeriod[c] <= q
        BY <1>3, Numbers
    <2> HIDE DEF q
    <2>3. QED
        BY <1>2, <2>2
<1>5. QED
    BY <1>2, <1>3, <1>4 DEF LongestCycle, L

LEMMA NoneStandsStep ==
    ASSUME "stall" \notin Modes
    PROVE  (Init => NoneStands) /\ (NoneStands /\ [Next]_vars => NoneStands')
<1>1. Init => NoneStands
    BY DEF Init, NoneStands
<1>2. ASSUME NoneStands, [Next]_vars PROVE NoneStands'
    <2>1. CASE UNCHANGED <<stalled, nextmode>>
        BY <1>2, <2>1 DEF NoneStands
    <2>2. CASE StartPass
        <3>1. nextmode' = nextmode /\ stalled' = stalled \cup {c \in Cpu : nextmode[c] = "stall"}
            BY <2>2 DEF StartPass
        <3>2. QED
            BY <1>2, <3>1 DEF NoneStands
    <2>3. ASSUME NEW c \in Cpu, NEW how \in Modes, SuspendResume(c, how) PROVE NoneStands'
        <3>1. nextmode' = [nextmode EXCEPT ![c] = how] /\ stalled' = stalled /\ how # "stall"
            BY <2>3 DEF SuspendResume, CanCall, loopVars
        <3>2. \A d \in Cpu : nextmode'[d] # "stall"
            BY <1>2, <3>1 DEF NoneStands
        <3>3. QED
            BY <1>2, <3>1, <3>2 DEF NoneStands
    <2>4. CASE Call
        BY <2>1, <2>3, <2>4 DEF Call, Adjust, Enable, SetTimer, CanCall, loopVars
    <2>5. ASSUME NEW c \in Cpu, SkipCpu(c) \/ EatCpu(c) \/ RunCpu(c) PROVE NoneStands'
        BY <2>1, <2>5 DEF SkipCpu, EatCpu, RunCpu, modeVars
    <2>6. CASE StartInstruction \/ FinishInstruction \/ StopCpu \/ EndPass
        BY <2>1, <2>6 DEF StartInstruction, FinishInstruction, StopCpu, EndPass, modeVars, loopVars
    <2>7. CASE Begin \/ EndLoop \/ CallBack \/ CallbackDone \/ TimersDone
        BY <2>1, <2>7 DEF Begin, EndLoop, CallBack, CallbackDone, TimersDone, modeVars
    <2>8. CASE UNCHANGED vars
        BY <2>1, <2>8 DEF vars, loopVars
    <2>9. QED
        BY <1>2, <2>2, <2>4, <2>5, <2>6, <2>7, <2>8 DEF Next, Timeslice
<1>3. QED
    BY <1>1, <1>2

LEMMA AlwaysNoneStands == ASSUME "stall" \notin Modes PROVE Spec => []NoneStands
BY NoneStandsStep, PTL DEF Spec

\* The assertion of timeslice, where nobody is suspended without eating cycles.
THEOREM DeltaIsAlwaysRight ==
    ASSUME SecondIsLong, "stall" \notin Modes
    PROVE  Spec => []DeltaIsExact
<1>1. NoneStands /\ DeltaOfRunners => DeltaIsExact
    BY DEF NoneStands, DeltaOfRunners, DeltaIsExact
<1>2. QED
    BY <1>1, AlwaysNoneStands, DeltaIsRight, PTL

\* Whoever asks, the time is at most a cycle before the last timer called back.
LEMMA TimeIs ==
    ASSUME Orderly, Typed, Together, NoneStands, Owing, Ordered, phase \in {"run", "callback"}
    PROVE  Time > cbExpire - LongestCycle
<1>1. LongestCycle \in Nat \ {0} /\ cbExpire \in Nat /\ basetime \in Nat
    BY LongestCycleIs, Clocks DEF Orderly, Typed, TimerTypes
<1>2. CASE phase = "callback"
    <2>1. Time = cbExpire
        BY <1>2, TimerAssumption DEF Time, Typed, Phased
    <2>2. QED
        BY <1>1, <2>1
<1>3. CASE phase = "run"
    <2>1. executing \in Cpu /\ running - icount \in Nat
        BY <1>3, UsedType
    <2>2. Time = LocalTime
        BY <1>3, <2>1 DEF Time, Owing, Typed, Phased
    <2> DEFINE p == CyclePeriod[executing]
               used == (running - icount) * p
    <2>3. /\ p \in Nat /\ p <= LongestCycle /\ localtime[executing] \in Nat
          /\ basetime - localtime[executing] < p
        BY <2>1, LongestCycleIs, Clocks DEF Orderly, Together, NearBase, NoneStands
    <2>4. used \in Nat /\ Time = localtime[executing] + used
        BY <2>1, <2>2, <2>3, Product DEF LocalTime
    <2>5. cbExpire <= basetime
        BY DEF Ordered
    <2> HIDE DEF p, used
    <2>6. QED
        BY <1>1, <2>3, <2>4, <2>5
<1>4. QED
    BY <1>2, <1>3

LEMMA OrderedInit == ASSUME Orderly PROVE Init => Ordered /\ KeepsTime
BY DEF Init, Ordered, KeepsTime, Elements

\* Setting a timer for a time that is late enough.
LEMMA OrderedSet ==
    ASSUME Ordered, NEW t \in Timer,
           Elements(active) \subseteq Timer, Elements(active') \subseteq Elements(active) \cup {t},
           \A u \in Timer \ {t} : expire'[u] = expire[u],
           UNCHANGED <<basetime, cbExpire>>,
           t \in Elements(active') => expire'[t] > cbExpire - LongestCycle
    PROVE  Ordered'
<1>1. ASSUME NEW u \in Elements(active') PROVE expire'[u] > cbExpire - LongestCycle
    <2>1. CASE u = t
        BY <2>1
    <2>2. CASE u # t
        BY <2>2 DEF Ordered
    <2>3. QED
        BY <2>1, <2>2
<1>2. LongestCycle' = LongestCycle
    BY DEF LongestCycle, LongestInstr
<1>3. QED
    BY <1>1, <1>2 DEF Ordered

LEMMA KeptListed ==
    ASSUME active \in Seq(Timer), IsTimerList(active, expire), NEW t \in Permanent,
           NEW exp, \A u \in Timer : exp[u] \in Nat, NEW en, Reinsert(t, exp, en)
    PROVE  /\ Elements(active) \ {t} \subseteq Elements(active')
           /\ ~en[t] => Elements(active') \subseteq Elements(active)
<1> DEFINE rest == ListRemove(active, t)
<1>1. t \in Timer /\ rest \in Seq(Timer) /\ Elements(rest) = Elements(active) \ {t}
    BY RemoveIs DEF Timer
<1>2. \/ active' = ListInsert(rest, exp, t) /\ en[t]
      \/ active' = rest
    BY DEF Reinsert
<1> HIDE DEF rest
<1>3. PICK v : v = ListInsert(rest, exp, t)
    OBVIOUS
<1>4. Elements(v) = Elements(rest) \cup {t}
    BY <1>1, <1>3, InsertIs
<1>5. QED
    BY <1>1, <1>2, <1>3, <1>4

LEMMA OrderedAdjust ==
    ASSUME Orderly, Typed, Typed', Listed, Listed', Ordered, KeepsTime,
           Time > cbExpire - LongestCycle,
           NEW t \in Permanent, NEW delay \in Delays, NEW per \in Periods, Adjust(t, delay, per)
    PROVE  Ordered' /\ KeepsTime'
<1>1. t \in Timer \ Temporary /\ delay \in Nat /\ Time \in Nat
    BY TimerAssumption, TimeType DEF Timer
<1>2. PICK when \in Nat : when = Plus(Time, delay) /\ (when >= Time \/ when = Never)
    BY <1>1, PlusType
<1>3. /\ expire' = [expire EXCEPT ![t] = when] /\ Reinsert(t, expire', enabled')
      /\ cbModified' = (cbModified \/ cbTimer = t)
      /\ UNCHANGED <<phase, basetime, cbTimer, cbExpire>>
    BY <1>2 DEF Adjust, CanCall, loopVars
<1>4. /\ expire'[t] = when /\ \A u \in Timer : expire'[u] \in Nat
      /\ \A u \in Timer \ {t} : expire'[u] = expire[u]
    BY <1>1, <1>3 DEF Typed, TimerTypes
<1>5. Elements(active') \subseteq Elements(active) \cup {t}
      /\ Elements(active) \ {t} \subseteq Elements(active') /\ Elements(active) \subseteq Timer
    BY <1>3, <1>4, StillListed, KeptListed, ElementsOf DEF Listed, InLists, Typed, TimerTypes
<1>6. ASSUME t \in Elements(active') PROVE expire'[t] > cbExpire - LongestCycle
    <2>1. when # Never
        BY <1>4, <1>6 DEF Listed, InLists
    <2>2. LongestCycle \in Nat /\ cbExpire \in Nat
        BY LongestCycleIs DEF Orderly, Typed, TimerTypes
    <2>3. QED
        BY <1>1, <1>2, <1>4, <2>1, <2>2
<1>7. Ordered'
    BY <1>1, <1>3, <1>4, <1>5, <1>6, OrderedSet
<1>8. KeepsTime'
    <2>1. ASSUME phase' = "callback", ~cbModified' PROVE expire'[cbTimer'] = cbExpire'
        <3>1. cbTimer # t /\ ~cbModified /\ cbTimer \in Timer /\ phase = "callback"
            BY <1>3, <2>1 DEF Typed, Phased
        <3>2. QED
            BY <1>3, <1>4, <3>1 DEF KeepsTime
    <2>2. ASSUME phase' = "callback", cbTimer' \in Temporary PROVE cbTimer' \in Elements(active')
        BY <1>1, <1>3, <1>5, <2>2 DEF KeepsTime
    <2>3. QED
        BY <2>1, <2>2 DEF KeepsTime
<1>9. QED
    BY <1>7, <1>8

LEMMA OrderedEnable ==
    ASSUME Orderly, Typed, Typed', Listed, Ordered, KeepsTime,
           Time > cbExpire - LongestCycle,
           NEW t \in Permanent, NEW on \in BOOLEAN, Enable(t, on)
    PROVE  Ordered' /\ KeepsTime'
<1>1. t \in Timer \ Temporary /\ Time \in Nat /\ \A u \in Timer : expire[u] \in Nat
    BY TimerAssumption, TimeType DEF Timer, Typed, TimerTypes
<1>2. /\ enabled' = [enabled EXCEPT ![t] = on] /\ Reinsert(t, expire, enabled')
      /\ on => expire[t] >= Time
      /\ UNCHANGED <<phase, basetime, expire, cbTimer, cbModified, cbExpire>>
    BY DEF Enable, CanCall, loopVars, cbVars, Orderly
<1>3. enabled'[t] = on
    BY <1>1, <1>2 DEF Typed, TimerTypes
<1>4. /\ Elements(active') \subseteq Elements(active) \cup {t}
      /\ Elements(active) \ {t} \subseteq Elements(active') /\ Elements(active) \subseteq Timer
      /\ ~on => Elements(active') \subseteq Elements(active)
    <2>1. active \in Seq(Timer) /\ InLists(active, inactive, expire, enabled, Called)
          /\ IsTimerList(active, expire)
        BY DEF Listed, InLists, Typed, TimerTypes
    <2>2. Elements(active') \subseteq Elements(active) \cup {t}
        BY <1>1, <1>2, <2>1, StillListed
    <2>3. Elements(active) \ {t} \subseteq Elements(active')
          /\ (~enabled'[t] => Elements(active') \subseteq Elements(active))
        BY <1>1, <1>2, <2>1, KeptListed
    <2>4. QED
        BY <1>3, <2>1, <2>2, <2>3, ElementsOf
<1>5. ASSUME t \in Elements(active') PROVE expire'[t] > cbExpire - LongestCycle
    <2>1. LongestCycle \in Nat /\ cbExpire \in Nat
        BY LongestCycleIs DEF Orderly, Typed, TimerTypes
    <2>2. CASE on
        BY <1>1, <1>2, <2>1, <2>2
    <2>3. CASE ~on
        BY <1>2, <1>4, <1>5, <2>3 DEF Ordered
    <2>4. QED
        BY <2>2, <2>3
<1>6. Ordered'
    BY <1>1, <1>2, <1>4, <1>5, OrderedSet
<1>7. KeepsTime'
    BY <1>1, <1>2, <1>4 DEF KeepsTime
<1>8. QED
    BY <1>6, <1>7

LEMMA OrderedSetTimer ==
    ASSUME Orderly, Typed, Typed', Listed, Ordered, KeepsTime,
           Time > cbExpire - LongestCycle,
           NEW t \in Temporary, NEW delay \in Delays, SetTimer(t, delay)
    PROVE  Ordered' /\ KeepsTime'
<1>1. t \in Timer \ Permanent /\ delay \in Nat /\ Time \in Nat
    BY TimerAssumption, TimeType DEF Timer
<1>2. PICK when \in Nat : when = Plus(Time, delay) /\ when >= Time
    <2>1. Plus(Time, delay) # Never
        BY DEF SetTimer
    <2>2. QED
        BY <1>1, <2>1, PlusType
<1>3. /\ expire' = [expire EXCEPT ![t] = when] /\ active' = ListInsert(active, expire', t)
      /\ t \notin Elements(active)
      /\ UNCHANGED <<phase, basetime, cbTimer, cbModified, cbExpire>>
    BY <1>2 DEF SetTimer, CanCall, loopVars, cbVars
<1>4. /\ expire'[t] = when /\ \A u \in Timer : expire'[u] \in Nat
      /\ \A u \in Timer \ {t} : expire'[u] = expire[u]
    BY <1>1, <1>3 DEF Typed, TimerTypes
<1>5. Elements(active') = Elements(active) \cup {t} /\ Elements(active) \subseteq Timer
    <2>1. PICK exp : exp = expire'
        OBVIOUS
    <2>2. PICK v : v = ListInsert(active, exp, t)
        OBVIOUS
    <2>3. \A u \in Timer : exp[u] \in Nat
        BY <1>4, <2>1
    <2>4. active \in Seq(Timer) /\ t \in Timer
        BY <1>1 DEF Typed, TimerTypes
    <2>5. Elements(v) = Elements(active) \cup {t}
        BY <2>2, <2>3, <2>4, InsertIs
    <2>6. active' = v
        BY <1>3, <2>1, <2>2
    <2>7. QED
        BY <2>4, <2>5, <2>6, ElementsOf
<1>6. expire'[t] > cbExpire - LongestCycle
    <2>1. LongestCycle \in Nat /\ cbExpire \in Nat
        BY LongestCycleIs DEF Orderly, Typed, TimerTypes
    <2>2. QED
        BY <1>1, <1>2, <1>4, <2>1
<1>7. Ordered'
    BY <1>1, <1>3, <1>4, <1>5, <1>6, OrderedSet
<1>8. KeepsTime'
    <2> SUFFICES ASSUME phase' = "callback"
                 PROVE  /\ ~cbModified' => expire'[cbTimer'] = cbExpire'
                        /\ cbTimer' \in Temporary => cbTimer' \in Elements(active')
        BY DEF KeepsTime
    <2>1. phase = "callback" /\ cbTimer \in Timer
        BY <1>3 DEF Typed, Phased
    <2>2. cbTimer # t
        BY <1>3, <2>1 DEF KeepsTime
    <2>3. QED
        BY <1>3, <1>4, <1>5, <2>1, <2>2 DEF KeepsTime
<1>9. QED
    BY <1>7, <1>8

LEMMA OrderedCallBack ==
    ASSUME Orderly, Typed, Listed, Ordered, CallBack
    PROVE  Ordered' /\ KeepsTime' /\ cbExpire' > cbExpire - LongestCycle
<1> DEFINE t == Head(active)
<1>1. t \in Timer /\ active # <<>> /\ HeadExpire = expire[t] /\ HeadExpire <= basetime
    BY HeadType DEF CallBack
<1>2. /\ phase' = "callback" /\ cbTimer' = t /\ cbExpire' = expire[t] /\ cbModified' = FALSE
      /\ UNCHANGED <<basetime, active, expire>>
    BY DEF CallBack, listVars
<1>3. t \in Elements(active) /\ \A u \in Elements(active) : expire[t] <= expire[u]
    <2>1. active \in Seq(Timer) /\ IsTimerList(active, expire) /\ \A u \in Timer : expire[u] \in Nat
        BY DEF Typed, TimerTypes, Listed, InLists
    <2>2. QED
        BY <1>1, <2>1, HeadIsFirst
<1> HIDE DEF t
<1>4. LongestCycle \in Nat \ {0} /\ LongestCycle' = LongestCycle
    BY LongestCycleIs DEF Orderly, LongestCycle, LongestInstr
<1>5. \A u \in Elements(active) : expire[u] > expire[t] - LongestCycle
    <2> TAKE u \in Elements(active)
    <2>1. expire[u] \in Nat /\ expire[t] \in Nat /\ expire[t] <= expire[u]
        BY <1>1, <1>3, ElementsOf DEF Typed, TimerTypes
    <2>2. QED
        BY <1>4, <2>1
<1>6. Ordered'
    BY <1>1, <1>2, <1>4, <1>5 DEF Ordered
<1>7. KeepsTime'
    BY <1>2, <1>3 DEF KeepsTime
<1>8. cbExpire' > cbExpire - LongestCycle
    BY <1>2, <1>3 DEF Ordered
<1>9. QED
    BY <1>6, <1>7, <1>8

LEMMA OrderedCallbackDone ==
    ASSUME Orderly, Typed, Typed', Listed, Listed', Ordered, KeepsTime, CallbackDone
    PROVE  Ordered' /\ KeepsTime'
<1>1. /\ phase = "callback" /\ phase' = "timers" /\ cbTimer \in Timer
      /\ UNCHANGED <<basetime, cbExpire>>
    BY DEF CallbackDone, cbVars, Typed, Phased
<1>2. KeepsTime' /\ LongestCycle' = LongestCycle
    BY <1>1 DEF KeepsTime, LongestCycle, LongestInstr
<1>3. CASE UNCHANGED <<expire, active>>
    BY <1>1, <1>2, <1>3 DEF Ordered
<1>4. CASE active' = ListRemove(active, cbTimer) /\ expire' = expire
    <2>1. Elements(active') \subseteq Elements(active)
        BY <1>4, RemoveIs DEF Typed, TimerTypes
    <2>2. QED
        BY <1>1, <1>2, <1>4, <2>1 DEF Ordered
<1>5. CASE /\ ~cbModified /\ cbTimer \in Permanent
           /\ expire' = [expire EXCEPT ![cbTimer] = Plus(@, period[cbTimer])]
           /\ Reinsert(cbTimer, expire', enabled)
    <2>1. PICK t \in Permanent : t = cbTimer
        BY <1>5
    <2>2. expire[t] = cbExpire /\ cbExpire \in Nat /\ t \in Timer
        BY <1>1, <1>5, <2>1 DEF KeepsTime, Typed, TimerTypes
    <2>3. PICK when \in Nat : /\ when = Plus(expire[t], period[t])
                              /\ when >= cbExpire \/ when = Never
        BY <1>1, <2>1, <2>2, PlusType DEF Typed, TimerTypes
    <2>4. expire' = [expire EXCEPT ![t] = when] /\ Reinsert(t, expire', enabled)
        BY <1>5, <2>1, <2>3
    <2>5. /\ expire'[t] = when /\ \A u \in Timer : expire'[u] \in Nat
          /\ \A u \in Timer \ {t} : expire'[u] = expire[u]
        BY <1>1, <2>1, <2>4 DEF Typed, TimerTypes
    <2>6. Elements(active') \subseteq Elements(active) \cup {t} /\ Elements(active) \subseteq Timer
        BY <2>4, <2>5, StillListed, ElementsOf DEF Listed, Typed, TimerTypes
    <2>7. ASSUME t \in Elements(active') PROVE expire'[t] > cbExpire - LongestCycle
        <3>1. when # Never
            BY <2>5, <2>7 DEF Listed, InLists
        <3>2. LongestCycle \in Nat \ {0}
            BY LongestCycleIs DEF Orderly
        <3>3. QED
            BY <2>2, <2>3, <2>5, <3>1, <3>2
    <2>8. QED
        BY <1>1, <1>2, <2>2, <2>5, <2>6, <2>7, OrderedSet
<1>6. Ordered'
    BY <1>3, <1>4, <1>5 DEF CallbackDone, listVars
<1>7. QED
    BY <1>2, <1>6

\* Steps that leave the timers alone, and move nothing but the base time forward.
LEMMA OrderedQuiet ==
    ASSUME Typed, Typed', Ordered, KeepsTime, UNCHANGED <<active, expire, cbExpire>>,
           basetime' >= basetime,
           \/ phase' # "callback" \/ UNCHANGED <<phase, cbTimer, cbModified>>
    PROVE  Ordered' /\ KeepsTime'
<1>1. basetime \in Nat /\ basetime' \in Nat /\ cbExpire \in Nat
    BY DEF Typed, LoopTypes, TimerTypes
<1>2. LongestCycle' = LongestCycle
    BY DEF LongestCycle, LongestInstr
<1>3. Ordered'
    BY <1>1, <1>2 DEF Ordered
<1>4. KeepsTime'
    BY DEF KeepsTime
<1>5. QED
    BY <1>3, <1>4

LEMMA OrderedStep ==
    ASSUME Orderly, Typed, Typed', Listed, Listed', Together, NoneStands, Owing,
           Ordered, KeepsTime, [Next]_vars
    PROVE  /\ Ordered' /\ KeepsTime'
           /\ phase = "timers" /\ phase' = "callback" => cbExpire' > cbExpire - LongestCycle
<1>1. CASE Call
    <2>1. phase' = phase /\ Time > cbExpire - LongestCycle
        BY <1>1, CallFrame, TimeIs
    <2>2. CASE \E t \in Permanent, delay \in Delays, per \in Periods : Adjust(t, delay, per)
        BY <2>1, <2>2, OrderedAdjust
    <2>3. CASE \E t \in Permanent, on \in BOOLEAN : Enable(t, on)
        BY <2>1, <2>3, OrderedEnable
    <2>4. CASE \E t \in Temporary, delay \in Delays : SetTimer(t, delay)
        BY <2>1, <2>4, OrderedSetTimer
    <2>5. CASE \E c \in Cpu, how \in Modes : SuspendResume(c, how)
        <3>1. UNCHANGED <<phase, basetime, active, expire, cbTimer, cbModified, cbExpire>>
            BY <2>5 DEF SuspendResume, CanCall, loopVars, listVars, timerVars, cbVars
        <3>2. basetime' >= basetime
            BY <3>1, Clocks
        <3>3. QED
            BY <2>1, <3>1, <3>2, OrderedQuiet
    <2>6. QED
        BY <1>1, <2>2, <2>3, <2>4, <2>5 DEF Call
<1>2. CASE CallBack
    BY <1>2, OrderedCallBack
<1>3. CASE CallbackDone
    <2>1. phase' = "timers"
        BY <1>3 DEF CallbackDone
    <2>2. QED
        BY <1>3, <2>1, OrderedCallbackDone
<1>4. ASSUME UNCHANGED <<active, expire, cbTimer, cbModified, cbExpire>>,
             basetime' = basetime \/ (phase' # "callback" /\ basetime' = target /\ basetime <= target),
             phase' # "callback" \/ phase' = phase
      PROVE  /\ Ordered' /\ KeepsTime'
             /\ ~(phase = "timers" /\ phase' = "callback")
    <2>1. basetime' >= basetime
        BY <1>4, Clocks
    <2>2. QED
        BY <1>4, <2>1, OrderedQuiet
<1>5. CASE EndPass
    <2>1. UNCHANGED <<active, expire, cbTimer, cbModified, cbExpire>>
          /\ phase' = "loop" /\ basetime' = target /\ basetime <= target
        BY <1>5 DEF EndPass, listVars, timerVars, cbVars, Typed, Bounded
    <2>2. QED
        BY <1>4, <2>1
<1>6. CASE Begin \/ EndLoop \/ StartPass
    <2>1. UNCHANGED <<active, expire, cbTimer, cbModified, cbExpire, basetime>> /\ phase' # "callback"
        BY <1>6 DEF Begin, EndLoop, StartPass, listVars, timerVars, cbVars
    <2>2. QED
        BY <1>4, <2>1
<1>7. CASE StartInstruction \/ FinishInstruction \/ StopCpu
    <2>1. UNCHANGED <<active, expire, cbTimer, cbModified, cbExpire, basetime>>
          /\ (phase' # "callback" \/ phase' = phase)
        BY <1>7 DEF StartInstruction, FinishInstruction, StopCpu, listVars, timerVars, cbVars, loopVars
    <2>2. QED
        BY <1>4, <2>1
<1>8. ASSUME NEW c \in Cpu, SkipCpu(c) \/ EatCpu(c) \/ RunCpu(c)
      PROVE  /\ Ordered' /\ KeepsTime'
             /\ ~(phase = "timers" /\ phase' = "callback")
    <2>1. UNCHANGED <<active, expire, cbTimer, cbModified, cbExpire, basetime>>
          /\ (phase' # "callback" \/ phase' = phase)
        BY <1>8 DEF SkipCpu, EatCpu, RunCpu, listVars, timerVars, cbVars
    <2>2. QED
        BY <1>4, <2>1
<1>9. CASE TimersDone
    <2>1. UNCHANGED <<active, expire, cbExpire, basetime>> /\ phase' = "idle"
        BY <1>9 DEF TimersDone, listVars, timerVars
    <2>2. basetime' >= basetime
        BY <2>1, Clocks
    <2>3. QED
        BY <2>1, <2>2, OrderedQuiet
<1>10. CASE UNCHANGED vars
    <2>1. UNCHANGED <<active, expire, cbTimer, cbModified, cbExpire, basetime, phase>>
        BY <1>10 DEF vars, loopVars, listVars, timerVars, cbVars
    <2>2. QED
        BY <1>4, <2>1
<1>11. QED
    BY <1>1, <1>2, <1>3, <1>5, <1>6, <1>7, <1>8, <1>9, <1>10 DEF Next, Timeslice

\* Callbacks come in the order their timers are due, to within a cycle: nobody can set
\* a timer for earlier than a cycle before the last callback.  This is where timers
\* armed in the past and clocks that stand still have to be left out.
THEOREM CallbacksAreInOrder ==
    ASSUME Orderly
    PROVE  Spec => CallbacksInOrder
<1> DEFINE Inv == Typed /\ Listed /\ Together /\ NoneStands /\ Owing /\ Ordered /\ KeepsTime
<1>1. Init => Inv
    BY TypedInit, ListedInit, TogetherInit, NoneStandsStep, OwingInit, OrderedInit DEF Orderly
<1>2. Inv /\ [Next]_vars
        => /\ Inv'
           /\ phase = "timers" /\ phase' = "callback" => cbExpire' > cbExpire - LongestCycle
    <2> SUFFICES ASSUME Inv, [Next]_vars
                 PROVE  /\ Inv'
                        /\ phase = "timers" /\ phase' = "callback"
                              => cbExpire' > cbExpire - LongestCycle
        OBVIOUS
    <2>1. FewDevices /\ SecondIsLong /\ "stall" \notin Modes
        BY DEF Orderly
    <2>2. Typed' /\ Listed'
        BY TypedStep, ListedStep
    <2>3. Together' /\ NoneStands' /\ Owing'
        BY <2>1, <2>2, TogetherStep, NoneStandsStep, OwingStep
    <2>4. QED
        BY <2>2, <2>3, OrderedStep
<1> HIDE DEF Inv
<1>3. QED
    BY <1>1, <1>2, PTL DEF Spec, CallbacksInOrder
=============================================================================
