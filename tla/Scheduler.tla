------------------------------ MODULE Scheduler ------------------------------
(***************************************************************************)
(* device_scheduler (src/emu/schedule.cpp): the loop that interleaves the  *)
(* executing devices with the timers.                                      *)
(*                                                                         *)
(* timeslice() runs every device up to a common target, which is at most a *)
(* quantum away and never past the first timer; a device stops on an       *)
(* instruction boundary, so it overshoots, and when it gives its slice up  *)
(* the target moves back to where it stopped.  When the base time has      *)
(* reached the first timer, execute_timers calls back every timer due.     *)
(* The instructions and the callbacks adjust, enable and create timers,    *)
(* and suspend devices, while the loop holds targets and cycle counts it   *)
(* computed before.                                                        *)
(*                                                                         *)
(* Time is a natural number; cycle period and delays are in its units.     *)
(***************************************************************************)
EXTENDS Integers, FiniteSetsExt, TimerLists

CONSTANTS
    Cpu,          \* executing devices, numbered as they enumerate
    CyclePeriod,  \* m_attoseconds_per_cycle of each
    Second,       \* time units in a second: attotime keeps seconds apart
    Modes,        \* what a suspend call can ask for: see AllModes
    MaxInstr,     \* bound: cycles of the longest instruction
    Quantum,      \* the scheduling quantum in force
    Permanent,    \* timers from timer_alloc
    Temporary,    \* timers from timer_set and synchronize
    EnablePast,   \* may enable() re-arm a timer whose expiry is past?
    Delays,       \* start delays callers ask for (Never too)
    Periods,      \* periods callers ask for: 0, Never or a real period
    Never,        \* attotime::never, beyond any reachable time
    Horizon,      \* bound: no device runs from a base time of Horizon or more
    MaxCalls      \* bound: timer and suspend calls in a behaviour

Timer   == Permanent \cup Temporary
NoTimer == "none"

ASSUME CpuAssumption ==
    /\ Cpu \subseteq Nat \ {0}
    /\ CyclePeriod \in [Cpu -> Nat \ {0}]
    /\ Second \in Nat \ {0}
    /\ "run" \in Modes /\ Modes \subseteq {"run", "eat", "stall"}
    /\ MaxInstr \in Nat \ {0}
    /\ Quantum \in Nat \ {0}

ASSUME TimerAssumption ==
    /\ Permanent \cap Temporary = {} /\ NoTimer \notin Timer
    /\ Never \in Nat /\ Horizon \in Nat /\ Horizon + Quantum < Never
    /\ EnablePast \in BOOLEAN
    /\ Delays \subseteq Nat
    /\ Periods \subseteq Nat
    /\ MaxCalls \in Nat

VARIABLES
    phase,        \* where timeslice() is
    basetime,     \* m_basetime
    target,       \* timeslice's local
    todo,         \* devices the pass has yet to deal with
    executing,    \* m_executing_device
    mode, nextmode,          \* per device: running or how it is suspended
    localtime, totalcycles,  \* per device: m_localtime, m_totalcycles
    ran, running, icount, stolen,    \* cycle counts of the executing device
    midInstr,     \* cycles the current instruction may still take, or Between
    active,       \* m_timer_list
    inactive,     \* m_inactive_timers
    expire, period, enabled,         \* per timer
    cbTimer, cbModified, cbExpire,   \* m_callback_timer and companions
    owed,         \* ghost: per timer, when its callback is owed
    stalled,      \* ghost: the devices whose clocks have stood still
    worked,       \* ghost: cycles each device has executed or had eaten
    calls         \* ghost: calls made

loopVars  == <<phase, basetime, target, todo, executing, mode, stalled>>
modeVars  == <<mode, nextmode, stalled>>
cpuVars   == <<localtime, totalcycles, worked>>
cycleVars == <<ran, running, icount, stolen>>
listVars  == <<active, inactive>>
timerVars == <<expire, period, enabled, owed>>
cbVars    == <<cbTimer, cbModified, cbExpire>>
vars == <<loopVars, cpuVars, cycleVars, midInstr, nextmode, listVars, timerVars,
          cbVars, calls>>

Nobody  == 0
Between == -1
Phases  == {"idle", "loop", "cpus", "run", "timers", "callback"}

\* A device runs, is suspended and has its cycles eaten, or is suspended and its
\* clock stands still.
AllModes == {"run", "eat", "stall"}

Plus(t, d) == IF t + d < Never THEN t + d ELSE Never
Lesser(a, b)  == IF a < b THEN a ELSE b
Greater(a, b) == IF a < b THEN b ELSE a

\* m_timer_list->m_expire: the dummy's, when there is no other timer.
HeadExpire == IF active = <<>> THEN Never ELSE expire[Head(active)]

\* local_time of the executing device, and device_scheduler::time.
LocalTime == localtime[executing] + (running - icount) * CyclePeriod[executing]
Time ==
    IF cbTimer # NoTimer THEN cbExpire
    ELSE IF executing # Nobody THEN LocalTime ELSE basetime

-----------------------------------------------------------------------------

Init ==
    /\ phase = "idle" /\ basetime = 0 /\ target = 0 /\ todo = {}
    /\ executing = Nobody
    /\ mode = [c \in Cpu |-> "run"] /\ nextmode = mode
    /\ localtime = [c \in Cpu |-> 0] /\ totalcycles = [c \in Cpu |-> 0]
    /\ ran = 0 /\ running = 0 /\ icount = 0 /\ stolen = 0
    /\ midInstr = Between
    /\ active = <<>> /\ inactive = Permanent
    /\ expire = [t \in Timer |-> Never] /\ period = [t \in Timer |-> Never]
    /\ enabled = [t \in Timer |-> FALSE] /\ owed = expire
    /\ cbTimer = NoTimer /\ cbModified = FALSE /\ cbExpire = 0
    /\ worked = [c \in Cpu |-> 0] /\ stalled = {}
    /\ calls = 0

-----------------------------------------------------------------------------
(* Calls into the scheduler: from an instruction of the executing device or *)
(* from a timer's callback.                                                 *)

CanCall ==
    /\ phase = "callback" \/ (phase = "run" /\ midInstr # Between)
    /\ calls < MaxCalls
    /\ calls' = calls + 1
    /\ UNCHANGED <<loopVars, cpuVars, ran, midInstr>>

\* Faulty variants: the cycles taken are not noted; the whole slice is noted as
\* taken, instead of what was left of it.
StealUnnoted ==
    /\ icount' = 0 /\ UNCHANGED stolen
    /\ running' = running - icount
StealSlice ==
    /\ icount' = 0
    /\ stolen' = stolen + running
    /\ running' = running - icount

\* abort_timeslice: the executing device is left no cycles; what it had (or had
\* overdrawn) is accounted as stolen.
StealCycles ==
    /\ icount' = 0
    /\ stolen' = stolen + icount
    /\ running' = running - icount
Abort == IF executing # Nobody THEN StealCycles
         ELSE UNCHANGED <<icount, stolen, running>>

\* Faulty variant: a disabled timer stays active.
ReinsertAll(t, exp, en) ==
    LET rest == ListRemove(active, t)
    IN  IF exp[t] # Never
        THEN active' = ListInsert(rest, exp, t) /\ inactive' = inactive \ {t}
        ELSE active' = rest /\ inactive' = inactive \cup {t}

\* timer_list_remove, then timer_list_insert, with the timer's new values.
Reinsert(t, exp, en) ==
    LET rest == ListRemove(active, t)
    IN  IF en[t] /\ exp[t] # Never
        THEN active' = ListInsert(rest, exp, t) /\ inactive' = inactive \ {t}
        ELSE active' = rest /\ inactive' = inactive \cup {t}

\* A slice under way would run past a timer that becomes the first.  Faulty
\* variant: it does.
GoOn(t) == UNCHANGED <<icount, stolen, running>>
AbortIfHead(t) ==
    IF active' # <<>> /\ Head(active') = t
    THEN Abort
    ELSE UNCHANGED <<icount, stolen, running>>

\* The timers in front of t on the list.
InFront(list, t) ==
    {u \in Elements(list) :
        \E j, k \in DOMAIN list : j < k /\ list[j] = u /\ list[k] = t}

\* From when on a timer that expires at when can be called back: not before the
\* base time has got there, nor before the timers in front of it.
Owe(t, when) ==
    LET others == {owed[u] : u \in InFront(active', t)}
    IN  owed' = [owed EXCEPT ![t] = Max({when, basetime} \cup others)]

\* emu_timer::adjust (and reset, which keeps the period).
Adjust(t, delay, per) ==
    /\ CanCall
    /\ cbModified' = (cbModified \/ cbTimer = t)
    /\ expire' = [expire EXCEPT ![t] = Plus(Time, delay)]
    /\ period' = [period EXCEPT ![t] = per]
    /\ enabled' = [enabled EXCEPT ![t] = TRUE]
    /\ Reinsert(t, expire', enabled')
    /\ Owe(t, expire'[t])
    /\ AbortIfHead(t)
    /\ UNCHANGED <<nextmode, cbTimer, cbExpire>>

\* emu_timer::enable: neither marks the callback's timer modified nor ends the
\* slice, so an executing device goes on to the target it had.
Enable(t, on) ==
    /\ CanCall
    /\ enabled[t] # on
    /\ enabled' = [enabled EXCEPT ![t] = on]
    /\ on => EnablePast \/ expire[t] >= Time
    /\ Reinsert(t, expire, enabled')
    /\ Owe(t, IF executing = Nobody THEN expire[t]
                                    ELSE Greater(expire[t], target))
    /\ UNCHANGED <<expire, period, nextmode, cbVars, icount, stolen, running>>

\* timer_set and synchronize (a delay of zero): a temporary timer is born.
SetTimer(t, delay) ==
    /\ CanCall
    /\ t \notin Elements(active) /\ Plus(Time, delay) # Never
    /\ expire' = [expire EXCEPT ![t] = Plus(Time, delay)]
    /\ period' = [period EXCEPT ![t] = Never]
    /\ enabled' = [enabled EXCEPT ![t] = TRUE]
    /\ active' = ListInsert(active, expire', t)
    /\ Owe(t, expire'[t])
    /\ AbortIfHead(t)
    /\ UNCHANGED <<inactive, nextmode, cbVars>>

\* suspend and resume, of any device: see ExecSuspend.  Only the executing one's
\* slice ends, for another device abort_timeslice does nothing.
SuspendResume(c, how) ==
    /\ CanCall
    /\ nextmode' = [nextmode EXCEPT ![c] = how]
    /\ IF c = executing THEN StealCycles ELSE UNCHANGED <<icount, stolen, running>>
    /\ UNCHANGED <<listVars, timerVars, cbVars>>

Call ==
    \/ \E t \in Permanent, delay \in Delays, per \in Periods :
          Adjust(t, delay, per)
    \/ \E t \in Permanent, on \in BOOLEAN : Enable(t, on)
    \/ \E t \in Temporary, delay \in Delays : SetTimer(t, delay)
    \/ \E c \in Cpu, how \in Modes : nextmode[c] # how /\ SuspendResume(c, how)

-----------------------------------------------------------------------------
(* timeslice.                                                              *)

Begin ==
    /\ phase = "idle"
    /\ phase' = "loop"
    /\ UNCHANGED <<basetime, target, todo, executing, modeVars, cpuVars>>
    /\ UNCHANGED <<cycleVars, midInstr, listVars, timerVars, cbVars, calls>>

\* Faulty variant: the loop goes on when the first timer is due.
StartLatePass ==
    /\ phase = "loop" /\ basetime <= HeadExpire /\ basetime < Horizon
    /\ target' = Lesser(basetime + Quantum, HeadExpire)
    /\ mode' = nextmode
    /\ stalled' = stalled \cup {c \in Cpu : nextmode[c] = "stall"}
    /\ todo' = Cpu
    /\ phase' = "cpus"
    /\ UNCHANGED <<basetime, executing, nextmode, cpuVars, cycleVars, midInstr>>
    /\ UNCHANGED <<listVars, timerVars, cbVars, calls>>

\* One turn of the loop: choose the target, apply suspend changes.
StartPass ==
    /\ phase = "loop" /\ basetime < HeadExpire /\ basetime < Horizon
    /\ target' = Lesser(basetime + Quantum, HeadExpire)
    /\ mode' = nextmode
    /\ stalled' = stalled \cup {c \in Cpu : nextmode[c] = "stall"}
    /\ todo' = Cpu
    /\ phase' = "cpus"
    /\ UNCHANGED <<basetime, executing, nextmode, cpuVars, cycleVars, midInstr>>
    /\ UNCHANGED <<listVars, timerVars, cbVars, calls>>

\* The next device of m_execute_list, which has the running devices in front.
InTurn(c) ==
    /\ c \in todo
    /\ mode[c] = "run" \/ \A d \in todo : mode[d] # "run"
    /\ \A d \in todo : (mode[d] = "run" <=> mode[c] = "run") => c <= d

\* The device takes part: it is not stalled, and not in a later second already.
Considered(c) ==
    mode[c] # "stall" /\ target \div Second >= localtime[c] \div Second

\* Faulty variant: the seconds are left out.
DeltaInSecond(c) == (target % Second) - (localtime[c] % Second)

\* How far the device is behind the target, from the sub-second parts, and in
\* whole cycles.
Delta(c) ==
    LET d == (target % Second) - (localtime[c] % Second)
    IN  IF d < 0 /\ target \div Second > localtime[c] \div Second
        THEN d + Second ELSE d
CyclesToTarget(c) == Delta(c) \div CyclePeriod[c]
\* Less than a cycle cannot be run.
Behind(c) == Considered(c) /\ Delta(c) >= CyclePeriod[c]

\* Faulty variants of the next definition: the target stays where it was; it
\* moves back behind the base time.
AccountOnly(c, n) ==
    /\ totalcycles' = [totalcycles EXCEPT ![c] = @ + n]
    /\ localtime' = [localtime EXCEPT ![c] = @ + n * CyclePeriod[c]]
    /\ todo' = todo \ {c}
    /\ UNCHANGED target
AccountBack(c, n) ==
    /\ totalcycles' = [totalcycles EXCEPT ![c] = @ + n]
    /\ localtime' = [localtime EXCEPT ![c] = @ + n * CyclePeriod[c]]
    /\ target' = Lesser(localtime'[c], target)
    /\ todo' = todo \ {c}

\* The device has used n cycles: advance its clock, and move the target back to
\* it if it fell short, but not before the base time.
Account(c, n) ==
    /\ totalcycles' = [totalcycles EXCEPT ![c] = @ + n]
    /\ localtime' = [localtime EXCEPT ![c] = @ + n * CyclePeriod[c]]
    /\ target' = IF localtime'[c] < target
                 THEN Greater(localtime'[c], basetime) ELSE target
    /\ todo' = todo \ {c}

\* Stalled, or less than a cycle to go: nothing happens.
SkipCpu(c) ==
    /\ phase = "cpus" /\ InTurn(c)
    /\ ~Behind(c)
    /\ todo' = todo \ {c}
    /\ UNCHANGED <<phase, basetime, target, executing, modeVars, cpuVars>>
    /\ UNCHANGED <<cycleVars, midInstr, listVars, timerVars, cbVars, calls>>

\* A suspended device has its cycles eaten.
EatCpu(c) ==
    /\ phase = "cpus" /\ InTurn(c)
    /\ mode[c] = "eat" /\ Behind(c)
    /\ Account(c, CyclesToTarget(c))
    /\ worked' = [worked EXCEPT ![c] = @ + CyclesToTarget(c)]
    /\ UNCHANGED <<phase, basetime, executing, modeVars, cycleVars>>
    /\ UNCHANGED <<midInstr, listVars, timerVars, cbVars, calls>>

RunCpu(c) ==
    /\ phase = "cpus" /\ InTurn(c)
    /\ mode[c] = "run" /\ Behind(c)
    /\ executing' = c
    /\ ran' = CyclesToTarget(c)
    /\ running' = ran' /\ icount' = ran' /\ stolen' = 0
    /\ phase' = "run"
    /\ UNCHANGED <<basetime, target, todo, modeVars, cpuVars, midInstr>>
    /\ UNCHANGED <<listVars, timerVars, cbVars, calls>>

\* An instruction spends some cycles, may call into the machine, and spends the
\* rest; a device starts one only while it has cycles left.
StartInstruction ==
    /\ phase = "run" /\ midInstr = Between /\ icount > 0
    /\ \E k \in 0 .. MaxInstr :
          /\ icount' = icount - k
          /\ midInstr' = MaxInstr - k
          /\ worked' = [worked EXCEPT ![executing] = @ + k]
    /\ UNCHANGED <<loopVars, nextmode, localtime, totalcycles, ran, running>>
    /\ UNCHANGED <<stolen, listVars, timerVars, cbVars, calls>>

FinishInstruction ==
    /\ phase = "run" /\ midInstr # Between
    /\ \E k \in 0 .. midInstr :
          /\ midInstr = MaxInstr => k > 0     \* it takes a cycle at least
          /\ icount' = icount - k
          /\ worked' = [worked EXCEPT ![executing] = @ + k]
    /\ midInstr' = Between
    /\ UNCHANGED <<loopVars, nextmode, localtime, totalcycles, ran, running>>
    /\ UNCHANGED <<stolen, listVars, timerVars, cbVars, calls>>

\* run() returns.
StopCpu ==
    /\ phase = "run" /\ midInstr = Between /\ icount <= 0
    /\ Account(executing, ran - icount - stolen)
    /\ executing' = Nobody
    /\ phase' = "cpus"
    /\ UNCHANGED <<basetime, modeVars, cycleVars, midInstr, worked>>
    /\ UNCHANGED <<listVars, timerVars, cbVars, calls>>

EndPass ==
    /\ phase = "cpus" /\ todo = {}
    /\ basetime' = target
    /\ phase' = "loop"
    /\ UNCHANGED <<target, todo, executing, modeVars, cpuVars, cycleVars>>
    /\ UNCHANGED <<midInstr, listVars, timerVars, cbVars, calls>>

-----------------------------------------------------------------------------
(* execute_timers.                                                         *)

EndLoop ==
    /\ phase = "loop" /\ basetime >= HeadExpire
    /\ phase' = "timers"
    /\ UNCHANGED <<basetime, target, todo, executing, modeVars, cpuVars>>
    /\ UNCHANGED <<cycleVars, midInstr, listVars, timerVars, cbVars, calls>>

\* A one-shot timer is disabled before its callback, but stays on the list.
OneShot(t) == period[t] = 0 \/ period[t] = Never

CallBack ==
    /\ phase = "timers" /\ HeadExpire <= basetime
    /\ LET t == Head(active)
       IN  /\ enabled' = [enabled EXCEPT ![t] = @ /\ ~OneShot(t)]
           /\ cbTimer' = t /\ cbExpire' = expire[t] /\ cbModified' = FALSE
    /\ phase' = "callback"
    /\ UNCHANGED <<basetime, target, todo, executing, modeVars, cpuVars>>
    /\ UNCHANGED <<cycleVars, midInstr, listVars, expire, period, owed, calls>>

\* The callback has returned.  Unless it adjusted its own timer, a permanent
\* timer goes on to its next period and a temporary one is reclaimed.
CallbackDone ==
    /\ phase = "callback"
    /\ IF cbModified
       THEN UNCHANGED <<expire, owed, listVars>>
       ELSE IF cbTimer \in Permanent
       THEN /\ expire' = [expire EXCEPT ![cbTimer] = Plus(@, period[cbTimer])]
            /\ Reinsert(cbTimer, expire', enabled)
            /\ Owe(cbTimer, expire'[cbTimer])
       ELSE /\ active' = ListRemove(active, cbTimer)
            /\ UNCHANGED <<expire, owed, inactive>>
    /\ phase' = "timers"
    /\ UNCHANGED <<basetime, target, todo, executing, modeVars, cpuVars>>
    /\ UNCHANGED <<cycleVars, midInstr, period, enabled, cbVars, calls>>

TimersDone ==
    /\ phase = "timers" /\ HeadExpire > basetime
    /\ cbTimer' = NoTimer
    /\ phase' = "idle"
    /\ UNCHANGED <<basetime, target, todo, executing, modeVars, cpuVars>>
    /\ UNCHANGED <<cycleVars, midInstr, listVars, timerVars>>
    /\ UNCHANGED <<cbModified, cbExpire, calls>>

-----------------------------------------------------------------------------

Timeslice ==
    \/ Begin \/ StartPass
    \/ \E c \in Cpu : SkipCpu(c) \/ EatCpu(c) \/ RunCpu(c)
    \/ StartInstruction \/ FinishInstruction \/ StopCpu \/ EndPass
    \/ EndLoop \/ CallBack \/ CallbackDone \/ TimersDone

Next == Call \/ Timeslice

Spec == Init /\ [][Next]_vars /\ WF_vars(Timeslice)

-----------------------------------------------------------------------------
(* Properties.                                                             *)

\* Every variable holds a value of its type.
TypeOK ==
    /\ phase \in Phases /\ basetime \in Nat /\ target \in Nat
    /\ todo \subseteq Cpu /\ stalled \subseteq Cpu
    /\ executing \in Cpu \cup {Nobody}
    /\ mode \in [Cpu -> AllModes] /\ nextmode \in [Cpu -> AllModes]
    /\ localtime \in [Cpu -> Nat] /\ totalcycles \in [Cpu -> Nat]
    /\ worked \in [Cpu -> Nat]
    /\ ran \in Nat /\ running \in Nat /\ icount \in Int /\ stolen \in Int
    /\ midInstr \in Between .. MaxInstr
    /\ active \in Seq(Timer) /\ inactive \subseteq Timer
    /\ expire \in [Timer -> Nat] /\ period \in [Timer -> Nat]
    /\ enabled \in [Timer -> BOOLEAN] /\ owed \in [Timer -> Nat]
    /\ cbTimer \in Timer \cup {NoTimer} /\ cbModified \in BOOLEAN
    /\ cbExpire \in Nat
    /\ calls \in 0 .. MaxCalls

\* The timer on whose behalf a callback is running.
BeingCalled(t) == phase = "callback" /\ cbTimer = t

\* Every permanent timer is on exactly one list: the active one, in order of
\* expiry, if it is enabled and will expire, else the inactive one.  A one-shot
\* timer being called back is the exception: disabled, and still at its place.
\* Temporary timers are never inactive.
TimersListed ==
    /\ IsTimerList(active, expire)
    /\ inactive \subseteq Permanent
    /\ inactive \cap Elements(active) = {}
    /\ Permanent \subseteq inactive \cup Elements(active)
    /\ \A t \in Elements(active) :
          expire[t] # Never /\ (enabled[t] \/ BeingCalled(t))
    /\ \A t \in inactive : ~enabled[t] \/ expire[t] = Never

\* The devices keep together.  None runs away: it is ahead of the base time by a
\* quantum and the rest of one instruction at most.  When timers are called back
\* none is a whole cycle behind: whatever a callback does, a device sees it at
\* the right time or less than one cycle early.  A device whose clock has stood
\* still holds up nobody else.
NotFarAhead ==
    \A c \in Cpu : localtime[c] - basetime
                      <= Quantum + (MaxInstr - 1) * CyclePeriod[c]
CaughtUp ==
    phase \in {"loop", "timers", "callback", "idle"} =>
        \A c \in Cpu \ stalled : basetime - localtime[c] < CyclePeriod[c]
DevicesKeepTogether == NotFarAhead /\ CaughtUp

\* The longest instruction on any device.
LongestInstr == Max({MaxInstr * CyclePeriod[c] : c \in Cpu})

\* A timer is called back late by the longest instruction at most, whoever set
\* it and whatever targets were computed before.  (One armed by enable() from
\* an instruction has to wait for the slice to reach its target first, and so
\* have those set behind it.)
CalledBackInTime ==
    phase = "callback" => basetime - owed[cbTimer] <= LongestInstr

\* Cycles are neither invented nor lost by slices cut short: outside its slice
\* a device's cycle count and clock agree with the cycles it has really spent.
CyclesAccounted ==
    \A c \in Cpu \ {executing} :
        /\ totalcycles[c] = worked[c]
        /\ localtime[c] = worked[c] * CyclePeriod[c]

\* assert(delta == (target - exec->m_localtime).as_attoseconds()): taking the
\* sub-second parts apart loses nothing, a device is never a second behind.
DeltaIsExact ==
    phase = "cpus" => \A c \in todo :
        Considered(c) => Delta(c) = target - localtime[c]

\* The same of the devices whose clocks have never stood still: the roll-over of
\* a second between base time and target is accounted for.
DeltaOfRunners ==
    phase = "cpus" => \A c \in todo \ stalled :
        Considered(c) => Delta(c) = target - localtime[c]

\* The assertions on the cycle counts of a slice.
SliceAsserts ==
    phase = "run" => /\ running >= icount
                     /\ midInstr = Between /\ icount <= 0
                            => ran >= icount /\ ran - icount >= stolen

\* "everything moves forward from here": neither the base time nor a device's
\* clock ever goes back.
TimeMovesForward ==
    [][/\ basetime' >= basetime
       /\ \A c \in Cpu : localtime'[c] >= localtime[c]]_vars

\* The longest cycle of any device.
LongestCycle == LongestInstr \div MaxInstr

\* Callbacks come in the order their timers are due, to within the cycle that a
\* device may lag when it sets one: time() hardly goes back between callbacks.
CallbacksInOrder ==
    [][phase = "timers" /\ phase' = "callback"
          => cbExpire' > cbExpire - LongestCycle]_vars

\* A timer set in the future is called back, however slices are cut short,
\* unless somebody changes it.
TimersFire ==
    \A t \in Timer :
        (t \in Elements(active) /\ expire[t] < Horizon)
            ~> \/ BeingCalled(t)
               \/ t \notin Elements(active) \/ expire[t] >= Horizon
=============================================================================
