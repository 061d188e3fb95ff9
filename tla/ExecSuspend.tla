----------------------------- MODULE ExecSuspend -----------------------------
(***************************************************************************)
(* Suspending and resuming executing devices (CPUs): the reason bits of    *)
(* device_execute_interface (src/emu/diexec.cpp) and how the scheduler     *)
(* (src/emu/schedule.cpp) applies them.                                    *)
(*                                                                         *)
(* A request (suspend, resume, trigger, reset, clock change) only edits    *)
(* m_nextsuspend and raises m_suspend_changes_pending; the scheduler turns *)
(* m_nextsuspend into m_suspend before its next pass over the devices, and *)
(* moves suspended devices to the end of the execute list.  Requests come  *)
(* from the instruction of the device that is executing, at any point of a *)
(* pass, or from a timer callback between passes.  A request for the       *)
(* executing device ends its slice; one for another device does not, and   *)
(* waits for the next pass.  (Timers end slices too: see Scheduler.)       *)
(*                                                                         *)
(* A set of reasons stands for the bit mask.  Devices are numbered in the  *)
(* order of the device enumeration, and the execute list is determined by  *)
(* which devices were active when it was last built (front): those first,  *)
(* then the others, both in enumeration order.                             *)
(***************************************************************************)
EXTENDS Naturals

CONSTANTS
    Dev,          \* the executing devices, numbered from 1 as they enumerate
    Disabled,     \* the ones configured as disabled
    OthersYield,  \* may a device's yield/spin be called by somebody else?
    SpinIds,      \* bound: spin_until_time's trigger ids wrap at SpinIds, not 256
    MaxCalls      \* bound: number of requests in a behaviour

ASSUME DevAssumption == Dev \subseteq Nat \ {0} /\ Disabled \subseteq Dev
ASSUME SwitchAssumption == OthersYield \in BOOLEAN
ASSUME BoundAssumption == SpinIds \in Nat \ {0} /\ MaxCalls \in Nat

VARIABLES
    suspend, nextsuspend,  \* m_suspend, m_nextsuspend
    eat, nexteat,          \* m_eatcycles, m_nexteatcycles
    trigger,               \* m_trigger
    spintimer,             \* the id m_spin_end_timer will trigger, if armed
    timetrig,              \* the static counter in spin_until_time
    clocked,               \* has the device a clock other than zero?
    pending,               \* m_suspend_changes_pending
    front,                 \* the active part of m_execute_list
    inPass,                \* inside timeslice's loop over the devices?
    visited,               \* the devices that loop has dealt with
    executing,             \* m_executing_device
    sliceOver,             \* has abort_timeslice taken its cycles since it began?
    saved,                 \* a save state
    calls,                 \* ghost: requests made
    atPass, atSlice        \* ghost: m_nextsuspend when the pass, slice began

reqVars   == <<nextsuspend, nexteat, trigger, spintimer, timetrig, clocked>>
passVars  == <<suspend, eat, front, inPass, visited, executing, atPass, atSlice>>
vars == <<reqVars, passVars, pending, sliceOver, saved, calls>>

Nobody   == 0
NoTrigger == 0
TimeSlice == "TIMESLICE"
Reasons  == {"HALT", "RESET", "TRIGGER", "DISABLE", TimeSlice, "CLOCK"}

\* Trigger ids: the device's interrupt trigger (m_inttrigger), and the ids
\* spin_until_time draws.
IntTrigger  == SpinIds + 1
TriggerIds  == 1 .. IntTrigger

-----------------------------------------------------------------------------
(* Initial state: device_start is done (m_suspend is RESET in every device, *)
(* the list was built then), nothing has been reset yet.                    *)

NotSaved == [suspend |-> <<>>, nextsuspend |-> <<>>, eat |-> <<>>,
             nexteat |-> <<>>, trigger |-> <<>>, spintimer |-> <<>>,
             clocked |-> <<>>]

Init ==
    /\ suspend = [d \in Dev |-> {"RESET"}]
    /\ nextsuspend = [d \in Dev |-> {}]
    /\ eat = [d \in Dev |-> FALSE] /\ nexteat = [d \in Dev |-> FALSE]
    /\ trigger = [d \in Dev |-> NoTrigger]
    /\ spintimer = [d \in Dev |-> NoTrigger] /\ timetrig = 0
    /\ clocked = [d \in Dev |-> TRUE]
    /\ pending = TRUE /\ front = {}
    /\ inPass = FALSE /\ visited = {} /\ executing = Nobody
    /\ sliceOver = FALSE
    /\ saved = NotSaved
    /\ calls = 0
    /\ atPass = nextsuspend /\ atSlice = nextsuspend

-----------------------------------------------------------------------------
(* Requests.                                                               *)

\* Requests come from the executing device's instruction or from a timer
\* callback, which runs between passes.
CanCall ==
    /\ executing # Nobody \/ ~inPass
    /\ calls < MaxCalls
    /\ calls' = calls + 1
    /\ UNCHANGED <<passVars, saved>>

\* abort_timeslice of the devices ds: the one that is executing gives up the
\* cycles it has left, for any other the call does nothing.
Abort(ds) == sliceOver' = (sliceOver \/ executing \in ds)

\* Faulty variant: the slice goes on.
ChangedLater(d) == pending' = TRUE /\ UNCHANGED sliceOver

\* suspend_resume_changed of the device d.
Changed(d) == pending' = TRUE /\ Abort({d})

SuspendFor(d, reason, eatcycles) ==
    /\ nextsuspend' = [nextsuspend EXCEPT ![d] = @ \cup {reason}]
    /\ nexteat' = [nexteat EXCEPT ![d] = eatcycles]
    /\ Changed(d)

\* Faulty variant of resume: nobody is told.
ResumeUntold(d, reasons) ==
    /\ nextsuspend' = [nextsuspend EXCEPT ![d] = @ \ reasons]
    /\ UNCHANGED <<nexteat, pending>>
    /\ Abort({d})

ResumeFrom(d, reasons) ==
    /\ nextsuspend' = [nextsuspend EXCEPT ![d] = @ \ reasons]
    /\ UNCHANGED nexteat
    /\ Changed(d)

\* The HALT line goes up or down (empty_event_queue); the debugger borrows its
\* reason.
HaltLine(d) ==
    /\ CanCall
    /\ \/ SuspendFor(d, "HALT", TRUE)
       \/ ResumeFrom(d, {"HALT"})
    /\ UNCHANGED <<trigger, spintimer, timetrig, clocked>>

\* What interface_pre_reset leaves of a device's reasons: a disabled device stays
\* suspended, any other device with a clock runs again, whatever held it.
AfterReset(d) ==
    IF d \in Disabled THEN nextsuspend[d] \cup {"DISABLE"}
    ELSE IF clocked[d] THEN {} ELSE nextsuspend[d]

\* The RESET line goes up, or down: that resets the device before it resumes it.
ResetLine(d) ==
    /\ CanCall
    /\ \/ SuspendFor(d, "RESET", TRUE)
       \/ /\ "RESET" \in nextsuspend[d]
          /\ nextsuspend' = [nextsuspend EXCEPT ![d] = AfterReset(d) \ {"RESET"}]
          /\ nexteat' = [nexteat EXCEPT ![d] = @ \/ d \in Disabled]
          /\ Changed(d)
    /\ UNCHANGED <<trigger, spintimer, timetrig, clocked>>

\* yield and spin: wait for the next time slice.
Yield(d, eatcycles) ==
    /\ CanCall
    /\ d = executing \/ OthersYield
    /\ SuspendFor(d, TimeSlice, eatcycles)
    /\ UNCHANGED <<trigger, spintimer, timetrig, clocked>>

\* suspend_until_trigger on the interrupt trigger: spin_until_interrupt.
SpinUntilInterrupt(d) ==
    /\ CanCall
    /\ SuspendFor(d, "TRIGGER", TRUE)
    /\ trigger' = [trigger EXCEPT ![d] = IntTrigger]
    /\ UNCHANGED <<spintimer, timetrig, clocked>>

\* Faulty variants of spin_until_time: the id does not wrap; no timer is armed.
SpinNoWrap(d) ==
    /\ CanCall
    /\ SuspendFor(d, "TRIGGER", TRUE)
    /\ trigger' = [trigger EXCEPT ![d] = 1 + timetrig]
    /\ spintimer' = [spintimer EXCEPT ![d] = 1 + timetrig]
    /\ timetrig' = timetrig + 1
    /\ UNCHANGED clocked
SpinNoTimer(d) ==
    /\ CanCall
    /\ SuspendFor(d, "TRIGGER", TRUE)
    /\ trigger' = [trigger EXCEPT ![d] = 1 + timetrig]
    /\ timetrig' = (timetrig + 1) % SpinIds
    /\ UNCHANGED <<spintimer, clocked>>

\* spin_until_time: suspend_until_trigger on the next of SpinIds ids, which
\* every device draws from one static counter, and a timer to fire it.
SpinUntilTime(d) ==
    /\ CanCall
    /\ SuspendFor(d, "TRIGGER", TRUE)
    /\ trigger' = [trigger EXCEPT ![d] = 1 + timetrig]
    /\ spintimer' = [spintimer EXCEPT ![d] = 1 + timetrig]
    /\ timetrig' = (timetrig + 1) % SpinIds
    /\ UNCHANGED clocked

\* device_execute_interface::trigger, on each device of ds.
Waiting(id) == {d \in Dev : "TRIGGER" \in nextsuspend[d] /\ trigger[d] = id}

TriggerAll(ds, id) ==
    LET woken == ds \cap Waiting(id)
    IN  /\ nextsuspend' = [d \in Dev |-> IF d \in woken
                                         THEN nextsuspend[d] \ {"TRIGGER"}
                                         ELSE nextsuspend[d]]
        /\ trigger' = [d \in Dev |-> IF d \in woken THEN NoTrigger ELSE trigger[d]]
        /\ pending' = (pending \/ woken # {})
        /\ Abort(ds)
        /\ UNCHANGED nexteat

\* signal_interrupt_trigger: an input line of d went active.
InterruptTrigger(d) ==
    /\ CanCall
    /\ TriggerAll({d}, IntTrigger)
    /\ UNCHANGED <<spintimer, timetrig, clocked>>

\* interface_pre_reset, when the whole machine is reset.
PreReset(d) ==
    /\ CanCall
    /\ nextsuspend' = [nextsuspend EXCEPT ![d] = AfterReset(d)]
    /\ nexteat' = [nexteat EXCEPT ![d] = @ \/ d \in Disabled]
    /\ IF d \in Disabled \/ clocked[d] THEN Changed(d) ELSE UNCHANGED <<pending, sliceOver>>
    /\ UNCHANGED <<trigger, spintimer, timetrig, clocked>>

\* interface_clock_changed.
ClockChanged(d) ==
    /\ CanCall
    /\ clocked' = [clocked EXCEPT ![d] = ~@]
    /\ \/ clocked[d] /\ SuspendFor(d, "CLOCK", TRUE)
       \/ ~clocked[d] /\ "CLOCK" \in nextsuspend[d] /\ ResumeFrom(d, {"CLOCK"})
       \/ ~clocked[d] /\ "CLOCK" \notin nextsuspend[d]
          /\ UNCHANGED <<nextsuspend, nexteat, pending, sliceOver>>
    /\ UNCHANGED <<trigger, spintimer, timetrig>>

Request ==
    \E d \in Dev :
        \/ HaltLine(d)
        \/ ResetLine(d)
        \/ \E eatcycles \in BOOLEAN : Yield(d, eatcycles)
        \/ SpinUntilInterrupt(d)
        \/ SpinUntilTime(d)
        \/ InterruptTrigger(d)
        \/ PreReset(d)
        \/ ClockChanged(d)

\* m_spin_end_timer expires: timed_trigger_callback, between passes.
SpinEnds(d) ==
    /\ ~inPass /\ spintimer[d] # NoTrigger
    /\ TriggerAll({d}, spintimer[d])
    /\ spintimer' = [spintimer EXCEPT ![d] = NoTrigger]
    /\ UNCHANGED <<timetrig, clocked, passVars, saved, calls>>

-----------------------------------------------------------------------------
(* The scheduler.                                                          *)

\* rebuild_execute_list, for the given m_suspend.
Active(susp) == {d \in Dev : susp[d] = {}}

\* Faulty variant: the changes are done with, though the wait for the time
\* slice has just been taken back.
ApplyOnce ==
    /\ suspend' = nextsuspend
    /\ nextsuspend' = [d \in Dev |-> nextsuspend[d] \ {TimeSlice}]
    /\ eat' = nexteat
    /\ front' = Active(nextsuspend)
    /\ pending' = FALSE

\* apply_suspend_changes.
ApplySuspendChanges ==
    /\ suspend' = nextsuspend
    /\ nextsuspend' = [d \in Dev |-> nextsuspend[d] \ {TimeSlice}]
    /\ eat' = nexteat
    /\ IF suspend # nextsuspend
       THEN front' = Active(nextsuspend) /\ UNCHANGED pending
       ELSE pending' = FALSE /\ UNCHANGED front

\* timeslice: one more turn of the loop up to the next timer.
StartPass ==
    /\ ~inPass
    /\ inPass' = TRUE /\ visited' = {}
    /\ atPass' = nextsuspend
    /\ IF pending
       THEN ApplySuspendChanges
       ELSE UNCHANGED <<suspend, nextsuspend, eat, pending, front>>
    /\ UNCHANGED <<nexteat, trigger, spintimer, timetrig, clocked>>
    /\ UNCHANGED <<executing, sliceOver, saved, calls, atSlice>>

\* The next device of m_execute_list.
InTurn(d) ==
    /\ d \notin visited
    /\ d \in front \/ front \subseteq visited
    /\ \A e \in Dev \ visited : (e \in front <=> d \in front) => d <= e

\* The loop reaches a device.  It runs if nothing suspends it and a whole cycle
\* fits before the target; otherwise its time passes, or stands still.
Visit(d) ==
    /\ inPass /\ executing = Nobody /\ InTurn(d)
    /\ visited' = visited \cup {d}
    /\ \/ suspend[d] = {} /\ executing' = d
       \/ UNCHANGED executing
    /\ sliceOver' = FALSE
    /\ atSlice' = nextsuspend
    /\ UNCHANGED <<reqVars, suspend, eat, front, inPass, atPass>>
    /\ UNCHANGED <<pending, saved, calls>>

\* The device has used up its cycles.
EndSlice ==
    /\ executing # Nobody
    /\ executing' = Nobody
    /\ UNCHANGED <<reqVars, suspend, eat, front, inPass, visited>>
    /\ UNCHANGED <<pending, sliceOver, saved, calls, atPass, atSlice>>

EndPass ==
    /\ inPass /\ executing = Nobody /\ visited = Dev
    /\ inPass' = FALSE
    /\ UNCHANGED <<reqVars, suspend, eat, front, visited, executing>>
    /\ UNCHANGED <<pending, sliceOver, saved, calls, atPass, atSlice>>

-----------------------------------------------------------------------------
(* Save states, taken and loaded between passes.  m_suspend and friends are *)
(* saved, and so is m_spin_end_timer; m_suspend_changes_pending, the list   *)
(* and the static counter are not: postload rebuilds the first two.         *)

Save ==
    /\ ~inPass /\ calls < MaxCalls
    /\ saved' = [suspend |-> suspend, nextsuspend |-> nextsuspend, eat |-> eat,
                 nexteat |-> nexteat, trigger |-> trigger,
                 spintimer |-> spintimer, clocked |-> clocked]
    /\ calls' = calls + 1
    /\ UNCHANGED <<reqVars, passVars, pending, sliceOver>>

\* Faulty variants of a load: the list is not rebuilt; the spin timer is lost.
LoadOldList ==
    /\ ~inPass /\ calls < MaxCalls /\ saved # NotSaved
    /\ suspend' = saved.suspend /\ nextsuspend' = saved.nextsuspend
    /\ eat' = saved.eat /\ nexteat' = saved.nexteat
    /\ trigger' = saved.trigger /\ spintimer' = saved.spintimer
    /\ clocked' = saved.clocked
    /\ pending' = TRUE
    /\ calls' = calls + 1
    /\ UNCHANGED <<timetrig, front, inPass, visited, executing>>
    /\ UNCHANGED <<sliceOver, saved, atPass, atSlice>>
LoadOldTimer ==
    /\ ~inPass /\ calls < MaxCalls /\ saved # NotSaved
    /\ suspend' = saved.suspend /\ nextsuspend' = saved.nextsuspend
    /\ eat' = saved.eat /\ nexteat' = saved.nexteat
    /\ trigger' = saved.trigger
    /\ clocked' = saved.clocked
    /\ pending' = TRUE
    /\ front' = Active(saved.suspend)
    /\ calls' = calls + 1
    /\ UNCHANGED <<timetrig, spintimer, inPass, visited, executing>>
    /\ UNCHANGED <<sliceOver, saved, atPass, atSlice>>

Load ==
    /\ ~inPass /\ calls < MaxCalls /\ saved # NotSaved
    /\ suspend' = saved.suspend /\ nextsuspend' = saved.nextsuspend
    /\ eat' = saved.eat /\ nexteat' = saved.nexteat
    /\ trigger' = saved.trigger /\ spintimer' = saved.spintimer
    /\ clocked' = saved.clocked
    /\ pending' = TRUE
    /\ front' = Active(saved.suspend)
    /\ calls' = calls + 1
    /\ UNCHANGED <<timetrig, inPass, visited, executing>>
    /\ UNCHANGED <<sliceOver, saved, atPass, atSlice>>

-----------------------------------------------------------------------------

Slice == StartPass \/ (\E d \in Dev : Visit(d)) \/ EndSlice \/ EndPass
Next  == Request \/ (\E d \in Dev : SpinEnds(d)) \/ Slice \/ Save \/ Load

\* The machine's run loop keeps calling timeslice, every slice ends because
\* icount runs out, and timers expire.
Fairness ==
    /\ WF_vars(Slice)
    /\ \A d \in Dev : SF_vars(SpinEnds(d))

Spec == Init /\ [][Next]_vars /\ Fairness

-----------------------------------------------------------------------------
(* Properties.                                                             *)

SuspendSets == [Dev -> SUBSET Reasons]
TriggerMap  == [Dev -> 0 .. IntTrigger]
SaveStates  == [suspend : SuspendSets, nextsuspend : SuspendSets,
                eat : [Dev -> BOOLEAN], nexteat : [Dev -> BOOLEAN],
                trigger : TriggerMap, spintimer : TriggerMap,
                clocked : [Dev -> BOOLEAN]]

\* Every variable holds a value of its type.
TypeOK ==
    /\ suspend \in SuspendSets /\ nextsuspend \in SuspendSets
    /\ eat \in [Dev -> BOOLEAN] /\ nexteat \in [Dev -> BOOLEAN]
    /\ trigger \in TriggerMap /\ spintimer \in TriggerMap
    /\ timetrig \in 0 .. SpinIds - 1
    /\ clocked \in [Dev -> BOOLEAN]
    /\ pending \in BOOLEAN /\ front \subseteq Dev
    /\ inPass \in BOOLEAN /\ visited \subseteq Dev
    /\ executing \in Dev \cup {Nobody} /\ sliceOver \in BOOLEAN
    /\ saved = NotSaved \/ saved \in SaveStates
    /\ calls \in Nat
    /\ atPass \in SuspendSets /\ atSlice \in SuspendSets

\* When m_suspend_changes_pending is down there is nothing to apply: every
\* request made so far is in force.
Settled == ~pending => suspend = nextsuspend /\ eat = nexteat

\* The execute list always has exactly the devices that m_suspend lets run in
\* front, so a device that runs has moved the target before a suspended one
\* that eats its cycles is brought up to it.
ListMatchesSuspend == front = Active(suspend)

\* A pass runs the devices nobody had asked to suspend when it began, and no
\* other: a HALT or RESET asked for by one device or by a timer is in force at
\* the latest in the next pass, and a resume likewise.
PassRunsWhatWasAsked ==
    inPass => suspend = atPass /\ (executing # Nobody => atPass[executing] = {})

\* A device whose own suspension changes in its slice (its instruction halts it,
\* resets it, lets it spin or wakes it) loses the rest of that slice, whatever is
\* asked about other devices before or after: it does not run on after it has
\* suspended itself.  (What it asks about another device leaves its slice alone;
\* that the change is not forgotten is what PassRunsWhatWasAsked says.)
RequestEndsSlice ==
    executing # Nobody /\ nextsuspend[executing] # atSlice[executing] => sliceOver

\* A device spinning until a time has the timer that will wake it: no other
\* request, reset or save state leaves it waiting for an id nobody fires.
SpinTimerArmed ==
    \A d \in Dev : "TRIGGER" \in nextsuspend[d] /\ trigger[d] # IntTrigger
                    => spintimer[d] = trigger[d]

\* A yielding or spinning device is "waiting for the next timeslice", not
\* longer: it is let go.
YieldEnds ==
    \A d \in Dev : TimeSlice \in suspend[d] ~> TimeSlice \notin suspend[d]

\* A device that nothing holds any more runs again (unless held anew).
ResumeWorks ==
    \A d \in Dev : nextsuspend[d] = {} ~> suspend[d] = {} \/ nextsuspend[d] # {}

\* spin_until_time ends.
SpinningEnds ==
    \A d \in Dev : ("TRIGGER" \in nextsuspend[d] /\ trigger[d] \in 1 .. SpinIds)
                    ~> ("TRIGGER" \notin nextsuspend[d] \/ trigger[d] = IntTrigger)
=============================================================================
