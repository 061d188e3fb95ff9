------------------------- MODULE ExecSuspend_proofs -------------------------
(***************************************************************************)
(* For any number of devices, trigger ids and requests: type correctness,  *)
(* and that the scheduler's view of who is suspended is never wrong.       *)
(***************************************************************************)
EXTENDS ExecSuspend, TLAPS

(* Type correctness.                                                       *)

USE DevAssumption, SwitchAssumption, BoundAssumption

\* The initial state is well typed.
LEMMA TypeInit == Init => TypeOK
<1> SUFFICES ASSUME Init PROVE TypeOK
    OBVIOUS
<1> USE DEF Init, Nobody, NoTrigger
<1>1. suspend \in SuspendSets /\ nextsuspend \in SuspendSets
    BY DEF SuspendSets, Reasons
<1>2. /\ eat \in [Dev -> BOOLEAN] /\ nexteat \in [Dev -> BOOLEAN]
      /\ clocked \in [Dev -> BOOLEAN]
    OBVIOUS
<1>3. trigger \in TriggerMap /\ spintimer \in TriggerMap
    BY DEF TriggerMap, IntTrigger
<1>4. timetrig \in 0 .. SpinIds - 1
    OBVIOUS
<1>5. atPass \in SuspendSets /\ atSlice \in SuspendSets
    BY <1>1
<1>6. QED
    BY <1>1, <1>2, <1>3, <1>4, <1>5 DEF TypeOK

\* What a request writes is well typed.
RequestTypes ==
    /\ nextsuspend' \in SuspendSets /\ nexteat' \in [Dev -> BOOLEAN]
    /\ pending' \in BOOLEAN /\ sliceOver' \in BOOLEAN

\* suspend writes such values, whatever the reason.
LEMMA SuspendTypes ==
    ASSUME TypeOK, NEW d \in Dev, NEW reason \in Reasons, NEW eatcycles \in BOOLEAN,
           SuspendFor(d, reason, eatcycles)
    PROVE  RequestTypes
BY DEF TypeOK, SuspendFor, Changed, Abort, RequestTypes, SuspendSets

\* The same for a resumption.
LEMMA ResumeTypes ==
    ASSUME TypeOK, NEW d \in Dev, NEW reasons, ResumeFrom(d, reasons)
    PROVE  RequestTypes
BY DEF TypeOK, ResumeFrom, Changed, Abort, RequestTypes, SuspendSets

\* The same for a trigger, which also forgets the ids it has served.
LEMMA TriggerTypes ==
    ASSUME TypeOK, NEW ds, NEW id, TriggerAll(ds, id)
    PROVE  RequestTypes /\ trigger' \in TriggerMap
<1>1. nextsuspend' \in SuspendSets
    BY DEF TypeOK, TriggerAll, SuspendSets
<1>2. trigger' \in TriggerMap
    BY DEF TypeOK, TriggerAll, TriggerMap, NoTrigger, IntTrigger
<1>3. nexteat' \in [Dev -> BOOLEAN]
    BY DEF TypeOK, TriggerAll
<1>4. pending' \in BOOLEAN
    BY Zenon DEF TypeOK, TriggerAll
<1>5. sliceOver' \in BOOLEAN
    BY DEF TypeOK, TriggerAll, Abort
<1>6. QED
    BY <1>1, <1>2, <1>3, <1>4, <1>5 DEF RequestTypes

\* What a request leaves alone stays well typed.
OtherTypes ==
    /\ suspend \in SuspendSets /\ eat \in [Dev -> BOOLEAN]
    /\ front \subseteq Dev
    /\ inPass \in BOOLEAN /\ visited \subseteq Dev
    /\ executing \in Dev \cup {Nobody}
    /\ saved = NotSaved \/ saved \in SaveStates
    /\ atPass \in SuspendSets /\ atSlice \in SuspendSets

\* A reset writes such values too.
LEMMA ResetTypes ==
    ASSUME TypeOK, NEW d \in Dev, NEW reasons \in SUBSET Reasons,
           nextsuspend' = [nextsuspend EXCEPT ![d] = AfterReset(d) \ reasons],
           nexteat' = [nexteat EXCEPT ![d] = @ \/ d \in Disabled],
           Changed(d) \/ UNCHANGED <<pending, sliceOver>>
    PROVE  RequestTypes
<1>1. AfterReset(d) \in SUBSET Reasons
    BY DEF TypeOK, SuspendSets, AfterReset, Reasons
<1>2. nextsuspend' \in SuspendSets
    BY <1>1 DEF TypeOK, SuspendSets
<1>3. nexteat' \in [Dev -> BOOLEAN]
    BY DEF TypeOK
<1>4. pending' \in BOOLEAN /\ sliceOver' \in BOOLEAN
    BY DEF TypeOK, Changed, Abort
<1>5. QED
    BY <1>2, <1>3, <1>4 DEF RequestTypes

\* Every call keeps them.
LEMMA CallTypes ==
    ASSUME TypeOK, CanCall
    PROVE  OtherTypes' /\ calls' \in Nat
BY DEF TypeOK, CanCall, OtherTypes, passVars

\* Every step leaves every variable in its type.
LEMMA TypeStep == TypeOK /\ [Next]_vars => TypeOK'
<1> SUFFICES ASSUME TypeOK, [Next]_vars PROVE TypeOK'
    OBVIOUS
<1>1. ASSUME NEW d \in Dev, HaltLine(d) PROVE TypeOK'
    <2>1. RequestTypes
        BY <1>1, SuspendTypes, ResumeTypes DEF HaltLine, Reasons
    <2>2. QED
        BY <1>1, <2>1, CallTypes DEF HaltLine, RequestTypes, OtherTypes, TypeOK
<1>2. ASSUME NEW d \in Dev, NEW eatcycles \in BOOLEAN, Yield(d, eatcycles)
      PROVE  TypeOK'
    <2>1. RequestTypes
        BY <1>2, SuspendTypes DEF Yield, Reasons
    <2>2. QED
        BY <1>2, <2>1, CallTypes DEF Yield, RequestTypes, OtherTypes, TypeOK
<1>3. ASSUME NEW d \in Dev, SpinUntilInterrupt(d) PROVE TypeOK'
    <2>1. RequestTypes
        BY <1>3, SuspendTypes DEF SpinUntilInterrupt, Reasons
    <2>2. trigger' \in TriggerMap
        BY <1>3 DEF SpinUntilInterrupt, TypeOK, TriggerMap, IntTrigger
    <2>3. QED
        BY <1>3, <2>1, <2>2, CallTypes
        DEF SpinUntilInterrupt, RequestTypes, OtherTypes, TypeOK
<1>4. ASSUME NEW d \in Dev, SpinUntilTime(d) PROVE TypeOK'
    <2>1. RequestTypes
        BY <1>4, SuspendTypes DEF SpinUntilTime, Reasons
    <2>2. trigger' \in TriggerMap /\ spintimer' \in TriggerMap
        BY <1>4 DEF SpinUntilTime, TypeOK, TriggerMap, IntTrigger
    <2>3. timetrig' \in 0 .. SpinIds - 1
        BY <1>4 DEF SpinUntilTime, TypeOK
    <2>4. QED
        BY <1>4, <2>1, <2>2, <2>3, CallTypes
        DEF SpinUntilTime, RequestTypes, OtherTypes, TypeOK
<1>5. ASSUME NEW d \in Dev, InterruptTrigger(d) PROVE TypeOK'
    BY <1>5, TriggerTypes, CallTypes
    DEF InterruptTrigger, RequestTypes, OtherTypes, TypeOK
<1>6. ASSUME NEW d \in Dev, PreReset(d) PROVE TypeOK'
    <2>0. nextsuspend' = [nextsuspend EXCEPT ![d] = AfterReset(d) \ {}]
        BY <1>6 DEF PreReset
    <2>1. Changed(d) \/ UNCHANGED <<pending, sliceOver>>
        BY <1>6 DEF PreReset
    <2>2. RequestTypes
        <3>1. {} \in SUBSET Reasons
            OBVIOUS
        <3>2. nexteat' = [nexteat EXCEPT ![d] = @ \/ d \in Disabled]
            BY <1>6 DEF PreReset
        <3>3. QED
            BY <2>0, <2>1, <3>1, <3>2, ResetTypes, Zenon
    <2>3. QED
        BY <1>6, <2>2, CallTypes DEF PreReset, RequestTypes, OtherTypes, TypeOK
<1>6b. ASSUME NEW d \in Dev, ResetLine(d) PROVE TypeOK'
    <2>1. RequestTypes
        BY <1>6b, SuspendTypes, ResetTypes DEF ResetLine, Reasons
    <2>2. QED
        BY <1>6b, <2>1, CallTypes DEF ResetLine, RequestTypes, OtherTypes, TypeOK
<1>7. ASSUME NEW d \in Dev, ClockChanged(d) PROVE TypeOK'
    <2>1. RequestTypes
        BY <1>7, SuspendTypes, ResumeTypes
        DEF ClockChanged, Reasons, RequestTypes, TypeOK
    <2>2. clocked' \in [Dev -> BOOLEAN]
        BY <1>7 DEF ClockChanged, TypeOK
    <2>3. QED
        BY <1>7, <2>1, <2>2, CallTypes
        DEF ClockChanged, RequestTypes, OtherTypes, TypeOK
<1>8. ASSUME NEW d \in Dev, SpinEnds(d) PROVE TypeOK'
    <2>1. RequestTypes /\ trigger' \in TriggerMap
        BY <1>8, TriggerTypes DEF SpinEnds
    <2>2. spintimer' \in TriggerMap
        BY <1>8 DEF SpinEnds, TypeOK, TriggerMap, NoTrigger, IntTrigger
    <2>3. QED
        BY <1>8, <2>1, <2>2 DEF SpinEnds, RequestTypes, passVars, TypeOK
<1>9. CASE StartPass
    <2>1. nextsuspend' \in SuspendSets
        BY <1>9 DEF StartPass, ApplySuspendChanges, TypeOK, SuspendSets
    <2>2. QED
        BY <1>9, <2>1 DEF StartPass, ApplySuspendChanges, Active, TypeOK
<1>10. ASSUME NEW d \in Dev, Visit(d) PROVE TypeOK'
    BY <1>10 DEF Visit, InTurn, reqVars, TypeOK
<1>11. CASE EndSlice
    BY <1>11 DEF EndSlice, reqVars, TypeOK
<1>12. CASE EndPass
    BY <1>12 DEF EndPass, reqVars, TypeOK
<1>13. CASE Save
    BY <1>13 DEF Save, SaveStates, reqVars, passVars, TypeOK
<1>14. CASE Load
    BY <1>14 DEF Load, SaveStates, Active, TypeOK
<1>15. CASE UNCHANGED vars
    BY <1>15 DEF vars, reqVars, passVars, TypeOK
<1>16. QED
    BY <1>1, <1>2, <1>3, <1>4, <1>5, <1>6, <1>6b, <1>7, <1>8, <1>9, <1>10, <1>11,
       <1>12, <1>13, <1>14, <1>15 DEF Next, Request, Slice

\* Every reachable state is well typed.
THEOREM TypeCorrect == Spec => []TypeOK
BY TypeInit, TypeStep, PTL DEF Spec

-----------------------------------------------------------------------------
(* What every request has in common.                                       *)

\* A request: the calls, and the timer of spin_until_time.
Asked == Request \/ \E d \in Dev : SpinEnds(d)

\* No request gives a slice its cycles back, and one that edits m_nextsuspend of
\* the executing device takes them.
SliceCut ==
    /\ sliceOver => sliceOver'
    /\ executing \in Dev =>
          sliceOver' \/ nextsuspend'[executing] = nextsuspend[executing]

\* It leaves the scheduler's view alone, and raises pending if it edits anything.
RequestShape ==
    /\ UNCHANGED <<passVars, saved>>
    /\ pending' = TRUE \/ UNCHANGED <<pending, nextsuspend, nexteat>>
    /\ SliceCut

\* A request for one device leaves the others as they are.
LEMMA OneCut ==
    ASSUME TypeOK, NEW d \in Dev, Abort({d}), NEW new,
           nextsuspend' = [nextsuspend EXCEPT ![d] = new]
    PROVE  SliceCut
BY DEF TypeOK, SuspendSets, Abort, SliceCut

\* So do those that go through suspend and resume.
LEMMA SuspendCut ==
    ASSUME TypeOK, NEW d \in Dev, NEW reason, NEW eatcycles,
           SuspendFor(d, reason, eatcycles)
    PROVE  pending' = TRUE /\ SliceCut
BY OneCut DEF SuspendFor, Changed
LEMMA ResumeCut ==
    ASSUME TypeOK, NEW d \in Dev, NEW reasons, ResumeFrom(d, reasons)
    PROVE  pending' = TRUE /\ SliceCut
BY OneCut DEF ResumeFrom, Changed

\* A trigger that wakes nobody edits nothing; one that does, raises pending.
LEMMA TriggerShape ==
    ASSUME TypeOK, NEW ds, NEW id, TriggerAll(ds, id)
    PROVE  /\ pending' = TRUE \/ UNCHANGED <<pending, nextsuspend, nexteat>>
           /\ SliceCut
<1>0. SliceCut
    BY DEF TriggerAll, TypeOK, SuspendSets, Abort, SliceCut
<1>1. CASE ds \cap Waiting(id) = {}
    <2>1. nextsuspend' = [d \in Dev |-> nextsuspend[d]]
        BY <1>1 DEF TriggerAll
    <2>2. nextsuspend' = nextsuspend
        BY <2>1 DEF TypeOK, SuspendSets
    <2>3. pending' = pending
        BY Zenon, <1>1 DEF TriggerAll, TypeOK
    <2>4. QED
        BY <1>0, <2>2, <2>3 DEF TriggerAll
<1>2. CASE ds \cap Waiting(id) # {}
    <2>1. pending' = TRUE
        BY Zenon, <1>2 DEF TriggerAll
    <2>2. QED
        BY <1>0, <2>1
<1>3. QED
    BY <1>1, <1>2

\* Every request has that shape.
LEMMA AskedShape == TypeOK /\ Asked => RequestShape
<1> SUFFICES ASSUME TypeOK, Asked PROVE RequestShape
    OBVIOUS
<1> USE DEF RequestShape
<1>1. ASSUME NEW d \in Dev, HaltLine(d) \/ ResetLine(d) PROVE RequestShape
    <2>1. pending' = TRUE /\ SliceCut
        BY <1>1, SuspendCut, ResumeCut, OneCut DEF HaltLine, ResetLine, Changed
    <2>2. QED
        BY <1>1, <2>1 DEF HaltLine, ResetLine, CanCall
<1>2. ASSUME NEW d \in Dev, NEW eatcycles \in BOOLEAN, Yield(d, eatcycles)
      PROVE  RequestShape
    BY <1>2, SuspendCut DEF Yield, CanCall
<1>3. ASSUME NEW d \in Dev, SpinUntilInterrupt(d) PROVE RequestShape
    BY <1>3, SuspendCut DEF SpinUntilInterrupt, CanCall
<1>4. ASSUME NEW d \in Dev, SpinUntilTime(d) PROVE RequestShape
    BY <1>4, SuspendCut DEF SpinUntilTime, CanCall
<1>5. ASSUME NEW d \in Dev, InterruptTrigger(d) PROVE RequestShape
    BY <1>5, TriggerShape DEF InterruptTrigger, CanCall
<1>6. ASSUME NEW d \in Dev, PreReset(d) PROVE RequestShape
    <2>1. CASE d \in Disabled \/ clocked[d]
        BY <1>6, <2>1, OneCut DEF PreReset, CanCall, Changed
    <2>2. CASE d \notin Disabled /\ ~clocked[d]
        <3>1. UNCHANGED <<pending, sliceOver>>
            BY <1>6, <2>2 DEF PreReset
        <3>2. nextsuspend' = [nextsuspend EXCEPT ![d] = nextsuspend[d]]
            BY <1>6, <2>2 DEF PreReset, AfterReset
        <3>3. nextsuspend' = nextsuspend
            BY <3>2 DEF TypeOK, SuspendSets
        <3>4. nexteat' = [nexteat EXCEPT ![d] = nexteat[d]]
            BY <1>6, <2>2 DEF PreReset, TypeOK
        <3>5. nexteat' = nexteat
            BY <3>4 DEF TypeOK
        <3>6. QED
            BY <1>6, <3>1, <3>3, <3>5 DEF PreReset, CanCall, SliceCut
    <2>3. QED
        BY <2>1, <2>2
<1>7. ASSUME NEW d \in Dev, ClockChanged(d) PROVE RequestShape
    <2>1. \/ pending' = TRUE /\ SliceCut
          \/ UNCHANGED <<nextsuspend, nexteat, pending, sliceOver>>
        BY <1>7, SuspendCut, ResumeCut DEF ClockChanged
    <2>2. UNCHANGED <<passVars, saved>>
        BY <1>7 DEF ClockChanged, CanCall
    <2>3. QED
        BY <2>1, <2>2 DEF SliceCut
<1>8. ASSUME NEW d \in Dev, SpinEnds(d) PROVE RequestShape
    BY <1>8, TriggerShape DEF SpinEnds
<1>9. QED
    BY <1>1, <1>2, <1>3, <1>4, <1>5, <1>6, <1>7, <1>8 DEF Asked, Request

-----------------------------------------------------------------------------
(* The execute list, and the end of a slice.                               *)

\* Only a device that nothing suspends executes, and only during a pass.
ExecutingRuns == executing # Nobody => inPass /\ suspend[executing] = {}

ListInv == TypeOK /\ ExecutingRuns /\ ListMatchesSuspend /\ RequestEndsSlice

\* It holds before the first slice.
LEMMA ListInit == Init => ListInv
<1> SUFFICES ASSUME Init PROVE ListInv
    OBVIOUS
<1>1. ExecutingRuns /\ RequestEndsSlice
    BY DEF Init, ExecutingRuns, RequestEndsSlice
<1>2. ListMatchesSuspend
    BY DEF Init, ListMatchesSuspend, Active
<1>3. QED
    BY <1>1, <1>2, TypeInit DEF ListInv

\* Every step keeps it: requests because they end the slice of the device whose
\* suspension they change, the scheduler's own steps because it rebuilds the list
\* whenever m_suspend changes.
LEMMA ListStep == ListInv /\ [Next]_vars => ListInv'
<1> SUFFICES ASSUME ListInv, [Next]_vars PROVE ListInv'
    OBVIOUS
<1> USE DEF ListInv
<1>0. TypeOK'
    BY TypeStep
<1>1. CASE Asked
    <2>1. RequestShape
        BY <1>1, AskedShape
    <2>2. UNCHANGED <<suspend, front, inPass, executing, atSlice>>
        BY <2>1 DEF RequestShape, passVars
    <2>3. ExecutingRuns' /\ ListMatchesSuspend'
        BY <2>2 DEF ExecutingRuns, ListMatchesSuspend, Active
    <2>4. RequestEndsSlice'
        <3>1. executing \in Dev \cup {Nobody}
            BY DEF TypeOK
        <3>2. QED
            BY Zenon, <2>1, <2>2, <3>1 DEF RequestShape, SliceCut, RequestEndsSlice
    <2>5. QED
        BY <1>0, <2>3, <2>4
<1>2. CASE StartPass
    <2>1. executing = Nobody /\ executing' = Nobody
        BY <1>2 DEF StartPass, ExecutingRuns
    <2>2. ListMatchesSuspend'
        BY <1>2 DEF StartPass, ApplySuspendChanges, ListMatchesSuspend, Active
    <2>3. QED
        BY <1>0, <2>1, <2>2 DEF ExecutingRuns, RequestEndsSlice
<1>3. ASSUME NEW d \in Dev, Visit(d) PROVE ListInv'
    <2>1. ListMatchesSuspend'
        BY <1>3 DEF Visit, ListMatchesSuspend, Active
    <2>2. ExecutingRuns'
        BY <1>3 DEF Visit, ExecutingRuns, Nobody
    <2>3. RequestEndsSlice'
        BY <1>3 DEF Visit, RequestEndsSlice, reqVars
    <2>4. QED
        BY <1>0, <2>1, <2>2, <2>3
<1>4. CASE EndSlice \/ EndPass \/ Save
    BY <1>0, <1>4
    DEF EndSlice, EndPass, Save, ExecutingRuns, ListMatchesSuspend, Active,
        RequestEndsSlice, reqVars, passVars
<1>5. CASE Load
    <2>1. executing = Nobody /\ executing' = Nobody
        BY <1>5 DEF Load, ExecutingRuns
    <2>2. ListMatchesSuspend'
        BY <1>5 DEF Load, ListMatchesSuspend, Active
    <2>3. QED
        BY <1>0, <2>1, <2>2 DEF ExecutingRuns, RequestEndsSlice
<1>6. CASE UNCHANGED vars
    BY <1>0, <1>6 DEF vars, reqVars, passVars, ExecutingRuns,
       ListMatchesSuspend, Active, RequestEndsSlice
<1>7. QED
    BY <1>1, <1>2, <1>3, <1>4, <1>5, <1>6 DEF Next, Slice, Asked

\* The execute list never disagrees with m_suspend, for any number of devices
\* and whatever is asked, saved and loaded.
THEOREM ListIsRight == Spec => []ListMatchesSuspend
<1>1. ListInv => ListMatchesSuspend
    BY DEF ListInv
<1>2. QED
    BY <1>1, ListInit, ListStep, PTL DEF Spec

\* A device whose own suspension changes in its slice has lost the rest of it.
THEOREM SlicesEnd == Spec => []RequestEndsSlice
<1>1. ListInv => RequestEndsSlice
    BY DEF ListInv
<1>2. QED
    BY <1>1, ListInit, ListStep, PTL DEF Spec

-----------------------------------------------------------------------------
(* Changes are applied in time, as long as a device's yield and spin are    *)
(* called by that device only.                                              *)

\* m_suspend does not change under the loop over the devices.
PassIsSteady == inPass => suspend = atPass

\* A time slice's wait is never asked for while it is in force, so applying the
\* changes always sees it as one.
YieldIsNew(susp, next) ==
    \A d \in Dev : ~(TimeSlice \in susp[d] /\ TimeSlice \in next[d])

PassInv ==
    /\ ListInv
    /\ PassIsSteady
    /\ Settled
    /\ YieldIsNew(suspend, nextsuspend)
    /\ saved # NotSaved => YieldIsNew(saved.suspend, saved.nextsuspend)

\* It holds before the first slice.
LEMMA PassInit == Init => PassInv
<1> SUFFICES ASSUME Init PROVE PassInv
    OBVIOUS
<1>1. PassIsSteady /\ Settled /\ saved = NotSaved
    BY DEF Init, PassIsSteady, Settled
<1>2. YieldIsNew(suspend, nextsuspend)
    BY DEF Init, YieldIsNew
<1>3. QED
    BY <1>1, <1>2, ListInit DEF PassInv

\* A wait for the next time slice is asked for by the executing device only.
LEMMA YieldersExecute ==
    ASSUME ListInv, ~OthersYield, Asked
    PROVE  \A e \in Dev : TimeSlice \in nextsuspend'[e]
                            => TimeSlice \in nextsuspend[e] \/ e = executing
<1> SUFFICES ASSUME NEW e \in Dev, TimeSlice \in nextsuspend'[e]
             PROVE  TimeSlice \in nextsuspend[e] \/ e = executing
    OBVIOUS
<1> USE DEF TimeSlice
<1>0. nextsuspend \in SuspendSets
    BY DEF ListInv, TypeOK
<1>1. ASSUME NEW d \in Dev, HaltLine(d) \/ ResetLine(d)
      PROVE  TimeSlice \in nextsuspend[e]
    BY <1>0, <1>1
    DEF HaltLine, ResetLine, AfterReset, SuspendFor, ResumeFrom, SuspendSets
<1>2. ASSUME NEW d \in Dev, NEW eatcycles \in BOOLEAN, Yield(d, eatcycles)
      PROVE  TimeSlice \in nextsuspend[e] \/ e = executing
    BY <1>0, <1>2 DEF Yield, SuspendFor, SuspendSets
<1>3. ASSUME NEW d \in Dev, SpinUntilInterrupt(d) \/ SpinUntilTime(d)
      PROVE  TimeSlice \in nextsuspend[e]
    BY <1>0, <1>3 DEF SpinUntilInterrupt, SpinUntilTime, SuspendFor, SuspendSets
<1>4. ASSUME NEW d \in Dev, InterruptTrigger(d) \/ SpinEnds(d)
      PROVE  TimeSlice \in nextsuspend[e]
    BY <1>0, <1>4 DEF InterruptTrigger, SpinEnds, TriggerAll, SuspendSets
<1>5. ASSUME NEW d \in Dev, PreReset(d)
      PROVE  TimeSlice \in nextsuspend[e]
    BY <1>0, <1>5 DEF PreReset, AfterReset, SuspendSets
<1>6. ASSUME NEW d \in Dev, ClockChanged(d)
      PROVE  TimeSlice \in nextsuspend[e]
    BY <1>0, <1>6 DEF ClockChanged, SuspendFor, ResumeFrom, SuspendSets
<1>7. QED
    BY <1>1, <1>2, <1>3, <1>4, <1>5, <1>6 DEF Asked, Request

\* Applying the changes (or having none to apply) puts everything asked for into
\* force.
LEMMA ApplyStep ==
    ASSUME PassInv, StartPass
    PROVE  /\ suspend' = nextsuspend /\ eat' = nexteat
           /\ Settled' /\ YieldIsNew(suspend, nextsuspend)'
<1> USE DEF PassInv
<1>0. /\ nextsuspend \in SuspendSets
      /\ suspend \in SuspendSets
    BY DEF ListInv, TypeOK
<1>1. CASE ~pending
    BY <1>1 DEF StartPass, Settled
<1>2. CASE pending
    <2>1. ApplySuspendChanges /\ nexteat' = nexteat
        BY <1>2 DEF StartPass
    <2>2. suspend' = nextsuspend /\ eat' = nexteat
        BY <2>1 DEF ApplySuspendChanges
    <2>3. \A d \in Dev : TimeSlice \notin nextsuspend'[d]
        BY <2>1 DEF ApplySuspendChanges
    <2>4. ASSUME ~pending' PROVE nextsuspend' = nextsuspend
        <3>1. suspend = nextsuspend
            BY <1>2, <2>1, <2>4 DEF ApplySuspendChanges
        <3>2. \A d \in Dev : TimeSlice \notin nextsuspend[d]
            BY <3>1 DEF YieldIsNew
        <3>3. \A d \in Dev : nextsuspend'[d] = nextsuspend[d]
            BY <2>1, <3>2 DEF ApplySuspendChanges
        <3>4. nextsuspend' = [d \in Dev |-> nextsuspend'[d]]
            BY <2>1 DEF ApplySuspendChanges
        <3>5. nextsuspend = [d \in Dev |-> nextsuspend[d]]
            BY <1>0 DEF SuspendSets
        <3>6. QED
            BY <3>3, <3>4, <3>5
    <2>5. QED
        BY <2>1, <2>2, <2>3, <2>4 DEF Settled, YieldIsNew
<1>3. QED
    BY <1>1, <1>2

\* Every step keeps the invariant.
LEMMA PassStep == ~OthersYield /\ PassInv /\ [Next]_vars => PassInv'
<1> SUFFICES ASSUME ~OthersYield, PassInv, [Next]_vars PROVE PassInv'
    OBVIOUS
<1>0. ListInv /\ ListInv'
    BY ListStep DEF PassInv
<1>1. CASE Asked
    <2>1. RequestShape
        BY <1>0, <1>1, AskedShape DEF ListInv
    <2>2. UNCHANGED <<suspend, eat, inPass, executing, atPass, saved>>
        BY <2>1 DEF RequestShape, passVars
    <2>3. Settled'
        BY <2>1, <2>2 DEF RequestShape, PassInv, Settled
    <2>4. YieldIsNew(suspend, nextsuspend)'
        <3>1. ASSUME NEW d \in Dev, TimeSlice \in nextsuspend'[d]
              PROVE  TimeSlice \notin suspend'[d]
            <4>1. TimeSlice \in nextsuspend[d] \/ d = executing
                BY <1>0, <1>1, <3>1, YieldersExecute
            <4>2. d = executing => suspend[d] = {}
                BY <1>0, DevAssumption DEF ListInv, ExecutingRuns, Nobody
            <4>3. QED
                BY <2>2, <4>1, <4>2 DEF PassInv, YieldIsNew
        <3>2. QED
            BY <3>1 DEF YieldIsNew
    <2>5. QED
        BY <1>0, <2>2, <2>3, <2>4 DEF PassInv, PassIsSteady, YieldIsNew
<1>2. CASE StartPass
    <2>1. suspend' = nextsuspend /\ Settled' /\ YieldIsNew(suspend, nextsuspend)'
        BY <1>2, ApplyStep
    <2>2. PassIsSteady' /\ saved' = saved
        BY <1>2, <2>1 DEF StartPass, PassIsSteady
    <2>3. QED
        BY <1>0, <2>1, <2>2 DEF PassInv, YieldIsNew
<1>3. ASSUME NEW d \in Dev, Visit(d) PROVE PassInv'
    BY <1>0, <1>3 DEF Visit, PassInv, PassIsSteady, Settled, YieldIsNew, reqVars
<1>4. CASE EndSlice \/ EndPass
    BY <1>0, <1>4
    DEF EndSlice, EndPass, PassInv, PassIsSteady, Settled, YieldIsNew, reqVars
<1>5. CASE Save
    BY <1>0, <1>5
    DEF Save, PassInv, PassIsSteady, Settled, YieldIsNew, reqVars, passVars
<1>6. CASE Load
    BY <1>0, <1>6 DEF Load, PassInv, PassIsSteady, Settled, YieldIsNew
<1>7. CASE UNCHANGED vars
    BY <1>0, <1>7
    DEF vars, reqVars, passVars, PassInv, PassIsSteady, Settled, YieldIsNew
<1>8. QED
    BY <1>1, <1>2, <1>3, <1>4, <1>5, <1>6, <1>7 DEF Next, Slice, Asked

\* When no change is pending, what was asked for is in force; this needs every
\* device to call its own yield and spin, as the comment on YieldIsNew says.
THEOREM SettledIsRight ==
    ASSUME ~OthersYield
    PROVE  Spec => []Settled
<1>1. PassInv => Settled
    BY DEF PassInv
<1>2. PassInv /\ [Next]_vars => PassInv'
    BY PassStep
<1>3. QED
    BY <1>1, <1>2, PassInit, PTL DEF Spec

\* A pass runs exactly the devices nobody had asked to suspend when it began.
THEOREM PassIsRight ==
    ASSUME ~OthersYield
    PROVE  Spec => []PassRunsWhatWasAsked
<1>1. PassInv => PassRunsWhatWasAsked
    BY DEF PassInv, ListInv, ExecutingRuns, PassIsSteady, PassRunsWhatWasAsked
<1>2. PassInv /\ [Next]_vars => PassInv'
    BY PassStep
<1>3. QED
    BY <1>1, <1>2, PassInit, PTL DEF Spec

-----------------------------------------------------------------------------
(* A device that spins until a time is woken.                              *)

\* d waits for a time, but not for the one its timer will fire.
Stranded(next, trig, timer, d) ==
    "TRIGGER" \in next[d] /\ trig[d] # IntTrigger /\ timer[d] # trig[d]

\* The wait and the timer go together, in the save state too.
SpinInv ==
    /\ TypeOK
    /\ \A d \in Dev : ~Stranded(nextsuspend, trigger, spintimer, d)
    /\ saved # NotSaved =>
          \A d \in Dev : ~Stranded(saved.nextsuspend, saved.trigger, saved.spintimer, d)

\* It holds before the first slice: nobody waits.
LEMMA SpinInit == Init => SpinInv
BY TypeInit DEF Init, SpinInv, Stranded

\* No step separates them.
LEMMA SpinStep == SpinInv /\ [Next]_vars => SpinInv'
<1> SUFFICES ASSUME SpinInv, [Next]_vars PROVE SpinInv'
    OBVIOUS
<1> DEFINE Woken(d) == ~Stranded(nextsuspend, trigger, spintimer, d)
<1>0. TypeOK /\ TypeOK' /\ nextsuspend \in SuspendSets
        /\ trigger \in TriggerMap /\ spintimer \in TriggerMap
    BY TypeStep DEF SpinInv, TypeOK
<1>1. ASSUME \A e \in Dev : Woken(e)', saved' = saved PROVE SpinInv'
    BY <1>0, <1>1 DEF SpinInv, Stranded
<1>2. CASE Request
    <2>1. saved' = saved
        BY <1>0, <1>2, AskedShape DEF Asked, RequestShape
    <2>2. SUFFICES ASSUME NEW e \in Dev PROVE Woken(e)'
        BY <1>1, <2>1
    <2>3. Woken(e)
        BY DEF SpinInv
    <2> HIDE DEF SpinInv
    <2>4. ASSUME NEW d \in Dev, HaltLine(d) \/ ResetLine(d) PROVE Woken(e)'
        BY <1>0, <2>3, <2>4
        DEF HaltLine, ResetLine, AfterReset, SuspendFor, ResumeFrom, Stranded, SuspendSets
    <2>5. ASSUME NEW d \in Dev, NEW eatcycles \in BOOLEAN, Yield(d, eatcycles)
          PROVE  Woken(e)'
        BY <1>0, <2>3, <2>5 DEF Yield, SuspendFor, Stranded, SuspendSets, TimeSlice
    <2>6. ASSUME NEW d \in Dev, SpinUntilInterrupt(d) PROVE Woken(e)'
        BY <1>0, <2>3, <2>6
        DEF SpinUntilInterrupt, SuspendFor, Stranded, SuspendSets, TriggerMap
    <2>7. ASSUME NEW d \in Dev, SpinUntilTime(d) PROVE Woken(e)'
        BY <1>0, <2>3, <2>7
        DEF SpinUntilTime, SuspendFor, Stranded, SuspendSets, TriggerMap
    <2>8. ASSUME NEW d \in Dev, InterruptTrigger(d) PROVE Woken(e)'
        BY <1>0, <2>3, <2>8
        DEF InterruptTrigger, TriggerAll, Waiting, Stranded, SuspendSets
    <2>9. ASSUME NEW d \in Dev, PreReset(d) PROVE Woken(e)'
        BY <1>0, <2>3, <2>9 DEF PreReset, AfterReset, Stranded, SuspendSets
    <2>10. ASSUME NEW d \in Dev, ClockChanged(d) PROVE Woken(e)'
        BY <1>0, <2>3, <2>10
        DEF ClockChanged, SuspendFor, ResumeFrom, Stranded, SuspendSets
    <2>11. QED
        BY <1>2, <2>4, <2>5, <2>6, <2>7, <2>8, <2>9, <2>10 DEF Request
<1>3. ASSUME NEW d \in Dev, SpinEnds(d) PROVE SpinInv'
    <2>1. ASSUME NEW e \in Dev PROVE Woken(e)'
        <3>1. Woken(e)
            BY DEF SpinInv
        <3>2. QED
            BY <1>0, <1>3, <3>1
            DEF SpinEnds, TriggerAll, Waiting, Stranded, SuspendSets, TriggerMap
    <2>2. QED
        BY <1>1, <1>3, <2>1 DEF SpinEnds
<1>4. CASE StartPass
    <2>1. ASSUME NEW e \in Dev PROVE Woken(e)'
        BY <1>0, <1>4
        DEF StartPass, ApplySuspendChanges, SpinInv, Stranded, SuspendSets
    <2>2. QED
        BY <1>1, <1>4, <2>1 DEF StartPass
<1>5. ASSUME NEW d \in Dev, Visit(d) PROVE SpinInv'
    BY <1>0, <1>5 DEF Visit, SpinInv, Stranded, reqVars
<1>6. CASE EndSlice \/ EndPass
    BY <1>0, <1>6 DEF EndSlice, EndPass, SpinInv, Stranded, reqVars
<1>7. CASE Save
    BY <1>0, <1>7 DEF Save, SpinInv, Stranded, reqVars
<1>8. CASE Load
    BY <1>0, <1>8 DEF Load, SpinInv, Stranded
<1>9. CASE UNCHANGED vars
    BY <1>0, <1>9 DEF vars, reqVars, SpinInv, Stranded
<1>10. QED
    BY <1>2, <1>3, <1>4, <1>5, <1>6, <1>7, <1>8, <1>9 DEF Next, Slice

\* Whatever else happens to a device that spins until a time, its timer is armed
\* with the id it waits for.
THEOREM SpinIsRight == Spec => []SpinTimerArmed
<1>1. SpinInv => SpinTimerArmed
    BY DEF SpinInv, SpinTimerArmed, Stranded
<1>2. QED
    BY <1>1, SpinInit, SpinStep, PTL DEF Spec
=============================================================================
