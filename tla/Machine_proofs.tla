--------------------------- MODULE Machine_proofs ---------------------------
(***************************************************************************)
(* Saves and loads keep the input lines of a CPU whole: proofs for any     *)
(* number of lines and queue size, about the safety part of Machine, and   *)
(* of MachineRewind where its rewinder asks can_save as well.              *)
(***************************************************************************)
EXTENDS MachineRewind, TLAPS

-----------------------------------------------------------------------------
(* The input lines by themselves.                                          *)

\* What the line was asked to be last is its state, or is on its way to it.
Agrees(q, c, p, w) ==
    /\ w = IF q = <<>> THEN c ELSE Last(q)
    /\ p <=> c # "CLEAR"

\* The lines' part of the invariant, and of what a save state holds.
LinesAgree == \A l \in Line : Agrees(queue[l], curstate[l], pin[l], wanted[l])
Whole(state) ==
    state # None /\ ~state.torn =>
        \A l \in Line : Agrees(<<>>, state.curstate[l], state.pin[l], state.wanted[l])
FileAgrees == Whole(file)

\* The event appended last is the last one.
LEMMA LastOfAppend ==
    ASSUME NEW q \in Seq(LineState), NEW s \in LineState
    PROVE  /\ Append(q, s) \in Seq(LineState) /\ Append(q, s) # <<>>
           /\ Last(Append(q, s)) = s
BY DEF Last

\* A non-empty queue has a last event.
LEMMA LastIsState ==
    ASSUME NEW q \in Seq(LineState), q # <<>> PROVE Last(q) \in LineState
BY DEF Last

\* A queue of one event ends with it.
LEMMA LastOfOne ==
    ASSUME NEW s \in LineState
    PROVE  /\ <<s>> \in Seq(LineState) /\ <<s>> # <<>> /\ Last(<<s>>) = s
BY DEF Last

\* What Emptied writes has its type.
LEMMA EmptiedTypes ==
    ASSUME LineTypeOK, NEW l \in Line, NEW s \in LineState, Emptied(l, s)
    PROVE  curstate' \in [Line -> LineState] /\ pin' \in [Line -> BOOLEAN]
<1>1. (s # "CLEAR") \in BOOLEAN
    OBVIOUS
<1>2. pin' \in [Line -> BOOLEAN]
    BY <1>1, Zenon DEF Emptied, LineTypeOK
<1>3. QED
    BY <1>2 DEF Emptied, LineTypeOK

\* What Emptied leaves at the line, and elsewhere.
LEMMA EmptiedEffect ==
    ASSUME LineTypeOK, NEW l \in Line, NEW s \in LineState, Emptied(l, s)
    PROVE  /\ curstate'[l] = s /\ (pin'[l] <=> s # "CLEAR")
           /\ \A k \in Line \ {l} : curstate'[k] = curstate[k] /\ (pin'[k] <=> pin[k])
<1>1. curstate'[l] = s /\ \A k \in Line \ {l} : curstate'[k] = curstate[k]
    BY DEF Emptied, LineTypeOK
<1>2. pin'[l] = (s # "CLEAR") /\ \A k \in Line \ {l} : pin'[k] = pin[k]
    BY Zenon DEF Emptied, LineTypeOK
<1>3. QED
    BY <1>1, <1>2, Zenon

\* set_state_synced keeps the queue timed and the line on its way to what was
\* asked, also when the queue overflows.
LEMMA SetStateKeeps ==
    ASSUME LineTypeOK, QueueTimed, NEW l \in Line, NEW s \in LineState, SetState(l, s)
    PROVE  LineTypeOK' /\ QueueTimed' /\ (LinesAgree => LinesAgree')
<1>1. /\ wanted' = [wanted EXCEPT ![l] = s] /\ wanted' \in [Line -> LineState]
      /\ queue[l] \in Seq(LineState) /\ timers[l] \in Nat
    BY DEF SetState, LineTypeOK
<1>2. CASE Len(queue[l]) < QueueSize
    <2>1. /\ queue' = [queue EXCEPT ![l] = Append(@, s)]
          /\ timers' = [timers EXCEPT ![l] = IF queue[l] = <<>> THEN @ + 1 ELSE @]
          /\ UNCHANGED <<curstate, pin>>
        BY <1>1, <1>2, QueueSizeAssumption DEF SetState
    <2>2. /\ queue' \in [Line -> Seq(LineState)] /\ queue'[l] # <<>>
          /\ Last(queue'[l]) = s /\ \A k \in Line \ {l} : queue'[k] = queue[k]
        BY <1>1, <2>1, LastOfAppend DEF LineTypeOK
    <2>3. /\ timers' \in [Line -> Nat] /\ timers'[l] > 0
          /\ \A k \in Line \ {l} : timers'[k] = timers[k]
        BY <1>1, <2>1 DEF LineTypeOK, QueueTimed
    <2>4. LineTypeOK' /\ QueueTimed'
        BY <1>1, <2>1, <2>2, <2>3 DEF LineTypeOK, QueueTimed
    <2>5. ASSUME LinesAgree, NEW k \in Line
          PROVE  Agrees(queue[k], curstate[k], pin[k], wanted[k])'
        BY <1>1, <2>1, <2>2, <2>5 DEF LinesAgree, Agrees, LineTypeOK
    <2>6. QED
        BY <2>4, <2>5 DEF LinesAgree
<1>3. CASE ~(Len(queue[l]) < QueueSize)
    <2>1. /\ queue' = [queue EXCEPT ![l] = <<s>>]
          /\ timers' = [timers EXCEPT ![l] = @ + 1]
          /\ Emptied(l, Last(queue[l]))
        BY <1>1, <1>3, QueueSizeAssumption DEF SetState
    <2>2. queue[l] # <<>>
        BY <1>1, <1>3, QueueSizeAssumption
    <2>3. Last(queue[l]) \in LineState
        BY <1>1, <2>2, LastIsState
    <2>4. /\ queue' \in [Line -> Seq(LineState)] /\ queue'[l] # <<>>
          /\ Last(queue'[l]) = s /\ \A k \in Line \ {l} : queue'[k] = queue[k]
        BY <1>1, <2>1, LastOfOne DEF LineTypeOK
    <2>5. /\ timers' \in [Line -> Nat] /\ timers'[l] > 0
          /\ \A k \in Line \ {l} : timers'[k] = timers[k]
        BY <1>1, <2>1 DEF LineTypeOK
    <2>6. LineTypeOK' /\ QueueTimed'
        BY <1>1, <2>1, <2>3, <2>4, <2>5, EmptiedTypes DEF LineTypeOK, QueueTimed
    <2>7. /\ curstate'[l] = Last(queue[l]) /\ (pin'[l] <=> Last(queue[l]) # "CLEAR")
          /\ \A k \in Line \ {l} : curstate'[k] = curstate[k] /\ (pin'[k] <=> pin[k])
        BY <2>1, <2>3, EmptiedEffect
    <2>8. ASSUME LinesAgree, NEW k \in Line
          PROVE  Agrees(queue[k], curstate[k], pin[k], wanted[k])'
        BY <1>1, <2>4, <2>7, <2>8 DEF LinesAgree, Agrees, LineTypeOK
    <2>9. QED
        BY <2>6, <2>8 DEF LinesAgree
<1>4. QED
    BY <1>2, <1>3

\* So does the timer: it leaves no event behind.
LEMMA EmptyKeeps ==
    ASSUME LineTypeOK, QueueTimed, NEW l \in Line, EmptyEventQueue(l)
    PROVE  LineTypeOK' /\ QueueTimed' /\ (LinesAgree => LinesAgree')
<1>1. /\ queue' = [queue EXCEPT ![l] = <<>>] /\ UNCHANGED wanted
      /\ queue[l] \in Seq(LineState)
    BY DEF EmptyEventQueue, LineTypeOK
<1>2. queue' \in [Line -> Seq(LineState)] /\ queue'[l] = <<>>
    BY <1>1 DEF LineTypeOK
<1>3. timers' \in [Line -> Nat] /\ \A k \in Line \ {l} : timers'[k] = timers[k]
    BY DEF EmptyEventQueue, LineTypeOK
<1>4. QueueTimed'
    BY <1>1, <1>2, <1>3 DEF QueueTimed, LineTypeOK
<1>5. CASE queue[l] = <<>>
    <2>1. UNCHANGED <<curstate, pin, queue>>
        BY <1>1, <1>5, Zenon DEF EmptyEventQueue, LineTypeOK
    <2>2. QED
        BY <1>1, <1>2, <1>3, <1>4, <2>1 DEF LineTypeOK, LinesAgree, Agrees
<1>6. CASE queue[l] # <<>>
    <2>1. Emptied(l, Last(queue[l])) /\ Last(queue[l]) \in LineState
        BY <1>1, <1>6, LastIsState DEF EmptyEventQueue
    <2>2. LineTypeOK'
        BY <1>1, <1>2, <1>3, <2>1, EmptiedTypes DEF LineTypeOK
    <2>3. /\ curstate'[l] = Last(queue[l]) /\ (pin'[l] <=> Last(queue[l]) # "CLEAR")
          /\ \A k \in Line \ {l} : curstate'[k] = curstate[k] /\ (pin'[k] <=> pin[k])
        BY <2>1, EmptiedEffect
    <2>4. ASSUME LinesAgree, NEW k \in Line
          PROVE  Agrees(queue[k], curstate[k], pin[k], wanted[k])'
        BY <1>1, <1>2, <1>6, <2>3, <2>4 DEF LinesAgree, Agrees, LineTypeOK
    <2>5. QED
        BY <1>4, <2>2, <2>4 DEF LinesAgree
<1>7. QED
    BY <1>5, <1>6

\* An acknowledged line is clear, or is on its way to the next state.
LEMMA AcknowledgeKeeps ==
    ASSUME LineTypeOK, QueueTimed, NEW l \in Line, Acknowledge(l)
    PROVE  LineTypeOK' /\ QueueTimed' /\ (LinesAgree => LinesAgree')
<1>1. /\ UNCHANGED <<queue, timers>> /\ Emptied(l, "CLEAR") /\ "CLEAR" \in LineState
      /\ wanted' = [wanted EXCEPT ![l] = IF queue[l] = <<>> THEN "CLEAR" ELSE @]
    BY DEF Acknowledge, LineState
<1>2. wanted' \in [Line -> LineState]
    BY <1>1 DEF LineTypeOK
<1>3. LineTypeOK' /\ QueueTimed'
    BY <1>1, <1>2, EmptiedTypes DEF LineTypeOK, QueueTimed
<1>4. /\ curstate'[l] = "CLEAR" /\ ~pin'[l]
      /\ \A k \in Line \ {l} : curstate'[k] = curstate[k] /\ (pin'[k] <=> pin[k])
    BY <1>1, EmptiedEffect
<1>5. ASSUME LinesAgree, NEW k \in Line
      PROVE  Agrees(queue[k], curstate[k], pin[k], wanted[k])'
    BY <1>1, <1>2, <1>4, <1>5 DEF LinesAgree, Agrees, LineTypeOK
<1>6. QED
    BY <1>3, <1>5 DEF LinesAgree

-----------------------------------------------------------------------------
(* Save states.                                                            *)

\* What the operations on save states read and write, and the rest.
StateTypes ==
    /\ LineTypeOK
    /\ op \in {"NONE", "SAVE", "LOAD"} /\ waited \in Nat
    /\ anon \in BOOLEAN /\ softReset \in BOOLEAN /\ torn \in BOOLEAN
    /\ file \in States \cup {None}
LoopTypes ==
    /\ place \in {"loop", "slice", "frame", "exit"}
    /\ paused \in BOOLEAN /\ leaving \in BOOLEAN
    /\ events \in Nat /\ calls \in Nat

\* The inductive invariant: a whole save state was taken while no event was on
\* its way, because the timer of a queue kept can_save false.
StateInv == StateTypes /\ QueueTimed /\ (~torn => LinesAgree) /\ FileAgrees
Inv == StateInv /\ LoopTypes

\* Where can_save is true every queue is empty.
LEMMA NothingQueued ==
    ASSUME LineTypeOK, QueueTimed, CanSave
    PROVE  \A l \in Line : queue[l] = <<>>
BY DEF LineTypeOK, QueueTimed, CanSave

\* A state taken then holds agreeing lines.
LEMMA SnapshotWhole ==
    ASSUME StateInv, CanSave PROVE Snapshot \in States /\ Whole(Snapshot)
<1>1. Snapshot \in States
    BY DEF StateInv, StateTypes, LineTypeOK, Snapshot, States
<1>2. ASSUME ~torn, NEW l \in Line
      PROVE  Agrees(<<>>, curstate[l], pin[l], wanted[l])
    BY <1>2, NothingQueued DEF StateInv, StateTypes, LinesAgree, Agrees
<1>3. /\ Snapshot.torn = torn /\ Snapshot.curstate = curstate
      /\ Snapshot.pin = pin /\ Snapshot.wanted = wanted
    BY DEF Snapshot
<1>4. QED
    BY <1>1, <1>2, <1>3 DEF Whole

\* Such a state, loaded over empty queues, leaves agreeing lines.
LEMMA RestoreKeeps ==
    ASSUME StateInv, CanSave, NEW s \in States, Whole(s), Restore(s)
    PROVE  /\ LineTypeOK' /\ QueueTimed' /\ (~torn' => LinesAgree')
           /\ anon' \in BOOLEAN /\ softReset' \in BOOLEAN /\ torn' \in BOOLEAN
<1>1. /\ curstate' = s.curstate /\ pin' = s.pin /\ wanted' = s.wanted
      /\ softReset' = s.softReset /\ torn' = s.torn
      /\ timers' = [l \in Line |-> 0] /\ anon' = FALSE /\ UNCHANGED queue
    BY DEF Restore
<1>2. /\ s.curstate \in [Line -> LineState] /\ s.pin \in [Line -> BOOLEAN]
      /\ s.wanted \in [Line -> LineState]
      /\ s.softReset \in BOOLEAN /\ s.torn \in BOOLEAN
    BY DEF States
<1>3. LineTypeOK'
    BY <1>1, <1>2 DEF StateInv, StateTypes, LineTypeOK
<1>4. \A l \in Line : queue'[l] = <<>>
    BY <1>1, NothingQueued DEF StateInv, StateTypes
<1>5. ASSUME ~torn', NEW l \in Line
      PROVE  Agrees(queue[l], curstate[l], pin[l], wanted[l])'
    BY <1>1, <1>4, <1>5, NoneAssumption DEF Whole, Agrees
<1>6. QED
    BY <1>1, <1>2, <1>3, <1>4, <1>5 DEF QueueTimed, LinesAgree

\* So does a save.
LEMMA WriteKeeps ==
    ASSUME StateInv, CanSave, WriteFile, UNCHANGED <<lineVars, anon, softReset, torn>>
    PROVE  FileAgrees' /\ file' \in States \cup {None}
<1>1. CASE file' = file \/ file' = None
    BY <1>1 DEF StateInv, StateTypes, FileAgrees, Whole, Agrees
<1>2. CASE file' = Snapshot
    BY <1>2, SnapshotWhole DEF FileAgrees, Whole
<1>3. QED
    BY <1>1, <1>2 DEF WriteFile

\* A load puts agreeing lines back over empty queues, or is torn.
LEMMA ReadKeeps ==
    ASSUME StateInv, CanSave, ReadFile, UNCHANGED file
    PROVE  /\ LineTypeOK' /\ QueueTimed' /\ (~torn' => LinesAgree') /\ FileAgrees'
           /\ anon' \in BOOLEAN /\ softReset' \in BOOLEAN /\ torn' \in BOOLEAN
<1>1. FileAgrees'
    BY DEF StateInv, FileAgrees, Whole, Agrees
<1>2. CASE UNCHANGED <<lineVars, anon, softReset, torn>>
    BY <1>1, <1>2 DEF StateInv, StateTypes, lineVars, LineTypeOK, QueueTimed, LinesAgree, Agrees
<1>3. CASE file # None /\ Restore(file)
    <2>1. file \in States
        BY <1>3 DEF StateInv, StateTypes
    <2>2. QED
        BY <1>1, <1>3, <2>1, RestoreKeeps DEF StateInv, FileAgrees
<1>4. CASE file # None /\ Tear(file)
    <2>1. file \in States
        BY <1>4 DEF StateInv, StateTypes
    <2>2. /\ file.curstate \in [Line -> LineState] /\ file.pin \in [Line -> BOOLEAN]
          /\ file.wanted \in [Line -> LineState] /\ file.softReset \in BOOLEAN
        BY <2>1 DEF States
    <2>3. torn' = TRUE /\ UNCHANGED <<queue, timers, anon>>
        BY <1>4 DEF Tear
    <2>4. LineTypeOK' /\ softReset' \in BOOLEAN
        BY <1>4, <2>2, <2>3 DEF Tear, StateInv, StateTypes, LineTypeOK
    <2>5. QED
        BY <1>1, <2>3, <2>4 DEF StateInv, StateTypes, QueueTimed
<1>5. QED
    BY <1>2, <1>3, <1>4 DEF ReadFile

\* handle_saveload keeps the invariant, done or put off.
LEMMA HandleKeeps ==
    ASSUME StateInv, NEW o \in {"NONE", "SAVE", "LOAD"}, NEW w \in Nat, Handle(o, w)
    PROVE  StateInv'
<1>1. op' \in {"NONE", "SAVE", "LOAD"} /\ waited' \in Nat
    BY DEF Handle
<1>2. CASE UNCHANGED <<lineVars, anon, softReset, torn, file>>
    BY <1>1, <1>2 DEF StateInv, StateTypes, lineVars, LineTypeOK, QueueTimed, LinesAgree,
                      Agrees, FileAgrees, Whole
<1>3. CASE CanSave /\ ReadFile /\ UNCHANGED file
    BY <1>1, <1>3, ReadKeeps DEF StateInv, StateTypes
<1>4. CASE CanSave /\ WriteFile /\ UNCHANGED <<lineVars, anon, softReset, torn>>
    BY <1>1, <1>4, WriteKeeps
    DEF StateInv, StateTypes, lineVars, LineTypeOK, QueueTimed, LinesAgree, Agrees
<1>5. QED
    BY <1>2, <1>3, <1>4 DEF Handle

-----------------------------------------------------------------------------
(* The steps of the machine.                                               *)

\* A step that leaves the lines and the save state alone.
LEMMA RestKeeps ==
    ASSUME StateInv, UNCHANGED <<lineVars, torn, file>>,
           op' \in {"NONE", "SAVE", "LOAD"}, waited' \in Nat,
           anon' \in BOOLEAN, softReset' \in BOOLEAN
    PROVE  StateInv'
BY DEF StateInv, StateTypes, lineVars, LineTypeOK, QueueTimed, LinesAgree, Agrees, FileAgrees, Whole

\* A step of a line.
LEMMA LineStepKeeps ==
    ASSUME StateInv, UNCHANGED <<request, file, torn, anon, softReset>>,
           LineTypeOK', QueueTimed', LinesAgree => LinesAgree'
    PROVE  StateInv'
BY DEF StateInv, StateTypes, request, FileAgrees, Whole, Agrees

\* The initial state.
LEMMA InvInit == Init => Inv
<1> SUFFICES ASSUME Init PROVE Inv
    OBVIOUS
<1>1. LineTypeOK /\ QueueTimed /\ LinesAgree
    BY DEF Init, LineInit, LineTypeOK, LineState, QueueTimed, LinesAgree, Agrees
<1>2. QED
    BY <1>1 DEF Init, Inv, StateInv, StateTypes, LoopTypes, FileAgrees, Whole

\* Every step.
LEMMA InvStep == Inv /\ [Next]_vars => Inv'
<1> SUFFICES ASSUME Inv, [Next]_vars PROVE Inv'
    OBVIOUS
<1>0. StateInv /\ StateTypes /\ LineTypeOK /\ QueueTimed /\ LoopTypes
    BY DEF Inv, StateInv, StateTypes
<1> USE DEF StateTypes
<1>1. CASE Enter
    <2>1. StateInv'
        BY <1>0, <1>1, RestKeeps DEF Enter, request, ghosts
    <2>2. QED
        BY <1>0, <1>1, <2>1 DEF Enter, Inv, LoopTypes, ghosts
<1>2. CASE EndSlice
    <2>1. LoopTypes'
        BY <1>0, <1>2 DEF EndSlice, LoopTypes
    <2>2. CASE UNCHANGED <<lineVars, request, anon, softReset, torn, file>>
        BY <1>0, <2>1, <2>2, RestKeeps DEF request, Inv
    <2>3. ASSUME NEW w \in Nat, Handle(op, w) PROVE Inv'
        BY <1>0, <2>1, <2>3, HandleKeeps DEF Inv
    <2>4. (IF place = "slice" /\ waited <= Patience THEN waited + 1 ELSE waited) \in Nat
        BY <1>0
    <2>5. QED
        BY <1>2, <2>2, <2>3, <2>4 DEF EndSlice
<1>3. ASSUME NEW l \in Line, NEW s \in LineState, Send(l, s) PROVE Inv'
    <2>1. StateInv'
        BY <1>0, <1>3, SetStateKeeps, LineStepKeeps DEF Send, InSlice
    <2>2. QED
        BY <1>0, <1>3, <2>1 DEF Send, InSlice, Inv, LoopTypes, loop
<1>4. ASSUME NEW l \in Line, LineTimer(l) PROVE Inv'
    <2>1. StateInv'
        BY <1>0, <1>4, EmptyKeeps, LineStepKeeps DEF LineTimer, InSlice
    <2>2. QED
        BY <1>0, <1>4, <2>1 DEF LineTimer, InSlice, Inv, LoopTypes, loop
<1>5. ASSUME NEW l \in Line, Interrupt(l) PROVE Inv'
    <2>1. StateInv'
        BY <1>0, <1>5, AcknowledgeKeeps, LineStepKeeps DEF Interrupt, InSlice
    <2>2. QED
        BY <1>0, <1>5, <2>1 DEF Interrupt, InSlice, Inv, LoopTypes, loop
<1>6. CASE Synchronize \/ SoftReset
    <2>1. anon' \in BOOLEAN /\ softReset' \in BOOLEAN
        BY <1>0, <1>6 DEF Synchronize, SoftReset
    <2>2. /\ UNCHANGED <<lineVars, torn, file>> /\ UNCHANGED request
          /\ UNCHANGED <<loop, events, calls>>
        BY <1>6 DEF Synchronize, SoftReset, InSlice
    <2>3. StateInv'
        BY <1>0, <2>1, <2>2, RestKeeps DEF request
    <2>4. QED
        BY <1>0, <2>2, <2>3 DEF Inv, LoopTypes, loop
<1>7. CASE ScheduleSaveLoad
    <2>1. StateInv'
        BY <1>0, <1>7, RestKeeps DEF ScheduleSaveLoad, Schedule
    <2>2. paused' \in BOOLEAN
        BY <1>7 DEF ScheduleSaveLoad, Schedule
    <2>3. UNCHANGED <<place, leaving, events>> /\ calls' = calls + 1
        BY <1>7 DEF ScheduleSaveLoad, CanCall
    <2>4. QED
        BY <1>0, <2>1, <2>2, <2>3 DEF Inv, LoopTypes
<1>8. CASE ImmediateSaveLoad
    <2>1. StateInv'
        BY <1>0, <1>8, HandleKeeps DEF ImmediateSaveLoad
    <2>2. QED
        BY <1>0, <1>8, <2>1 DEF ImmediateSaveLoad, CanCall, Inv, LoopTypes
<1>9. CASE ScheduleExit
    <2>1. StateInv'
        BY <1>0, <1>9, RestKeeps DEF ScheduleExit, Schedule, request
    <2>2. paused' \in BOOLEAN /\ leaving' \in BOOLEAN
        BY <1>0, <1>9, Zenon DEF ScheduleExit, Schedule, LoopTypes
    <2>3. UNCHANGED <<place, events>> /\ calls' = calls + 1
        BY <1>9 DEF ScheduleExit, CanCall
    <2>4. QED
        BY <1>0, <2>1, <2>2, <2>3 DEF Inv, LoopTypes
<1>10. CASE ScheduleSoftReset
    <2>1. StateInv'
        BY <1>0, <1>10, RestKeeps DEF ScheduleSoftReset, request
    <2>2. paused' \in BOOLEAN
        BY <1>10 DEF ScheduleSoftReset
    <2>3. UNCHANGED <<place, leaving, events>> /\ calls' = calls + 1
        BY <1>10 DEF ScheduleSoftReset, CanCall
    <2>4. QED
        BY <1>0, <2>1, <2>2, <2>3 DEF Inv, LoopTypes
<1>11. CASE TogglePause
    <2>1. StateInv'
        BY <1>0, <1>11, RestKeeps DEF TogglePause, request
    <2>2. paused' \in BOOLEAN
        BY <1>11, Zenon DEF TogglePause
    <2>3. QED
        BY <1>0, <1>11, <2>1, <2>2 DEF TogglePause, CanCall, Inv, LoopTypes
<1>12. CASE UNCHANGED vars
    <2>1. StateInv'
        BY <1>0, <1>12, RestKeeps DEF vars, request, ghosts
    <2>2. QED
        BY <1>0, <1>12, <2>1 DEF vars, loop, ghosts, Inv, LoopTypes
<1>13. QED
    BY <1>1, <1>2, <1>3, <1>4, <1>5, <1>6, <1>7, <1>8, <1>9, <1>10, <1>11, <1>12
    DEF Next, RunLoop, Device, Request

\* It always holds.
LEMMA AlwaysInv == Spec => []Inv
BY InvInit, InvStep, PTL DEF Spec

\* The lines, the loop and the save states are well typed for any number of
\* lines and any queue size.
THEOREM TypeCorrect == Spec => []TypeOK
<1>1. Inv => TypeOK
    BY DEF Inv, StateInv, StateTypes, LoopTypes, TypeOK
<1>2. QED
    BY <1>1, AlwaysInv, PTL

\* A queued event always has the timer that will deliver it.
THEOREM QueuesAreTimed == Spec => []QueueTimed
<1>1. Inv => QueueTimed
    BY DEF Inv, StateInv
<1>2. QED
    BY <1>1, AlwaysInv, PTL

\* Saves and loads leave every line at what it was asked to be, or on its way.
THEOREM LinesStayAgreed == Spec => []LineAgrees
<1>1. Inv => LineAgrees
    BY DEF Inv, StateInv, LinesAgree, Agrees, LineAgrees
<1>2. QED
    BY <1>1, AlwaysInv, PTL

-----------------------------------------------------------------------------
(* The debugger's rewind states.                                           *)

\* rewind_capture and rewind_step ask can_save, which they do not in the source.
RewinderAsks == [][RewindCapture \/ RewindStep => CanSave]_rvars

RewinderInv == Inv /\ shot \in States \cup {None} /\ Whole(shot)

LEMMA CaptureWhole ==
    ASSUME RewinderInv, CanSave, RewindCapture PROVE RewinderInv'
<1>1. StateInv /\ StateTypes /\ LoopTypes
    BY DEF RewinderInv, Inv, StateInv
<1>2. /\ UNCHANGED <<lineVars, torn, file>> /\ UNCHANGED request
      /\ UNCHANGED <<anon, softReset, place, paused, leaving, events>> /\ calls' = calls + 1
    BY DEF RewindCapture, CanCall
<1>3. StateInv'
    BY <1>1, <1>2, RestKeeps DEF request, StateTypes
<1>4. Inv'
    BY <1>1, <1>2, <1>3 DEF Inv, LoopTypes
<1>5. shot' \in States /\ Whole(shot)'
    <2>1. shot' = Snapshot /\ Snapshot \in States /\ Whole(Snapshot)
        BY <1>1, SnapshotWhole DEF RewindCapture
    <2>2. QED
        BY <2>1 DEF Whole, Agrees
<1>6. QED
    BY <1>4, <1>5 DEF RewinderInv

LEMMA StepWhole ==
    ASSUME RewinderInv, CanSave, RewindStep PROVE RewinderInv'
<1>1. StateInv /\ StateTypes /\ LoopTypes /\ shot \in States /\ Whole(shot)
    BY DEF RewinderInv, Inv, StateInv, RewindStep
<1>2. /\ UNCHANGED <<op, waited, file, shot, place, paused, leaving, events>>
      /\ calls' = calls + 1 /\ Restore(shot)
    BY DEF RewindStep, CanCall, request
<1>3. /\ LineTypeOK' /\ QueueTimed' /\ (~torn' => LinesAgree')
      /\ anon' \in BOOLEAN /\ softReset' \in BOOLEAN /\ torn' \in BOOLEAN
    BY <1>1, <1>2, RestoreKeeps
<1>4. FileAgrees' /\ Whole(shot)'
    BY <1>1, <1>2 DEF StateInv, FileAgrees, Whole, Agrees
<1>5. StateInv'
    BY <1>1, <1>2, <1>3, <1>4 DEF StateInv, StateTypes
<1>6. QED
    BY <1>1, <1>2, <1>4, <1>5 DEF RewinderInv, Inv, LoopTypes

\* If it asked, the debugger could capture and rewind at any point without leaving a
\* line dead or wrong: nothing else is wrong with its rewind states.
THEOREM AskedRewinds == RSpec /\ RewinderAsks => [](QueueTimed /\ LineAgrees)
<1> DEFINE Asks == RewindCapture \/ RewindStep => CanSave
<1>1. RInit => RewinderInv
    BY InvInit DEF RInit, RewinderInv, Whole
<1>2. ASSUME RewinderInv, [RNext]_rvars, [Asks]_rvars PROVE RewinderInv'
    <2>1. CASE [Next]_vars /\ UNCHANGED shot
        <3>1. Inv'
            BY <1>2, <2>1, InvStep DEF RewinderInv
        <3>2. QED
            BY <1>2, <2>1, <3>1 DEF RewinderInv, Whole, Agrees
    <2>2. CASE RewindCapture /\ ~UNCHANGED rvars
        BY <1>2, <2>2, CaptureWhole
    <2>3. CASE RewindStep /\ ~UNCHANGED rvars
        BY <1>2, <2>3, StepWhole
    <2>4. UNCHANGED rvars => [Next]_vars /\ UNCHANGED shot
        BY DEF rvars
    <2>5. QED
        BY <1>2, <2>1, <2>2, <2>3, <2>4 DEF RNext
<1>3. RewinderInv => QueueTimed /\ LineAgrees
    BY DEF RewinderInv, Inv, StateInv, LinesAgree, Agrees, LineAgrees
<1> HIDE DEF Asks
<1>4. QED
    BY <1>1, <1>2, <1>3, PTL DEF RSpec, RewinderAsks, Asks
=============================================================================
