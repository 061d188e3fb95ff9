------------------------------ MODULE Machine ------------------------------
(***************************************************************************)
(* The run loop of running_machine (src/emu/machine.cpp) with pause, exit, *)
(* resets, and save states, over the input lines of a CPU, whose queues    *)
(* and temporary timers are not part of a save state: can_save is to keep  *)
(* saves and loads away from them.  Other devices' temporary timers are    *)
(* one flag, anon.                                                         *)
(***************************************************************************)
EXTENDS InputLines

CONSTANTS
    Patience,      \* a second, in timeslices
    MaxEvents,     \* bound: changes of lines
    MaxCalls,      \* bound: requests of the user
    None           \* no state

ASSUME PatienceAssumption == Patience \in Nat
ASSUME BoundAssumption == MaxEvents \in Nat /\ MaxCalls \in Nat

VARIABLES
    place,         \* in run: at the loop's condition, in a slice, in a frame, at its end
    paused,        \* m_paused
    leaving,       \* m_exit_pending or m_hard_reset_pending
    op,            \* m_saveload_schedule
    waited,        \* time since m_saveload_schedule_time
    anon,          \* are other temporary timers outstanding?
    softReset,     \* is m_soft_reset_timer armed?
    file,          \* the save state's file
    torn,          \* ghost: has a load stopped half way?
    events, calls  \* ghost: line changes and user requests made

loop == <<place, paused, leaving>>
request == <<op, waited>>
ghosts == <<torn, events, calls>>
vars == <<lineVars, loop, request, anon, softReset, file, ghosts>>

Init ==
    /\ LineInit
    /\ place = "loop" /\ paused = FALSE /\ leaving = FALSE
    /\ op = "NONE" /\ waited = 0
    /\ anon = FALSE /\ softReset = FALSE
    /\ file = None
    /\ torn = FALSE /\ events = 0 /\ calls = 0

-----------------------------------------------------------------------------
(* Save states.                                                            *)

\* What is registered with save_item; the soft reset's timer is permanent.
Snapshot == [curstate |-> curstate, pin |-> pin, wanted |-> wanted,
             softReset |-> softReset, torn |-> torn]

\* do_read to its end: postload drops the temporary timers, and leaves queues.
Restore(s) ==
    /\ curstate' = s.curstate /\ pin' = s.pin /\ wanted' = s.wanted
    /\ softReset' = s.softReset /\ torn' = s.torn
    /\ timers' = [l \in Line |-> 0] /\ anon' = FALSE
    /\ UNCHANGED queue

\* A read error half way: some items are loaded, and there is no postload.
Tear(s) ==
    /\ curstate' \in {curstate, s.curstate} /\ pin' \in {pin, s.pin}
    /\ wanted' \in {wanted, s.wanted} /\ softReset' \in {softReset, s.softReset}
    /\ torn' = TRUE
    /\ UNCHANGED <<queue, timers, anon>>

ReadFile ==
    \/ UNCHANGED <<lineVars, anon, softReset, torn>>   \* missing, or not a save state
    \/ file # None /\ (Restore(file) \/ Tear(file))

\* A file that could not be written to its end is removed.
WriteFile == file' \in {file, None, Snapshot}

\* Faulty variant: the lines' own timers do not count.
CanSaveEvents == ~anon

CanSave == ~anon /\ \A l \in Line : timers[l] = 0

\* Faulty variant: no patience is ever exhausted.
HandleForEver(o, w) ==
    IF ~CanSave
    THEN /\ op' = o /\ waited' = w
         /\ UNCHANGED <<lineVars, anon, softReset, torn, file>>
    ELSE /\ op' = "NONE" /\ waited' = w
         /\ \/ o = "LOAD" /\ ReadFile /\ UNCHANGED file
            \/ o = "SAVE" /\ WriteFile /\ UNCHANGED <<lineVars, anon, softReset, torn>>

\* handle_saveload: the operation waits for the temporary timers, a second at most.
Handle(o, w) ==
    IF ~CanSave
    THEN /\ op' = IF w > Patience THEN "NONE" ELSE o
         /\ waited' = w
         /\ UNCHANGED <<lineVars, anon, softReset, torn, file>>
    ELSE /\ op' = "NONE" /\ waited' = w
         /\ \/ o = "LOAD" /\ ReadFile /\ UNCHANGED file
            \/ o = "SAVE" /\ WriteFile /\ UNCHANGED <<lineVars, anon, softReset, torn>>

-----------------------------------------------------------------------------
(* The loop of run.                                                        *)

Enter ==
    /\ place = "loop"
    /\ place' = IF leaving /\ op = "NONE" THEN "exit"
                ELSE IF paused THEN "frame" ELSE "slice"
    /\ UNCHANGED <<lineVars, paused, leaving, request, anon, softReset, file, ghosts>>

\* timeslice or frame_update is over, and an operation that is due is tried.
EndSlice ==
    /\ place \in {"slice", "frame"} /\ place' = "loop"
    /\ LET w == IF place = "slice" /\ waited <= Patience THEN waited + 1 ELSE waited
       IN  IF op # "NONE" THEN Handle(op, w)
           ELSE UNCHANGED <<lineVars, request, anon, softReset, torn, file>>
    /\ UNCHANGED <<paused, leaving, events, calls>>

RunLoop == Enter \/ EndSlice

-----------------------------------------------------------------------------
(* Inside a slice: instructions and timers.                                *)

InSlice == place = "slice" /\ UNCHANGED <<loop, request, file, torn, calls>>

Send(l, s) ==
    /\ InSlice /\ events < MaxEvents /\ events' = events + 1
    /\ SetState(l, s)
    /\ UNCHANGED <<anon, softReset>>

LineTimer(l) == InSlice /\ EmptyEventQueue(l) /\ UNCHANGED <<anon, softReset, events>>

Interrupt(l) == InSlice /\ Acknowledge(l) /\ UNCHANGED <<anon, softReset, events>>

\* Another device synchronises, or its timer expires.
Synchronize == InSlice /\ anon' = ~anon /\ UNCHANGED <<lineVars, softReset, events>>

\* soft_reset resets the devices; the lines keep their states and queues.
SoftReset ==
    /\ InSlice /\ softReset /\ softReset' = FALSE
    /\ UNCHANGED <<lineVars, anon, events>>

-----------------------------------------------------------------------------
(* Requests: by the user interface, in a slice or a frame, or by a driver. *)

CanCall ==
    /\ place \in {"slice", "frame"} /\ calls < MaxCalls /\ calls' = calls + 1
    /\ UNCHANGED <<place, events>>

\* schedule_save and schedule_load: the one before is forgotten.
Schedule(o) == op' = o /\ waited' = 0 /\ paused' = FALSE

ScheduleSaveLoad ==
    /\ CanCall
    /\ \E o \in {"SAVE", "LOAD"} : Schedule(o)
    /\ UNCHANGED <<lineVars, leaving, anon, softReset, file, torn>>

\* immediate_save and immediate_load, by the debugger.
ImmediateSaveLoad ==
    /\ CanCall
    /\ \E o \in {"SAVE", "LOAD"} : Handle(o, 0)
    /\ UNCHANGED <<paused, leaving>>

\* schedule_exit, with autosave or without, and schedule_hard_reset.
ScheduleExit ==
    /\ CanCall
    /\ leaving' = TRUE
    /\ Schedule("SAVE") \/ UNCHANGED <<request, paused>>
    /\ UNCHANGED <<lineVars, anon, softReset, file, torn>>

ScheduleSoftReset ==
    /\ CanCall
    /\ softReset' = TRUE /\ paused' = FALSE
    /\ UNCHANGED <<lineVars, leaving, request, anon, file, torn>>

TogglePause ==
    /\ CanCall
    /\ paused' = ~paused
    /\ UNCHANGED <<lineVars, leaving, request, anon, softReset, file, torn>>

Request ==
    \/ ScheduleSaveLoad \/ ImmediateSaveLoad \/ ScheduleExit
    \/ ScheduleSoftReset \/ TogglePause

-----------------------------------------------------------------------------
Device ==
    \/ \E l \in Line, s \in LineState : Send(l, s)
    \/ \E l \in Line : LineTimer(l) \/ Interrupt(l)
    \/ Synchronize \/ SoftReset

Next == RunLoop \/ Device \/ Request

\* The loop runs and its slices end; a synchronisation's timer expires in one
\* of the next slices.
Fairness == WF_vars(RunLoop) /\ \A l \in Line : SF_vars(LineTimer(l))

Spec == Init /\ [][Next]_vars /\ Fairness

-----------------------------------------------------------------------------
(* Properties.                                                             *)

States == [curstate : [Line -> LineState], pin : [Line -> BOOLEAN],
           wanted : [Line -> LineState], softReset : BOOLEAN, torn : BOOLEAN]

ASSUME NoneAssumption == None \notin States

\* Every variable has its type.
TypeOK ==
    /\ LineTypeOK
    /\ place \in {"loop", "slice", "frame", "exit"}
    /\ paused \in BOOLEAN /\ leaving \in BOOLEAN
    /\ op \in {"NONE", "SAVE", "LOAD"} /\ waited \in Nat
    /\ anon \in BOOLEAN /\ softReset \in BOOLEAN
    /\ file \in States \cup {None}
    /\ torn \in BOOLEAN /\ events \in Nat /\ calls \in Nat

\* Whatever is saved and loaded in between, a line ends in the state it was
\* asked to have last, and the CPU's input is as m_curstate says; only a load
\* that stopped half way may have broken that.
LineAgrees ==
    ~torn => \A l \in Line :
        /\ wanted[l] = IF queue[l] = <<>> THEN curstate[l] ELSE Last(queue[l])
        /\ pin[l] <=> curstate[l] # "CLEAR"

\* Queued line changes reach the CPU, unless the machine is paused or left.
EventsDelivered ==
    \A l \in Line : queue[l] # <<>> ~> queue[l] = <<>> \/ paused \/ place = "exit"

\* A save or load ends, done or given up, and an exit or reset happens, unless
\* the machine is paused: temporary timers do not hold them up for ever.
RequestsAnswered ==
    /\ op # "NONE" ~> op = "NONE" \/ paused
    /\ leaving ~> place = "exit" \/ paused
=============================================================================
