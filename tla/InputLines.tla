----------------------------- MODULE InputLines -----------------------------
(***************************************************************************)
(* The input lines of a CPU: device_input (src/emu/diexec.cpp).  A change  *)
(* of a line is queued, and a temporary timer empties the queue at the     *)
(* next synchronisation.  Lines are the ordinary ones: what HALT and RESET *)
(* do to a device's suspension, and the interrupt trigger, are ExecSuspend. *)
(* Vectors are left out, and so is what the CPU makes of the events of a   *)
(* queue before the last: its input is a level here, not an edge.          *)
(***************************************************************************)
EXTENDS Naturals, SequencesExt

CONSTANTS
    Line,          \* the input lines
    QueueSize      \* the size of m_queue: 32

ASSUME QueueSizeAssumption == QueueSize \in Nat \ {0}

VARIABLES
    queue,         \* [line -> m_queue up to m_qindex]
    timers,        \* [line -> timers outstanding for empty_event_queue]
    curstate,      \* [line -> m_curstate]
    pin,           \* [line -> is the CPU's input asserted?]
    wanted         \* ghost: the state the line was asked to have last

lineVars == <<queue, timers, curstate, pin, wanted>>

LineState == {"CLEAR", "ASSERT", "HOLD"}

LineInit ==
    /\ queue = [l \in Line |-> <<>>] /\ timers = [l \in Line |-> 0]
    /\ curstate = [l \in Line |-> "CLEAR"] /\ pin = [l \in Line |-> FALSE]
    /\ wanted = [l \in Line |-> "CLEAR"]

\* What empty_event_queue leaves: the last event's state.  The CPU is given each
\* event in turn (execute_set_input), all at one moment of emulated time.
Emptied(l, s) ==
    /\ curstate' = [curstate EXCEPT ![l] = s]
    /\ pin' = [pin EXCEPT ![l] = s # "CLEAR"]

\* Faulty variant: an event that finds the queue full is dropped.
SetStateOrDrop(l, s) ==
    /\ wanted' = [wanted EXCEPT ![l] = s]
    /\ queue' = [queue EXCEPT ![l] = IF Len(@) < QueueSize THEN Append(@, s) ELSE @]
    /\ timers' = [timers EXCEPT ![l] = IF queue[l] = <<>> THEN @ + 1 ELSE @]
    /\ UNCHANGED <<curstate, pin>>

\* set_state_synced: a full queue is emptied on the spot; the first event of a
\* queue takes a timer.
SetState(l, s) ==
    /\ wanted' = [wanted EXCEPT ![l] = s]
    /\ \/ /\ Len(queue[l]) < QueueSize
          /\ queue' = [queue EXCEPT ![l] = Append(@, s)]
          /\ timers' = [timers EXCEPT ![l] = IF queue[l] = <<>> THEN @ + 1 ELSE @]
          /\ UNCHANGED <<curstate, pin>>
       \/ /\ Len(queue[l]) >= QueueSize
          /\ Emptied(l, Last(queue[l]))
          /\ queue' = [queue EXCEPT ![l] = <<s>>]
          /\ timers' = [timers EXCEPT ![l] = @ + 1]

\* A timer expires: empty_event_queue.
EmptyEventQueue(l) ==
    /\ timers[l] > 0
    /\ timers' = [timers EXCEPT ![l] = @ - 1]
    /\ queue' = [queue EXCEPT ![l] = <<>>]
    /\ \/ queue[l] = <<>> /\ UNCHANGED <<curstate, pin>>
       \/ queue[l] # <<>> /\ Emptied(l, Last(queue[l]))
    /\ UNCHANGED wanted

\* The CPU takes the interrupt, default_irq_callback: a held line is let go, and
\* is wanted clear now, unless the next change of it is queued already.
Acknowledge(l) ==
    /\ pin[l] /\ curstate[l] = "HOLD"
    /\ Emptied(l, "CLEAR")
    /\ wanted' = [wanted EXCEPT ![l] = IF queue[l] = <<>> THEN "CLEAR" ELSE @]
    /\ UNCHANGED <<queue, timers>>

-----------------------------------------------------------------------------
LineTypeOK ==
    /\ queue \in [Line -> Seq(LineState)] /\ timers \in [Line -> Nat]
    /\ curstate \in [Line -> LineState] /\ pin \in [Line -> BOOLEAN]
    /\ wanted \in [Line -> LineState]

\* Events that wait in a line's queue have a timer that will deliver them
\* ("enqueue an event for later execution via timer"): without one no event is
\* ever the first again, and the line is dead until the queue overflows.
QueueTimed == \A l \in Line : queue[l] # <<>> => timers[l] > 0
=============================================================================
