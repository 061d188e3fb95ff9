------------------------------ MODULE Rewinder ------------------------------
(***************************************************************************)
(* The rewinder (src/emu/save.cpp): a list of states in memory that the    *)
(* debugger captures before it single-steps and loads one by one to go     *)
(* back in time.  Of a state only its time and its validity are kept.      *)
(* Rewinding is enabled, and clamp_capacity has found room for one state.  *)
(***************************************************************************)
EXTENDS Integers, Sequences

CONSTANTS
    Single,        \* the size of a state
    Capacity,      \* m_capacity, in the same unit
    MayFail,       \* can saving and loading a state fail?
    MaxTime        \* bound: emulated time

ASSUME SizeAssumption == Single \in Nat \ {0} /\ Capacity \in Nat /\ Capacity >= Single
ASSUME SwitchAssumption == MayFail \in BOOLEAN
ASSUME TimeAssumption == MaxTime \in Nat

VARIABLES
    list,          \* m_state_list
    cur,           \* m_current_index
    firstInvalid,  \* m_first_invalid_index
    now            \* the machine's time

vars == <<list, cur, firstInvalid, now>>

NoIndex == -1

Init == list = <<>> /\ cur = NoIndex /\ firstInvalid = NoIndex /\ now = 0

\* current_index_is_last; list[c + 1] is the state with the index c.
IsLast(l, c) == c = Len(l) - 1

Captured == [time |-> now, valid |-> TRUE]
Invalid(s) == [s EXCEPT !.valid = FALSE]

\* invalidate, when there are states ahead.
InvalidateFrom(l, c) ==
    [i \in 1 .. Len(l) |-> IF i > c THEN Invalid(l[i]) ELSE l[i]]

Excess(l) == Len(l) * Single - Capacity

\* Faulty variants: nothing is dropped; the end of the list is.
DropNone(l) == l
DropLast(l) == IF Excess(l) > 0 THEN SubSeq(l, 1, Len(l) - Excess(l) \div Single) ELSE l

\* What check_size drops at the front of a list that is over the capacity.
Drop(l) == IF Excess(l) > 0 THEN SubSeq(l, 1 + Excess(l) \div Single, Len(l)) ELSE l

\* Is there no room for another state?
Full(l) == Len(l) * Single + Single >= Capacity

\* Faulty variant: the index follows the list.
ShrinkAndAdvance(l, c) == list' = Drop(l) /\ cur' = c + 1

\* check_size and the index: the first state becomes the next one's place.
CheckSize(l, c) ==
    LET kept == Drop(l)
    IN  IF Full(kept) /\ IsLast(kept, c)
        THEN list' = Append(Tail(kept), Invalid(Head(kept))) /\ cur' = c
        ELSE list' = kept /\ cur' = c + 1

-----------------------------------------------------------------------------
\* The state is saved at the end of the list, or over the current one, and
\* those ahead of it are invalidated.
Saved ==
    IF IsLast(list, cur) THEN Append(list, Captured)
    ELSE [InvalidateFrom(list, cur) EXCEPT ![cur + 1] = Captured]

Capture ==
    /\ CheckSize(Saved, cur)
    /\ firstInvalid' = IF IsLast(list', cur') THEN NoIndex ELSE cur' + 1

\* invalidate.
Invalidate ==
    /\ IF IsLast(list, cur) THEN UNCHANGED <<list, firstInvalid>>
       ELSE list' = InvalidateFrom(list, cur) /\ firstInvalid' = cur
    /\ UNCHANGED cur

\* A state that cannot be saved: one to be appended is not, one to be updated
\* is left invalid.
CaptureFails == MayFail /\ Invalidate

\* The debugger's step commands capture, then run; its go commands invalidate.
Runs == now < MaxTime /\ now' = now + 1

SingleStep == Runs /\ (Capture \/ CaptureFails)
Go == Runs /\ Invalidate

\* step, with states to load.
CanStep == cur > 0 /\ firstInvalid # 0
Target == (IF firstInvalid > NoIndex /\ cur > firstInvalid THEN firstInvalid ELSE cur) - 1

Step ==
    /\ CanStep
    /\ cur' = Target
    /\ now' = list[Target + 1].time
    /\ UNCHANGED <<list, firstInvalid>>

\* A state that cannot be loaded.
StepFails ==
    /\ MayFail /\ CanStep
    /\ cur' = Target
    /\ UNCHANGED <<list, firstInvalid, now>>

Next == SingleStep \/ Go \/ Step \/ StepFails
Spec == Init /\ [][Next]_vars

-----------------------------------------------------------------------------
States == [time : Nat, valid : BOOLEAN]

\* Every variable has its type.
TypeOK ==
    /\ list \in Seq(States) /\ now \in Nat
    /\ cur \in Int /\ firstInvalid \in Int

\* The indices stay inside the list, however it is cut and turned: step and
\* capture never ask m_state_list for a state it does not have.
IndicesInRange ==
    /\ cur \in NoIndex .. Len(list) - 1 /\ (cur = NoIndex => list = <<>>)
    /\ firstInvalid \in NoIndex .. Len(list) - 1

\* The states never take more than one state's size above the capacity.
MemoryBounded == Len(list) * Single < Capacity + Single

\* With room for two states, the state just captured is not dropped by
\* check_size, nor passed over: it is the current one or the one before.
CapturedIsKept ==
    [][Runs /\ Capture /\ Capacity >= 2 * Single
        => \E i \in {cur', cur' + 1} \cap 1 .. Len(list') : list'[i] = Captured]_vars

\* "go back in time by loading the most recent rewind state": what step loads is
\* from before the present, though it never looks at m_valid.  It need not be: a
\* state invalidated by running on after a rewind stays in its place, is stepped
\* over by the next captures, and is loaded by a later rewind.
RewindGoesBack == [][Step => now' < now]_vars
=============================================================================
