-------------------------- MODULE Rewinder_proofs --------------------------
(***************************************************************************)
(* The rewinder's indices and memory, for every capacity and state size.   *)
(***************************************************************************)
EXTENDS Rewinder, TLAPS

-----------------------------------------------------------------------------
(* Arithmetic of sizes.                                                    *)

\* A list that is at most one state over drops nothing but that state.
LEMMA SmallQuotient ==
    ASSUME NEW e \in Nat, NEW s \in Nat \ {0}, e < 2 * s
    PROVE  (e < s => e \div s = 0) /\ (e >= s => e \div s = 1)
OBVIOUS

\* Sizes are whole numbers, and grow by one state's size with each state.
LEMMA Sizes ==
    ASSUME NEW n \in Nat
    PROVE  n * Single \in Nat /\ (n + 1) * Single = n * Single + Single
BY SizeAssumption

LEMMA SizesLess ==
    ASSUME NEW n \in Nat, n >= 1
    PROVE  n * Single \in Nat /\ (n - 1) * Single = n * Single - Single
BY SizeAssumption

LEMMA SizeOfOne ==
    ASSUME NEW n \in Nat, n * Single >= 2 * Single PROVE n >= 2
BY SizeAssumption

\* The index after one that is not the last is inside the list.
LEMMA NextIndex ==
    ASSUME NEW n \in Int, NEW c \in 0 .. n - 1, c # n - 1
    PROVE  c + 1 \in -1 .. n - 1
OBVIOUS

-----------------------------------------------------------------------------
(* The parts of capture and invalidate.                                    *)

\* A state stays one when it is marked invalid.
LEMMA InvalidState == ASSUME NEW s \in States PROVE Invalid(s) \in States
BY DEF Invalid, States

\* Invalidation keeps the list's length and types.
LEMMA InvalidateKeeps ==
    ASSUME NEW l \in Seq(States), NEW c \in Int
    PROVE  InvalidateFrom(l, c) \in Seq(States) /\ Len(InvalidateFrom(l, c)) = Len(l)
<1>1. \A i \in 1 .. Len(l) : Invalid(l[i]) \in States /\ l[i] \in States
    BY InvalidState
<1>2. \A i \in 1 .. Len(l) : (IF i > c THEN Invalid(l[i]) ELSE l[i]) \in States
    BY <1>1
<1>3. Len(l) \in Nat
    OBVIOUS
<1>4. QED
    BY <1>2, <1>3 DEF InvalidateFrom

\* The list a capture hands to check_size has a state more, or the index is not
\* at its end.
LEMMA SavedKeeps ==
    ASSUME TypeOK, IndicesInRange
    PROVE  /\ Saved \in Seq(States)
           /\ cur \in NoIndex .. Len(Saved) - 2
           /\ \/ Len(Saved) = Len(list) + 1 /\ cur = Len(Saved) - 2
              \/ Len(Saved) = Len(list)
<1>1. Captured \in States
    BY DEF Captured, TypeOK, States
<1>2. CASE IsLast(list, cur)
    BY <1>1, <1>2 DEF Saved, IsLast, TypeOK, IndicesInRange, NoIndex
<1>3. CASE ~IsLast(list, cur)
    <2> DEFINE inv == InvalidateFrom(list, cur)
    <2>1. inv \in Seq(States) /\ Len(inv) = Len(list)
        BY InvalidateKeeps DEF TypeOK
    <2>2. cur \in 0 .. Len(list) - 2
        BY <1>3 DEF IsLast, TypeOK, IndicesInRange, NoIndex
    <2>3. Saved = [inv EXCEPT ![cur + 1] = Captured]
        BY <1>3 DEF Saved
    <2> HIDE DEF inv
    <2>4. Saved \in Seq(States) /\ Len(Saved) = Len(list)
        BY <1>1, <2>1, <2>2, <2>3
    <2>5. QED
        BY <2>2, <2>4 DEF NoIndex
<1>4. QED
    BY <1>2, <1>3

\* What check_size is given: a list at most one state over the capacity, or at
\* most two over and the index just before the new last state.
Saveable(l, c) ==
    \/ Len(l) * Single < Capacity + Single
    \/ c = Len(l) - 2 /\ Len(l) * Single < Capacity + 2 * Single

\* What check_size does with it: it goes on to the next index, or it drops the first
\* state, turns the rest and stays at its index.
Goes(l, c) == list' = l /\ cur' = c + 1
Turns(l, c) ==
    /\ c = Len(l) - 2 /\ Len(l) >= 2 /\ Len(l) * Single >= Capacity + Single
    /\ list' = Append(Tail(Tail(l)), Invalid(Head(Tail(l)))) /\ cur' = c

LEMMA CheckSizeIs ==
    ASSUME NEW l \in Seq(States), NEW c \in NoIndex .. Len(l) - 2,
           Saveable(l, c), CheckSize(l, c)
    PROVE  \/ Goes(l, c) /\ Len(l) * Single < Capacity + Single
           \/ Turns(l, c) /\ Len(l) * Single < Capacity + 2 * Single
<1>1. Len(l) \in Nat /\ Len(l) * Single \in Nat /\ Single \in Nat \ {0} /\ Capacity \in Nat
    BY Sizes, SizeAssumption
<1>2. CASE Len(l) * Single < Capacity + Single
    <2>1. Drop(l) = l
        <3>1. CASE Excess(l) > 0
            <4>1. Excess(l) \in Nat /\ Excess(l) < Single
                BY <1>1, <1>2, <3>1 DEF Excess
            <4>2. Excess(l) \div Single = 0
                BY <1>1, <4>1, SmallQuotient
            <4>3. Drop(l) = SubSeq(l, 1, Len(l))
                BY <3>1, <4>2 DEF Drop
            <4>4. QED
                BY <4>3
        <3>2. QED
            BY <3>1 DEF Drop
    <2>2. QED
        BY <1>1, <1>2, <2>1 DEF CheckSize, IsLast, Goes
<1>3. CASE c = Len(l) - 2 /\ Len(l) * Single < Capacity + 2 * Single
           /\ ~(Len(l) * Single < Capacity + Single)
    <2>1. Excess(l) \in Nat /\ Excess(l) >= Single /\ Excess(l) < 2 * Single /\ Excess(l) > 0
        BY <1>1, <1>3 DEF Excess
    <2>2. Excess(l) \div Single = 1
        BY <1>1, <2>1, SmallQuotient
    <2>3. Drop(l) = SubSeq(l, 2, Len(l))
        BY <2>1, <2>2 DEF Drop
    <2>4. Len(l) >= 2
        <3>1. Len(l) * Single >= 2 * Single
            BY <1>1, <1>3, SizeAssumption
        <3>2. QED
            BY <1>1, <3>1, SizeOfOne
    <2>5. Drop(l) = Tail(l) /\ Len(Tail(l)) = Len(l) - 1
        BY <1>1, <2>3, <2>4
    <2>6. Len(Tail(l)) * Single = Len(l) * Single - Single
        BY <1>1, <2>4, <2>5, SizesLess
    <2>7. Full(Tail(l)) /\ IsLast(Tail(l), c)
        BY <1>1, <1>3, <2>5, <2>6 DEF Full, IsLast
    <2>8. list' = Append(Tail(Tail(l)), Invalid(Head(Tail(l)))) /\ cur' = c
        BY <2>5, <2>7 DEF CheckSize
    <2>9. QED
        BY <1>1, <1>3, <2>4, <2>8 DEF Turns
<1>4. QED
    BY <1>2, <1>3 DEF Saveable

\* A turned list has a state less; all but its last state are where they were,
\* two places nearer the front.
LEMMA TurnedIs ==
    ASSUME NEW l \in Seq(States), NEW c, Turns(l, c)
    PROVE  /\ list' \in Seq(States) /\ Len(list') = Len(l) - 1
           /\ \A i \in 1 .. Len(l) - 2 : list'[i] = l[i + 2]
           /\ ~list'[Len(l) - 1].valid
<1> DEFINE rest == Tail(Tail(l))
           last == Invalid(Head(Tail(l)))
<1>1. Len(l) \in Nat /\ Len(l) >= 2
    BY DEF Turns
<1>2. Tail(l) \in Seq(States) /\ Len(Tail(l)) = Len(l) - 1
    BY <1>1
<1>3. rest \in Seq(States) /\ Len(rest) = Len(l) - 2 /\ Head(Tail(l)) \in States
    <2> DEFINE t == Tail(l)
    <2>1. t \in Seq(States) /\ Len(t) >= 1 /\ Len(t) = Len(l) - 1 /\ Len(l) \in Nat
        BY <1>1, <1>2
    <2> HIDE DEF t
    <2>2. t # <<>> /\ Tail(t) \in Seq(States) /\ Len(Tail(t)) = Len(l) - 2 /\ Head(t) \in States
        BY <2>1
    <2>3. QED
        BY <2>2 DEF t
<1>4. last \in States /\ ~last.valid
    <2>1. ~last.valid
        BY <1>3 DEF Invalid, States
    <2> HIDE DEF last
    <2>2. last \in States
        BY <1>3, InvalidState DEF last
    <2>3. QED
        BY <2>1, <2>2
<1>5. \A i \in 1 .. Len(l) - 2 : rest[i] = l[i + 2]
    BY <1>1, <1>2
<1>6. list' = Append(rest, last)
    BY DEF Turns
<1> HIDE DEF rest, last
<1>7. QED
    BY <1>1, <1>3, <1>4, <1>5, <1>6

\* check_size leaves the index at a state of the list, and the list no more than
\* one state over the capacity.
LEMMA CheckSizeKeeps ==
    ASSUME NEW l \in Seq(States), NEW c \in NoIndex .. Len(l) - 2,
           Saveable(l, c), CheckSize(l, c)
    PROVE  /\ list' \in Seq(States) /\ cur' \in 0 .. Len(list') - 1
           /\ Len(list') * Single < Capacity + Single
<1>1. Len(l) \in Nat /\ Len(l) * Single \in Nat /\ Single \in Nat \ {0} /\ Capacity \in Nat
    BY Sizes, SizeAssumption
<1>2. CASE Goes(l, c) /\ Len(l) * Single < Capacity + Single
    BY <1>1, <1>2 DEF Goes, NoIndex
<1>3. CASE Turns(l, c) /\ Len(l) * Single < Capacity + 2 * Single
    <2>1. list' \in Seq(States) /\ Len(list') = Len(l) - 1
        BY <1>3, TurnedIs
    <2>2. Len(l) >= 2 /\ cur' = Len(l) - 2
        BY <1>3 DEF Turns
    <2>3. Len(list') * Single = Len(l) * Single - Single
        BY <1>1, <2>1, <2>2, SizesLess
    <2>4. QED
        BY <1>1, <1>3, <2>1, <2>2, <2>3
<1>4. QED
    BY <1>2, <1>3, CheckSizeIs

-----------------------------------------------------------------------------
(* The invariant: indices and memory support each other, as check_size turns *)
(* the list only because a list that is over by a state is full, and then the *)
(* index is at its end.                                                       *)

RewindInv == TypeOK /\ IndicesInRange /\ MemoryBounded

LEMMA RewindInit == Init => RewindInv
BY SizeAssumption DEF Init, RewindInv, TypeOK, IndicesInRange, MemoryBounded, NoIndex

\* Capture hands check_size what it can cope with.
LEMMA SavedFits == ASSUME RewindInv PROVE Saveable(Saved, cur)
<1>1. \/ Len(Saved) = Len(list) + 1 /\ cur = Len(Saved) - 2
      \/ Len(Saved) = Len(list)
    BY SavedKeeps DEF RewindInv
<1>2. Len(list) * Single < Capacity + Single /\ Len(list) \in Nat
    BY DEF RewindInv, MemoryBounded, TypeOK
<1>3. (Len(list) + 1) * Single = Len(list) * Single + Single /\ Len(list) * Single \in Nat
    BY <1>2, Sizes
<1>4. QED
    BY <1>1, <1>2, <1>3, SizeAssumption DEF Saveable

LEMMA CaptureKeeps ==
    ASSUME RewindInv, Capture, now' \in Nat PROVE RewindInv'
<1>1. /\ Saved \in Seq(States) /\ cur \in NoIndex .. Len(Saved) - 2
      /\ \/ Len(Saved) = Len(list) + 1 /\ cur = Len(Saved) - 2
         \/ Len(Saved) = Len(list)
    BY SavedKeeps DEF RewindInv
<1>2. Len(list) * Single < Capacity + Single /\ Len(list) \in Nat
    BY DEF RewindInv, MemoryBounded, TypeOK
<1>3. Saveable(Saved, cur)
    BY SavedFits
<1>4. /\ list' \in Seq(States) /\ cur' \in 0 .. Len(list') - 1
      /\ Len(list') * Single < Capacity + Single
    BY <1>1, <1>3, CheckSizeKeeps DEF Capture
<1>5. firstInvalid' \in NoIndex .. Len(list') - 1
    <2>1. Len(list') \in Nat /\ cur' \in 0 .. Len(list') - 1
        BY <1>4
    <2>2. CASE cur' = Len(list') - 1
        <3>1. firstInvalid' = -1
            BY <2>2 DEF Capture, IsLast, NoIndex
        <3>2. QED
            BY <2>1, <3>1 DEF NoIndex
    <2>3. CASE cur' # Len(list') - 1
        <3>1. firstInvalid' = cur' + 1
            BY <2>3 DEF Capture, IsLast
        <3>2. cur' + 1 \in -1 .. Len(list') - 1
            <4> DEFINE n == Len(list')
                       c == cur'
            <4>1. n \in Int /\ c \in 0 .. n - 1 /\ c # n - 1
                BY <2>1, <2>3
            <4> HIDE DEF n, c
            <4>2. c + 1 \in -1 .. n - 1
                BY <4>1, NextIndex
            <4>3. QED
                BY <4>2 DEF n, c
        <3>3. QED
            BY <3>1, <3>2 DEF NoIndex
    <2>4. QED
        BY <2>2, <2>3
<1>6. QED
    BY <1>4, <1>5 DEF RewindInv, TypeOK, IndicesInRange, MemoryBounded, NoIndex

LEMMA InvalidationKeeps ==
    ASSUME RewindInv, Invalidate, now' \in Nat PROVE RewindInv'
<1>1. InvalidateFrom(list, cur) \in Seq(States) /\ Len(InvalidateFrom(list, cur)) = Len(list)
    BY InvalidateKeeps DEF RewindInv, TypeOK
<1>2. /\ cur' = cur /\ list' \in Seq(States) /\ Len(list') = Len(list)
      /\ firstInvalid' \in {firstInvalid, cur}
    BY <1>1 DEF Invalidate, RewindInv, TypeOK
<1>3. list = <<>> => list' = <<>>
    BY <1>2 DEF RewindInv, TypeOK
<1>4. QED
    BY <1>2, <1>3 DEF RewindInv, TypeOK, IndicesInRange, MemoryBounded, NoIndex

LEMMA RewindStep == RewindInv /\ [Next]_vars => RewindInv'
<1> SUFFICES ASSUME RewindInv, [Next]_vars PROVE RewindInv'
    OBVIOUS
<1>1. CASE SingleStep \/ Go
    <2>1. now' \in Nat
        BY <1>1 DEF SingleStep, Go, Runs, RewindInv, TypeOK
    <2>2. QED
        BY <1>1, <2>1, CaptureKeeps, InvalidationKeeps DEF SingleStep, Go, CaptureFails
<1>2. CASE Step \/ StepFails
    <2>1. Target \in 0 .. Len(list) - 1 /\ UNCHANGED <<list, firstInvalid>> /\ cur' = Target
        BY <1>2 DEF Step, StepFails, CanStep, Target, RewindInv, TypeOK, IndicesInRange, NoIndex
    <2>2. list[Target + 1] \in States
        BY <2>1 DEF RewindInv, TypeOK
    <2>3. now' \in Nat
        BY <1>2, <2>2 DEF Step, StepFails, RewindInv, TypeOK, States
    <2>4. QED
        BY <2>1, <2>3 DEF RewindInv, TypeOK, IndicesInRange, MemoryBounded, NoIndex
<1>3. CASE UNCHANGED vars
    BY <1>3 DEF vars, RewindInv, TypeOK, IndicesInRange, MemoryBounded
<1>4. QED
    BY <1>1, <1>2, <1>3 DEF Next

LEMMA AlwaysRewindInv == Spec => []RewindInv
BY RewindInit, RewindStep, PTL DEF Spec

\* Every variable has its type.
THEOREM TypeCorrect == Spec => []TypeOK
<1>1. RewindInv => TypeOK
    BY DEF RewindInv
<1>2. QED
    BY <1>1, AlwaysRewindInv, PTL

\* No index ever leaves the list, whatever the capacity and the order of steps.
THEOREM IndicesStayInRange == Spec => []IndicesInRange
<1>1. RewindInv => IndicesInRange
    BY DEF RewindInv
<1>2. QED
    BY <1>1, AlwaysRewindInv, PTL

\* The states never take more than the capacity and a state.
THEOREM MemoryStaysBounded == Spec => []MemoryBounded
<1>1. RewindInv => MemoryBounded
    BY DEF RewindInv
<1>2. QED
    BY <1>1, AlwaysRewindInv, PTL

\* Where the captured state is before check_size looks at it: at the end, just after
\* the index, or at the index.
LEMMA SavedThere ==
    ASSUME RewindInv
    PROVE  \/ /\ Len(Saved) = Len(list) + 1 /\ cur = Len(Saved) - 2
              /\ Saved[Len(Saved)] = Captured
           \/ /\ Len(Saved) = Len(list) /\ cur \in 0 .. Len(Saved) - 2
              /\ Saved[cur + 1] = Captured
<1>0. list \in Seq(States) /\ Len(list) \in Nat /\ cur \in NoIndex .. Len(list) - 1
      /\ (cur = NoIndex => list = <<>>)
    BY DEF RewindInv, TypeOK, IndicesInRange
<1>1. CASE IsLast(list, cur)
    <2>1. Saved = Append(list, Captured) /\ cur = Len(list) - 1
        BY <1>1 DEF Saved, IsLast
    <2>2. QED
        BY <1>0, <2>1
<1>2. CASE ~IsLast(list, cur)
    <2> DEFINE inv == InvalidateFrom(list, cur)
    <2>1. inv \in Seq(States) /\ Len(inv) = Len(list)
        BY <1>0, InvalidateKeeps
    <2>2. cur \in 0 .. Len(list) - 2
        BY <1>0, <1>2 DEF IsLast, NoIndex
    <2>3. Saved = [inv EXCEPT ![cur + 1] = Captured]
        BY <1>2 DEF Saved
    <2> HIDE DEF inv
    <2>4. Len(Saved) = Len(inv) /\ Saved[cur + 1] = Captured
        BY <2>1, <2>2, <2>3
    <2>5. QED
        BY <2>1, <2>2, <2>4
<1>3. QED
    BY <1>1, <1>2

\* With room for two states, a list that is turned has three.
LEMMA TurnsThree ==
    ASSUME NEW l \in Seq(States), NEW c, Turns(l, c), Capacity >= 2 * Single
    PROVE  Len(l) >= 3
<1>1. Len(l) \in Nat /\ Len(l) >= 2 /\ Len(l) * Single >= Capacity + Single
    BY DEF Turns
<1>2. (Len(l) - 1) * Single >= 2 * Single
    BY <1>1, SizesLess, SizeAssumption
<1>3. Len(l) - 1 >= 2
    BY <1>1, <1>2, SizeOfOne
<1>4. QED
    BY <1>1, <1>3

\* With room for two states, neither the drop nor the turn of check_size takes the
\* state just captured, and the index is at it or just before it.
THEOREM CaptureIsKept == Spec => CapturedIsKept
<1> DEFINE Kept == \E i \in {cur', cur' + 1} \cap 1 .. Len(list') : list'[i] = Captured
<1>1. ASSUME RewindInv, Capture, Capacity >= 2 * Single PROVE Kept
    <2> DEFINE l == Saved
    <2>1. l \in Seq(States) /\ cur \in NoIndex .. Len(l) - 2 /\ Saveable(l, cur)
        BY <1>1, SavedKeeps, SavedFits DEF RewindInv
    <2>2. Len(l) \in Nat /\ CheckSize(l, cur)
        BY <1>1, <2>1 DEF Capture
    <2>3. \/ /\ Len(l) = Len(list) + 1 /\ cur = Len(l) - 2 /\ l[Len(l)] = Captured
          \/ /\ Len(l) = Len(list) /\ cur \in 0 .. Len(l) - 2 /\ l[cur + 1] = Captured
        BY <1>1, SavedThere
    <2>4. Len(list) * Single < Capacity + Single
        BY <1>1 DEF RewindInv, MemoryBounded
    <2> HIDE DEF l
    <2>5. CASE Goes(l, cur)
        <3>1. list' = l /\ cur' = cur + 1
            BY <2>5 DEF Goes
        <3>2. CASE cur = Len(l) - 2 /\ l[Len(l)] = Captured
            <4>1. cur' + 1 = Len(l) /\ Len(l) \in 1 .. Len(list')
                BY <2>1, <2>2, <3>1, <3>2 DEF NoIndex
            <4>2. QED
                BY <3>1, <3>2, <4>1
        <3>3. CASE cur \in 0 .. Len(l) - 2 /\ l[cur + 1] = Captured
            BY <2>2, <3>1, <3>3
        <3>4. QED
            BY <2>3, <3>2, <3>3
    <2>6. CASE Turns(l, cur)
        <3>1. /\ cur = Len(l) - 2 /\ Len(l) * Single >= Capacity + Single /\ cur' = cur
              /\ Len(l) >= 3
            BY <1>1, <2>1, <2>6, TurnsThree DEF Turns
        <3>2. l[Len(l)] = Captured
            <4>1. Len(l) * Single \in Nat /\ Capacity + Single \in Nat
                BY <2>2, Sizes, SizeAssumption
            <4>2. Len(l) # Len(list)
                BY <2>4, <3>1, <4>1
            <4>3. QED
                BY <2>3, <4>2
        <3>3. Len(list') = Len(l) - 1 /\ \A i \in 1 .. Len(l) - 2 : list'[i] = l[i + 2]
            BY <2>1, <2>6, TurnedIs
        <3>4. Len(l) - 2 \in 1 .. Len(l) - 2 /\ list'[Len(l) - 2] = l[Len(l)]
            BY <2>2, <3>1, <3>3
        <3>5. cur' = Len(l) - 2 /\ Len(l) - 2 \in 1 .. Len(list')
            BY <2>2, <3>1, <3>3, <3>4
        <3>6. QED
            BY <3>2, <3>4, <3>5
    <2>7. QED
        BY <2>1, <2>2, <2>5, <2>6, CheckSizeIs
<1> HIDE DEF Kept
<1>2. RewindInv /\ [Next]_vars => [Runs /\ Capture /\ Capacity >= 2 * Single => Kept]_vars
    BY <1>1
<1>3. QED
    BY <1>2, RewindInit, RewindStep, PTL DEF Spec, CapturedIsKept, Kept

-----------------------------------------------------------------------------
(* Going back.  step does not ask for m_valid.  This is what it would take: *)
(* the valid states are in the order of time, and those before the current  *)
(* one, or all if the current one is the last, are in the machine's past.   *)

Rises(l) ==
    \A i, j \in 1 .. Len(l) :
        i < j /\ l[i].valid /\ l[j].valid => l[i].time < l[j].time
Before(l, n, t) == \A i \in 1 .. Len(l) : i <= n /\ l[i].valid => l[i].time < t
AllBefore(l, t) == Before(l, Len(l), t)

PastInv ==
    /\ Rises(list) /\ Before(list, cur, now)
    /\ IsLast(list, cur) => AllBefore(list, now)

LEMMA StateTimes ==
    ASSUME NEW l \in Seq(States)
    PROVE  Len(l) \in Nat /\ \A i \in 1 .. Len(l) : l[i].time \in Nat
<1>1. \A i \in 1 .. Len(l) : l[i] \in States
    OBVIOUS
<1>2. \A s \in States : s.time \in Nat
    BY DEF States
<1>3. QED
    BY <1>1, <1>2

\* Invalidation leaves the states before the index.
LEMMA InvalidatePast ==
    ASSUME NEW l \in Seq(States), NEW c \in Int, NEW t \in Nat, Rises(l), Before(l, c, t)
    PROVE  Rises(InvalidateFrom(l, c)) /\ AllBefore(InvalidateFrom(l, c), t)
<1> DEFINE inv == InvalidateFrom(l, c)
<1>1. Len(inv) = Len(l) /\ Len(l) \in Nat
    BY InvalidateKeeps
<1>2. ASSUME NEW i \in 1 .. Len(l), inv[i].valid PROVE i <= c /\ inv[i] = l[i]
    <2>1. l[i] \in States /\ inv[i] = IF i > c THEN Invalid(l[i]) ELSE l[i]
        BY DEF InvalidateFrom
    <2>2. ~Invalid(l[i]).valid
        BY <2>1 DEF Invalid, States
    <2> HIDE DEF inv
    <2>3. QED
        BY <1>2, <2>1, <2>2
<1> HIDE DEF inv
<1>3. Rises(inv)
    BY <1>1, <1>2 DEF Rises
<1>4. AllBefore(inv, t)
    BY <1>1, <1>2 DEF AllBefore, Before
<1>5. QED
    BY <1>3, <1>4 DEF inv

\* The list a capture hands to check_size is in order, with the captured state as its
\* latest.
LEMMA SavedPast ==
    ASSUME RewindInv, PastInv PROVE Rises(Saved) /\ AllBefore(Saved, now + 1)
<1>0. /\ list \in Seq(States) /\ Len(list) \in Nat /\ cur \in NoIndex .. Len(list) - 1
      /\ (cur = NoIndex => list = <<>>) /\ now \in Nat
      /\ \A i \in 1 .. Len(list) : list[i].time \in Nat
    BY StateTimes DEF RewindInv, TypeOK, IndicesInRange
<1>1. Captured \in States /\ Captured.time = now
    BY <1>0 DEF Captured, States
<1>2. CASE IsLast(list, cur)
    <2>1. AllBefore(list, now) /\ Rises(list)
        BY <1>2 DEF PastInv
    <2>2. /\ Len(Saved) = Len(list) + 1 /\ Saved[Len(list) + 1] = Captured
          /\ \A i \in 1 .. Len(list) : Saved[i] = list[i]
        <3>1. Saved = Append(list, Captured)
            BY <1>2 DEF Saved
        <3>2. QED
            BY <1>0, <3>1
    <2>3. Rises(Saved)
        <3> SUFFICES ASSUME NEW i \in 1 .. Len(Saved), NEW j \in 1 .. Len(Saved),
                            i < j, Saved[i].valid, Saved[j].valid
                     PROVE  Saved[i].time < Saved[j].time
            BY DEF Rises
        <3>1. i \in 1 .. Len(list) /\ Saved[i] = list[i] /\ i <= Len(list)
            BY <1>0, <2>2
        <3>2. list[i].time < now
            BY <2>1, <3>1 DEF AllBefore, Before
        <3>3. CASE j = Len(list) + 1
            BY <1>1, <2>2, <3>1, <3>2, <3>3
        <3>4. CASE j # Len(list) + 1
            <4>1. j \in 1 .. Len(list) /\ Saved[j] = list[j]
                BY <1>0, <2>2, <3>4
            <4>2. QED
                BY <2>1, <3>1, <4>1 DEF Rises
        <3>5. QED
            BY <3>3, <3>4
    <2>4. AllBefore(Saved, now + 1)
        <3> SUFFICES ASSUME NEW i \in 1 .. Len(Saved), Saved[i].valid
                     PROVE  Saved[i].time < now + 1
            BY DEF AllBefore, Before
        <3>1. CASE i = Len(list) + 1
            BY <1>0, <1>1, <2>2, <3>1
        <3>2. CASE i \in 1 .. Len(list)
            <4>1. Saved[i] = list[i] /\ list[i].time < now /\ list[i].time \in Nat
                BY <1>0, <2>1, <2>2, <3>2 DEF AllBefore, Before
            <4>2. QED
                BY <1>0, <4>1
        <3>3. QED
            BY <1>0, <2>2, <3>1, <3>2
    <2>5. QED
        BY <2>3, <2>4
<1>3. CASE ~IsLast(list, cur)
    <2> DEFINE inv == InvalidateFrom(list, cur)
    <2>1. inv \in Seq(States) /\ Len(inv) = Len(list) /\ cur \in 0 .. Len(list) - 2
        BY <1>0, <1>3, InvalidateKeeps DEF IsLast, NoIndex
    <2>2. Rises(inv) /\ AllBefore(inv, now)
        BY <1>0, InvalidatePast DEF PastInv
    <2>3. Saved = [inv EXCEPT ![cur + 1] = Captured]
        BY <1>3 DEF Saved
    <2>4. ASSUME NEW i \in 1 .. Len(list), i > cur PROVE ~inv[i].valid
        <3>1. list[i] \in States /\ inv[i] = Invalid(list[i])
            BY <1>0, <2>4 DEF InvalidateFrom
        <3> HIDE DEF inv
        <3>2. QED
            BY <3>1 DEF Invalid, States
    <2> HIDE DEF inv
    <2>5. /\ Len(Saved) = Len(list) /\ Saved[cur + 1] = Captured
          /\ \A i \in 1 .. Len(list) : i # cur + 1 => Saved[i] = inv[i]
          /\ \A i \in 1 .. Len(list) : inv[i].time \in Nat
        <3>1. \A i \in 1 .. Len(list) : inv[i].time \in Nat
            BY <2>1, StateTimes
        <3>2. QED
            BY <1>0, <2>1, <2>3, <3>1
    <2>6. ASSUME NEW i \in 1 .. Len(list), Saved[i].valid
          PROVE  \/ i = cur + 1 /\ Saved[i].time = now
                 \/ i <= cur /\ Saved[i] = inv[i] /\ inv[i].time < now
        <3>1. CASE i = cur + 1
            BY <1>1, <2>5, <3>1
        <3>2. CASE i # cur + 1
            <4>1. inv[i].valid /\ Saved[i] = inv[i]
                BY <2>5, <2>6, <3>2
            <4>2. ~(i > cur) /\ inv[i].time < now
                BY <2>1, <2>2, <2>4, <4>1 DEF AllBefore, Before
            <4>3. QED
                BY <2>1, <4>1, <4>2
        <3>3. QED
            BY <3>1, <3>2
    <2>7. Rises(Saved)
        <3> SUFFICES ASSUME NEW i \in 1 .. Len(list), NEW j \in 1 .. Len(list),
                            i < j, Saved[i].valid, Saved[j].valid
                     PROVE  Saved[i].time < Saved[j].time
            BY <2>5 DEF Rises
        <3>1. i <= cur /\ Saved[i] = inv[i] /\ inv[i].time < now
            BY <2>1, <2>6
        <3>2. CASE j = cur + 1
            BY <1>1, <2>5, <3>1, <3>2
        <3>3. CASE j # cur + 1
            BY <2>1, <2>2, <2>6, <3>1, <3>3 DEF Rises
        <3>4. QED
            BY <3>2, <3>3
    <2>8. AllBefore(Saved, now + 1)
        <3> SUFFICES ASSUME NEW i \in 1 .. Len(list), Saved[i].valid
                     PROVE  Saved[i].time < now + 1
            BY <2>5 DEF AllBefore, Before
        <3>1. Saved[i].time = now \/ (Saved[i].time \in Nat /\ Saved[i].time < now)
            BY <2>5, <2>6
        <3>2. QED
            BY <1>0, <3>1
    <2>9. QED
        BY <2>7, <2>8
<1>4. QED
    BY <1>2, <1>3

\* Neither cutting nor turning the list disturbs the order of its valid states.
LEMMA CheckSizePast ==
    ASSUME NEW l \in Seq(States), NEW c \in NoIndex .. Len(l) - 2,
           Saveable(l, c), CheckSize(l, c), NEW t \in Nat, Rises(l), AllBefore(l, t)
    PROVE  Rises(list') /\ AllBefore(list', t)
<1>1. CASE Goes(l, c)
    BY <1>1 DEF Goes
<1>2. CASE Turns(l, c)
    <2>1. /\ Len(list') = Len(l) - 1 /\ Len(l) \in Nat /\ Len(l) >= 2
          /\ \A i \in 1 .. Len(l) - 2 : list'[i] = l[i + 2]
          /\ ~list'[Len(l) - 1].valid
        <3>1. Len(l) >= 2
            BY <1>2 DEF Turns
        <3>2. QED
            BY <1>2, <3>1, TurnedIs
    <2>2. ASSUME NEW i \in 1 .. Len(list'), list'[i].valid
          PROVE  i + 2 \in 1 .. Len(l) /\ list'[i] = l[i + 2]
        <3>1. i # Len(l) - 1
            BY <2>1, <2>2
        <3>2. i \in 1 .. Len(l) - 2
            BY <2>1, <3>1
        <3>3. QED
            BY <2>1, <3>2
    <2>3. Rises(list')
        <3> SUFFICES ASSUME NEW i \in 1 .. Len(list'), NEW j \in 1 .. Len(list'),
                            i < j, list'[i].valid, list'[j].valid
                     PROVE  list'[i].time < list'[j].time
            BY DEF Rises
        <3>1. /\ i + 2 \in 1 .. Len(l) /\ list'[i] = l[i + 2]
              /\ j + 2 \in 1 .. Len(l) /\ list'[j] = l[j + 2]
            BY <2>2
        <3>2. i + 2 < j + 2
            BY <2>1
        <3>3. QED
            BY <3>1, <3>2 DEF Rises
    <2>4. AllBefore(list', t)
        <3> SUFFICES ASSUME NEW i \in 1 .. Len(list'), list'[i].valid PROVE list'[i].time < t
            BY DEF AllBefore, Before
        <3>1. i + 2 \in 1 .. Len(l) /\ list'[i] = l[i + 2]
            BY <2>2
        <3>2. i + 2 <= Len(l)
            BY <2>1, <3>1
        <3>3. QED
            BY <3>1, <3>2 DEF AllBefore, Before
    <2>5. QED
        BY <2>3, <2>4
<1>3. QED
    BY <1>1, <1>2, CheckSizeIs

\* Once the machine has run on, all valid states are in its past.
LEMMA RunsPast ==
    ASSUME RewindInv, PastInv, Runs, Capture \/ Invalidate PROVE PastInv'
<1>1. now \in Nat /\ now' = now + 1 /\ list \in Seq(States) /\ cur \in Int
    BY DEF Runs, RewindInv, TypeOK
<1>2. RewindInv'
    BY <1>1, CaptureKeeps, InvalidationKeeps
<1>3. Rises(list') /\ AllBefore(list', now')
    <2>1. CASE Capture
        <3>1. Saved \in Seq(States) /\ cur \in NoIndex .. Len(Saved) - 2
            BY SavedKeeps DEF RewindInv
        <3>2. Rises(Saved) /\ AllBefore(Saved, now + 1) /\ now + 1 \in Nat
            BY <1>1, SavedPast
        <3>3. QED
            BY <1>1, <2>1, <3>1, <3>2, SavedFits, CheckSizePast DEF Capture
    <2>2. CASE Invalidate
        <3>1. Rises(list') /\ AllBefore(list', now)
            <4>1. CASE IsLast(list, cur)
                BY <2>2, <4>1 DEF Invalidate, PastInv
            <4>2. CASE ~IsLast(list, cur)
                BY <1>1, <2>2, <4>2, InvalidatePast DEF Invalidate, PastInv
            <4>3. QED
                BY <4>1, <4>2
        <3>2. \A i \in 1 .. Len(list') : list'[i].time \in Nat
            BY <1>2, StateTimes DEF RewindInv, TypeOK
        <3>3. QED
            BY <1>1, <3>1, <3>2 DEF AllBefore, Before
    <2>3. QED
        BY <2>1, <2>2
<1>4. Before(list', cur', now')
    <2>1. Len(list') \in Nat /\ cur' \in Int
        BY <1>2 DEF RewindInv, TypeOK
    <2>2. \A i \in 1 .. Len(list') : i <= Len(list')
        BY <2>1
    <2>3. QED
        BY <1>3, <2>2 DEF AllBefore, Before
<1>5. QED
    BY <1>3, <1>4 DEF PastInv

\* step goes to a state before the current one.
LEMMA TargetIs ==
    ASSUME RewindInv, CanStep
    PROVE  /\ Target \in Nat /\ Target < cur /\ Target + 1 \in 1 .. Len(list)
           /\ Target + 1 <= cur /\ Target # Len(list) - 1
BY DEF CanStep, Target, RewindInv, TypeOK, IndicesInRange, NoIndex

LEMMA StepsPast ==
    ASSUME RewindInv, PastInv, Step, list[Target + 1].valid PROVE PastInv' /\ now' < now
<1>1. /\ Target \in Nat /\ Target < cur /\ Target + 1 \in 1 .. Len(list)
      /\ Target + 1 <= cur /\ Target # Len(list) - 1 /\ Len(list) \in Nat /\ cur \in Int
    BY TargetIs DEF Step, RewindInv, TypeOK
<1>2. list' = list /\ cur' = Target /\ now' = list[Target + 1].time
    BY DEF Step
<1>3. now' < now
    BY <1>1, <1>2 DEF PastInv, Before
<1>4. Before(list', cur', now')
    <2> SUFFICES ASSUME NEW i \in 1 .. Len(list), i <= Target, list[i].valid
                 PROVE  list[i].time < list[Target + 1].time
        BY <1>2 DEF Before
    <2>1. i < Target + 1
        BY <1>1
    <2>2. QED
        BY <1>1, <2>1 DEF PastInv, Rises
<1>5. ~IsLast(list', cur')
    BY <1>1, <1>2 DEF IsLast
<1>6. QED
    BY <1>2, <1>3, <1>4, <1>5 DEF PastInv

LEMMA FailsPast == ASSUME RewindInv, PastInv, StepFails PROVE PastInv'
<1>1. /\ Target \in Nat /\ Target < cur /\ Target # Len(list) - 1
      /\ Len(list) \in Nat /\ cur \in Int
    BY TargetIs DEF StepFails, RewindInv, TypeOK
<1>2. list' = list /\ cur' = Target /\ now' = now
    BY DEF StepFails
<1>3. Before(list', cur', now')
    <2> SUFFICES ASSUME NEW i \in 1 .. Len(list), i <= Target, list[i].valid
                 PROVE  list[i].time < now
        BY <1>2 DEF Before
    <2>1. i <= cur
        BY <1>1
    <2>2. QED
        BY <2>1 DEF PastInv, Before
<1>4. ~IsLast(list', cur')
    BY <1>1, <1>2 DEF IsLast
<1>5. QED
    BY <1>2, <1>3, <1>4 DEF PastInv

\* step asks a state for its validity before it loads it.
LoadsValid == [][Step => list[Target + 1].valid]_vars

\* As long as the states that are loaded happen to be valid, rewinding goes back in
\* time, whatever is stepped over, cut, turned, or fails: m_valid is all that step
\* would have to look at.
THEOREM ValidGoesBack == Spec /\ LoadsValid => RewindGoesBack
<1> DEFINE Asks == Step => list[Target + 1].valid
<1>1. Init => PastInv
    BY DEF Init, PastInv, Rises, Before, AllBefore
<1>2. ASSUME RewindInv, PastInv, [Next]_vars, [Asks]_vars PROVE PastInv'
    <2>1. CASE SingleStep \/ Go
        BY <1>2, <2>1, RunsPast DEF SingleStep, Go, CaptureFails
    <2>2. CASE UNCHANGED vars
        BY <1>2, <2>2 DEF vars, PastInv, Rises, Before, AllBefore, IsLast
    <2>3. CASE Step /\ Asks
        BY <1>2, <2>3, StepsPast
    <2>4. CASE StepFails
        BY <1>2, <2>4, FailsPast
    <2>5. QED
        BY <1>2, <2>1, <2>2, <2>3, <2>4 DEF Next
<1>3. ASSUME RewindInv, PastInv, [Asks]_vars PROVE [Step => now' < now]_vars
    BY <1>3, StepsPast
<1> HIDE DEF Asks
<1>4. QED
    BY <1>1, <1>2, <1>3, RewindInit, RewindStep, PTL
       DEF Spec, LoadsValid, RewindGoesBack, Asks
=============================================================================
