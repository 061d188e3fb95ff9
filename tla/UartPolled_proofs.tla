------------------------- MODULE UartPolled_proofs -------------------------
(***************************************************************************)
(* The polled UART, for any alphabet, file and timing: a status read stays *)
(* true until it is used, and each step is one of a TerminalLink or none.  *)
(***************************************************************************)
EXTENDS UartPolled, Uart_proofs, SequenceTheorems, FiniteSetTheorems, WellFoundedInduction

-----------------------------------------------------------------------------
(* Concatenations of sequences of sequences.                               *)

\* A non-empty set of naturals has a smallest element: the intervals from 0 up to
\* its elements are ordered by inclusion.
LEMMA Smallest ==
    ASSUME NEW T \in SUBSET Nat, T # {}
    PROVE  \E x \in T : \A y \in T : x <= y
<1> DEFINE Upto == {0 .. n : n \in T}
<1>1. Upto # {} /\ Upto \subseteq FiniteSubsetsOf(Nat)
    <2> SUFFICES ASSUME NEW n \in T PROVE 0 .. n \in FiniteSubsetsOf(Nat)
        OBVIOUS
    <2>1. IsFiniteSet(0 .. n) /\ 0 .. n \in SUBSET Nat
        BY FS_Interval
    <2>2. QED
        BY <2>1 DEF FiniteSubsetsOf
<1>2. PICK X \in Upto : \A Y \in Upto : <<Y, X>> \notin StrictSubsetOrdering(Nat)
    BY <1>1, WFMin, FS_StrictSubsetOrderingWellFounded
<1>3. PICK x \in T : X = 0 .. x
    OBVIOUS
<1>4. ASSUME NEW y \in T, y < x PROVE FALSE
    <2>1. 0 .. y \in Upto /\ 0 .. y \in SUBSET Nat /\ 0 .. x \in SUBSET Nat
        OBVIOUS
    <2>2. 0 .. y \subseteq 0 .. x /\ x \in 0 .. x /\ x \notin 0 .. y
        BY <1>4
    <2>3. QED
        BY <1>2, <1>3, <2>1, <2>2 DEF StrictSubsetOrdering
<1>5. QED
    BY <1>4

\* The first of the numbers up to n without a property that it has a name for: all
\* before it have it.
LEMMA FirstBad ==
    ASSUME NEW n \in Nat, NEW Good, NEW k \in 1 .. n, k \notin Good
    PROVE  \E m \in 1 .. n : m \notin Good /\ \A j \in 1 .. m - 1 : j \in Good
<1> DEFINE Bad == {m \in 1 .. n : m \notin Good}
<1>1. Bad \in SUBSET Nat /\ Bad # {}
    OBVIOUS
<1>2. PICK m \in Bad : \A y \in Bad : m <= y
    <2> HIDE DEF Bad
    <2>1. QED
        BY <1>1, Smallest
<1>3. \A j \in 1 .. m - 1 : j \in 1 .. n /\ ~(m <= j)
    OBVIOUS
<1>4. QED
    BY <1>2, <1>3

\* The partial concatenations that FlattenSeq is defined by.
Joined(f, s, n) ==
    f = [i \in 1 .. n |-> IF i = 1 THEN s[i] ELSE f[i - 1] \o s[i]]

LEMMA JoinedAt ==
    ASSUME NEW f, NEW s, NEW n \in Nat, Joined(f, s, n), NEW i \in 1 .. n
    PROVE  f[i] = IF i = 1 THEN s[i] ELSE f[i - 1] \o s[i]
<1> DEFINE e(j) == IF j = 1 THEN s[j] ELSE f[j - 1] \o s[j]
<1>1. f = [j \in 1 .. n |-> e(j)]
    BY DEF Joined
<1> HIDE DEF e
<1>2. f[i] = e(i)
    BY <1>1
<1>3. QED
    BY <1>2 DEF e

LEMMA JoinedExists ==
    ASSUME NEW s, NEW n \in Nat PROVE \E f : Joined(f, s, n)
<1> DEFINE Good == {k \in Nat : \E f : Joined(f, s, k - 1)}
<1>1. 1 \in Good
    <2>1. Joined([i \in 1 .. 0 |-> 0], s, 0)
        BY DEF Joined
    <2>2. QED
        BY <2>1
<1>2. ASSUME NEW m \in Nat \ {0}, m \in Good PROVE m + 1 \in Good
    <2>1. PICK g : Joined(g, s, m - 1)
        BY <1>2
    <2> DEFINE h == [i \in 1 .. m |->
                        IF i < m THEN g[i] ELSE IF i = 1 THEN s[i] ELSE g[i - 1] \o s[i]]
    <2>2. \A i \in 1 .. m : h[i] = IF i = 1 THEN s[i] ELSE h[i - 1] \o s[i]
        <3>1. \A i \in 1 .. m - 1 : h[i] = g[i]
            OBVIOUS
        <3>2. \A i \in 1 .. m : h[i] = IF i = 1 THEN s[i] ELSE g[i - 1] \o s[i]
            <4>1. \A i \in 1 .. m - 1 : g[i] = IF i = 1 THEN s[i] ELSE g[i - 1] \o s[i]
                BY <2>1, JoinedAt
            <4>2. QED
                BY <4>1
        <3>3. \A i \in 1 .. m : i # 1 => i - 1 \in 1 .. m - 1
            OBVIOUS
        <3> HIDE DEF h
        <3>4. QED
            BY <3>1, <3>2, <3>3
    <2>3. h = [i \in 1 .. m |-> IF i = 1 THEN s[i] ELSE h[i - 1] \o s[i]]
        <3>1. h = [i \in 1 .. m |-> h[i]]
            OBVIOUS
        <3> HIDE DEF h
        <3>2. QED
            BY <2>2, <3>1
    <2>4. Joined(h, s, (m + 1) - 1)
        <3> HIDE DEF h
        <3>1. Joined(h, s, m)
            BY <2>3 DEF Joined
        <3>2. (m + 1) - 1 = m
            OBVIOUS
        <3>3. QED
            BY <3>1, <3>2
    <2>5. QED
        BY <2>4
<1>3. n + 1 \in Good
    <2> SUFFICES ASSUME n + 1 \notin Good PROVE FALSE
        OBVIOUS
    <2>1. PICK m \in 1 .. n + 1 : m \notin Good /\ \A j \in 1 .. m - 1 : j \in Good
        <3> HIDE DEF Good
        <3>1. QED
            BY FirstBad
    <2>2. m # 1 /\ m - 1 \in Nat \ {0} /\ m - 1 \in Good /\ (m - 1) + 1 = m
        <3> HIDE DEF Good
        <3>1. QED
            BY <1>1, <2>1
    <2>3. QED
        BY <1>2, <2>1, <2>2
<1>4. QED
    BY <1>3

\* FlattenSeq ends such a sequence of partial concatenations.
LEMMA FlattenIs ==
    ASSUME NEW s, Len(s) \in Nat \ {0}
    PROVE  \E f : /\ FlattenSeq(s) = f[Len(s)]
                  /\ f[1] = s[1]
                  /\ \A i \in 2 .. Len(s) : f[i] = f[i - 1] \o s[i]
<1> DEFINE f == CHOOSE g : Joined(g, s, Len(s))
<1>1. Joined(f, s, Len(s))
    BY JoinedExists
<1>2. FlattenSeq(s) = f[Len(s)]
    BY DEF FlattenSeq, Joined
<1>3. f[1] = s[1] /\ \A i \in 2 .. Len(s) : f[i] = f[i - 1] \o s[i]
    <2> HIDE DEF f
    <2>1. \A i \in 1 .. Len(s) : f[i] = IF i = 1 THEN s[i] ELSE f[i - 1] \o s[i]
        BY <1>1, JoinedAt
    <2>2. f[1] = s[1]
        BY <2>1
    <2>3. \A i \in 2 .. Len(s) : i \in 1 .. Len(s) /\ i # 1
        OBVIOUS
    <2>4. QED
        BY <2>1, <2>2, <2>3
<1>4. QED
    BY <1>2, <1>3

\* Three laws of FlattenSeq: it joins nothing to nothing, ...
LEMMA FlattenEmpty == FlattenSeq(<<>>) = <<>>
BY DEF FlattenSeq

\* ... what is joined is a sequence of the same elements, ...
LEMMA FlattenType ==
    ASSUME NEW S, NEW s \in Seq(Seq(S)) PROVE FlattenSeq(s) \in Seq(S)
<1>1. CASE s = <<>>
    <2>1. <<>> \in Seq(S)
        BY EmptySeq
    <2>2. QED
        BY <1>1, <2>1, FlattenEmpty
<1>2. CASE s # <<>>
    <2>1. Len(s) \in Nat \ {0} /\ \A i \in 1 .. Len(s) : s[i] \in Seq(S)
        BY <1>2
    <2>2. PICK f : /\ FlattenSeq(s) = f[Len(s)] /\ f[1] = s[1]
                   /\ \A i \in 2 .. Len(s) : f[i] = f[i - 1] \o s[i]
        BY <2>1, FlattenIs
    <2> DEFINE Good == {i \in 1 .. Len(s) : f[i] \in Seq(S)}
    <2>3. ASSUME Len(s) \notin Good PROVE FALSE
        <3>1. Len(s) \in 1 .. Len(s)
            BY <2>1
        <3>2. PICK m \in 1 .. Len(s) : m \notin Good /\ \A j \in 1 .. m - 1 : j \in Good
            <4> HIDE DEF Good
            <4>1. QED
                BY <2>1, <2>3, <3>1, FirstBad
        <3>3. CASE m = 1
            BY <2>1, <2>2, <3>2, <3>3
        <3>4. CASE m # 1
            <4>1. m \in 2 .. Len(s) /\ m - 1 \in 1 .. m - 1
                BY <2>1, <3>4
            <4>2. f[m - 1] \in Seq(S) /\ s[m] \in Seq(S)
                BY <2>1, <3>2, <4>1
            <4>3. f[m] = f[m - 1] \o s[m]
                BY <2>2, <4>1
            <4>4. f[m] \in Seq(S)
                BY <4>2, <4>3
            <4>5. QED
                BY <3>2, <4>4
        <3>5. QED
            BY <3>3, <3>4
    <2>4. QED
        BY <2>2, <2>3
<1>3. QED
    BY <1>1, <1>2

\* ... one more is joined at the end, ...
LEMMA FlattenAppend ==
    ASSUME NEW S, NEW s \in Seq(Seq(S)), NEW x \in Seq(S)
    PROVE  FlattenSeq(Append(s, x)) = FlattenSeq(s) \o x
<1> DEFINE t == Append(s, x)
<1>1. /\ Len(s) \in Nat /\ Len(t) = Len(s) + 1 /\ t[Len(s) + 1] = x
      /\ \A i \in 1 .. Len(s) : t[i] = s[i]
    OBVIOUS
<1>2. PICK g : /\ FlattenSeq(t) = g[Len(t)] /\ g[1] = t[1]
               /\ \A i \in 2 .. Len(t) : g[i] = g[i - 1] \o t[i]
    <2> HIDE DEF t
    <2>1. Len(t) \in Nat \ {0}
        BY <1>1
    <2>2. QED
        BY <2>1, FlattenIs
<1>3. CASE s = <<>>
    <2>1. FlattenSeq(s) \o x = x /\ Len(s) = 0
        BY <1>3, FlattenEmpty
    <2> HIDE DEF t
    <2>2. QED
        BY <1>1, <1>2, <2>1 DEF t
<1>4. CASE s # <<>>
    <2>1. Len(s) \in Nat \ {0}
        BY <1>4
    <2>2. PICK f : /\ FlattenSeq(s) = f[Len(s)] /\ f[1] = s[1]
                   /\ \A i \in 2 .. Len(s) : f[i] = f[i - 1] \o s[i]
        BY <2>1, FlattenIs
    <2> HIDE DEF t
    <2> DEFINE Good == {i \in 1 .. Len(s) : g[i] = f[i]}
    <2>3. ASSUME Len(s) \notin Good PROVE FALSE
        <3>1. Len(s) \in 1 .. Len(s)
            BY <2>1
        <3>2. PICK m \in 1 .. Len(s) : m \notin Good /\ \A j \in 1 .. m - 1 : j \in Good
            <4> HIDE DEF Good
            <4>1. QED
                BY <2>1, <2>3, <3>1, FirstBad
        <3>3. CASE m = 1
            BY <1>1, <1>2, <2>1, <2>2, <3>2, <3>3
        <3>4. CASE m # 1
            <4>1. m \in 2 .. Len(s) /\ m \in 2 .. Len(t) /\ m - 1 \in 1 .. m - 1
                BY <1>1, <2>1, <3>4
            <4>2. f[m] = f[m - 1] \o s[m] /\ g[m] = g[m - 1] \o t[m]
                BY <1>2, <2>2, <4>1
            <4>3. g[m - 1] = f[m - 1] /\ t[m] = s[m]
                BY <1>1, <3>2, <4>1
            <4>4. QED
                BY <3>2, <4>2, <4>3
        <3>5. QED
            BY <3>3, <3>4
    <2>4. g[Len(s)] = f[Len(s)]
        BY <2>3
    <2>5. Len(t) \in 2 .. Len(t) /\ Len(t) - 1 = Len(s)
        BY <1>1, <2>1
    <2>6. g[Len(t)] = g[Len(s)] \o x
        BY <1>1, <1>2, <2>5
    <2>7. FlattenSeq(t) = FlattenSeq(s) \o x
        BY <1>2, <2>2, <2>4, <2>6
    <2>8. QED
        BY <2>7 DEF t
<1>5. QED
    BY <1>3, <1>4

\* ... and the first one comes first.
LEMMA FlattenHead ==
    ASSUME NEW S, NEW s \in Seq(Seq(S)), s # <<>>
    PROVE  FlattenSeq(s) = Head(s) \o FlattenSeq(Tail(s))
<1> DEFINE t == Tail(s)
<1>1. /\ Len(s) \in Nat \ {0} /\ t \in Seq(Seq(S)) /\ Len(t) = Len(s) - 1 /\ Head(s) = s[1]
      /\ \A i \in 1 .. Len(t) : t[i] = s[i + 1]
      /\ \A i \in 1 .. Len(s) : s[i] \in Seq(S)
    OBVIOUS
<1> HIDE DEF t
<1>2. PICK f : /\ FlattenSeq(s) = f[Len(s)] /\ f[1] = s[1]
               /\ \A i \in 2 .. Len(s) : f[i] = f[i - 1] \o s[i]
    BY <1>1, FlattenIs
<1>3. CASE t = <<>>
    <2>1. FlattenSeq(t) = <<>> /\ Len(s) = 1 /\ s[1] \in Seq(S)
        BY <1>1, <1>3, FlattenEmpty
    <2>2. s[1] \o <<>> = s[1]
        BY <2>1
    <2>3. QED
        BY <1>1, <1>2, <2>1, <2>2 DEF t
<1>4. CASE t # <<>>
    <2>1. Len(t) \in Nat \ {0} /\ \A i \in 1 .. Len(t) : t[i] \in Seq(S)
        <3>1. Len(t) \in Nat \ {0}
            BY <1>1, <1>4, EmptySeq
        <3>2. \A i \in 1 .. Len(t) : i + 1 \in 1 .. Len(s)
            BY <1>1
        <3>3. QED
            BY <1>1, <3>1, <3>2
    <2>2. PICK g : /\ FlattenSeq(t) = g[Len(t)] /\ g[1] = t[1]
                   /\ \A i \in 2 .. Len(t) : g[i] = g[i - 1] \o t[i]
        BY <2>1, FlattenIs
    <2> DEFINE Good == {i \in 1 .. Len(t) : g[i] \in Seq(S) /\ f[i + 1] = s[1] \o g[i]}
    <2>3. ASSUME Len(t) \notin Good PROVE FALSE
        <3>1. Len(t) \in 1 .. Len(t)
            BY <2>1
        <3>2. PICK m \in 1 .. Len(t) : m \notin Good /\ \A j \in 1 .. m - 1 : j \in Good
            <4> HIDE DEF Good
            <4>1. QED
                BY <2>1, <2>3, <3>1, FirstBad
        <3>3. /\ m + 1 \in 2 .. Len(s) /\ (m + 1) - 1 = m /\ t[m] = s[m + 1]
              /\ t[m] \in Seq(S) /\ s[1] \in Seq(S)
            BY <1>1, <2>1
        <3>4. f[m + 1] = f[m] \o t[m]
            BY <1>2, <3>3
        <3>5. CASE m = 1
            <4>1. g[m] = t[m] /\ f[m] = s[1]
                BY <1>2, <2>2, <3>5
            <4>2. QED
                BY <3>2, <3>3, <3>4, <4>1
        <3>6. CASE m # 1
            <4>1. m \in 2 .. Len(t) /\ m - 1 \in 1 .. m - 1 /\ (m - 1) + 1 = m
                BY <2>1, <3>6
            <4>2. g[m - 1] \in Seq(S) /\ f[m] = s[1] \o g[m - 1]
                BY <3>2, <4>1
            <4>3. g[m] = g[m - 1] \o t[m]
                BY <2>2, <4>1
            <4>4. (s[1] \o g[m - 1]) \o t[m] = s[1] \o (g[m - 1] \o t[m])
                <5>1. \A a, b, c \in Seq(S) : (a \o b) \o c = a \o (b \o c)
                    OBVIOUS
                <5>2. QED
                    BY <3>3, <4>2, <5>1, Zenon
            <4>5. g[m] \in Seq(S) /\ f[m + 1] = s[1] \o g[m]
                <5>1. g[m] \in Seq(S)
                    BY <3>3, <4>2, <4>3
                <5>2. QED
                    BY <3>4, <4>2, <4>3, <4>4, <5>1
            <4>6. QED
                BY <3>2, <4>5
        <3>7. QED
            BY <3>5, <3>6
    <2>4. f[Len(t) + 1] = s[1] \o g[Len(t)]
        BY <2>3
    <2>5. Len(t) + 1 = Len(s)
        BY <1>1
    <2>6. QED
        BY <1>1, <1>2, <2>2, <2>4, <2>5 DEF t
<1>5. QED
    BY <1>3, <1>4

-----------------------------------------------------------------------------
(* The status a program keeps.                                             *)

\* Whatever the program does is something the UART's environment may do.
LEMMA PStepIsStep == [PNext]_allVars => [Next]_vars
BY DEF PNext, allVars, StatusR, ReadChar, WriteChar, ResetAll, Device, Next, Cpu

\* TxInv is needed for the expiry: it finds nothing in m_data_w_ready, so it leaves
\* the transmitter empty.
LEMMA StatusStep == TxInv /\ StatusStillTrue /\ [PNext]_allVars => StatusStillTrue'
<1> SUFFICES ASSUME TxInv, StatusStillTrue, [PNext]_allVars PROVE StatusStillTrue'
    OBVIOUS
<1> USE DEF StatusStillTrue, RxRdy, TxRdy
<1>1. CASE StatusR
    BY <1>1 DEF StatusR, vars, rxVars, txVars
<1>2. CASE ReadChar
    BY <1>2 DEF ReadChar, DataR, txVars
<1>3. ASSUME NEW ch \in Output, WriteChar(ch) PROVE StatusStillTrue'
    BY <1>3 DEF WriteChar, DataW, rxVars
<1>4. CASE ResetAll
    BY <1>4 DEF ResetAll
<1>5. CASE Device
    <2>1. UNCHANGED <<sawRx, sawTx>>
        BY <1>5 DEF Device, progVars
    <2>2. CASE Receive
        BY <2>1, <2>2 DEF Receive, txVars
    <2>3. CASE PollAgain \/ EndOfCharacter
        <3>1. UNCHANGED <<data_r_ready, data_w_ready, data_w_empty>>
            BY <2>3 DEF PollAgain, EndOfCharacter, txVars
        <3>2. QED
            BY <2>1, <3>1
    <2>4. CASE UpdateTimerTxd
        <3>1. data_w_empty' = TRUE \/ data_w_empty' = data_w_empty
            BY <2>4 DEF UpdateTimerTxd, TxInv
        <3>2. data_w_ready' = FALSE
            BY <2>4 DEF UpdateTimerTxd, TxInv, TypeOK
        <3>3. QED
            BY <2>1, <2>4, <3>1, <3>2 DEF UpdateTimerTxd, rxVars
    <2>5. CASE User \/ Elapse
        BY <2>1, <2>5 DEF User, Type, Elapse, rxVars, txVars
    <2>6. QED
        BY <1>5, <2>2, <2>3, <2>4, <2>5 DEF Device, UpdateTimerRxd
<1>6. CASE UNCHANGED allVars
    BY <1>6 DEF allVars, progVars, vars, rxVars, txVars
<1>7. QED
    BY <1>1, <1>2, <1>3, <1>4, <1>5, <1>6 DEF PNext

\* A status bit that a program has read and not yet used is never out of date,
\* whatever expires and whoever types in between.
THEOREM StatusIsStillTrue == PSpec => []StatusStillTrue
<1>1. PInit => TxInv /\ StatusStillTrue
    BY TxInit DEF PInit, StatusStillTrue
<1>2. TxInv /\ StatusStillTrue /\ [PNext]_allVars => (TxInv /\ StatusStillTrue)'
    BY PStepIsStep, TxStep, StatusStep
<1>3. QED
    BY <1>1, <1>2, PTL DEF PSpec

-----------------------------------------------------------------------------
(* What is on its way to the program.                                      *)

\* The parts of Incoming: the character in m_data_r, the rest of the file, and what
\* the typed keys stand for.
Ready == IF data_r_ready THEN <<data_r>> ELSE <<>>
RestOf == IF fd = "file" THEN file \o <<Nul>> ELSE <<>>
Arriving(keys) == [i \in 1 .. Len(keys) |-> Arrives(keys[i])]
Waiting(keys) == FlattenSeq(Arriving(keys))

LEMMA IncomingIs == Incoming = (Ready \o RestOf) \o Waiting(keyboard)
BY DEF Incoming, Ready, RestOf, Waiting, Arriving

LEMMA ArrivesType == ASSUME NEW key \in Char PROVE Arrives(key) \in Seq(Char)
<1>1. <<Nul>> \o FileText \o <<Nul>> \in Seq(Char)
    BY CharAssumption
<1>2. <<BackSpace>> \in Seq(Char) /\ <<key>> \in Seq(Char)
    BY CharAssumption
<1>3. QED
    BY <1>1, <1>2 DEF Arrives

LEMMA ArrivingType ==
    ASSUME NEW keys \in Seq(Char) PROVE Arriving(keys) \in Seq(Seq(Char))
<1>1. Len(keys) \in Nat /\ \A i \in 1 .. Len(keys) : Arrives(keys[i]) \in Seq(Char)
    BY ArrivesType
<1>2. QED
    BY <1>1 DEF Arriving

LEMMA WaitingType == ASSUME NEW keys \in Seq(Char) PROVE Waiting(keys) \in Seq(Char)
BY ArrivingType, FlattenType DEF Waiting

LEMMA WaitingAppend ==
    ASSUME NEW keys \in Seq(Char), NEW ch \in Char
    PROVE  Waiting(Append(keys, ch)) = Waiting(keys) \o Arrives(ch)
<1> DEFINE a == Arriving(keys)
           b == Arriving(Append(keys, ch))
<1>1. a \in Seq(Seq(Char)) /\ b \in Seq(Seq(Char)) /\ Arrives(ch) \in Seq(Char)
    <2>1. Append(keys, ch) \in Seq(Char)
        OBVIOUS
    <2>2. QED
        BY <2>1, ArrivingType, ArrivesType
<1>2. /\ Len(keys) \in Nat /\ Len(a) = Len(keys) /\ Len(b) = Len(keys) + 1
      /\ b[Len(keys) + 1] = Arrives(ch)
      /\ \A i \in 1 .. Len(keys) : a[i] = Arrives(keys[i]) /\ b[i] = Arrives(keys[i])
    BY DEF Arriving
<1> HIDE DEF a, b
<1>3. b = Append(a, Arrives(ch))
    BY <1>1, <1>2
<1>4. FlattenSeq(Append(a, Arrives(ch))) = FlattenSeq(a) \o Arrives(ch)
    BY <1>1, FlattenAppend
<1>5. QED
    BY <1>3, <1>4 DEF Waiting, a, b

LEMMA WaitingHead ==
    ASSUME NEW keys \in Seq(Char), keys # <<>>
    PROVE  Waiting(keys) = Arrives(Head(keys)) \o Waiting(Tail(keys))
<1> DEFINE a == Arriving(keys)
           b == Arriving(Tail(keys))
<1>1. a \in Seq(Seq(Char)) /\ b \in Seq(Seq(Char))
    <2>1. Tail(keys) \in Seq(Char)
        OBVIOUS
    <2>2. QED
        BY <2>1, ArrivingType
<1>2. /\ Len(keys) \in Nat \ {0} /\ Len(a) = Len(keys) /\ Len(b) = Len(keys) - 1
      /\ Head(a) = Arrives(Head(keys))
      /\ \A i \in 1 .. Len(b) : b[i] = a[i + 1]
    BY DEF Arriving
<1> HIDE DEF a, b
<1>3. a # <<>> /\ b = Tail(a)
    <2>1. a # <<>> /\ Tail(a) \in Seq(Seq(Char)) /\ Len(Tail(a)) = Len(b)
        BY <1>1, <1>2
    <2>2. \A i \in 1 .. Len(b) : Tail(a)[i] = b[i]
        BY <1>1, <1>2, <2>1
    <2>3. QED
        BY <1>1, <2>1, <2>2, SeqEqual
<1>4. FlattenSeq(a) = Head(a) \o FlattenSeq(Tail(a))
    BY <1>1, <1>3, FlattenHead
<1>5. QED
    BY <1>2, <1>3, <1>4 DEF Waiting, a, b

\* All parts are sequences of characters.
LEMMA PartsType ==
    TypeOK => Ready \in Seq(Char) /\ RestOf \in Seq(Char) /\ Waiting(keyboard) \in Seq(Char)
<1> SUFFICES ASSUME TypeOK
             PROVE  Ready \in Seq(Char) /\ RestOf \in Seq(Char) /\ Waiting(keyboard) \in Seq(Char)
    OBVIOUS
<1>1. Waiting(keyboard) \in Seq(Char)
    BY WaitingType DEF TypeOK
<1>2. Ready \in Seq(Char)
    BY DEF Ready, TypeOK
<1>3. file \o <<Nul>> \in Seq(Char) /\ <<>> \in Seq(Char)
    BY CharAssumption DEF TypeOK
<1>4. QED
    BY <1>1, <1>2, <1>3 DEF RestOf

LEMMA IncomingNext == Incoming' = (Ready' \o RestOf') \o Waiting(keyboard')
BY DEF Incoming, Ready, RestOf, Waiting, Arriving

LEMMA Associates ==
    ASSUME NEW a \in Seq(Char), NEW b \in Seq(Char), NEW c \in Seq(Char)
    PROVE  (a \o b) \o c = a \o (b \o c)
OBVIOUS

\* What leaves the receiver and the host's streams alone leaves it alone.
LEMMA IncomingSame ==
    UNCHANGED <<data_r, data_r_ready, fd, file, keyboard>> => UNCHANGED Incoming
BY IncomingIs, IncomingNext DEF Ready, RestOf

\* Taking the character out of m_data_r takes the first one.
LEMMA IncomingTaken ==
    ASSUME TypeOK, data_r_ready, ~data_r_ready', UNCHANGED <<fd, file, keyboard>>
    PROVE  Incoming # <<>> /\ Head(Incoming) = data_r /\ Incoming' = Tail(Incoming)
<1> DEFINE rest == RestOf \o Waiting(keyboard)
<1>1. rest \in Seq(Char) /\ data_r \in Char /\ Ready = <<data_r>> /\ Ready' = <<>>
    BY PartsType DEF Ready, TypeOK
<1>2. RestOf' = RestOf
    BY DEF RestOf
<1>3. Incoming = <<data_r>> \o rest
    BY <1>1, IncomingIs, PartsType, Associates
<1>4. Incoming' = rest
    <2>1. <<>> \o RestOf = RestOf
        BY PartsType
    <2>2. QED
        BY <1>1, <1>2, <2>1, IncomingNext
<1> HIDE DEF rest
<1>5. QED
    BY <1>1, <1>3, <1>4

-----------------------------------------------------------------------------
(* Receiving moves the first character on its way, and nothing else.       *)

\* From the terminal, the key itself, what it is turned into, or the Nul before the
\* file, which is then next in line.
LEMMA KeyArrives ==
    ASSUME FilePresent, TypeOK, fd = "stdin", keyboard # <<>>, NEW ch \in Char, GetKey(ch)
    PROVE  <<ch>> \o (RestOf' \o Waiting(keyboard')) = RestOf \o Waiting(keyboard)
<1> DEFINE key == Head(keyboard)
           later == Waiting(Tail(keyboard))
<1>1. keyboard' = Tail(keyboard) /\ keyboard \in Seq(Char) /\ Tail(keyboard) \in Seq(Char)
    BY DEF GetKey, TypeOK
<1>2. later \in Seq(Char) /\ Arrives(key) \in Seq(Char)
    <2>1. key \in Char
        BY <1>1
    <2>2. QED
        BY <1>1, <2>1, WaitingType, ArrivesType
<1>3. RestOf \o Waiting(keyboard) = Arrives(key) \o later
    <2>1. RestOf = <<>> /\ Waiting(keyboard) = Arrives(key) \o later
        BY <1>1, WaitingHead DEF RestOf
    <2> HIDE DEF key, later
    <2>2. <<>> \o (Arrives(key) \o later) = Arrives(key) \o later
        BY <1>2
    <2>3. QED
        BY <2>1, <2>2
<1>4. Arrives(key) = <<ch>> \o RestOf' /\ RestOf' \in Seq(Char)
    <2>1. CASE key = OpenFile
        <3>1. ch = Nul /\ fd' = "file" /\ file' = FileText
            BY <2>1 DEF GetKey
        <3>2. RestOf' = FileText \o <<Nul>>
            BY <3>1 DEF RestOf
        <3>3. Arrives(key) = (<<Nul>> \o FileText) \o <<Nul>>
            BY <2>1, CharAssumption DEF Arrives
        <3>4. FileText \in Seq(Char) /\ <<Nul>> \in Seq(Char) /\ FileText \o <<Nul>> \in Seq(Char)
            BY CharAssumption
        <3>5. QED
            BY <3>1, <3>2, <3>3, <3>4, Associates
    <2>2. CASE key # OpenFile
        <3>1. fd' = "stdin" /\ ch = IF key = Del THEN BackSpace ELSE key
            BY <2>2 DEF GetKey
        <3>2. RestOf' = <<>> /\ Arrives(key) = <<ch>>
            BY <2>2, <3>1 DEF RestOf, Arrives
        <3>3. QED
            BY <3>2
    <2>3. QED
        BY <2>1, <2>2
<1>5. (<<ch>> \o RestOf') \o later = <<ch>> \o (RestOf' \o later)
    <2> HIDE DEF later
    <2>1. <<ch>> \in Seq(Char)
        OBVIOUS
    <2>2. QED
        BY <1>2, <1>4, <2>1, Associates
<1>6. QED
    BY <1>1, <1>3, <1>4, <1>5

\* From the file, its next byte or the Nul at its end.
LEMMA ByteArrives ==
    ASSUME TypeOK, NEW ch \in Char, GetByte(ch)
    PROVE  <<ch>> \o (RestOf' \o Waiting(keyboard')) = RestOf \o Waiting(keyboard)
<1> DEFINE later == Waiting(keyboard)
<1>1. /\ file \in Seq(Char) /\ later \in Seq(Char) /\ RestOf = file \o <<Nul>>
      /\ keyboard' = keyboard /\ Nul \in Char
    BY PartsType, CharAssumption DEF GetByte, RestOf, TypeOK
<1> HIDE DEF later
<1>2. RestOf = <<ch>> \o RestOf' /\ RestOf' \in Seq(Char)
    <2>1. CASE file # <<>>
        <3>1. ch = Head(file) /\ file' = Tail(file) /\ fd' = "file"
            BY <2>1 DEF GetByte
        <3>2. RestOf' = Tail(file) \o <<Nul>>
            BY <3>1 DEF RestOf
        <3>3. file = <<ch>> \o Tail(file) /\ <<ch>> \in Seq(Char) /\ Tail(file) \in Seq(Char)
            BY <1>1, <2>1, <3>1
        <3>4. <<Nul>> \in Seq(Char) /\ Tail(file) \o <<Nul>> \in Seq(Char)
            BY <1>1, <3>3
        <3>5. (<<ch>> \o Tail(file)) \o <<Nul>> = <<ch>> \o (Tail(file) \o <<Nul>>)
            BY <3>3, <3>4, Associates
        <3>6. QED
            BY <1>1, <3>2, <3>3, <3>4, <3>5
    <2>2. CASE file = <<>>
        <3>1. ch = Nul /\ fd' = "stdin"
            BY <2>2 DEF GetByte
        <3>2. RestOf' = <<>>
            BY <3>1 DEF RestOf
        <3>3. QED
            BY <1>1, <2>2, <3>1, <3>2
    <2>3. QED
        BY <2>1, <2>2
<1>3. (<<ch>> \o RestOf') \o later = <<ch>> \o (RestOf' \o later)
    <2>1. <<ch>> \in Seq(Char)
        OBVIOUS
    <2>2. QED
        BY <1>1, <1>2, <2>1, Associates
<1>4. QED
    BY <1>1, <1>2, <1>3 DEF later

LEMMA ReceiveKeeps ==
    ASSUME FilePresent, ~TtyFails, TypeOK, TypeOK', fd # "closed", Receive PROVE UNCHANGED Incoming
<1>1. PICK ch \in Char : GetCh(ch) /\ data_r' = ch
    BY DEF Receive
<1>2. ~data_r_ready /\ data_r_ready' /\ KbHit(TRUE)
    BY DEF Receive, HasRoom
<1>3. <<ch>> \o (RestOf' \o Waiting(keyboard')) = RestOf \o Waiting(keyboard)
    <2>1. CASE GetKey(ch)
        <3>1. fd = "stdin" /\ keyboard # <<>>
            BY <1>2, <2>1 DEF GetKey, KbHit
        <3>2. QED
            BY <2>1, <3>1, KeyArrives
    <2>2. CASE GetByte(ch)
        BY <2>2, ByteArrives
    <2>3. ~GetError(ch)
        BY <1>2 DEF GetError, KbHit
    <2>4. QED
        BY <1>1, <2>1, <2>2, <2>3 DEF GetCh
<1>4. Ready = <<>> /\ Ready' = <<ch>>
    BY <1>1, <1>2 DEF Ready
<1>5. Incoming = RestOf \o Waiting(keyboard)
    BY <1>4, IncomingIs, PartsType
<1>6. Incoming' = <<ch>> \o (RestOf' \o Waiting(keyboard'))
    <2>1. RestOf' \in Seq(Char) /\ Waiting(keyboard') \in Seq(Char) /\ <<ch>> \in Seq(Char)
        <3>1. file' \in Seq(Char) /\ keyboard' \in Seq(Char) /\ Nul \in Char
            BY CharAssumption DEF TypeOK
        <3>2. file' \o <<Nul>> \in Seq(Char) /\ <<>> \in Seq(Char)
            BY <3>1
        <3>3. RestOf' \in Seq(Char)
            BY <3>2 DEF RestOf
        <3>4. QED
            BY <3>1, <3>3, WaitingType
    <2>2. QED
        BY <1>4, <2>1, IncomingNext, Associates
<1>7. QED
    BY <1>3, <1>5, <1>6

-----------------------------------------------------------------------------
(* The refinement.                                                         *)

\* The descriptor is never the one of a failed open.
LEMMA OpenStep ==
    ASSUME FilePresent PROVE fd # "closed" /\ [Next]_vars => fd' # "closed"
<1> SUFFICES ASSUME fd # "closed", [Next]_vars PROVE fd' # "closed"
    OBVIOUS
<1>1. CASE Receive
    BY <1>1 DEF Receive, GetCh, GetKey, GetByte, GetError
<1>2. CASE Next /\ ~Receive
    BY <1>2 DEF Next, Cpu, DataR, DataW, UpdateTimerRxd, PollAgain, EndOfCharacter,
                UpdateTimerTxd, DeviceReset, User, Type, Elapse, hostVars
<1>3. CASE UNCHANGED vars
    BY <1>3 DEF vars, hostVars
<1>4. QED
    BY <1>1, <1>2, <1>3

\* What the steps need: TxInv, so that an expiring timer prints nothing, and
\* StatusStillTrue, so that the program reads a character that is there and writes to
\* an empty transmitter.
LinkInv == TxInv /\ StatusStillTrue /\ fd # "closed"

LEMMA AlwaysLinkInv == ASSUME FilePresent PROVE PSpec => []LinkInv
<1>1. PInit => LinkInv
    BY TxInit DEF PInit, LinkInv, StatusStillTrue, Init
<1>2. LinkInv /\ [PNext]_allVars => LinkInv'
    BY PStepIsStep, TxStep, StatusStep, OpenStep DEF LinkInv
<1>3. QED
    BY <1>1, <1>2, PTL DEF PSpec

\* Nothing the link shows.
Hidden == UNCHANGED <<Incoming, got, written, screen, resets>>

LEMMA ReadLink == ASSUME LinkInv, ReadChar PROVE Link!Read
<1>1. TypeOK /\ data_r_ready
    BY DEF LinkInv, TxInv, StatusStillTrue, RxRdy, ReadChar
<1>2. ~data_r_ready' /\ UNCHANGED <<fd, file, keyboard, written, screen, resets>>
    BY <1>1 DEF ReadChar, DataR, txVars, hostVars
<1>3. Incoming # <<>> /\ Head(Incoming) = data_r /\ Incoming' = Tail(Incoming)
    BY <1>1, <1>2, IncomingTaken
<1>4. got' = Append(got, Head(Incoming))
    BY <1>3 DEF ReadChar
<1>5. QED
    BY <1>2, <1>3, <1>4 DEF Link!Read

LEMMA WriteLink ==
    ASSUME LinkInv, NEW ch \in Output, WriteChar(ch) PROVE Link!Write(ch)
<1>1. data_w_empty
    BY DEF LinkInv, StatusStillTrue, TxRdy, WriteChar
<1>2. PutCh(ch) /\ UNCHANGED <<data_r, data_r_ready, fd, file, keyboard, got, resets>>
    BY <1>1 DEF WriteChar, DataW, rxVars, hostVars
<1>3. UNCHANGED Incoming
    BY <1>2, IncomingSame
<1>4. QED
    BY <1>2, <1>3 DEF WriteChar, PutCh, Link!Write

LEMMA ResetLink == ASSUME LinkInv, ResetAll PROVE Link!Reset
<1>1. /\ TypeOK /\ ~data_r_ready' /\ resets' = resets + 1
      /\ UNCHANGED <<fd, file, keyboard, got, written, screen>>
    BY DEF LinkInv, TxInv, ResetAll, DeviceReset, hostVars
<1>2. CASE data_r_ready
    BY <1>1, <1>2, IncomingTaken DEF Link!Reset
<1>3. CASE ~data_r_ready
    <2>1. UNCHANGED Incoming
        <3>1. Ready' = Ready /\ RestOf' = RestOf /\ keyboard' = keyboard
            BY <1>1, <1>3 DEF Ready, RestOf
        <3>2. QED
            BY <3>1, IncomingIs, IncomingNext
    <2>2. QED
        BY <1>1, <2>1 DEF Link!Reset
<1>4. QED
    BY <1>2, <1>3

LEMMA TypeLink ==
    ASSUME LinkInv, NEW ch \in Keys, Type(ch), UNCHANGED <<got, written>>
    PROVE  Link!Press(ch)
<1>1. /\ TypeOK /\ keyboard' = Append(keyboard, ch) /\ ch \in Char /\ keyboard \in Seq(Char)
      /\ UNCHANGED <<data_r, data_r_ready, fd, file, screen, resets>>
    BY CharAssumption DEF LinkInv, TxInv, TypeOK, Type, rxVars, txVars
<1>2. Ready' = Ready /\ RestOf' = RestOf
    BY <1>1 DEF Ready, RestOf
<1>3. Waiting(keyboard') = Waiting(keyboard) \o Arrives(ch)
    BY <1>1, WaitingAppend
<1>4. Incoming' = Incoming \o Arrives(ch)
    <2>1. Arrives(ch) \in Seq(Char) /\ Ready \o RestOf \in Seq(Char)
        BY <1>1, ArrivesType, PartsType
    <2>2. Waiting(keyboard) \in Seq(Char)
        BY <1>1, PartsType
    <2>3. ((Ready \o RestOf) \o Waiting(keyboard)) \o Arrives(ch)
             = (Ready \o RestOf) \o (Waiting(keyboard) \o Arrives(ch))
        BY <2>1, <2>2, Associates
    <2>4. QED
        BY <1>2, <1>3, <2>3, IncomingIs, IncomingNext
<1>5. QED
    BY <1>1, <1>4 DEF Link!Press

\* Timers that expire and time that passes show nothing.
LEMMA TimersHidden ==
    ASSUME FilePresent, ~TtyFails, LinkInv, TypeOK', UNCHANGED progVars,
           UpdateTimerRxd \/ UpdateTimerTxd \/ Elapse
    PROVE  Hidden
<1>1. UNCHANGED <<got, written>> /\ TypeOK /\ fd # "closed" /\ ~data_w_ready
    BY DEF progVars, LinkInv, TxInv
<1>2. CASE Receive
    <2>1. UNCHANGED <<screen, resets>>
        BY <1>2 DEF Receive, txVars
    <2>2. QED
        BY <1>1, <1>2, <2>1, ReceiveKeeps DEF Hidden
<1>3. CASE PollAgain \/ EndOfCharacter \/ UpdateTimerTxd \/ Elapse
    <2>1. UNCHANGED <<data_r, data_r_ready, fd, file, keyboard, screen, resets>>
        BY <1>1, <1>3 DEF PollAgain, EndOfCharacter, UpdateTimerTxd, Elapse, rxVars, txVars,
                          hostVars
    <2>2. QED
        BY <1>1, <2>1, IncomingSame DEF Hidden
<1>4. QED
    BY <1>2, <1>3 DEF UpdateTimerRxd

LEMMA LinkStep ==
    ASSUME FilePresent, ~TtyFails, LinkInv, LinkInv', [PNext]_allVars
    PROVE  Link!Next \/ Hidden
<1>1. CASE StatusR
    <2>1. UNCHANGED <<data_r, data_r_ready, fd, file, keyboard, screen, resets, got, written>>
        BY <1>1 DEF StatusR, vars, rxVars, txVars, hostVars
    <2>2. QED
        BY <2>1, IncomingSame DEF Hidden
<1>2. CASE ReadChar
    BY <1>2, ReadLink DEF Link!Next
<1>3. ASSUME NEW ch \in Output, WriteChar(ch) PROVE Link!Next
    BY <1>3, WriteLink DEF Link!Next
<1>4. CASE ResetAll
    BY <1>4, ResetLink DEF Link!Next
<1>5. CASE Device
    <2>1. UNCHANGED progVars /\ UNCHANGED <<got, written>>
        BY <1>5 DEF Device, progVars
    <2>2. CASE UpdateTimerRxd \/ UpdateTimerTxd \/ Elapse
        BY <2>1, <2>2, TimersHidden DEF LinkInv, TxInv
    <2>3. ASSUME NEW ch \in Keys, Type(ch) PROVE Link!Next
        BY <2>1, <2>3, TypeLink DEF Link!Next
    <2>4. QED
        BY <1>5, <2>2, <2>3 DEF Device, User
<1>6. CASE UNCHANGED allVars
    <2>1. UNCHANGED <<data_r, data_r_ready, fd, file, keyboard, screen, resets, got, written>>
        BY <1>6 DEF allVars, progVars, vars, rxVars, txVars, hostVars
    <2>2. QED
        BY <2>1, IncomingSame DEF Hidden
<1>7. QED
    BY <1>1, <1>2, <1>3, <1>4, <1>5, <1>6 DEF PNext

\* When the file can be opened and the terminal can be read, every step of the polled
\* UART is a TerminalLink's or none: what is typed, and the file Ctrl-O stands for,
\* reaches the program once and in order, what it writes is printed once and in
\* order, and a reset costs at most the one unread character.
THEOREM PollingIsALink == ASSUME FilePresent, ~TtyFails PROVE PSpec => LinkSafe
<1>1. PInit => Link!Init
    <2>1. PInit => Incoming = <<>>
        BY IncomingIs, FlattenEmpty DEF PInit, Init, Ready, RestOf, Waiting, Arriving
    <2>2. QED
        BY <2>1 DEF PInit, Init, Link!Init
<1>2. LinkInv /\ LinkInv' /\ [PNext]_allVars => [Link!Next]_(Link!vars)
    BY LinkStep DEF Hidden, Link!vars
<1>3. QED
    BY <1>1, <1>2, AlwaysLinkInv, PTL DEF PSpec, LinkSafe, Link!Safe
=============================================================================
