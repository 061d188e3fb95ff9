-------------------------- MODULE Scheduler_proofs --------------------------
(***************************************************************************)
(* The scheduler's timers, for any devices, timers, periods and calls:     *)
(* types, and the two timer lists.                                         *)
(***************************************************************************)
EXTENDS Scheduler, FiniteSetTheorems, WellFoundedInduction, TLAPS

-----------------------------------------------------------------------------
(* Naturals: smallest and largest.                                         *)

LEMMA Smallest ==
    ASSUME NEW T \in SUBSET Nat, T # {}
    PROVE  \E x \in T : \A y \in T : x <= y
<1> DEFINE Upto == {0 .. n : n \in T}
<1>1. Upto \subseteq FiniteSubsetsOf(Nat)
    <2> SUFFICES ASSUME NEW n \in T PROVE 0 .. n \in FiniteSubsetsOf(Nat)
        OBVIOUS
    <2>1. IsFiniteSet(0 .. n)
        BY FS_Interval
    <2>2. 0 .. n \in SUBSET Nat
        OBVIOUS
    <2>3. QED
        BY <2>1, <2>2 DEF FiniteSubsetsOf
<1>2. Upto # {}
    OBVIOUS
<1>3. PICK X \in Upto : \A Y \in Upto : <<Y, X>> \notin StrictSubsetOrdering(Nat)
    BY <1>1, <1>2, WFMin, FS_StrictSubsetOrderingWellFounded
<1>4. PICK x \in T : X = 0 .. x
    OBVIOUS
<1>5. ASSUME NEW y \in T, y < x PROVE FALSE
    <2>1. 0 .. y \in Upto /\ 0 .. y \in SUBSET Nat /\ 0 .. x \in SUBSET Nat
        OBVIOUS
    <2>2. 0 .. y \subseteq 0 .. x /\ x \in 0 .. x /\ x \notin 0 .. y
        BY <1>5
    <2>3. QED
        BY <1>3, <1>4, <2>1, <2>2 DEF StrictSubsetOrdering
<1>6. QED
    BY <1>5

LEMMA Bounds ==
    ASSUME NEW n \in Nat, NEW g, \A i \in 1 .. n : g[i] \in Nat
    PROVE  \E m \in Nat : \A i \in 1 .. n : g[i] <= m
<1> DEFINE Bad == {k \in 0 .. n : \A m \in Nat : \E i \in 1 .. k : g[i] > m}
<1>1. ASSUME Bad # {} PROVE FALSE
    <2>1. Bad \in SUBSET Nat
        OBVIOUS
    <2>2. PICK k \in Bad : \A j \in Bad : k <= j
        <3> HIDE DEF Bad
        <3>1. QED
            BY <1>1, <2>1, Smallest
    <2>3. k \in 0 .. n /\ \A m \in Nat : \E i \in 1 .. k : g[i] > m
        OBVIOUS
    <2>4. k \in 1 .. n
        <3>1. \E i \in 1 .. k : g[i] > 0
            BY <2>3
        <3>2. QED
            BY <2>3, <3>1
    <2>5. k - 1 \in 0 .. n /\ k - 1 \notin Bad
        <3>1. k \in Int /\ ~(k <= k - 1) /\ k - 1 \in 0 .. n
            BY <2>4
        <3> HIDE DEF Bad
        <3>2. QED
            BY <2>2, <3>1
    <2>6. PICK m \in Nat : \A i \in 1 .. k - 1 : ~(g[i] > m)
        BY <2>5
    <2>7. g[k] \in Nat /\ m + g[k] \in Nat
        BY <2>4
    <2>8. PICK i \in 1 .. k : g[i] > m + g[k]
        BY <2>3, <2>7
    <2>9. (i \in 1 .. k - 1 \/ i = k) /\ g[i] \in Nat
        BY <2>4
    <2>10. QED
        BY <2>6, <2>7, <2>8, <2>9
<1>2. n \notin Bad
    BY <1>1
<1>3. PICK m \in Nat : \A i \in 1 .. n : ~(g[i] > m)
    BY <1>2
<1>4. QED
    BY <1>3

LEMMA MaxIs ==
    ASSUME NEW S \in SUBSET Nat, S # {}, NEW n \in Nat, \A s \in S : s <= n
    PROVE  Max(S) \in S /\ \A s \in S : s <= Max(S)
<1> DEFINE Above == {m \in Nat : \A s \in S : s <= m}
<1>1. PICK m \in Above : \A k \in Above : m <= k
    <2>1. Above \in SUBSET Nat /\ n \in Above
        OBVIOUS
    <2> HIDE DEF Above
    <2>2. QED
        BY <2>1, Smallest
<1>2. m \in S
    <2> SUFFICES ASSUME m \notin S PROVE FALSE
        OBVIOUS
    <2>1. PICK s \in S : TRUE
        OBVIOUS
    <2>2. m - 1 \in Above
        BY <1>1, <2>1
    <2>3. QED
        BY <1>1, <2>2
<1>3. \E x \in S : \A y \in S : x >= y
    BY <1>1, <1>2
<1>4. Max(S) \in S /\ \A y \in S : Max(S) >= y
    BY <1>3 DEF Max
<1>5. QED
    BY <1>4

-----------------------------------------------------------------------------
(* Ordered lists.                                                          *)

LEMMA ElementsOf ==
    ASSUME NEW T, NEW list \in Seq(T)
    PROVE  /\ Elements(list) = {list[i] : i \in 1 .. Len(list)}
           /\ Elements(list) \subseteq T /\ DOMAIN list = 1 .. Len(list)
           /\ list # <<>> => Head(list) = list[1] /\ 1 \in 1 .. Len(list)
BY DEF Elements

LEMMA PutAtIs ==
    ASSUME NEW T, NEW list \in Seq(T), NEW k \in 1 .. Len(list) + 1, NEW e \in T,
           NEW v, v = PutAt(list, k, e)
    PROVE  /\ v \in Seq(T) /\ Len(v) = Len(list) + 1 /\ v[k] = e
           /\ \A i \in 1 .. Len(v) : i < k => v[i] = list[i]
           /\ \A i \in k .. Len(list) : v[i + 1] = list[i]
           /\ Elements(v) = Elements(list) \cup {e}
<1> DEFINE n == Len(list)
<1>1. n \in Nat /\ \A i \in 1 .. n : list[i] \in T
    OBVIOUS
<1>2. v = [i \in 1 .. n + 1 |-> IF i < k THEN list[i] ELSE IF i = k THEN e ELSE list[i - 1]]
    BY DEF PutAt
<1> HIDE DEF n
<1>3. v \in [1 .. n + 1 -> T]
    BY <1>1, <1>2 DEF n
<1>4. v \in Seq(T) /\ Len(v) = n + 1
    BY <1>1, <1>3
<1>5. \A i \in 1 .. n + 1 : v[i] = IF i < k THEN list[i]
                                   ELSE IF i = k THEN e ELSE list[i - 1]
    BY <1>2
<1>6. v[k] = e
    BY <1>5 DEF n
<1>7. Elements(v) \subseteq Elements(list) \cup {e}
    <2> SUFFICES ASSUME NEW i \in 1 .. n + 1 PROVE v[i] \in Elements(list) \cup {e}
        BY <1>4, ElementsOf
    <2>1. CASE i < k
        <3>1. i \in 1 .. Len(list) /\ v[i] = list[i]
            BY <1>1, <1>5, <2>1 DEF n
        <3>2. QED
            BY <3>1, ElementsOf
    <2>2. CASE i = k
        BY <1>6, <2>2
    <2>3. CASE i > k
        <3>1. i - 1 \in 1 .. Len(list) /\ v[i] = list[i - 1]
            BY <1>1, <1>5, <2>3 DEF n
        <3>2. QED
            BY <3>1, ElementsOf
    <2>4. QED
        BY <1>1, <2>1, <2>2, <2>3
<1>8. Elements(list) \subseteq Elements(v)
    <2> SUFFICES ASSUME NEW i \in 1 .. n PROVE list[i] \in Elements(v)
        BY ElementsOf DEF n
    <2>1. CASE i < k
        <3>1. i \in 1 .. Len(v) /\ v[i] = list[i]
            BY <1>1, <1>4, <1>5, <2>1
        <3>2. QED
            BY <1>4, <3>1, ElementsOf
    <2>2. CASE i >= k
        <3>1. i + 1 \in 1 .. Len(v) /\ v[i + 1] = list[i]
            BY <1>1, <1>4, <1>5, <2>2
        <3>2. QED
            BY <1>4, <3>1, ElementsOf
    <2>3. QED
        BY <1>1, <2>1, <2>2
<1>9. e \in Elements(v)
    <2>1. k \in 1 .. Len(v)
        BY <1>1, <1>4 DEF n
    <2>2. QED
        BY <1>4, <1>6, <2>1, ElementsOf
<1>10. QED
    BY <1>4, <1>5, <1>6, <1>7, <1>8, <1>9 DEF n

LEMMA TakeAtIs ==
    ASSUME NEW T, NEW list \in Seq(T), NEW k \in 1 .. Len(list),
           NEW v, v = TakeAt(list, k)
    PROVE  /\ v \in Seq(T) /\ Len(v) = Len(list) - 1
           /\ \A i \in 1 .. Len(v) : v[i] = IF i < k THEN list[i] ELSE list[i + 1]
<1> DEFINE n == Len(list)
<1>1. n \in Nat /\ n > 0 /\ \A i \in 1 .. n : list[i] \in T
    OBVIOUS
<1>2. v = [i \in 1 .. n - 1 |-> IF i < k THEN list[i] ELSE list[i + 1]]
    BY DEF TakeAt
<1> HIDE DEF n
<1>3. v \in [1 .. n - 1 -> T]
    BY <1>1, <1>2
<1>4. v \in Seq(T) /\ Len(v) = n - 1
    BY <1>1, <1>3
<1>5. \A i \in 1 .. n - 1 : v[i] = IF i < k THEN list[i] ELSE list[i + 1]
    BY <1>2
<1>6. QED
    BY <1>4, <1>5 DEF n

LEMMA InsertPositionIs ==
    ASSUME NEW T, NEW list \in Seq(T), NEW exp, \A u \in T : exp[u] \in Nat, NEW when \in Nat,
           NEW k, k = InsertPosition(list, exp, when)
    PROVE  /\ k \in 1 .. Len(list) + 1
           /\ \A i \in 1 .. k - 1 : exp[list[i]] <= when
           /\ k <= Len(list) => exp[list[k]] > when
<1> DEFINE n == Len(list)
           Later == {j \in 1 .. n + 1 : j <= n => exp[list[j]] > when}
<1>1. n \in Nat /\ \A i \in 1 .. n : exp[list[i]] \in Nat
    OBVIOUS
<1>2. PICK j \in Later : \A i \in Later : j <= i
    <2>1. Later \in SUBSET Nat /\ n + 1 \in Later
        BY <1>1
    <2> HIDE DEF Later
    <2>2. QED
        BY <2>1, Smallest
<1>3. /\ j \in 1 .. n + 1
      /\ \A i \in 1 .. j - 1 : exp[list[i]] <= when
      /\ j <= n => exp[list[j]] > when
    <2>1. ASSUME NEW i \in 1 .. j - 1 PROVE exp[list[i]] <= when
        <3>1. i \notin Later /\ i \in 1 .. n
            BY <1>1, <1>2
        <3>2. ~(exp[list[i]] > when)
            BY <1>1, <3>1
        <3>3. QED
            BY <1>1, <3>1, <3>2
    <2>2. QED
        BY <1>2, <2>1
<1>4. QED
    BY <1>3 DEF InsertPosition

LEMMA SameOrder ==
    ASSUME NEW T, NEW list \in Seq(T), NEW exp, NEW new,
           \A u \in Elements(list) : new[u] = exp[u], IsTimerList(list, exp)
    PROVE  IsTimerList(list, new)
BY DEF IsTimerList, Elements

LEMMA HeadIsFirst ==
    ASSUME NEW T, NEW list \in Seq(T), NEW exp, \A u \in T : exp[u] \in Nat,
           IsTimerList(list, exp), list # <<>>
    PROVE  /\ Head(list) \in Elements(list)
           /\ \A u \in Elements(list) : exp[Head(list)] <= exp[u]
<1>1. Head(list) = list[1] /\ 1 \in 1 .. Len(list) /\ DOMAIN list = 1 .. Len(list)
    BY ElementsOf
<1>2. \A i \in 1 .. Len(list) : exp[list[1]] <= exp[list[i]]
    <2> TAKE i \in 1 .. Len(list)
    <2>1. list[1] \in T
        BY <1>1
    <2>2. i = 1 \/ 1 < i
        OBVIOUS
    <2>3. QED
        BY <1>1, <2>1, <2>2 DEF IsTimerList
<1>3. QED
    BY <1>1, <1>2, ElementsOf

LEMMA InsertIs ==
    ASSUME NEW T, NEW list \in Seq(T), NEW exp, \A u \in T : exp[u] \in Nat, NEW t \in T,
           NEW v, v = ListInsert(list, exp, t)
    PROVE  /\ v \in Seq(T)
           /\ Elements(v) = Elements(list) \cup {t}
           /\ IsTimerList(list, exp) /\ t \notin Elements(list) => IsTimerList(v, exp)
<1> DEFINE n == Len(list)
<1>1. PICK k \in 1 .. Len(list) + 1 :
        /\ \A i \in 1 .. k - 1 : exp[list[i]] <= exp[t]
        /\ k <= Len(list) => exp[list[k]] > exp[t]
        /\ v = PutAt(list, k, t)
    BY InsertPositionIs DEF ListInsert
<1>2. /\ v \in Seq(T) /\ Len(v) = n + 1 /\ v[k] = t
      /\ \A i \in 1 .. n + 1 : i < k => v[i] = list[i]
      /\ \A i \in k .. n : v[i + 1] = list[i]
      /\ Elements(v) = Elements(list) \cup {t}
    <2>1. v = PutAt(list, k, t)
        BY <1>1
    <2>2. /\ v \in Seq(T) /\ Len(v) = Len(list) + 1 /\ v[k] = t
          /\ Elements(v) = Elements(list) \cup {t}
        BY <2>1, PutAtIs
    <2>3. \A i \in 1 .. Len(v) : i < k => v[i] = list[i]
        BY <2>1, PutAtIs
    <2>4. \A i \in k .. Len(list) : v[i + 1] = list[i]
        BY <2>1, PutAtIs
    <2>5. QED
        BY <2>2, <2>3, <2>4
<1>3. n \in Nat /\ \A i \in 1 .. n : list[i] \in T /\ exp[list[i]] \in Nat /\ list[i] \in Elements(list)
    BY ElementsOf
<1>4. /\ DOMAIN list = 1 .. n /\ DOMAIN v = 1 .. n + 1
      /\ k \in 1 .. n + 1 /\ (k <= n => exp[list[k]] > exp[t])
    BY <1>1, <1>2
<1> HIDE DEF n
<1>5. ASSUME IsTimerList(list, exp), t \notin Elements(list)
      PROVE  IsTimerList(v, exp)
    <2>1. /\ \A i, j \in 1 .. n : list[i] = list[j] => i = j
          /\ \A i, j \in 1 .. n : i < j => exp[list[i]] <= exp[list[j]]
        BY <1>4, <1>5 DEF IsTimerList
    <2>2. \A i \in 1 .. k - 1 : i \in 1 .. n /\ v[i] = list[i]
        BY <1>2, <1>3, <1>4
    <2>3. ASSUME NEW i \in k + 1 .. n + 1
          PROVE  i - 1 \in k .. n /\ i - 1 \in 1 .. n /\ v[i] = list[i - 1]
        <3>1. i - 1 \in k .. n /\ i - 1 \in 1 .. n /\ i = (i - 1) + 1
            BY <1>3, <1>4
        <3>2. v[(i - 1) + 1] = list[i - 1]
            BY <1>2, <3>1
        <3>3. QED
            BY <3>1, <3>2
    <2>4. \A i \in k .. n : i \in 1 .. n /\ exp[t] <= exp[list[i]]
        <3> TAKE i \in k .. n
        <3>1. i \in 1 .. n /\ k \in 1 .. n /\ exp[list[k]] > exp[t]
            BY <1>3, <1>4
        <3>2. exp[list[k]] <= exp[list[i]]
            BY <1>3, <2>1, <3>1
        <3>3. QED
            BY <1>3, <3>1, <3>2
    <2>5. \A i \in 1 .. n + 1 : i \in 1 .. k - 1 \/ i = k \/ i \in k + 1 .. n + 1
        BY <1>3, <1>4
    <2>6. ASSUME NEW i \in 1 .. n + 1, NEW j \in 1 .. n + 1, i < j
          PROVE  exp[v[i]] <= exp[v[j]] /\ v[i] # v[j]
        <3>1. CASE i \in 1 .. k - 1 /\ j \in 1 .. k - 1
            BY <2>1, <2>2, <2>6, <3>1
        <3>2. CASE i \in 1 .. k - 1 /\ j = k
            BY <1>1, <1>2, <1>3, <1>5, <2>2, <3>2
        <3>3. CASE i \in 1 .. k - 1 /\ j \in k + 1 .. n + 1
            <4>1. i \in 1 .. n /\ j - 1 \in 1 .. n /\ i < j - 1 /\ v[i] = list[i] /\ v[j] = list[j - 1]
                BY <1>3, <1>4, <2>2, <2>3, <3>3
            <4>2. QED
                BY <2>1, <4>1
        <3>4. CASE i = k /\ j \in k + 1 .. n + 1
            <4>1. v[i] = t /\ v[j] = list[j - 1] /\ j - 1 \in k .. n /\ j - 1 \in 1 .. n
                BY <1>2, <2>3, <3>4
            <4>2. QED
                BY <1>3, <1>5, <2>4, <4>1
        <3>5. CASE i \in k + 1 .. n + 1 /\ j \in k + 1 .. n + 1
            <4>1. /\ i - 1 \in 1 .. n /\ j - 1 \in 1 .. n /\ i - 1 < j - 1
                  /\ v[i] = list[i - 1] /\ v[j] = list[j - 1]
                BY <2>3, <2>6, <3>5
            <4>2. QED
                BY <2>1, <4>1
        <3>6. QED
            BY <1>3, <1>4, <2>5, <2>6, <3>1, <3>2, <3>3, <3>4, <3>5
    <2>7. \A i, j \in 1 .. n + 1 : v[i] = v[j] => i = j
        <3> SUFFICES ASSUME NEW i \in 1 .. n + 1, NEW j \in 1 .. n + 1, v[i] = v[j], i # j
                     PROVE  FALSE
            OBVIOUS
        <3>1. i < j \/ j < i
            BY <1>3
        <3>2. QED
            BY <2>6, <3>1
    <2>8. QED
        BY <1>4, <2>6, <2>7 DEF IsTimerList
<1>6. QED
    BY <1>2, <1>5

LEMMA RemoveIs ==
    ASSUME NEW T, NEW list \in Seq(T), NEW exp, NEW t
    PROVE  /\ ListRemove(list, t) \in Seq(T)
           /\ Elements(ListRemove(list, t)) \subseteq Elements(list)
           /\ IsTimerList(list, exp)
                => /\ Elements(ListRemove(list, t)) = Elements(list) \ {t}
                   /\ IsTimerList(ListRemove(list, t), exp)
<1>1. CASE t \notin Elements(list)
    BY <1>1 DEF ListRemove
<1>2. CASE t \in Elements(list)
    <2> DEFINE v == ListRemove(list, t)
               n == Len(list)
    <2>1. n \in Nat /\ DOMAIN list = 1 .. n /\ \A i \in 1 .. n : list[i] \in Elements(list)
        BY ElementsOf
    <2>2. PICK k \in 1 .. n : list[k] = t /\ v = TakeAt(list, k)
        <3>1. \E k \in DOMAIN list : list[k] = t
            BY <1>2 DEF Elements
        <3>2. QED
            BY <1>2, <2>1, <3>1 DEF ListRemove
    <2>3. /\ v \in Seq(T) /\ Len(v) = n - 1
          /\ \A i \in 1 .. n - 1 : v[i] = IF i < k THEN list[i] ELSE list[i + 1]
        <3>1. v = TakeAt(list, k) /\ k \in 1 .. Len(list)
            BY <2>2
        <3> HIDE DEF v
        <3>2. /\ v \in Seq(T) /\ Len(v) = n - 1
              /\ \A i \in 1 .. Len(v) : v[i] = IF i < k THEN list[i] ELSE list[i + 1]
            BY <3>1, TakeAtIs, Zenon
        <3>3. QED
            BY <3>2
    <2>4. DOMAIN v = 1 .. n - 1 /\ Elements(v) = {v[i] : i \in 1 .. n - 1}
        BY <2>3, ElementsOf
    <2> HIDE DEF v, n
    <2>5. \A i \in 1 .. n - 1 :
            \/ i < k /\ i \in 1 .. n /\ v[i] = list[i]
            \/ i >= k /\ i + 1 \in 1 .. n /\ v[i] = list[i + 1]
        BY <2>1, <2>3
    <2>6. Elements(v) \subseteq Elements(list)
        BY <2>1, <2>4, <2>5
    <2>7. ASSUME IsTimerList(list, exp)
          PROVE  Elements(v) = Elements(list) \ {t} /\ IsTimerList(v, exp)
        <3>1. /\ \A i, j \in 1 .. n : list[i] = list[j] => i = j
              /\ \A i, j \in 1 .. n : i < j => exp[list[i]] <= exp[list[j]]
            BY <2>1, <2>7 DEF IsTimerList
        <3>2. \A i \in 1 .. n - 1 : v[i] # t
            BY <2>1, <2>2, <2>5, <3>1
        <3>3. ASSUME NEW i \in 1 .. n, i # k PROVE list[i] \in Elements(v)
            <4>1. CASE i < k
                <5>1. i \in 1 .. n - 1 /\ v[i] = list[i]
                    BY <2>1, <2>3, <4>1
                <5>2. QED
                    BY <2>4, <5>1
            <4>2. CASE i > k
                <5>1. i - 1 \in 1 .. n - 1 /\ v[i - 1] = list[i]
                    BY <2>1, <2>3, <4>2
                <5>2. QED
                    BY <2>4, <5>1
            <4>3. QED
                BY <2>1, <3>3, <4>1, <4>2
        <3>4. Elements(list) = {list[i] : i \in 1 .. n}
            BY ElementsOf DEF n
        <3>5. Elements(v) = Elements(list) \ {t}
            BY <2>2, <2>4, <2>6, <3>2, <3>3, <3>4
        <3>6. \A i, j \in 1 .. n - 1 : v[i] = v[j] => i = j
            <4> TAKE i, j \in 1 .. n - 1
            <4>1. CASE i < k /\ j < k
                BY <2>1, <2>5, <3>1, <4>1
            <4>2. CASE i >= k /\ j >= k
                <5>1. /\ i + 1 \in 1 .. n /\ j + 1 \in 1 .. n
                      /\ v[i] = list[i + 1] /\ v[j] = list[j + 1]
                    BY <2>1, <2>5, <4>2
                <5>2. v[i] = v[j] => i + 1 = j + 1
                    BY <3>1, <5>1
                <5>3. QED
                    BY <5>2
            <4>3. CASE i < k /\ j >= k
                <5>1. i \in 1 .. n /\ j + 1 \in 1 .. n /\ v[i] = list[i] /\ v[j] = list[j + 1] /\ i # j + 1
                    BY <2>1, <2>5, <4>3
                <5>2. QED
                    BY <3>1, <5>1
            <4>4. CASE j < k /\ i >= k
                <5>1. j \in 1 .. n /\ i + 1 \in 1 .. n /\ v[j] = list[j] /\ v[i] = list[i + 1] /\ j # i + 1
                    BY <2>1, <2>5, <4>4
                <5>2. QED
                    BY <3>1, <5>1
            <4>5. QED
                BY <2>1, <4>1, <4>2, <4>3, <4>4
        <3>7. \A i, j \in 1 .. n - 1 : i < j => exp[v[i]] <= exp[v[j]]
            <4> SUFFICES ASSUME NEW i \in 1 .. n - 1, NEW j \in 1 .. n - 1, i < j
                         PROVE  exp[v[i]] <= exp[v[j]]
                OBVIOUS
            <4>1. PICK a \in 1 .. n : v[i] = list[a] /\ a = IF i < k THEN i ELSE i + 1
                <5>1. i < k \/ i >= k
                    BY <2>1
                <5>2. QED
                    BY <2>1, <2>5, <5>1
            <4>2. PICK b \in 1 .. n : v[j] = list[b] /\ b = IF j < k THEN j ELSE j + 1
                <5>1. j < k \/ j >= k
                    BY <2>1
                <5>2. QED
                    BY <2>1, <2>5, <5>1
            <4>3. a < b
                BY <2>1, <4>1, <4>2
            <4>4. QED
                BY <3>1, <4>1, <4>2, <4>3
        <3>8. QED
            BY <2>4, <3>5, <3>6, <3>7 DEF IsTimerList
    <2>8. QED
        BY <2>3, <2>6, <2>7 DEF v
<1>3. QED
    BY <1>1, <1>2

-----------------------------------------------------------------------------
(* The type invariant, in three parts, and what it needs: which phase has  *)
(* what, that times are bounded, and that the cycle counts of a slice agree. *)

LoopTypes ==
    /\ phase \in Phases /\ basetime \in Nat /\ target \in Nat
    /\ todo \subseteq Cpu /\ stalled \subseteq Cpu
    /\ executing \in Cpu \cup {Nobody}
    /\ mode \in [Cpu -> AllModes] /\ nextmode \in [Cpu -> AllModes]
    /\ midInstr \in Between .. MaxInstr
    /\ calls \in 0 .. MaxCalls

CycleTypes ==
    /\ localtime \in [Cpu -> Nat] /\ totalcycles \in [Cpu -> Nat]
    /\ worked \in [Cpu -> Nat]
    /\ ran \in Nat /\ running \in Nat /\ icount \in Int /\ stolen \in Int

TimerTypes ==
    /\ active \in Seq(Timer) /\ inactive \subseteq Timer
    /\ expire \in [Timer -> Nat] /\ period \in [Timer -> Nat]
    /\ enabled \in [Timer -> BOOLEAN] /\ owed \in [Timer -> Nat]
    /\ cbTimer \in Timer \cup {NoTimer} /\ cbModified \in BOOLEAN
    /\ cbExpire \in Nat

Phased ==
    /\ executing # Nobody <=> phase = "run"
    /\ phase # "run" => midInstr = Between
    /\ phase = "callback" => cbTimer \in Timer

Bounded ==
    /\ basetime < Never
    /\ phase \in {"cpus", "run"} =>
          basetime <= target /\ target <= basetime + Quantum /\ basetime < Horizon
    /\ \A t \in Timer : expire[t] <= Never

SliceCounts == phase = "run" => running + stolen = ran /\ running >= icount

Typed == LoopTypes /\ CycleTypes /\ TimerTypes /\ Phased /\ Bounded /\ SliceCounts

LEMMA Types == Typed => TypeOK
BY DEF Typed, TypeOK, LoopTypes, CycleTypes, TimerTypes

LEMMA Numbers ==
    /\ Quantum \in Nat \ {0} /\ MaxInstr \in Nat \ {0} /\ Second \in Nat \ {0}
    /\ \A c \in Cpu : c \in Nat \ {0} /\ CyclePeriod[c] \in Nat \ {0}
    /\ Never \in Nat /\ Horizon \in Nat /\ Horizon + Quantum < Never
    /\ MaxCalls \in Nat
BY CpuAssumption, TimerAssumption

LEMMA Product ==
    ASSUME NEW a \in Nat, NEW b \in Nat PROVE a * b \in Nat
OBVIOUS

LEMMA PlusType ==
    ASSUME NEW a \in Nat, NEW b \in Nat
    PROVE  Plus(a, b) \in Nat /\ Plus(a, b) <= Never /\ (Plus(a, b) >= a \/ Plus(a, b) = Never)
BY Numbers DEF Plus

LEMMA TimeType == ASSUME Typed PROVE Time \in Nat
<1>1. CASE executing = Nobody
    BY <1>1 DEF Time, Typed, LoopTypes, TimerTypes
<1>2. CASE executing # Nobody
    <2>1. /\ executing \in Cpu /\ running - icount \in Nat /\ localtime[executing] \in Nat
          /\ CyclePeriod[executing] \in Nat
        BY <1>2, Numbers DEF Typed, LoopTypes, CycleTypes, Phased, SliceCounts
    <2>2. (running - icount) * CyclePeriod[executing] \in Nat
        BY <2>1, Product
    <2>3. LocalTime \in Nat
        BY <2>1, <2>2 DEF LocalTime
    <2>4. QED
        BY <1>2, <2>3 DEF Time, Typed, TimerTypes
<1>3. QED
    BY <1>1, <1>2

LEMMA HeadType ==
    ASSUME Typed
    PROVE  /\ HeadExpire \in Nat /\ HeadExpire <= Never
           /\ HeadExpire <= basetime
                => active # <<>> /\ Head(active) \in Timer /\ HeadExpire = expire[Head(active)]
<1>1. active # <<>> => Head(active) \in Timer
    BY DEF Typed, TimerTypes
<1>2. QED
    BY <1>1, Numbers DEF HeadExpire, Typed, TimerTypes, LoopTypes, Bounded

\* What a timer is owed is a time, and at least when it expires.
LEMMA OweIs ==
    ASSUME NEW t \in Timer, NEW when \in Nat, basetime \in Nat, owed \in [Timer -> Nat],
           active' \in Seq(Timer), Owe(t, when)
    PROVE  /\ owed' \in [Timer -> Nat] /\ \A u \in Timer \ {t} : owed'[u] = owed[u]
           /\ owed'[t] >= when /\ owed'[t] >= basetime
           /\ \A u \in InFront(active', t) : u \in Timer /\ owed'[t] >= owed[u]
<1> DEFINE n == Len(active')
           others == {owed[u] : u \in InFront(active', t)}
           S == {when, basetime} \cup others
<1>1. n \in Nat /\ \A i \in 1 .. n : active'[i] \in Timer
    OBVIOUS
<1>2. InFront(active', t) \subseteq {active'[i] : i \in 1 .. n}
    BY ElementsOf DEF InFront
<1>3. \A u \in InFront(active', t) : u \in Timer
    BY <1>1, <1>2
<1>4. S \in SUBSET Nat /\ when \in S /\ basetime \in S
    BY <1>3
<1>5. \E m \in Nat : \A i \in 1 .. n : owed[active'[i]] <= m
    <2> DEFINE g == [i \in 1 .. n |-> owed[active'[i]]]
    <2>1. \A i \in 1 .. n : g[i] \in Nat
        BY <1>1
    <2>2. \A i \in 1 .. n : g[i] = owed[active'[i]]
        OBVIOUS
    <2> HIDE DEF g, n
    <2>3. \E m \in Nat : \A i \in 1 .. n : g[i] <= m
        BY <1>1, <2>1, Bounds
    <2>4. QED
        BY <2>2, <2>3
<1>6. PICK m \in Nat : \A i \in 1 .. n : owed[active'[i]] <= m
    BY <1>5
<1>7. \A s \in S : s <= m + when + basetime
    <2>1. \A u \in InFront(active', t) : owed[u] <= m /\ owed[u] \in Nat
        BY <1>2, <1>3, <1>6
    <2>2. QED
        BY <2>1
<1>8. m + when + basetime \in Nat
    OBVIOUS
<1>9. owed' = [owed EXCEPT ![t] = Max(S)]
    BY DEF Owe
<1> HIDE DEF S
<1>10. Max(S) \in S /\ \A s \in S : s <= Max(S)
    BY <1>4, <1>7, <1>8, MaxIs
<1>11. Max(S) \in Nat /\ Max(S) >= when /\ Max(S) >= basetime
    BY <1>4, <1>10
<1>12. \A u \in InFront(active', t) : Max(S) >= owed[u]
    BY <1>10 DEF S
<1>13. owed'[t] = Max(S) /\ owed' \in [Timer -> Nat] /\ \A u \in Timer \ {t} : owed'[u] = owed[u]
    BY <1>9, <1>11
<1>14. QED
    BY <1>3, <1>11, <1>12, <1>13

-----------------------------------------------------------------------------
(* Types are kept: the loop.                                               *)

LEMMA TypedInit == Init => Typed
<1> SUFFICES ASSUME Init PROVE Typed
    OBVIOUS
<1> USE Numbers DEF Init
<1>1. LoopTypes
    BY DEF LoopTypes, Phases, AllModes, Between
<1>2. CycleTypes
    BY DEF CycleTypes
<1>3. TimerTypes
    <2>1. /\ active \in Seq(Timer) /\ inactive \subseteq Timer
          /\ cbTimer \in Timer \cup {NoTimer} /\ cbExpire \in Nat
        BY DEF Timer
    <2>2. /\ expire \in [Timer -> Nat] /\ period \in [Timer -> Nat]
          /\ enabled \in [Timer -> BOOLEAN] /\ owed \in [Timer -> Nat]
        OBVIOUS
    <2>3. cbModified \in BOOLEAN
        OBVIOUS
    <2>4. QED
        BY <2>1, <2>2, <2>3, Zenon DEF TimerTypes
<1>4. Phased /\ Bounded /\ SliceCounts
    BY DEF Phased, Bounded, SliceCounts, Between
<1>5. QED
    BY <1>1, <1>2, <1>3, <1>4 DEF Typed

\* Steps of the loop that touch neither cycle counts nor timers.
LEMMA BeginTyped == ASSUME Typed, Begin \/ EndLoop PROVE Typed'
<1>1. LoopTypes' /\ Phased' /\ Bounded' /\ SliceCounts'
    BY DEF Begin, EndLoop, Typed, LoopTypes, Phased, Bounded, SliceCounts, Phases,
           loopVars, modeVars, cycleVars, timerVars, cbVars, listVars
<1>2. CycleTypes' /\ TimerTypes'
    BY DEF Begin, EndLoop, Typed, CycleTypes, TimerTypes,
           cpuVars, cycleVars, timerVars, cbVars, listVars
<1>3. QED
    BY <1>1, <1>2 DEF Typed

LEMMA StartPassTyped == ASSUME Typed, StartPass PROVE Typed'
<1>1. target' \in Nat /\ basetime <= target' /\ target' <= basetime + Quantum
    <2>1. HeadExpire \in Nat /\ basetime \in Nat /\ basetime + Quantum \in Nat /\ Quantum \in Nat
        BY Numbers, HeadType DEF Typed, LoopTypes
    <2>2. basetime < HeadExpire /\ target' = Lesser(basetime + Quantum, HeadExpire)
        BY DEF StartPass
    <2>3. QED
        BY <2>1, <2>2 DEF Lesser
<1>2. LoopTypes' /\ Phased' /\ Bounded' /\ SliceCounts'
    BY <1>1 DEF StartPass, Typed, LoopTypes, Phased, Bounded, SliceCounts, Phases,
                cycleVars, timerVars, cbVars
<1>3. CycleTypes' /\ TimerTypes'
    BY DEF StartPass, Typed, CycleTypes, TimerTypes, cpuVars, cycleVars, timerVars, cbVars, listVars
<1>4. QED
    BY <1>2, <1>3 DEF Typed

LEMMA SkipTyped == ASSUME Typed, NEW c \in Cpu, SkipCpu(c) PROVE Typed'
<1>1. LoopTypes' /\ Phased' /\ Bounded' /\ SliceCounts'
    BY DEF SkipCpu, Typed, LoopTypes, Phased, Bounded, SliceCounts,
           modeVars, cycleVars, timerVars, cbVars
<1>2. CycleTypes' /\ TimerTypes'
    BY DEF SkipCpu, Typed, CycleTypes, TimerTypes, cpuVars, cycleVars, timerVars, cbVars, listVars
<1>3. QED
    BY <1>1, <1>2 DEF Typed

\* A device that is behind has a whole number of cycles to go.
LEMMA CyclesType ==
    ASSUME Typed, NEW c \in Cpu, Behind(c)
    PROVE  CyclesToTarget(c) \in Nat /\ Delta(c) \in Nat
           /\ CyclesToTarget(c) * CyclePeriod[c] <= Delta(c)
           /\ Delta(c) < CyclesToTarget(c) * CyclePeriod[c] + CyclePeriod[c]
<1>1. /\ target \in Nat /\ localtime[c] \in Nat /\ Second \in Nat \ {0}
      /\ CyclePeriod[c] \in Nat \ {0}
    BY Numbers DEF Typed, LoopTypes, CycleTypes
<1>2. target % Second \in Int /\ localtime[c] % Second \in Int
    BY <1>1
<1>3. Delta(c) \in Int
    BY <1>1, <1>2 DEF Delta
<1>4. Delta(c) >= CyclePeriod[c]
    BY DEF Behind
<1> DEFINE d == Delta(c)
           p == CyclePeriod[c]
<1>5. d \in Nat /\ p \in Nat \ {0}
    BY <1>1, <1>3, <1>4
<1> HIDE DEF d, p
<1>6. d \div p \in Nat /\ (d \div p) * p <= d /\ d < (d \div p) * p + p
    BY <1>5
<1>7. QED
    BY <1>5, <1>6 DEF CyclesToTarget, d, p

LEMMA AccountTyped ==
    ASSUME LoopTypes, CycleTypes, NEW c \in Cpu, NEW n \in Nat, Account(c, n)
    PROVE  /\ localtime' \in [Cpu -> Nat] /\ totalcycles' \in [Cpu -> Nat]
           /\ todo' \subseteq Cpu /\ target' \in Nat
           /\ localtime'[c] = localtime[c] + n * CyclePeriod[c]
           /\ totalcycles'[c] = totalcycles[c] + n
           /\ \A d \in Cpu \ {c} : localtime'[d] = localtime[d] /\ totalcycles'[d] = totalcycles[d]
           /\ \/ /\ target' = target /\ localtime'[c] >= target
              \/ /\ target' = localtime'[c] /\ localtime'[c] >= basetime /\ localtime'[c] < target
              \/ /\ target' = basetime /\ localtime'[c] <= basetime /\ localtime'[c] < target
<1>1. localtime[c] \in Nat /\ totalcycles[c] \in Nat /\ target \in Nat /\ basetime \in Nat
    BY DEF LoopTypes, CycleTypes
<1>2. n * CyclePeriod[c] \in Nat
    BY Numbers, Product
<1> DEFINE p == n * CyclePeriod[c]
<1>3. p \in Nat /\ localtime' = [localtime EXCEPT ![c] = @ + p]
    BY <1>2 DEF Account
<1>4. totalcycles' = [totalcycles EXCEPT ![c] = @ + n] /\ todo' = todo \ {c}
    BY DEF Account
<1>5. target' = IF localtime'[c] < target
                THEN Greater(localtime'[c], basetime) ELSE target
    BY DEF Account
<1> HIDE DEF p
<1>6. /\ localtime' \in [Cpu -> Nat] /\ localtime'[c] = localtime[c] + p
      /\ \A d \in Cpu \ {c} : localtime'[d] = localtime[d]
    BY <1>1, <1>3 DEF CycleTypes
<1>7. /\ totalcycles' \in [Cpu -> Nat] /\ totalcycles'[c] = totalcycles[c] + n
      /\ \A d \in Cpu \ {c} : totalcycles'[d] = totalcycles[d]
    BY <1>1, <1>4 DEF CycleTypes
<1>8. localtime'[c] \in Nat /\ todo' \subseteq Cpu
    BY <1>4, <1>6 DEF LoopTypes
<1>9. /\ target' \in Nat
      /\ \/ /\ target' = target /\ localtime'[c] >= target
         \/ /\ target' = localtime'[c] /\ localtime'[c] >= basetime /\ localtime'[c] < target
         \/ /\ target' = basetime /\ localtime'[c] <= basetime /\ localtime'[c] < target
    BY <1>1, <1>5, <1>8 DEF Greater
<1>10. QED
    BY <1>6, <1>7, <1>8, <1>9 DEF p

\* Accounting for a device's cycles keeps the target in its range.
LEMMA TargetKept ==
    ASSUME LoopTypes, CycleTypes, Bounded, phase \in {"cpus", "run"},
           NEW c \in Cpu, NEW n \in Nat, Account(c, n), basetime' = basetime
    PROVE  basetime <= target' /\ target' <= basetime + Quantum /\ basetime < Horizon
<1>1. basetime <= target /\ target <= basetime + Quantum /\ basetime < Horizon
    BY DEF Bounded
<1>2. /\ target \in Nat /\ basetime \in Nat /\ Quantum \in Nat /\ target' \in Nat
      /\ localtime'[c] \in Nat
    BY Numbers, AccountTyped DEF LoopTypes
<1>3. \/ target' = target
      \/ /\ target' = localtime'[c] /\ localtime'[c] >= basetime /\ localtime'[c] < target
      \/ target' = basetime
    BY AccountTyped
<1>4. QED
    BY <1>1, <1>2, <1>3

LEMMA EatTyped == ASSUME Typed, NEW c \in Cpu, EatCpu(c) PROVE Typed'
<1> DEFINE n == CyclesToTarget(c)
<1>1. n \in Nat /\ Account(c, n) /\ worked' = [worked EXCEPT ![c] = @ + n] /\ phase = "cpus"
    BY CyclesType DEF EatCpu
<1> HIDE DEF n
<1>2. /\ UNCHANGED <<phase, basetime, executing, mode, nextmode, stalled, midInstr, calls>>
      /\ UNCHANGED <<ran, running, icount, stolen>>
    BY DEF EatCpu, modeVars, cycleVars
<1>3. UNCHANGED <<active, inactive, expire, period, enabled, owed, cbTimer, cbModified, cbExpire>>
    BY DEF EatCpu, listVars, timerVars, cbVars
<1>4. /\ localtime' \in [Cpu -> Nat] /\ totalcycles' \in [Cpu -> Nat]
      /\ todo' \subseteq Cpu /\ target' \in Nat
    BY <1>1, AccountTyped DEF Typed
<1>5. basetime <= target' /\ target' <= basetime + Quantum /\ basetime < Horizon
    BY <1>1, <1>2, TargetKept DEF Typed
<1>6. worked' \in [Cpu -> Nat]
    BY <1>1 DEF Typed, CycleTypes
<1>7. LoopTypes' /\ CycleTypes'
    BY <1>2, <1>4, <1>6 DEF Typed, LoopTypes, CycleTypes
<1>8. TimerTypes'
    BY <1>3 DEF Typed, TimerTypes
<1>9. Phased' /\ Bounded' /\ SliceCounts'
    BY <1>2, <1>3, <1>5 DEF Typed, Phased, Bounded, SliceCounts
<1>10. QED
    BY <1>7, <1>8, <1>9 DEF Typed

LEMMA RunTyped == ASSUME Typed, NEW c \in Cpu, RunCpu(c) PROVE Typed'
<1>1. ran' \in Nat /\ running' = ran' /\ icount' = ran' /\ stolen' = 0
    BY CyclesType DEF RunCpu
<1>2. /\ UNCHANGED <<basetime, target, todo, mode, nextmode, stalled, midInstr, calls>>
      /\ phase = "cpus" /\ phase' = "run" /\ executing' = c
    BY DEF RunCpu, modeVars
<1>3. UNCHANGED <<active, inactive, expire, period, enabled, owed, cbTimer, cbModified, cbExpire>>
    BY DEF RunCpu, listVars, timerVars, cbVars
<1>4. UNCHANGED <<localtime, totalcycles, worked>>
    BY DEF RunCpu, cpuVars
<1>5. LoopTypes'
    BY <1>2 DEF Typed, LoopTypes, Phases
<1>6. CycleTypes'
    BY <1>1, <1>4 DEF Typed, CycleTypes
<1>7. TimerTypes'
    BY <1>3 DEF Typed, TimerTypes
<1>8. Phased' /\ Bounded'
    BY <1>2, <1>3, Numbers DEF Typed, Phased, Bounded, Nobody
<1>9. SliceCounts'
    <2>1. \A r \in Nat : r + 0 = r /\ r >= r
        OBVIOUS
    <2>2. running' + stolen' = ran' /\ running' >= icount'
        BY <1>1, <2>1
    <2>3. QED
        BY <2>2 DEF SliceCounts
<1>10. QED
    BY <1>5, <1>6, <1>7, <1>8, <1>9 DEF Typed

\* An instruction spends k of the cycles that are left.
Spends(k) ==
    /\ phase = "run" /\ k \in Nat
    /\ icount' = icount - k
    /\ worked' = [worked EXCEPT ![executing] = @ + k]
    /\ UNCHANGED <<loopVars, nextmode, localtime, totalcycles, ran, running>>
    /\ UNCHANGED <<stolen, listVars, timerVars, cbVars, calls>>

LEMMA SpendsTyped ==
    ASSUME Typed, NEW k, Spends(k), midInstr' \in Between .. MaxInstr
    PROVE  Typed'
<1>1. /\ UNCHANGED <<phase, basetime, target, todo, executing, mode, nextmode, stalled, calls>>
      /\ phase = "run" /\ k \in Nat /\ icount' = icount - k
      /\ UNCHANGED <<localtime, totalcycles, ran, running, stolen>>
    BY DEF Spends, loopVars
<1>2. UNCHANGED <<active, inactive, expire, period, enabled, owed, cbTimer, cbModified, cbExpire>>
    BY DEF Spends, listVars, timerVars, cbVars
<1>3. worked' \in [Cpu -> Nat]
    <2>1. worked \in [Cpu -> Nat] /\ k \in Nat /\ executing \in Cpu
        BY <1>1 DEF Typed, CycleTypes, LoopTypes, Phased
    <2>2. worked' = [worked EXCEPT ![executing] = @ + k]
        BY DEF Spends
    <2>3. worked[executing] + k \in Nat
        BY <2>1
    <2>4. QED
        BY <2>1, <2>2, <2>3
<1>4. LoopTypes'
    BY <1>1 DEF Typed, LoopTypes
<1>5. CycleTypes' /\ SliceCounts'
    BY <1>1, <1>3 DEF Typed, CycleTypes, SliceCounts
<1>6. TimerTypes'
    BY <1>2 DEF Typed, TimerTypes
<1>7. Phased' /\ Bounded'
    BY <1>1, <1>2 DEF Typed, Phased, Bounded
<1>8. QED
    BY <1>4, <1>5, <1>6, <1>7 DEF Typed

LEMMA InstructionTyped ==
    ASSUME Typed, StartInstruction \/ FinishInstruction
    PROVE  Typed' /\ \E k \in 0 .. MaxInstr : Spends(k)
<1>1. CASE StartInstruction
    <2> PICK k \in 0 .. MaxInstr :
            /\ icount' = icount - k
            /\ midInstr' = MaxInstr - k
            /\ worked' = [worked EXCEPT ![executing] = @ + k]
        BY <1>1 DEF StartInstruction
    <2>1. Spends(k) /\ midInstr' \in Between .. MaxInstr
        BY <1>1, Numbers DEF StartInstruction, Spends, Between
    <2>2. QED
        BY <2>1, SpendsTyped
<1>2. CASE FinishInstruction
    <2> PICK k \in 0 .. midInstr :
            /\ icount' = icount - k
            /\ worked' = [worked EXCEPT ![executing] = @ + k]
        BY <1>2 DEF FinishInstruction
    <2>1. Spends(k) /\ midInstr' \in Between .. MaxInstr /\ k \in 0 .. MaxInstr
        BY <1>2, Numbers DEF FinishInstruction, Spends, Between, Typed, LoopTypes
    <2>2. QED
        BY <2>1, SpendsTyped
<1>3. QED
    BY <1>1, <1>2

\* At the end of a slice the device has used what ran less what was stolen.
LEMMA UsedType ==
    ASSUME Typed, phase = "run"
    PROVE  /\ executing \in Cpu /\ ran - icount - stolen = running - icount
           /\ running - icount \in Nat
BY DEF Typed, LoopTypes, CycleTypes, Phased, SliceCounts

LEMMA StopTyped == ASSUME Typed, StopCpu PROVE Typed'
<1> DEFINE n == ran - icount - stolen
<1>1. n \in Nat /\ executing \in Cpu /\ Account(executing, n) /\ phase = "run"
    BY UsedType DEF StopCpu
<1> HIDE DEF n
<1>2. /\ phase' = "cpus" /\ executing' = Nobody /\ midInstr = Between
      /\ UNCHANGED <<basetime, mode, nextmode, stalled, midInstr, calls>>
      /\ UNCHANGED <<ran, running, icount, stolen, worked>>
    BY DEF StopCpu, modeVars, cycleVars
<1>3. UNCHANGED <<active, inactive, expire, period, enabled, owed, cbTimer, cbModified, cbExpire>>
    BY DEF StopCpu, listVars, timerVars, cbVars
<1>4. /\ localtime' \in [Cpu -> Nat] /\ totalcycles' \in [Cpu -> Nat]
      /\ todo' \subseteq Cpu /\ target' \in Nat
    BY <1>1, AccountTyped DEF Typed
<1>5. basetime <= target' /\ target' <= basetime + Quantum /\ basetime < Horizon
    BY <1>1, <1>2, TargetKept DEF Typed
<1>6. LoopTypes'
    BY <1>2, <1>4 DEF Typed, LoopTypes, Phases
<1>7. CycleTypes'
    BY <1>2, <1>4 DEF Typed, CycleTypes
<1>8. TimerTypes'
    BY <1>3 DEF Typed, TimerTypes
<1>9. Phased' /\ Bounded' /\ SliceCounts'
    BY <1>2, <1>3, <1>5 DEF Typed, Phased, Bounded, SliceCounts
<1>10. QED
    BY <1>6, <1>7, <1>8, <1>9 DEF Typed

LEMMA EndPassTyped == ASSUME Typed, EndPass PROVE Typed'
<1>1. /\ phase = "cpus" /\ phase' = "loop" /\ basetime' = target
      /\ UNCHANGED <<target, todo, executing, mode, nextmode, stalled, midInstr, calls>>
    BY DEF EndPass, modeVars
<1>2. UNCHANGED <<localtime, totalcycles, worked, ran, running, icount, stolen>>
    BY DEF EndPass, cpuVars, cycleVars
<1>3. UNCHANGED <<active, inactive, expire, period, enabled, owed, cbTimer, cbModified, cbExpire>>
    BY DEF EndPass, listVars, timerVars, cbVars
<1>4. LoopTypes' /\ basetime' < Never
    BY <1>1, Numbers DEF Typed, LoopTypes, Phases, Bounded
<1>5. CycleTypes'
    BY <1>2 DEF Typed, CycleTypes
<1>6. TimerTypes'
    BY <1>3 DEF Typed, TimerTypes
<1>7. Phased' /\ Bounded' /\ SliceCounts'
    BY <1>1, <1>3, <1>4 DEF Typed, Phased, Bounded, SliceCounts
<1>8. QED
    BY <1>4, <1>5, <1>6, <1>7 DEF Typed

-----------------------------------------------------------------------------
(* Types are kept: timers.                                                 *)

LEMMA ReinsertTyped ==
    ASSUME active \in Seq(Timer), inactive \subseteq Timer, NEW t \in Timer,
           NEW exp, \A u \in Timer : exp[u] \in Nat, NEW en, Reinsert(t, exp, en)
    PROVE  active' \in Seq(Timer) /\ inactive' \subseteq Timer
<1> DEFINE rest == ListRemove(active, t)
<1>1. rest \in Seq(Timer)
    BY RemoveIs
<1>2. ListInsert(rest, exp, t) \in Seq(Timer)
    <2> HIDE DEF rest
    <2>1. QED
        BY <1>1, InsertIs
<1>3. \/ active' = ListInsert(rest, exp, t) /\ inactive' = inactive \ {t}
      \/ active' = rest /\ inactive' = inactive \cup {t}
    BY DEF Reinsert
<1>4. QED
    BY <1>1, <1>2, <1>3

\* Giving up the slice moves cycles from what runs to what is stolen.
CutsShort == Abort \/ UNCHANGED <<icount, stolen, running>>

LEMMA CutsCounts ==
    ASSUME Typed, CutsShort, UNCHANGED <<phase, executing, ran>>
    PROVE  /\ running' \in Nat /\ icount' \in Int /\ stolen' \in Int
           /\ SliceCounts'
           /\ phase = "run" => running' - icount' = running - icount
<1>1. CASE UNCHANGED <<icount, stolen, running>>
    BY <1>1 DEF Typed, CycleTypes, SliceCounts
<1>2. CASE executing # Nobody /\ StealCycles
    BY <1>2 DEF StealCycles, Typed, CycleTypes, SliceCounts, Phased
<1>3. QED
    BY <1>1, <1>2 DEF CutsShort, Abort

LEMMA CallTyped ==
    ASSUME Typed, CanCall, CutsShort, nextmode' \in [Cpu -> AllModes], cbTimer' = cbTimer,
           TimerTypes', \A u \in Timer : expire'[u] <= Never
    PROVE  Typed'
<1>1. /\ UNCHANGED <<phase, basetime, target, todo, executing, mode, stalled, midInstr>>
      /\ UNCHANGED <<localtime, totalcycles, worked, ran>>
      /\ calls < MaxCalls /\ calls' = calls + 1
    BY DEF CanCall, loopVars, cpuVars
<1>2. running' \in Nat /\ icount' \in Int /\ stolen' \in Int /\ SliceCounts'
    BY <1>1, CutsCounts
<1>3. LoopTypes'
    BY <1>1, Numbers DEF Typed, LoopTypes
<1>4. CycleTypes'
    BY <1>1, <1>2 DEF Typed, CycleTypes
<1>5. Phased' /\ Bounded'
    BY <1>1 DEF Typed, Phased, Bounded
<1>6. QED
    BY <1>2, <1>3, <1>4, <1>5 DEF Typed

LEMMA AdjustTyped ==
    ASSUME Typed, NEW t \in Permanent, NEW delay \in Delays, NEW per \in Periods,
           Adjust(t, delay, per)
    PROVE  Typed'
<1>1. t \in Timer /\ delay \in Nat /\ per \in Nat /\ Time \in Nat
    BY TimerAssumption, TimeType DEF Timer
<1>2. Plus(Time, delay) \in Nat /\ Plus(Time, delay) <= Never
    BY <1>1, PlusType
<1> DEFINE when == Plus(Time, delay)
<1>3. expire' = [expire EXCEPT ![t] = when] /\ period' = [period EXCEPT ![t] = per]
    BY DEF Adjust
<1>4. when \in Nat /\ when <= Never
    BY <1>2
<1> HIDE DEF when
<1>5. /\ expire' \in [Timer -> Nat] /\ period' \in [Timer -> Nat]
      /\ \A u \in Timer : expire'[u] \in Nat /\ expire'[u] <= Never
    BY <1>1, <1>3, <1>4 DEF Typed, TimerTypes, Bounded
<1>6. enabled' \in [Timer -> BOOLEAN] /\ cbModified' \in BOOLEAN
    <2>1. enabled' = [enabled EXCEPT ![t] = TRUE]
        BY DEF Adjust
    <2>2. cbModified' = (cbModified \/ cbTimer = t)
        BY DEF Adjust
    <2>3. enabled' \in [Timer -> BOOLEAN]
        BY <2>1 DEF Typed, TimerTypes
    <2>4. cbModified' \in BOOLEAN
        BY <2>2, Zenon
    <2>5. QED
        BY <2>3, <2>4
<1>7. active' \in Seq(Timer) /\ inactive' \subseteq Timer
    BY <1>1, <1>5, ReinsertTyped DEF Adjust, Typed, TimerTypes
<1>8. owed' \in [Timer -> Nat]
    <2>1. expire'[t] \in Nat /\ Owe(t, expire'[t])
        BY <1>1, <1>5 DEF Adjust
    <2>2. QED
        BY <1>1, <1>7, <2>1, OweIs DEF Typed, TimerTypes, LoopTypes
<1>9. CanCall /\ CutsShort /\ UNCHANGED <<nextmode, cbTimer, cbExpire>>
    BY DEF Adjust, AbortIfHead, CutsShort
<1>10. TimerTypes'
    <2>1. cbTimer' \in Timer \cup {NoTimer} /\ cbExpire' \in Nat
        BY <1>9 DEF Typed, TimerTypes
    <2>2. QED
        BY <1>5, <1>6, <1>7, <1>8, <2>1, Zenon DEF TimerTypes
<1>11. nextmode' \in [Cpu -> AllModes]
    BY <1>9 DEF Typed, LoopTypes
<1>12. QED
    BY <1>5, <1>9, <1>10, <1>11, CallTyped

LEMMA EnableTyped ==
    ASSUME Typed, NEW t \in Permanent, NEW on \in BOOLEAN, Enable(t, on)
    PROVE  Typed'
<1>1. t \in Timer /\ \A u \in Timer : expire[u] \in Nat
    BY DEF Timer, Typed, TimerTypes
<1>2. UNCHANGED <<expire, period, nextmode, cbTimer, cbModified, cbExpire>>
    BY DEF Enable, cbVars
<1>3. enabled' \in [Timer -> BOOLEAN]
    <2>1. enabled' = [enabled EXCEPT ![t] = on]
        BY DEF Enable
    <2>2. QED
        BY <2>1 DEF Typed, TimerTypes
<1>4. active' \in Seq(Timer) /\ inactive' \subseteq Timer
    BY <1>1, ReinsertTyped DEF Enable, Typed, TimerTypes
<1>5. owed' \in [Timer -> Nat]
    <2> DEFINE when == IF executing = Nobody THEN expire[t] ELSE Greater(expire[t], target)
    <2>1. when \in Nat /\ Owe(t, when)
        BY <1>1 DEF Enable, Greater, Typed, LoopTypes
    <2> HIDE DEF when
    <2>2. QED
        BY <1>1, <1>4, <2>1, OweIs DEF Typed, TimerTypes, LoopTypes
<1>6. CanCall /\ CutsShort
    BY DEF Enable, CutsShort
<1>7. TimerTypes'
    <2>1. /\ expire' \in [Timer -> Nat] /\ period' \in [Timer -> Nat]
          /\ cbTimer' \in Timer \cup {NoTimer} /\ cbExpire' \in Nat
        BY <1>2 DEF Typed, TimerTypes
    <2>2. cbModified' \in BOOLEAN
        BY <1>2, Zenon DEF Typed, TimerTypes
    <2>3. QED
        BY <1>3, <1>4, <1>5, <2>1, <2>2, Zenon DEF TimerTypes
<1>8. nextmode' \in [Cpu -> AllModes] /\ \A u \in Timer : expire'[u] <= Never
    BY <1>2 DEF Typed, LoopTypes, Bounded
<1>9. QED
    BY <1>2, <1>6, <1>7, <1>8, CallTyped

LEMMA SetTimerTyped ==
    ASSUME Typed, NEW t \in Temporary, NEW delay \in Delays, SetTimer(t, delay)
    PROVE  Typed'
<1>1. t \in Timer /\ delay \in Nat /\ Time \in Nat
    BY TimerAssumption, TimeType DEF Timer
<1>2. Plus(Time, delay) \in Nat /\ Plus(Time, delay) <= Never
    BY <1>1, PlusType
<1> DEFINE when == Plus(Time, delay)
<1>3. expire' = [expire EXCEPT ![t] = when] /\ period' = [period EXCEPT ![t] = Never]
    BY DEF SetTimer
<1>4. when \in Nat /\ when <= Never
    BY <1>2
<1> HIDE DEF when
<1>5. /\ expire' \in [Timer -> Nat] /\ period' \in [Timer -> Nat]
      /\ \A u \in Timer : expire'[u] \in Nat /\ expire'[u] <= Never
    BY <1>1, <1>3, <1>4, Numbers DEF Typed, TimerTypes, Bounded
<1>6. enabled' \in [Timer -> BOOLEAN]
    <2>1. enabled' = [enabled EXCEPT ![t] = TRUE]
        BY DEF SetTimer
    <2>2. QED
        BY <2>1 DEF Typed, TimerTypes
<1>7. active' \in Seq(Timer)
    BY <1>1, <1>5, InsertIs DEF SetTimer, Typed, TimerTypes
<1>8. owed' \in [Timer -> Nat]
    <2>1. expire'[t] \in Nat /\ Owe(t, expire'[t])
        BY <1>1, <1>5 DEF SetTimer
    <2>2. QED
        BY <1>1, <1>7, <2>1, OweIs DEF Typed, TimerTypes, LoopTypes
<1>9. CanCall /\ CutsShort /\ UNCHANGED <<inactive, nextmode, cbTimer, cbModified, cbExpire>>
    BY DEF SetTimer, AbortIfHead, CutsShort, cbVars
<1>10. TimerTypes'
    <2>1. cbTimer' \in Timer \cup {NoTimer} /\ cbExpire' \in Nat /\ inactive' \subseteq Timer
        BY <1>9 DEF Typed, TimerTypes
    <2>2. cbModified' \in BOOLEAN
        BY <1>9, Zenon DEF Typed, TimerTypes
    <2>3. QED
        BY <1>5, <1>6, <1>7, <1>8, <2>1, <2>2, Zenon DEF TimerTypes
<1>11. nextmode' \in [Cpu -> AllModes]
    BY <1>9 DEF Typed, LoopTypes
<1>12. QED
    BY <1>5, <1>9, <1>10, <1>11, CallTyped

LEMMA SuspendTyped ==
    ASSUME Typed, NEW c \in Cpu, NEW how \in Modes, SuspendResume(c, how)
    PROVE  Typed'
<1>1. nextmode' \in [Cpu -> AllModes]
    BY CpuAssumption DEF SuspendResume, Typed, LoopTypes, AllModes
<1>2. /\ CanCall /\ CutsShort
      /\ UNCHANGED <<active, inactive, expire, period, enabled, owed, cbTimer, cbModified, cbExpire>>
    BY CpuAssumption DEF SuspendResume, CutsShort, Abort, Nobody, listVars, timerVars, cbVars
<1>3. TimerTypes' /\ \A u \in Timer : expire'[u] <= Never
    BY <1>2 DEF Typed, TimerTypes, Bounded
<1>4. QED
    BY <1>1, <1>2, <1>3, CallTyped

LEMMA CallBackTyped == ASSUME Typed, CallBack PROVE Typed'
<1> DEFINE t == Head(active)
<1>1. t \in Timer
    BY HeadType DEF CallBack
<1>2. /\ enabled' = [enabled EXCEPT ![t] = @ /\ ~OneShot(t)]
      /\ cbTimer' = t /\ cbExpire' = expire[t] /\ cbModified' = FALSE
      /\ phase = "timers" /\ phase' = "callback"
    BY DEF CallBack
<1> HIDE DEF t
<1>3. /\ UNCHANGED <<basetime, target, todo, executing, mode, nextmode, stalled, midInstr, calls>>
      /\ UNCHANGED <<localtime, totalcycles, worked, ran, running, icount, stolen>>
      /\ UNCHANGED <<active, inactive, expire, period, owed>>
    BY DEF CallBack, modeVars, cpuVars, cycleVars, listVars
<1>4. enabled' \in [Timer -> BOOLEAN]
    <2>1. (enabled[t] /\ ~OneShot(t)) \in BOOLEAN
        BY Zenon
    <2>2. QED
        BY <1>2, <2>1 DEF Typed, TimerTypes
<1>5. TimerTypes'
    <2>1. /\ active' \in Seq(Timer) /\ inactive' \subseteq Timer
          /\ expire' \in [Timer -> Nat] /\ period' \in [Timer -> Nat]
          /\ owed' \in [Timer -> Nat]
          /\ cbTimer' \in Timer \cup {NoTimer} /\ cbExpire' \in Nat
        BY <1>1, <1>2, <1>3 DEF Typed, TimerTypes
    <2>2. cbModified' \in BOOLEAN
        BY <1>2
    <2>3. QED
        BY <1>4, <2>1, <2>2, Zenon DEF TimerTypes
<1>6. LoopTypes'
    BY <1>2, <1>3 DEF Typed, LoopTypes, Phases
<1>7. CycleTypes'
    BY <1>3 DEF Typed, CycleTypes
<1>8. Phased' /\ Bounded' /\ SliceCounts'
    BY <1>1, <1>2, <1>3 DEF Typed, Phased, Bounded, SliceCounts
<1>9. QED
    BY <1>5, <1>6, <1>7, <1>8 DEF Typed

LEMMA CallbackDoneTyped == ASSUME Typed, CallbackDone PROVE Typed'
<1>1. /\ phase = "callback" /\ phase' = "timers" /\ cbTimer \in Timer
      /\ UNCHANGED <<basetime, target, todo, executing, mode, nextmode, stalled, midInstr, calls>>
      /\ UNCHANGED <<localtime, totalcycles, worked, ran, running, icount, stolen>>
      /\ UNCHANGED <<period, enabled, cbTimer, cbModified, cbExpire>>
    BY DEF CallbackDone, modeVars, cpuVars, cycleVars, cbVars, Typed, Phased
<1>2. /\ active' \in Seq(Timer) /\ inactive' \subseteq Timer
      /\ expire' \in [Timer -> Nat] /\ owed' \in [Timer -> Nat]
      /\ \A u \in Timer : expire'[u] <= Never
    <2>1. CASE UNCHANGED <<expire, owed, listVars>>
        BY <2>1 DEF Typed, TimerTypes, Bounded, listVars
    <2>2. CASE /\ expire' = [expire EXCEPT ![cbTimer] = Plus(@, period[cbTimer])]
               /\ Reinsert(cbTimer, expire', enabled)
               /\ Owe(cbTimer, expire'[cbTimer])
        <3> DEFINE when == Plus(expire[cbTimer], period[cbTimer])
        <3>1. when \in Nat /\ when <= Never
            BY <1>1, PlusType DEF Typed, TimerTypes
        <3>2. expire' = [expire EXCEPT ![cbTimer] = when]
            BY <2>2
        <3> HIDE DEF when
        <3>3. /\ expire' \in [Timer -> Nat]
              /\ \A u \in Timer : expire'[u] \in Nat /\ expire'[u] <= Never
            BY <1>1, <3>1, <3>2 DEF Typed, TimerTypes, Bounded
        <3>4. active' \in Seq(Timer) /\ inactive' \subseteq Timer
            BY <1>1, <2>2, <3>3, ReinsertTyped DEF Typed, TimerTypes
        <3>5. owed' \in [Timer -> Nat]
            <4>1. expire'[cbTimer] \in Nat
                BY <1>1, <3>3
            <4>2. QED
                BY <1>1, <2>2, <3>4, <4>1, OweIs DEF Typed, TimerTypes, LoopTypes
        <3>6. QED
            BY <3>3, <3>4, <3>5
    <2>3. CASE active' = ListRemove(active, cbTimer) /\ UNCHANGED <<expire, owed, inactive>>
        BY <2>3, RemoveIs DEF Typed, TimerTypes, Bounded
    <2>4. QED
        BY <2>1, <2>2, <2>3 DEF CallbackDone
<1>3. TimerTypes'
    <2>1. /\ period' \in [Timer -> Nat] /\ cbTimer' \in Timer \cup {NoTimer}
          /\ cbExpire' \in Nat
        BY <1>1 DEF Typed, TimerTypes
    <2>2. enabled' \in [Timer -> BOOLEAN]
        BY <1>1 DEF Typed, TimerTypes
    <2>3. cbModified' \in BOOLEAN
        BY <1>1, Zenon DEF Typed, TimerTypes
    <2>4. QED
        BY <1>2, <2>1, <2>2, <2>3, Zenon DEF TimerTypes
<1>4. LoopTypes'
    BY <1>1 DEF Typed, LoopTypes, Phases
<1>5. CycleTypes'
    BY <1>1 DEF Typed, CycleTypes
<1>6. Phased' /\ Bounded' /\ SliceCounts'
    BY <1>1, <1>2 DEF Typed, Phased, Bounded, SliceCounts
<1>7. QED
    BY <1>3, <1>4, <1>5, <1>6 DEF Typed

LEMMA TimersDoneTyped == ASSUME Typed, TimersDone PROVE Typed'
<1>1. LoopTypes' /\ Phased' /\ Bounded' /\ SliceCounts'
    BY DEF TimersDone, Typed, LoopTypes, Phased, Bounded, SliceCounts, Phases,
           modeVars, cycleVars, timerVars
<1>2. CycleTypes'
    BY DEF TimersDone, Typed, CycleTypes, cpuVars, cycleVars
<1>3. TimerTypes'
    BY DEF TimersDone, Typed, TimerTypes, timerVars, listVars
<1>4. QED
    BY <1>1, <1>2, <1>3 DEF Typed

LEMMA TypedStep == Typed /\ [Next]_vars => Typed'
<1> SUFFICES ASSUME Typed, [Next]_vars PROVE Typed'
    OBVIOUS
<1>1. CASE Call
    BY <1>1, AdjustTyped, EnableTyped, SetTimerTyped, SuspendTyped DEF Call
<1>2. CASE Timeslice
    BY <1>2, BeginTyped, StartPassTyped, SkipTyped, EatTyped, RunTyped, InstructionTyped,
       StopTyped, EndPassTyped, CallBackTyped, CallbackDoneTyped, TimersDoneTyped
       DEF Timeslice
<1>3. CASE UNCHANGED vars
    <2>1. LoopTypes' /\ Phased' /\ Bounded' /\ SliceCounts'
        BY <1>3 DEF vars, loopVars, cycleVars, timerVars, cbVars, Typed, LoopTypes, Phased,
                    Bounded, SliceCounts
    <2>2. CycleTypes'
        BY <1>3 DEF vars, cpuVars, cycleVars, Typed, CycleTypes
    <2>3. TimerTypes'
        BY <1>3 DEF vars, timerVars, listVars, cbVars, Typed, TimerTypes
    <2>4. QED
        BY <2>1, <2>2, <2>3 DEF Typed
<1>4. QED
    BY <1>1, <1>2, <1>3 DEF Next

LEMMA AlwaysTyped == Spec => []Typed
BY TypedInit, TypedStep, PTL DEF Spec

\* Every variable of the scheduler keeps its type, whatever devices there are and
\* whatever callbacks and instructions ask of it.
THEOREM TypeCorrect == Spec => []TypeOK
BY AlwaysTyped, Types, PTL

\* The assertions of timeslice on the cycle counts hold: what is taken from a
\* slice is noted, so a device has never used fewer cycles than were stolen.
THEOREM AssertsHold == Spec => []SliceAsserts
<1>1. Typed => SliceAsserts
    BY DEF Typed, SliceAsserts, SliceCounts, CycleTypes
<1>2. QED
    BY <1>1, AlwaysTyped, PTL

-----------------------------------------------------------------------------
(* The two lists.                                                          *)

\* What TimersListed says of given lists and tables; the timers of called may be
\* listed while disabled.
InLists(act, inact, exp, en, called) ==
    /\ IsTimerList(act, exp)
    /\ inact \subseteq Permanent /\ inact \cap Elements(act) = {}
    /\ Permanent \subseteq inact \cup Elements(act)
    /\ \A u \in Elements(act) : exp[u] # Never /\ (en[u] \/ u \in called)
    /\ \A u \in inact : ~en[u] \/ exp[u] = Never

Called == {t \in Timer : BeingCalled(t)}

\* A timer whose callback has set it anew is no longer listed while disabled.
SetAnew ==
    phase = "callback" /\ cbModified /\ cbTimer \in Elements(active) => enabled[cbTimer]

Listed == InLists(active, inactive, expire, enabled, Called) /\ SetAnew

LEMMA ListedIs ==
    ASSUME Typed PROVE InLists(active, inactive, expire, enabled, Called) <=> TimersListed
<1>1. Elements(active) \subseteq Timer
    BY ElementsOf DEF Typed, TimerTypes
<1>2. QED
    BY <1>1 DEF InLists, TimersListed, Called

LEMMA ReinsertLists ==
    ASSUME active \in Seq(Timer), NEW called, InLists(active, inactive, expire, enabled, called),
           NEW t \in Permanent, NEW exp, \A u \in Timer : exp[u] \in Nat, NEW en,
           \A u \in Timer \ {t} : exp[u] = expire[u] /\ en[u] = enabled[u],
           Reinsert(t, exp, en)
    PROVE  InLists(active', inactive', exp, en, called \ {t})
<1> DEFINE rest == ListRemove(active, t)
<1>1. t \in Timer /\ Elements(active) \subseteq Timer
    BY ElementsOf DEF Timer
<1>2. rest \in Seq(Timer) /\ Elements(rest) = Elements(active) \ {t} /\ IsTimerList(rest, expire)
    BY RemoveIs DEF InLists
<1>3. IsTimerList(rest, exp)
    <2>1. \A u \in Elements(rest) : exp[u] = expire[u]
        BY <1>1, <1>2
    <2> HIDE DEF rest
    <2>2. QED
        BY <1>2, <2>1, SameOrder
<1>4. \/ en[t] /\ exp[t] # Never /\ active' = ListInsert(rest, exp, t) /\ inactive' = inactive \ {t}
      \/ ~(en[t] /\ exp[t] # Never) /\ active' = rest /\ inactive' = inactive \cup {t}
    BY DEF Reinsert
<1> HIDE DEF rest
<1>5. CASE en[t] /\ exp[t] # Never /\ active' = ListInsert(rest, exp, t) /\ inactive' = inactive \ {t}
    <2>1. PICK v : v = ListInsert(rest, exp, t)
        OBVIOUS
    <2>2. Elements(v) = Elements(rest) \cup {t} /\ IsTimerList(v, exp)
        BY <1>1, <1>2, <1>3, <2>1, InsertIs
    <2>3. active' = v
        BY <1>5, <2>1
    <2>4. Elements(active') = (Elements(active) \ {t}) \cup {t} /\ IsTimerList(active', exp)
        BY <1>2, <2>2, <2>3
    <2>5. QED
        BY <1>1, <1>5, <2>4 DEF InLists, Timer
<1>6. CASE ~(en[t] /\ exp[t] # Never) /\ active' = rest /\ inactive' = inactive \cup {t}
    <2>1. Elements(active') = Elements(active) \ {t} /\ IsTimerList(active', exp)
        BY <1>2, <1>3, <1>6
    <2>2. QED
        BY <1>1, <1>6, <2>1 DEF InLists, Timer
<1>7. QED
    BY <1>4, <1>5, <1>6

\* Putting a timer back lists nobody else.
LEMMA StillListed ==
    ASSUME active \in Seq(Timer), NEW called, InLists(active, inactive, expire, enabled, called),
           NEW t \in Permanent, NEW exp, \A u \in Timer : exp[u] \in Nat, NEW en,
           Reinsert(t, exp, en)
    PROVE  Elements(active') \subseteq Elements(active) \cup {t}
<1> DEFINE rest == ListRemove(active, t)
<1>1. rest \in Seq(Timer) /\ Elements(rest) \subseteq Elements(active) /\ t \in Timer
    BY RemoveIs DEF Timer
<1>2. active' = ListInsert(rest, exp, t) \/ active' = rest
    BY DEF Reinsert
<1> HIDE DEF rest
<1>3. PICK v : v = ListInsert(rest, exp, t)
    OBVIOUS
<1>4. Elements(v) = Elements(rest) \cup {t}
    BY <1>1, <1>3, InsertIs
<1>5. QED
    BY <1>1, <1>2, <1>3, <1>4

LEMMA ListedInit == Init => Listed
BY DEF Init, Listed, InLists, SetAnew, IsTimerList, Elements, Timer

\* Steps that leave the lists alone and are no part of a callback.
LEMMA ListedQuiet ==
    ASSUME Listed, UNCHANGED <<listVars, expire, enabled>>,
           \/ phase # "callback" /\ phase' # "callback"
           \/ UNCHANGED <<phase, cbTimer, cbModified>>
    PROVE  Listed'
BY DEF Listed, InLists, SetAnew, Called, BeingCalled, listVars, IsTimerList, Elements

LEMMA ListedAdjust ==
    ASSUME Typed, Listed, NEW t \in Permanent, NEW delay \in Delays, NEW per \in Periods,
           Adjust(t, delay, per), Typed'
    PROVE  Listed'
<1> DEFINE when == Plus(Time, delay)
<1>1. t \in Timer /\ expire' = [expire EXCEPT ![t] = when] /\ enabled' = [enabled EXCEPT ![t] = TRUE]
      /\ Reinsert(t, expire', enabled') /\ active \in Seq(Timer)
    BY DEF Adjust, Timer, Typed, TimerTypes
<1> HIDE DEF when
<1>2. /\ \A u \in Timer : expire'[u] \in Nat
      /\ \A u \in Timer \ {t} : expire'[u] = expire[u] /\ enabled'[u] = enabled[u]
      /\ enabled'[t]
    BY <1>1 DEF Typed, TimerTypes
<1>3. InLists(active', inactive', expire', enabled', Called \ {t})
    BY <1>1, <1>2, ReinsertLists DEF Listed
<1>4. UNCHANGED <<phase, cbTimer>> /\ cbModified' = (cbModified \/ cbTimer = t)
    BY DEF Adjust, CanCall, loopVars
<1>5. Called' = Called
    BY <1>4 DEF Called, BeingCalled
<1>6. SetAnew'
    <2>1. CASE cbTimer = t
        BY <1>2, <1>4, <2>1 DEF SetAnew
    <2>2. CASE cbTimer # t
        <3> SUFFICES ASSUME phase' = "callback", cbModified', cbTimer' \in Elements(active')
                     PROVE  enabled'[cbTimer']
            BY DEF SetAnew
        <3>1. cbTimer \in Timer /\ cbModified /\ phase = "callback"
            BY <1>4, <2>2 DEF Typed, Phased
        <3>2. cbTimer \in Elements(active)
            BY <1>1, <1>2, <1>4, <2>2, <3>1, StillListed DEF Listed
        <3>3. QED
            BY <1>2, <1>4, <2>2, <3>1, <3>2 DEF Listed, SetAnew
    <2>3. QED
        BY <2>1, <2>2
<1>7. QED
    BY <1>3, <1>5, <1>6 DEF Listed, InLists

LEMMA ListedEnable ==
    ASSUME Typed, Listed, NEW t \in Permanent, NEW on \in BOOLEAN, Enable(t, on), Typed'
    PROVE  Listed'
<1>1. t \in Timer /\ enabled' = [enabled EXCEPT ![t] = on] /\ active \in Seq(Timer)
      /\ Reinsert(t, expire, enabled')
    BY DEF Enable, Timer, Typed, TimerTypes
<1>2. UNCHANGED <<phase, expire, cbTimer, cbModified>>
    BY DEF Enable, CanCall, loopVars, cbVars
<1>3. /\ \A u \in Timer : expire[u] \in Nat
      /\ \A u \in Timer \ {t} : enabled'[u] = enabled[u]
    BY <1>1 DEF Typed, TimerTypes
<1>4. InLists(active', inactive', expire, enabled', Called \ {t})
    BY <1>1, <1>3, ReinsertLists DEF Listed
<1>5. Called' = Called
    BY <1>2 DEF Called, BeingCalled
<1>6. SetAnew'
    <2> SUFFICES ASSUME phase' = "callback", cbModified', cbTimer' \in Elements(active')
                 PROVE  enabled'[cbTimer']
        BY DEF SetAnew
    <2>1. CASE cbTimer = t
        BY <1>2, <1>4, <2>1 DEF InLists
    <2>2. CASE cbTimer # t
        <3>1. cbTimer \in Timer /\ cbModified /\ phase = "callback"
            BY <1>2, <2>2 DEF Typed, Phased
        <3>2. cbTimer \in Elements(active)
            BY <1>1, <1>2, <1>3, <2>2, <3>1, StillListed DEF Listed
        <3>3. QED
            BY <1>2, <1>3, <2>2, <3>1, <3>2 DEF Listed, SetAnew
    <2>3. QED
        BY <2>1, <2>2
<1>7. QED
    BY <1>2, <1>4, <1>5, <1>6 DEF Listed, InLists

LEMMA ListedSetTimer ==
    ASSUME Typed, Listed, NEW t \in Temporary, NEW delay \in Delays, SetTimer(t, delay), Typed'
    PROVE  Listed'
<1> DEFINE when == Plus(Time, delay)
<1>1. /\ t \in Timer \ Permanent /\ t \notin Elements(active) /\ when # Never
      /\ expire' = [expire EXCEPT ![t] = when] /\ enabled' = [enabled EXCEPT ![t] = TRUE]
      /\ active' = ListInsert(active, expire', t) /\ active \in Seq(Timer)
    BY TimerAssumption DEF SetTimer, Timer, Typed, TimerTypes
<1> HIDE DEF when
<1>2. UNCHANGED <<phase, inactive, cbTimer, cbModified>>
    BY DEF SetTimer, CanCall, loopVars, cbVars
<1>3. /\ \A u \in Timer : expire'[u] \in Nat
      /\ \A u \in Timer \ {t} : expire'[u] = expire[u] /\ enabled'[u] = enabled[u]
      /\ enabled'[t] /\ expire'[t] # Never
    BY <1>1 DEF Typed, TimerTypes
<1>4. Elements(active) \subseteq Timer
    BY <1>1, ElementsOf
<1>5. IsTimerList(active, expire')
    <2>1. \A u \in Elements(active) : expire'[u] = expire[u]
        BY <1>1, <1>3, <1>4
    <2>2. QED
        BY <1>1, <2>1, SameOrder DEF Listed, InLists
<1>6. PICK exp : exp = expire'
    OBVIOUS
<1>7. PICK v : v = ListInsert(active, exp, t)
    OBVIOUS
<1>8. Elements(v) = Elements(active) \cup {t} /\ IsTimerList(v, exp)
    <2>1. \A u \in Timer : exp[u] \in Nat
        BY <1>3, <1>6
    <2>2. IsTimerList(active, exp)
        BY <1>5, <1>6
    <2>3. QED
        BY <1>1, <1>7, <2>1, <2>2, InsertIs
<1>9. Elements(active') = Elements(active) \cup {t} /\ IsTimerList(active', expire')
    BY <1>1, <1>6, <1>7, <1>8
<1>10. Called' = Called
    BY <1>2 DEF Called, BeingCalled
<1>11. InLists(active', inactive', expire', enabled', Called)
    <2>1. Listed /\ Permanent \subseteq Timer
        BY DEF Timer
    <2>2. inactive' \subseteq Permanent /\ inactive' \cap Elements(active') = {}
          /\ Permanent \subseteq inactive' \cup Elements(active')
        BY <1>1, <1>2, <1>9, <2>1 DEF Listed, InLists
    <2>3. \A u \in Elements(active') : expire'[u] # Never /\ (enabled'[u] \/ u \in Called)
        BY <1>1, <1>3, <1>4, <1>9, <2>1 DEF Listed, InLists
    <2>4. \A u \in inactive' : ~enabled'[u] \/ expire'[u] = Never
        BY <1>1, <1>2, <1>3, <2>1 DEF Listed, InLists
    <2>5. QED
        BY <1>9, <2>2, <2>3, <2>4 DEF InLists
<1>12. SetAnew'
    BY <1>1, <1>2, <1>3, <1>4, <1>9 DEF SetAnew, Listed
<1>13. QED
    BY <1>10, <1>11, <1>12 DEF Listed, InLists

LEMMA ListedCallBack == ASSUME Typed, Listed, CallBack PROVE Listed'
<1> DEFINE t == Head(active)
<1>1. t \in Timer
    BY HeadType DEF CallBack
<1>2. /\ enabled' = [enabled EXCEPT ![t] = @ /\ ~OneShot(t)]
      /\ cbTimer' = t /\ cbModified' = FALSE
      /\ phase = "timers" /\ phase' = "callback" /\ UNCHANGED <<active, inactive, expire>>
    BY DEF CallBack, listVars
<1> HIDE DEF t
<1>3. Called = {} /\ Called' = {t}
    BY <1>1, <1>2 DEF Called, BeingCalled
<1>4. \A u \in Timer : u # t => enabled'[u] = enabled[u]
    BY <1>2 DEF Typed, TimerTypes
<1>5. enabled'[t] => enabled[t]
    <2>1. DOMAIN enabled = Timer
        BY DEF Typed, TimerTypes
    <2>2. enabled'[t] = (enabled[t] /\ ~OneShot(t))
        BY <1>1, <1>2, <2>1, Zenon
    <2>3. QED
        BY <2>2
<1>6. InLists(active', inactive', expire', enabled', {t})
    <2>1. Elements(active) \subseteq Timer /\ inactive \subseteq Timer
        BY ElementsOf DEF Typed, TimerTypes
    <2>2. /\ \A u \in Elements(active) : expire[u] # Never /\ (enabled'[u] \/ u \in {t})
          /\ \A u \in inactive : ~enabled'[u] \/ expire[u] = Never
        BY <1>3, <1>4, <1>5, <2>1 DEF Listed, InLists
    <2>3. QED
        BY <1>2, <2>2 DEF Listed, InLists
<1>7. SetAnew'
    BY <1>2 DEF SetAnew
<1>8. QED
    BY <1>3, <1>6, <1>7 DEF Listed, InLists

LEMMA ListedCallbackDone == ASSUME Typed, Listed, CallbackDone, Typed' PROVE Listed'
<1>1. /\ phase = "callback" /\ phase' = "timers" /\ cbTimer \in Timer
      /\ active \in Seq(Timer) /\ enabled' = enabled
    BY DEF CallbackDone, Typed, Phased, TimerTypes
<1>2. Called = {cbTimer} /\ Called' = {} /\ SetAnew'
    BY <1>1 DEF Called, BeingCalled, SetAnew
<1>3. CASE cbModified
    <2>1. UNCHANGED <<expire, active, inactive>>
        BY <1>3 DEF CallbackDone, listVars
    <2>2. \A u \in Elements(active) : enabled[u]
        BY <1>1, <1>2, <1>3 DEF Listed, InLists, SetAnew
    <2>3. InLists(active', inactive', expire', enabled', {})
        BY <1>1, <2>1, <2>2 DEF Listed, InLists
    <2>4. QED
        BY <1>2, <2>3 DEF Listed, InLists
<1>4. CASE ~cbModified /\ cbTimer \in Permanent
    <2> DEFINE when == Plus(expire[cbTimer], period[cbTimer])
    <2>1. expire' = [expire EXCEPT ![cbTimer] = when] /\ Reinsert(cbTimer, expire', enabled)
        BY <1>4 DEF CallbackDone
    <2> HIDE DEF when
    <2>2. /\ \A u \in Timer : expire'[u] \in Nat
          /\ \A u \in Timer \ {cbTimer} : expire'[u] = expire[u]
        BY <2>1 DEF Typed, TimerTypes
    <2>3. InLists(active', inactive', expire', enabled, {cbTimer} \ {cbTimer})
        BY <1>1, <1>2, <1>4, <2>1, <2>2, ReinsertLists DEF Listed
    <2>4. InLists(active', inactive', expire', enabled', {})
        BY <1>1, <2>3 DEF InLists
    <2>5. QED
        BY <1>2, <2>4 DEF Listed, InLists
<1>5. CASE ~cbModified /\ cbTimer \notin Permanent
    <2>1. active' = ListRemove(active, cbTimer) /\ UNCHANGED <<expire, inactive>>
        BY <1>5 DEF CallbackDone
    <2>2. Elements(active') = Elements(active) \ {cbTimer} /\ IsTimerList(active', expire)
        BY <1>1, <2>1, RemoveIs DEF Listed, InLists
    <2>3. InLists(active', inactive', expire', enabled', {})
        BY <1>1, <1>2, <1>5, <2>1, <2>2 DEF Listed, InLists
    <2>4. QED
        BY <1>2, <2>3 DEF Listed, InLists
<1>6. QED
    BY <1>3, <1>4, <1>5

LEMMA ListedStep == Typed /\ Typed' /\ Listed /\ [Next]_vars => Listed'
<1> SUFFICES ASSUME Typed, Typed', Listed, [Next]_vars PROVE Listed'
    OBVIOUS
<1>1. ASSUME NEW c \in Cpu, NEW how \in Modes, SuspendResume(c, how) PROVE Listed'
    BY <1>1, ListedQuiet DEF SuspendResume, CanCall, loopVars, listVars, timerVars, cbVars
<1>2. CASE Call
    BY <1>1, <1>2, ListedAdjust, ListedEnable, ListedSetTimer DEF Call
<1>3. ASSUME NEW c \in Cpu, SkipCpu(c) \/ EatCpu(c) \/ RunCpu(c) PROVE Listed'
    BY <1>3, ListedQuiet DEF SkipCpu, EatCpu, RunCpu, listVars, timerVars, cbVars
<1>4. CASE Begin \/ StartPass \/ EndPass \/ EndLoop \/ TimersDone
    BY <1>4, ListedQuiet DEF Begin, StartPass, EndPass, EndLoop, TimersDone, listVars, timerVars
<1>5. CASE StartInstruction \/ FinishInstruction \/ StopCpu
    BY <1>5, ListedQuiet DEF StartInstruction, FinishInstruction, StopCpu, loopVars,
                             listVars, timerVars
<1>6. CASE Timeslice
    BY <1>3, <1>4, <1>5, <1>6, ListedCallBack, ListedCallbackDone DEF Timeslice
<1>7. CASE UNCHANGED vars
    BY <1>7, ListedQuiet DEF vars, loopVars, listVars, timerVars, cbVars
<1>8. QED
    BY <1>2, <1>6, <1>7 DEF Next

\* Every permanent timer is on exactly one of the two lists, the one it belongs
\* on, and the active one is in order of expiry: whatever callbacks and
\* instructions adjust, enable, disable or create, the timer being called included.
THEOREM ListsAreRight == Spec => []TimersListed
<1>1. Spec => []Listed
    BY AlwaysTyped, ListedInit, ListedStep, PTL DEF Spec
<1>2. Typed /\ Listed => TimersListed
    BY ListedIs DEF Listed
<1>3. QED
    BY <1>1, <1>2, AlwaysTyped, PTL
=============================================================================
