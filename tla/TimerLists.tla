----------------------------- MODULE TimerLists -----------------------------
(***************************************************************************)
(* The ordered list of armed timers of device_scheduler                    *)
(* (src/emu/schedule.cpp: timer_list_insert, timer_list_remove), as a      *)
(* sequence of timers ordered by a table of expiry times.  The dummy timer *)
(* that never expires and always closes the C++ list is left out: an empty *)
(* sequence stands for a list with nothing but the dummy.                  *)
(***************************************************************************)
EXTENDS Naturals, Sequences

\* The elements of a list.
Elements(list) == {list[i] : i \in DOMAIN list}

\* The list with e put at position k, and with position k taken out.
PutAt(list, k, e) ==
    [i \in 1 .. Len(list) + 1 |-> IF i < k THEN list[i]
                                  ELSE IF i = k THEN e ELSE list[i - 1]]
TakeAt(list, k) ==
    [i \in 1 .. Len(list) - 1 |-> IF i < k THEN list[i] ELSE list[i + 1]]

\* Faulty variant of the next definition: at the end.
LastPosition(list, expire, when) == Len(list) + 1

\* Where timer_list_insert links a timer that expires at time when: before the
\* first one that expires later, so after all that expire at the same time.
InsertPosition(list, expire, when) ==
    CHOOSE k \in 1 .. Len(list) + 1 :
        /\ \A i \in 1 .. k - 1 : expire[list[i]] <= when
        /\ k <= Len(list) => expire[list[k]] > when

\* timer_list_insert, of an enabled timer that expires some day.
ListInsert(list, expire, t) ==
    PutAt(list, InsertPosition(list, expire, expire[t]), t)

\* timer_list_remove, from whichever list the timer is on.
ListRemove(list, t) ==
    IF t \in Elements(list)
    THEN TakeAt(list, CHOOSE k \in DOMAIN list : list[k] = t)
    ELSE list

\* What the scheduler relies on: nobody is listed twice, and the head expires
\* first.
IsTimerList(list, expire) ==
    /\ \A i, j \in DOMAIN list : list[i] = list[j] => i = j
    /\ \A i, j \in DOMAIN list : i < j => expire[list[i]] <= expire[list[j]]
=============================================================================
