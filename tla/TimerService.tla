---------------------------- MODULE TimerService ----------------------------
(***************************************************************************)
(* What the timer promises: a timer set for `time` ticks from now fires at *)
(* the tick `now + time`, not before and not after; timers due at the same *)
(* tick fire in the order they were set.                                   *)
(***************************************************************************)
EXTENDS Integers, Sequences

CONSTANTS Ids, Times     \* what timers are told apart by, and set for

VARIABLES now,      \* ticks executed
          pending,  \* the timers that have not fired, [id, expire]; later ones have larger ids
          fired     \* what the last step delivered, in order

serviceVars == <<now, pending, fired>>

Init ==
    /\ now = 0
    /\ pending = {}
    /\ fired = <<>>

\* A timeout of zero is answered at once.
Set(id, time) ==
    /\ \A n \in pending : n.id < id
    /\ IF time = 0
       THEN fired' = <<id>> /\ UNCHANGED pending
       ELSE fired' = <<>> /\ pending' = pending \cup {[id |-> id, expire |-> now + time]}
    /\ UNCHANGED now

Tick ==
    LET due == {n \in pending : n.expire = now} IN
    /\ now' = now + 1
    /\ pending' = pending \ due
    /\ {fired'[i] : i \in DOMAIN fired'} = {n.id : n \in due}
    /\ \A i, j \in DOMAIN fired' : i < j => fired'[i] < fired'[j]

Next == Tick \/ \E id \in Ids, time \in Times : Set(id, time)

Spec == Init /\ [][Next]_serviceVars
=============================================================================
