------------------------------- MODULE Timer --------------------------------
(***************************************************************************)
(* The hierarchical timer wheel (include/timer.h, class Timer).  All of it *)
(* is guarded by one spin lock, so timeout() and execute(), one tick, are  *)
(* a step each.  The wheel's lists are the values of one function: part 0  *)
(* is near[], part i + 1 is t[i].  The constructor's                       *)
(* INIT_LIST_HEAD(&t[i]), inside a loop over j, is read as &t[i][j].       *)
(***************************************************************************)
EXTENDS Integers, Sequences

CONSTANTS
    TIME_NEAR,      \* the lists of near[]: 2^8 in the code
    TIME_LEVEL,     \* the digits that select a list of t[i]: 2^6 in the code
    MaxTimers,      \* bound: timers set
    Times,          \* what timers are set for, in ticks
    MaxTime,        \* bound: ticks, and the expiries asked for
    MaxDiff         \* bound: ticks that one updatetime() has to make up for

Parts == 0 .. 4
Slots == ({0} \X (0 .. TIME_NEAR - 1)) \cup ((1 .. 4) \X (0 .. TIME_LEVEL - 2))

\* How many ticks the lists of parts 0 to p cover together.
Span[p \in Parts] == IF p = 0 THEN TIME_NEAR ELSE Span[p - 1] * TIME_LEVEL

\* The five parts cover the 32 bits of a time; m_time does not wrap here.
ASSUME ListsAssumption == TIME_NEAR \in Nat \ {0} /\ TIME_LEVEL \in Nat \ {0, 1}
ASSUME MaxTimeAssumption == MaxTime \in Nat /\ MaxTime < Span[4]
ASSUME TimesAssumption == Times \subseteq Nat
ASSUME BoundsAssumption == MaxTimers \in Nat /\ MaxDiff \in Nat

VARIABLES
    wheel,          \* the lists of timer_nodes
    m_time,         \* ticks executed
    due,            \* ticks updatetime's loop still has to execute
    count,          \* timers set so far; a timer's id (its event) is its number
    fired           \* history: the ids whose message the last step pushed

vars == <<wheel, m_time, due, count, fired>>

Init ==
    /\ wheel = [s \in Slots |-> <<>>]
    /\ m_time = 0
    /\ due = 0
    /\ count = 0
    /\ fired = <<>>
-----------------------------------------------------------------------------
\* The digit of a time that selects a list of part p: 8 bits for near[], 6
\* bits for each t[i].
Digit(p, time) ==
    IF p = 0 THEN time % TIME_NEAR ELSE (time \div Span[p - 1]) % TIME_LEVEL

\* (time|mask) == (current|mask): no digit above part p differs.
SameBlock(p, time, current) == time \div Span[p] = current \div Span[p]

Part(time, current) ==
    IF \E p \in 0 .. 3 : SameBlock(p, time, current)
    THEN CHOOSE p \in 0 .. 3 : /\ SameBlock(p, time, current)
                               /\ \A q \in 0 .. p - 1 : ~SameBlock(q, time, current)
    ELSE 4

\* add_node's choice of a list.  The lists of t[i] start at digit 1.
Place(time, current) ==
    LET p == Part(time, current) IN
    IF p = 0 THEN <<0, Digit(0, time)>> ELSE <<p, Digit(p, time) - 1>>

\* MUTANT: the nodes are added in front
AddNodesInFront(w, nodes, current) ==
    LET added[k \in 0 .. Len(nodes)] ==
            IF k = 0 THEN w
            ELSE [added[k - 1] EXCEPT ![Place(nodes[k].expire, current)] = <<nodes[k]>> \o @]
    IN  added[Len(nodes)]

\* list_add_tail of each of the nodes, in their order.
AddNodes(w, nodes, current) ==
    LET added[k \in 0 .. Len(nodes)] ==
            IF k = 0 THEN w
            ELSE [added[k - 1] EXCEPT ![Place(nodes[k].expire, current)] = Append(@, nodes[k])]
    IN  added[Len(nodes)]

\* MUTANT: the last part is forgotten
CascadePartShort(time) ==
    {p \in 1 .. 3 : time % Span[p - 1] = 0 /\ Digit(p, time) # 0}

\* The part whose list is due for redistribution when m_time has become
\* `time`: the lowest with a digit other than 0, if all below it are 0.
CascadePart(time) ==
    {p \in 1 .. 4 : time % Span[p - 1] = 0 /\ Digit(p, time) # 0}

\* MUTANT: m_time is advanced after the redistribution
RedistributeBefore(w, time) ==
    IF CascadePart(time - 1) = {}
    THEN w
    ELSE LET p == CHOOSE q \in CascadePart(time - 1) : TRUE
             s == <<p, Digit(p, time - 1) - 1>>
         IN  AddNodes([w EXCEPT ![s] = <<>>], w[s], time - 1)

Redistribute(w, time) ==
    IF CascadePart(time) = {}
    THEN w
    ELSE LET p == CHOOSE q \in CascadePart(time) : TRUE
             s == <<p, Digit(p, time) - 1>>
         IN  AddNodes([w EXCEPT ![s] = <<>>], w[s], time)
-----------------------------------------------------------------------------
\* updatetime(): the clock has advanced by diff since the last call.
UpdateTime ==
    /\ due = 0
    /\ \E diff \in 1 .. MaxDiff : m_time + diff <= MaxTime /\ due' = diff
    /\ UNCHANGED <<wheel, m_time, count, fired>>

\* MUTANT: a tick is executed whether or not the clock has advanced
ExecuteAnytime ==
    LET now == <<0, m_time % TIME_NEAR>> IN
    /\ due' = due - 1
    /\ fired' = [i \in DOMAIN wheel[now] |-> wheel[now][i].id]
    /\ m_time' = m_time + 1
    /\ wheel' = Redistribute([wheel EXCEPT ![now] = <<>>], m_time + 1)
    /\ UNCHANGED count

\* execute(): the near list of this tick, then the next list to redistribute.
Execute ==
    LET now == <<0, m_time % TIME_NEAR>> IN
    /\ due > 0
    /\ due' = due - 1
    /\ fired' = [i \in DOMAIN wheel[now] |-> wheel[now][i].id]
    /\ m_time' = m_time + 1
    /\ wheel' = Redistribute([wheel EXCEPT ![now] = <<>>], m_time + 1)
    /\ UNCHANGED count

\* timeout(), from any thread, also between the ticks of one updatetime().
Timeout(time) ==
    /\ count < MaxTimers
    /\ m_time + time < MaxTime
    /\ count' = count + 1
    /\ IF time = 0
       THEN fired' = <<count + 1>> /\ UNCHANGED wheel
       ELSE /\ fired' = <<>>
            /\ wheel' = AddNodes(wheel, <<[id |-> count + 1, expire |-> m_time + time]>>, m_time)
    /\ UNCHANGED <<m_time, due>>

Next ==
    \/ UpdateTime
    \/ Execute
    \/ \E time \in Times : Timeout(time)

Spec == Init /\ [][Next]_vars

\* "call this method periodicity to update time" (timer.h:66).
FairSpec == Spec /\ WF_vars(UpdateTime) /\ WF_vars(Execute)
-----------------------------------------------------------------------------
Node == [id : 1 .. MaxTimers, expire : 0 .. MaxTime]

Nodes(s) == {wheel[s][i] : i \in DOMAIN wheel[s]}

TypeOK ==
    /\ \A s \in Slots : \A i \in DOMAIN wheel[s] : wheel[s][i] \in Node
    /\ m_time \in 0 .. MaxTime
    /\ due \in 0 .. MaxDiff
    /\ count \in 0 .. MaxTimers

\* A node's list is the one its expiry selects at the present time: as time
\* goes on, redistribution is never late by a tick.  Hence a node of near[] is
\* due when its index comes up, and one of t[i] has a larger digit there.
WheelInv ==
    \A s \in Slots : \A n \in Nodes(s) :
        n.expire >= m_time /\ Place(n.expire, m_time) = s

\* Exactly at their tick, and among equals in the order they were set, through
\* every redistribution.
Service == INSTANCE TimerService WITH
              Ids <- 1 .. MaxTimers,
              now <- m_time, pending <- UNION {Nodes(s) : s \in Slots}
ImplementsService == Service!Spec

\* Every timer fires, if updatetime is called again and again.
EveryTimerFires ==
    \A id \in 1 .. MaxTimers :
        (\E s \in Slots : \E n \in Nodes(s) : n.id = id)
            ~> (\A s \in Slots : \A n \in Nodes(s) : n.id # id)
=============================================================================
