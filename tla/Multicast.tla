----------------------------- MODULE Multicast ------------------------------
(***************************************************************************)
(* A multicast group and the messages cast to it (include/multicast.h).    *)
(* The group belongs to one service context, whose callback enters and     *)
(* leaves handles and casts, one call at a time; the receivers are other   *)
(* contexts, whose workers dispatch the shared message concurrently.       *)
(* skynet_multicast_dispatch is not in the repository: it hands the        *)
(* message to a receiver's callback and takes one from its count           *)
(* (dispatcher.h:140, mq.h:332).  A receiver without a callback never gets *)
(* there: the dispatcher frees what it popped.                             *)
(***************************************************************************)
EXTENDS Integers, Sequences, FiniteSets, SequencesExt

CONSTANTS
    Handles,        \* handles that may be members, numbers other than 0
    Deaf,           \* those of them that may have set no callback
    MaxCommands,    \* bound: handles entering or leaving between two casts
    MaxCasts,       \* bound: messages
    Junk            \* an array cell not written

Messages == 1 .. MaxCasts

VARIABLES
    data,           \* the members, as an array from 0
    enter_queue, leave_queue,
    alive,          \* registered contexts
    queued,         \* queued[m]: the contexts that have m in their queue
    dropped,        \* dropped[m]: references that went away with the queue of a dead context
    m_ref,          \* MulticastMessage::m_ref
    freed,          \* messages deleted, with their last reference
    deaf,           \* receivers without a callback
    torn,           \* messages whose memory such a receiver freed
    casts,          \* messages cast so far; the current one while pc is not idle
    pc, i,          \* where cast() is, its loop variable
    release,        \* its local: members found dead
    lost            \* someone has touched a deleted message, or one that is torn

group == <<data, enter_queue, leave_queue>>
message == <<queued, dropped, m_ref, freed, torn>>
local == <<pc, i, release>>
vars == <<group, alive, deaf, message, casts, local, lost>>

Number == Cardinality(DOMAIN data)

Init ==
    /\ data = <<>>
    /\ enter_queue = <<>> /\ leave_queue = <<>>
    /\ alive = Handles
    /\ queued = [m \in Messages |-> {}]
    /\ dropped = [m \in Messages |-> 0]
    /\ m_ref = [m \in Messages |-> 0]
    /\ freed = {}
    /\ deaf \in {{}, Deaf}
    /\ torn = {}
    /\ casts = 0
    /\ pc = "idle" /\ i = 0 /\ release = 0
    /\ lost = FALSE
-----------------------------------------------------------------------------
(* combine_queue: merge in place from the back, then remove from the front *)

\* A member moves to where the merge is written.
MoveRest(s) ==
    [s EXCEPT !.a = [s.a EXCEPT ![s.new] = s.a[s.old]],
              !.old = s.old - 1, !.new = s.new - 1, !.last = 0]

\* A turn of the two loops that merge.  The enter queue is taken from its end,
\* the members from old down, and the merge is written from new down; `last`
\* skips a handle entered twice.  Then the members left over move down to new.
MergeEntered(entered, s) ==
    IF s.k = 0
    THEN IF s.old < 0 THEN s ELSE MoveRest(s)
    ELSE LET h == entered[s.k] IN
         IF h = s.last THEN [s EXCEPT !.k = s.k - 1]
         ELSE IF s.old < 0 \/ h > s.a[s.old]
         THEN [s EXCEPT !.a = [s.a EXCEPT ![s.new] = h],
                        !.k = s.k - 1, !.new = s.new - 1, !.last = h]
         ELSE IF h = s.a[s.old]
         THEN [s EXCEPT !.k = s.k - 1, !.last = h]
         ELSE MoveRest(s)

\* A merged member moves to the front.
MoveUp(s) ==
    [s EXCEPT !.a = [s.a EXCEPT ![s.new] = s.a[s.old]], !.old = s.old + 1, !.new = s.new + 1]

\* MUTANT: a handle that is no member ends the removal
RemoveStops(left, s) ==
    IF s.k > Len(left) \/ s.old \notin DOMAIN s.a
    THEN IF s.new >= s.count \/ s.old \notin DOMAIN s.a THEN s ELSE MoveUp(s)
    ELSE IF left[s.k] = s.a[s.old]
    THEN [s EXCEPT !.k = s.k + 1, !.old = s.old + 1, !.count = s.count - 1]
    ELSE IF left[s.k] > s.a[s.old] THEN MoveUp(s)
    ELSE [s EXCEPT !.k = Len(left) + 1]

\* A turn of the two loops that remove: what was merged, from old on, moves to the
\* front, without the handles that left; the second loop moves what no handle is
\* left to compare with, and nothing if the first came to the end of the array.
RemoveLeft(left, s) ==
    IF s.k > Len(left)
    THEN IF s.new >= s.count THEN s ELSE MoveUp(s)
    ELSE IF s.old \notin DOMAIN s.a
    THEN [s EXCEPT !.k = Len(left) + 1, !.count = 0]
    ELSE IF left[s.k] = s.a[s.old]
    THEN [s EXCEPT !.k = s.k + 1, !.old = s.old + 1, !.count = s.count - 1]
    ELSE IF left[s.k] > s.a[s.old] THEN MoveUp(s)
    ELSE [s EXCEPT !.k = s.k + 1]

\* qsort with compar_uint.
Sorted(q) ==
    LET D == DOMAIN q
        p == CHOOSE p \in [D -> D] :
                /\ \A l \in D : \E j \in D : p[j] = l
                /\ \A j, l \in D : j < l => q[p[j]] <= q[p[l]]
    IN  [j \in D |-> q[p[j]]]

\* A turn of merging takes an entered handle or a member, one of removing a
\* handle that left or a merged member.
MergeAll(members, entered) ==
    LET number == Cardinality(DOMAIN members)
        size   == number + Len(entered)
        turn[n \in 0 .. size] ==
            IF n = 0
            THEN [a    |-> [k \in 0 .. size - 1 |-> IF k < number THEN members[k] ELSE Junk],
                  k    |-> Len(entered), old |-> number - 1, new |-> size - 1, last |-> 0]
            ELSE MergeEntered(entered, turn[n - 1])
    IN  turn[size]

RemoveFrom(a, from, left) ==
    LET size == Cardinality(DOMAIN a)
        turn[n \in 0 .. size + Len(left)] ==
            IF n = 0
            THEN [a |-> a, k |-> 1, old |-> from, new |-> 0, count |-> size - from]
            ELSE RemoveLeft(left, turn[n - 1])
    IN  turn[size + Len(left)]

Combine(members, entered, left) ==
    LET merged == MergeAll(members, Sorted(entered))
        result == RemoveFrom(merged.a, merged.new + 1, Sorted(left))
    IN  [k \in 0 .. result.new - 1 |-> result.a[k]]
-----------------------------------------------------------------------------
(* MulticastMessage::copy *)

\* The count changes, and whoever brings it to zero deletes the message.
Copy(m, n) ==
    /\ m_ref' = [m_ref EXCEPT ![m] = @ + n]
    /\ freed' = IF m_ref[m] + n = 0 THEN freed \cup {m} ELSE freed
-----------------------------------------------------------------------------
(* The service's callback *)

Enter(h) ==
    /\ pc = "idle"
    /\ Len(enter_queue) + Len(leave_queue) < MaxCommands
    /\ enter_queue' = Append(enter_queue, h)
    /\ UNCHANGED <<data, leave_queue, alive, deaf, message, casts, local, lost>>

Leave(h) ==
    /\ pc = "idle"
    /\ Len(enter_queue) + Len(leave_queue) < MaxCommands
    /\ leave_queue' = Append(leave_queue, h)
    /\ UNCHANGED <<data, enter_queue, alive, deaf, message, casts, local, lost>>

\* MUTANT: the message is counted while it is sent, one copy at a time
BeginCastUncounted ==
    /\ pc = "idle"
    /\ casts < MaxCasts
    /\ casts' = casts + 1
    /\ data' = Combine(data, enter_queue, leave_queue)
    /\ enter_queue' = <<>> /\ leave_queue' = <<>>
    /\ m_ref' = [m_ref EXCEPT ![casts + 1] = IF DOMAIN data' = {} THEN 0 ELSE 1]
    /\ pc' = "loop" /\ i' = 0 /\ release' = 0
    /\ UNCHANGED <<alive, deaf, queued, dropped, freed, torn, lost>>

\* cast(): combine_queue, then one count for each member.
BeginCast ==
    /\ pc = "idle"
    /\ casts < MaxCasts
    /\ casts' = casts + 1
    /\ data' = Combine(data, enter_queue, leave_queue)
    /\ enter_queue' = <<>> /\ leave_queue' = <<>>
    /\ m_ref' = [m_ref EXCEPT ![casts + 1] = Cardinality(DOMAIN data')]
    /\ pc' = "loop" /\ i' = 0 /\ release' = 0
    /\ UNCHANGED <<alive, deaf, queued, dropped, freed, torn, lost>>

\* A member that cannot be grabbed leaves, and its count is given back later.
GrabFails ==
    /\ pc = "loop" /\ i < Number
    /\ data[i] \notin alive
    /\ leave_queue' = Append(leave_queue, data[i])
    /\ release' = release + 1
    /\ i' = i + 1
    /\ UNCHANGED <<data, enter_queue, alive, deaf, message, casts, pc, lost>>

Grab ==
    /\ pc = "loop" /\ i < Number
    /\ data[i] \in alive
    /\ pc' = "send"
    /\ UNCHANGED <<group, alive, deaf, message, casts, i, release, lost>>

\* Context::send.  A context retired since the grab gets the message into a
\* queue that only drop_queue will see.
Send ==
    /\ pc = "send"
    /\ IF data[i] \in alive
       THEN queued' = [queued EXCEPT ![casts] = @ \cup {data[i]}] /\ UNCHANGED dropped
       ELSE dropped' = [dropped EXCEPT ![casts] = @ + 1] /\ UNCHANGED queued
    /\ i' = i + 1
    /\ pc' = "loop"
    /\ UNCHANGED <<group, alive, deaf, m_ref, freed, torn, casts, release, lost>>

\* MUTANT: the counts of dead members are not given back
EndCastKept ==
    /\ pc = "loop" /\ i >= Number
    /\ pc' = "idle" /\ i' = 0 /\ release' = 0
    /\ UNCHANGED <<group, alive, deaf, message, casts, lost>>

\* msg->copy(-release), also with a release of 0: that deletes a message without
\* members, and touches one whose receivers are already through with it.
EndCast ==
    /\ pc = "loop" /\ i >= Number
    /\ IF casts \in freed \cup torn
       THEN lost' = TRUE /\ UNCHANGED <<m_ref, freed>>
       ELSE Copy(casts, -release) /\ UNCHANGED lost
    /\ pc' = "idle" /\ i' = 0 /\ release' = 0
    /\ UNCHANGED <<group, alive, deaf, queued, dropped, torn, casts>>
-----------------------------------------------------------------------------
(* The receivers *)

\* A worker dispatches the message to one of its receivers.  What becomes of a count
\* in memory that was freed is not followed.
Dispatch(h, m) ==
    /\ h \in queued[m] \ deaf
    /\ queued' = [queued EXCEPT ![m] = @ \ {h}]
    /\ IF m \in torn THEN lost' = TRUE /\ UNCHANGED <<m_ref, freed>>
                     ELSE Copy(m, -1) /\ UNCHANGED lost
    /\ UNCHANGED <<group, alive, deaf, dropped, torn, casts, local>>

\* dispatch, to a context without a callback: free(msg.data), whatever the count is.
Discard(h, m) ==
    /\ h \in queued[m] \cap deaf
    /\ queued' = [queued EXCEPT ![m] = @ \ {h}]
    /\ torn' = torn \cup {m}
    /\ lost' = (lost \/ m \in torn)
    /\ UNCHANGED <<group, alive, deaf, dropped, m_ref, freed, casts, local>>

\* A context is retired; what is in its queue is not dispatched any more.
Retire(h) ==
    /\ h \in alive
    /\ alive' = alive \ {h}
    /\ queued' = [m \in Messages |-> queued[m] \ {h}]
    /\ dropped' = [m \in Messages |-> dropped[m] + Cardinality({h} \cap queued[m])]
    /\ UNCHANGED <<group, deaf, m_ref, freed, torn, casts, local, lost>>

Cast == GrabFails \/ Grab \/ Send \/ EndCast

Next ==
    \/ BeginCast \/ Cast
    \/ \E h \in Handles : Enter(h) \/ Leave(h) \/ Retire(h)
    \/ \E h \in Handles, m \in Messages : Dispatch(h, m) \/ Discard(h, m)

Spec == Init /\ [][Next]_vars

\* A callback that casts runs on, and workers dispatch what is queued.
FairSpec ==
    /\ Spec
    /\ WF_vars(Cast)
    /\ \A h \in Handles, m \in Messages : WF_vars(Dispatch(h, m) \/ Discard(h, m))
-----------------------------------------------------------------------------
Members == {data[k] : k \in DOMAIN data}

TypeOK ==
    /\ DOMAIN data = 0 .. Number - 1
    /\ Members \subseteq Handles
    /\ alive \subseteq Handles
    /\ m_ref \in [Messages -> Nat]
    /\ freed \cup torn \subseteq 1 .. casts
    /\ pc \in {"idle", "loop", "send"}
    /\ i \in 0 .. Number
    /\ release \in 0 .. i

\* combine_queue against its meaning: the members are those that were or have
\* entered, without those that left, and they are sorted without duplicates,
\* which the next merge relies on.
CombineIsSetUnion ==
    [][BeginCast =>
        /\ Members' = (Members \cup Range(enter_queue)) \ Range(leave_queue)
        /\ \A k, l \in DOMAIN data' : k < l => data'[k] < data'[l]]_vars

\* m_ref counts the receivers to come, those that have the message, and the
\* dead ones found or left with it, while dispatches overtake the cast.
Uncast(m) == IF m = casts /\ pc # "idle" THEN Number - i + release ELSE 0

CountIsExact ==
    \A m \in Messages \ (freed \cup torn) :
        m_ref[m] = Cardinality(queued[m]) + dropped[m] + Uncast(m)

\* No message is deleted by its count while a receiver has yet to dispatch it, or to
\* get it.  That is not so of the memory: a member without a callback frees it under
\* all the others (dispatcher.h:41-43), which is all that tears a message.
FreedIsDone ==
    /\ \A m \in freed : queued[m] = {} /\ dropped[m] = 0 /\ Uncast(m) = 0
    /\ freed \cap torn = {}
    /\ deaf = {} => torn = {}

\* Every message is deleted or torn in the end, unless a receiver died with it: again
\* and again there is none left.
CastIsFreed == []<>(\A m \in 1 .. casts : m \in freed \cup torn \/ dropped[m] > 0)
=============================================================================
