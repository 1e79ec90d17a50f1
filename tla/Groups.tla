------------------------------- MODULE Groups -------------------------------
(***************************************************************************)
(* The group manager (include/group_mgr.h) under the GROUP commands of     *)
(* several services (command.h).  A group is a context of the module       *)
(* "multicast"; the manager sends it what it has to do.  A service enters  *)
(* and leaves for itself: its own handle is what is sent.                  *)
(***************************************************************************)
EXTENDS Integers, Sequences, FiniteSets

CONSTANTS
    Services,       \* the contexts that run GROUP commands
    GroupHandles,
    NoGroup,        \* between two commands
    MaxGroups,      \* bound: contexts created for groups
    MaxGroupCalls   \* bound: commands

VARIABLES
    m_hash,         \* the context of each group, or 0
    m_lock,         \* whether the spin lock is taken
    sent,           \* sent[c][t]: what the context c has been sent to do with t, in order
    cleared,        \* cleared[c]: the CLEARs that c has been sent
    late,           \* late[c]: the kinds of command that followed a CLEAR
    killed,         \* contexts of groups that were retired by a KILL
    creations,      \* contexts created; the last one's number
    calls,          \* commands begun
    at, cmd, group, ctx,    \* where a service is, its command and local variables
    effect          \* history: effect[g][t], the commands of t on the group that is now g's,
                    \* in the order of the table

table == <<m_hash, creations, effect>>
call == <<cmd, group>>
queues == <<sent, cleared, late>>
vars == <<table, m_lock, queues, killed, calls, at, call, ctx>>

Init ==
    /\ m_hash = [g \in GroupHandles |-> 0]
    /\ m_lock = FALSE
    /\ sent = [c \in 1 .. MaxGroups |-> [t \in Services |-> <<>>]]
    /\ cleared = [c \in 1 .. MaxGroups |-> 0]
    /\ late = [c \in 1 .. MaxGroups |-> {}]
    /\ killed = {} /\ creations = 0 /\ calls = 0
    /\ at = [t \in Services |-> "idle"]
    /\ cmd = [t \in Services |-> "none"]
    /\ group = [t \in Services |-> NoGroup]
    /\ ctx = [t \in Services |-> 0]
    /\ effect = [g \in GroupHandles |-> [t \in Services |-> <<>>]]

Goto(t, label) == at' = [at EXCEPT ![t] = label]

Return(t) ==
    /\ Goto(t, "idle")
    /\ cmd' = [cmd EXCEPT ![t] = "none"] /\ group' = [group EXCEPT ![t] = NoGroup]

\* Dispatcher::send(ctx, ...): into the queue of the context, whatever became of it.
After(c, command) ==
    late' = IF c \in killed \/ cleared[c] = 0 THEN late ELSE [late EXCEPT ![c] = @ \cup {command}]

SendCommand(c, t, command) ==
    /\ sent' = IF c \in killed THEN sent ELSE [sent EXCEPT ![c][t] = Append(@, command)]
    /\ After(c, command)
    /\ UNCHANGED cleared

SendClear(c) ==
    /\ cleared' = IF c \in killed THEN cleared ELSE [cleared EXCEPT ![c] = @ + 1]
    /\ After(c, "C")
    /\ UNCHANGED sent
-----------------------------------------------------------------------------
Begin(t, command, g) ==
    /\ at[t] = "idle"
    /\ calls < MaxGroupCalls
    /\ calls' = calls + 1
    /\ cmd' = [cmd EXCEPT ![t] = command] /\ group' = [group EXCEPT ![t] = g]
    /\ Goto(t, "lock")
    /\ UNCHANGED <<table, m_lock, queues, killed, ctx>>

Lock(t) ==
    /\ at[t] = "lock" /\ ~m_lock
    /\ m_lock' = TRUE
    /\ Goto(t, "locked")
    /\ UNCHANGED <<table, queues, killed, calls, call, ctx>>

Entered(t) == IF cmd[t] = "ENTER" THEN [effect EXCEPT ![group[t]][t] = Append(@, "E")] ELSE effect

\* query and enter: the group's context is read, and used after the unlock.
Find(t) ==
    /\ at[t] = "locked" /\ cmd[t] \in {"QUERY", "ENTER"}
    /\ m_hash[group[t]] # 0
    /\ ctx' = [ctx EXCEPT ![t] = m_hash[group[t]]]
    /\ effect' = Entered(t)
    /\ Goto(t, "unlock")
    /\ UNCHANGED <<m_hash, creations, m_lock, queues, killed, calls, call>>

\* create_group.  m_hash.insert, which a hash table has not, is read as operator[].
CreateGroup(t) ==
    /\ at[t] = "locked" /\ cmd[t] \in {"QUERY", "ENTER"}
    /\ m_hash[group[t]] = 0 /\ creations < MaxGroups
    /\ creations' = creations + 1
    /\ m_hash' = [m_hash EXCEPT ![group[t]] = creations']
    /\ ctx' = [ctx EXCEPT ![t] = creations']
    /\ effect' = Entered(t)
    /\ Goto(t, "unlock")
    /\ UNCHANGED <<m_lock, queues, killed, calls, call>>

\* Of a group that has no context nobody is a member.
Left(t) == IF m_hash[group[t]] = 0 THEN effect ELSE [effect EXCEPT ![group[t]][t] = Append(@, "L")]

\* MUTANT: the context is looked up under the lock and told after it
LeaveOutside(t) ==
    /\ at[t] = "locked" /\ cmd[t] = "LEAVE"
    /\ ctx' = [ctx EXCEPT ![t] = m_hash[group[t]]]
    /\ effect' = Left(t)
    /\ Goto(t, "unlock")
    /\ UNCHANGED <<m_hash, creations, m_lock, queues, killed, calls, call>>

\* leave, which sends while it holds the lock.
Leave(t) ==
    /\ at[t] = "locked" /\ cmd[t] = "LEAVE"
    /\ IF m_hash[group[t]] = 0 THEN UNCHANGED queues ELSE SendCommand(m_hash[group[t]], t, "L")
    /\ effect' = Left(t)
    /\ Goto(t, "unlock")
    /\ UNCHANGED <<m_hash, creations, m_lock, killed, calls, call, ctx>>

Clear(t) ==
    /\ at[t] = "locked" /\ cmd[t] = "CLEAR"
    /\ IF m_hash[group[t]] = 0 THEN UNCHANGED queues ELSE SendClear(m_hash[group[t]])
    /\ m_hash' = [m_hash EXCEPT ![group[t]] = 0]
    /\ effect' = [effect EXCEPT ![group[t]] = [u \in Services |-> <<>>]]
    /\ Goto(t, "unlock")
    /\ UNCHANGED <<creations, m_lock, killed, calls, call, ctx>>

\* A context was found or created: enter has a command for it.
Unlock(t) ==
    /\ at[t] = "unlock"
    /\ m_lock' = FALSE
    /\ IF ctx[t] # 0 THEN Goto(t, "use") /\ UNCHANGED call ELSE Return(t)
    /\ UNCHANGED <<table, queues, killed, calls, ctx>>

\* query answers with the context's handle; enter sends.  By now the group may be cleared.
Use(t) ==
    /\ at[t] = "use"
    /\ IF cmd[t] = "QUERY" THEN UNCHANGED queues
       ELSE SendCommand(ctx[t], t, IF cmd[t] = "ENTER" THEN "E" ELSE "L")
    /\ ctx' = [ctx EXCEPT ![t] = 0]
    /\ Return(t)
    /\ UNCHANGED <<table, m_lock, killed, calls>>

\* KILL of the handle that a QUERY gave: the table is not told.
Kill(c) ==
    /\ c \in 1 .. creations /\ c \notin killed
    /\ killed' = killed \cup {c}
    /\ UNCHANGED <<table, m_lock, queues, calls, at, call, ctx>>

Next ==
    \/ \E t \in Services, g \in GroupHandles : \E c \in {"QUERY", "ENTER", "LEAVE", "CLEAR"} : Begin(t, c, g)
    \/ \E t \in Services : Lock(t) \/ Find(t) \/ CreateGroup(t) \/ Leave(t) \/ Clear(t) \/ Unlock(t) \/ Use(t)
    \/ \E c \in 1 .. MaxGroups : Kill(c)

Spec == Init /\ [][Next]_vars
-----------------------------------------------------------------------------
Pending(t) == cmd[t] = "ENTER" /\ at[t] \in {"unlock", "use"}

\* The context of a group that was not killed has been sent, of each service, exactly the
\* ENTERs and LEAVEs that service has had of it under the table's lock and in that order,
\* but for an ENTER on its way; nothing of a former context's reaches it.  A context is one
\* group's, until it is told so, once; then only an ENTER that had found it before can
\* reach it (group_mgr.h:57-104).  Who is a member then is the context's to say, which
\* takes the commands in batches, where a leave wins (multicast.h:108-194, Multicast.tla).
GroupsAgree ==
    /\ \A g \in GroupHandles, t \in Services :
          m_hash[g] # 0 /\ m_hash[g] \notin killed =>
             effect[g][t] = IF Pending(t) /\ ctx[t] = m_hash[g] THEN Append(sent[m_hash[g]][t], "E")
                            ELSE sent[m_hash[g]][t]
    /\ \A g, h \in GroupHandles : m_hash[g] = m_hash[h] /\ m_hash[g] # 0 => g = h
    /\ \A c \in 1 .. creations \ killed :
          /\ cleared[c] = IF \E g \in GroupHandles : m_hash[g] = c THEN 0 ELSE 1
          /\ late[c] \subseteq {"E"}
=============================================================================
