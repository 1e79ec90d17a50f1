------------------------------ MODULE Delivery ------------------------------
(***************************************************************************)
(* Who owns the data of a message: Dispatcher::send, _dispatch_message and *)
(* forwarding (include/dispatcher.h), Context::send and push (context.cpp),*)
(* the harbor (harbor.cpp), the error log (errorlog.h) and drop_queue      *)
(* (mq.h).  Two workers may be in the callback of one context, as          *)
(* Dispatcher.tla shows; assertions are taken as compiled out.  The        *)
(* services keep to the interface: a callback reserves its message or      *)
(* forwards it, not both, and what they hold they free once.  Types,       *)
(* sessions and sources are left out; the one local name is "logger".      *)
(***************************************************************************)
EXTENDS Integers, Sequences, FiniteSets, SequencesExt

CONSTANTS
    Locals,         \* handles of this node, numbers other than 0
    Remote,         \* a handle of another node
    Deaf,           \* contexts that may have set no callback
    MaxCallbacks,   \* bound: callbacks that run at a time
    MaxBuffers,     \* bound: buffers allocated
    MaxPending      \* bound: messages of a queue

Nothing == 0        \* no buffer, no handle, NULL
Shared  == -1       \* a queue entry for any multicast message; Multicast.tla counts each

VARIABLES
    store,          \* where buffers are, see Init
    registered,     \* contexts in the table
    cb,             \* contexts with a callback, which they set in their init
    current,        \* current[h]: the entries whose callbacks run in h
    forwarded,      \* forwarded[h]: those of them that have called Context::forward
    forward,        \* forward[h]: Context::m_forward
    named,          \* the handle named "logger", or Nothing
    dangling,       \* buffers freed under a caller that still holds them
    crossed         \* buffers reserved by one callback and forwarded for another

context == <<registered, cb, named>>
callbacks == <<current, forwarded, forward, crossed>>
vars == <<store, context, callbacks, dangling>>

Init ==
    /\ store = [made   |-> 0,                           \* buffers are numbered as they are made
                held   |-> {},                          \* a caller's or a service's own
                box    |-> [h \in Locals |-> <<>>],   \* in the queue of a context
                harbor |-> {},                          \* in the queue of the harbor, or sent by it
                freed  |-> {}, twice |-> {},            \* freed, and freed again
                leaked |-> {},                          \* nobody has a pointer to it
                logger |-> -1]                          \* errorlog's static variable
    /\ registered = Locals
    /\ cb \in {Locals, Locals \ Deaf}
    /\ current = [h \in Locals |-> {}] /\ forwarded = [h \in Locals |-> {}]
    /\ forward = [h \in Locals |-> Nothing]
    /\ named = Nothing
    /\ dangling = {} /\ crossed = {}
-----------------------------------------------------------------------------
New(st) == st.made + 1      \* the buffer the next malloc returns

\* free(); of a shared message it is known here that one was freed, not which.
Free(st, b) ==
    [st EXCEPT !.freed = @ \cup {b}, !.twice = @ \cup ({b} \cap (st.freed \ {Shared}))]

\* Context::push; the context is grabbed meanwhile.
Push(st, h, b) == [st EXCEPT !.box[h] = Append(@, b)]

\* errorlog: the logger is looked up once, whether it is there or not; a push that
\* fails is not noticed.
Log(st) ==
    LET logger == IF st.logger < 0 THEN named ELSE st.logger
        made == [st EXCEPT !.made = New(st), !.logger = logger]
    IN  IF logger \in registered THEN Push(made, logger, New(st))
        ELSE [made EXCEPT !.leaked = @ \cup {New(st)}]

\* Harbor::send and reg: Context::send to the context of the harbor.
ToHarbor(st, b) == [st EXCEPT !.harbor = @ \cup {b}]

\* _send_message, and the end of send.
Deliver(st, h, b) ==
    IF h = Remote THEN ToHarbor(st, b)
    ELSE IF h \in registered THEN Push(st, h, b)
    ELSE Log(Free(st, b))

\* _filter_args: the buffer to send is the caller's with PTYPE_TAG_DONTCOPY, else a copy.
FilterArgs(st, b, dontcopy) ==
    IF dontcopy THEN [st |-> [st EXCEPT !.held = @ \ {b}], b |-> b]
    ELSE [st |-> [st EXCEPT !.made = New(st)], b |-> New(st)]

\* send to a handle.  For handle 0 it returns, and forgets what it has to send.
SendTo(st, h, b, dontcopy) ==
    LET args == FilterArgs(st, b, dontcopy) IN
    IF h = Nothing THEN [args.st EXCEPT !.leaked = @ \cup {args.b}]
    ELSE Deliver(args.st, h, args.b)

Bounded == /\ store'.made <= MaxBuffers
           /\ \A h \in Locals : Len(store'.box[h]) <= MaxPending
-----------------------------------------------------------------------------
(* A caller *)

Malloc ==
    /\ store' = [store EXCEPT !.made = New(store), !.held = @ \cup {New(store)}]
    /\ Bounded
    /\ UNCHANGED <<context, callbacks, dangling>>

FreeOwn(b) ==
    /\ b \in store.held \ dangling
    /\ store' = Free([store EXCEPT !.held = @ \ {b}], b)
    /\ UNCHANGED <<context, callbacks, dangling>>

\* send(context, source, destination, ...), and send(context, ":handle", ...).
Send(h, b, dontcopy) ==
    /\ b \in store.held \ dangling
    /\ store' = SendTo(store, h, b, dontcopy)
    /\ Bounded
    /\ UNCHANGED <<context, callbacks, dangling>>

\* send(context, ".logger", ...).  Without the name the data is freed before anything is
\* copied: the caller's own.
SendByName(b, dontcopy) ==
    /\ b \in store.held \ dangling
    /\ IF named # Nothing
       THEN store' = SendTo(store, named, b, dontcopy) /\ UNCHANGED dangling
       ELSE /\ store' = Log(Free(IF dontcopy THEN [store EXCEPT !.held = @ \ {b}] ELSE store, b))
            /\ dangling' = IF dontcopy THEN dangling ELSE dangling \cup {b}
    /\ Bounded
    /\ UNCHANGED <<context, callbacks>>

\* send(context, "name", ...): to whichever node has the name.
SendByGlobalName(b, dontcopy) ==
    /\ b \in store.held \ dangling
    /\ LET args == FilterArgs(store, b, dontcopy) IN store' = ToHarbor(args.st, args.b)
    /\ Bounded
    /\ UNCHANGED <<context, callbacks, dangling>>

\* REG name and NAME name :handle, for a name without a dot.
RegisterGlobal ==
    /\ store' = ToHarbor([store EXCEPT !.made = New(store)], New(store))
    /\ Bounded
    /\ UNCHANGED <<context, callbacks, dangling>>

\* A multicast group pushes a message it shares among its members.  Bound: one entry for
\* such a message at a time.
Cast(h) ==
    /\ h \in registered
    /\ \A g \in Locals : Shared \notin current[g] \cup ToSet(store.box[g])
    /\ store' = Push(store, h, Shared)
    /\ Bounded
    /\ UNCHANGED <<context, callbacks, dangling>>
-----------------------------------------------------------------------------
(* The worker that dispatches h *)

Pop(h) == [store EXCEPT !.box[h] = Tail(@)]

\* dispatch, to a context without a callback: whatever was popped is freed, a shared
\* message too, under its count and its other receivers.
Discard(h) ==
    /\ h \in registered /\ h \notin cb
    /\ store.box[h] # <<>>
    /\ store' = Log(Free(Pop(h), Head(store.box[h])))
    /\ Bounded
    /\ UNCHANGED <<context, callbacks, dangling>>

Running == {p \in Locals \X ({Shared} \cup 1 .. MaxBuffers) : p[2] \in current[p[1]]}

Dispatch(h) ==
    /\ h \in registered /\ h \in cb
    /\ store.box[h] # <<>>
    /\ Head(store.box[h]) \notin current[h] /\ Cardinality(Running) < MaxCallbacks
    /\ store' = Pop(h)
    /\ current' = [current EXCEPT ![h] = @ \cup {Head(store.box[h])}]
    /\ UNCHANGED <<context, forwarded, forward, crossed, dangling>>

\* Context::forward, from the callback of b.  It asserts that forward is not set, which
\* another callback may have done.
Forward(h, b, destination) ==
    /\ b \in current[h] \ forwarded[h]
    /\ forwarded' = [forwarded EXCEPT ![h] = @ \cup {b}]
    /\ forward' = [forward EXCEPT ![h] = destination]
    /\ UNCHANGED <<store, context, current, crossed, dangling>>

\* _forwarding, which reads and resets forward in one step here.
Forwarding(st, h, b) == IF forward[h] = Nothing THEN st ELSE Deliver(st, forward[h], b)

Done(h, b) ==
    /\ Bounded
    /\ current' = [current EXCEPT ![h] = @ \ {b}]
    /\ forwarded' = [forwarded EXCEPT ![h] = @ \ {b}]
    /\ forward' = [forward EXCEPT ![h] = Nothing]
    /\ UNCHANGED <<context, dangling>>

\* MUTANT: what _forwarding returns is not looked at
ReturnFreeing(h, b) ==
    /\ b \in current[h] \ {Shared}
    /\ store' = Free(Forwarding(store, h, b), b)
    /\ Done(h, b)
    /\ UNCHANGED crossed

\* The callback returns without reserving: _forwarding, or free.
Return(h, b) ==
    /\ b \in current[h] \ {Shared}
    /\ store' = IF forward[h] = Nothing THEN Free(store, b) ELSE Forwarding(store, h, b)
    /\ Done(h, b)
    /\ UNCHANGED crossed

\* The callback returns not 0: the data is the service's.  If another callback has set
\* forward meanwhile, the data goes there as well.
Reserve(h, b) ==
    /\ b \in current[h] \ (forwarded[h] \cup {Shared})
    /\ store' = Forwarding([store EXCEPT !.held = @ \cup {b}], h, b)
    /\ crossed' = IF forward[h] = Nothing THEN crossed ELSE crossed \cup {b}
    /\ Done(h, b)

\* _mc: a shared message is not reserved, and a copy of it is forwarded.
ReturnShared(h) ==
    /\ Shared \in current[h]
    /\ store' = IF forward[h] = Nothing THEN store
                ELSE Forwarding([store EXCEPT !.made = New(store)], h, New(store))
    /\ Done(h, Shared)
    /\ UNCHANGED crossed
-----------------------------------------------------------------------------
(* Contexts are named, retired and dropped; Handles.tla launches them *)

\* NAME .logger :handle
Name(h) ==
    /\ h \in registered /\ named = Nothing
    /\ named' = h
    /\ UNCHANGED <<store, registered, cb, callbacks, dangling>>

\* EXIT and KILL; a callback that runs goes on.
Retire(h) ==
    /\ h \in registered
    /\ registered' = registered \ {h}
    /\ named' = IF named = h THEN Nothing ELSE named
    /\ UNCHANGED <<store, cb, callbacks, dangling>>

\* drop_queue takes one message off the queue, frees none and deletes the queue.  (If
\* the queue is empty it never ends: Dispatcher.tla, DropPop.)
Drop(h) ==
    /\ h \notin registered /\ current[h] = {}
    /\ store.box[h] # <<>>
    /\ store' = [store EXCEPT !.leaked = @ \cup (ToSet(store.box[h]) \ {Shared}),
                              !.box[h] = <<>>]
    /\ UNCHANGED <<context, callbacks, dangling>>

Step ==
    \/ Malloc \/ RegisterGlobal
    \/ \E b \in 1 .. MaxBuffers :
          \/ FreeOwn(b)
          \/ \E dontcopy \in BOOLEAN :
                \/ SendByName(b, dontcopy) \/ SendByGlobalName(b, dontcopy)
                \/ \E h \in Locals \cup {Remote, Nothing} : Send(h, b, dontcopy)
    \/ \E h \in Locals :
          \/ Cast(h) \/ Discard(h) \/ Dispatch(h) \/ ReturnShared(h)
          \/ \E b \in current[h] :
                \/ Return(h, b) \/ Reserve(h, b)
                \/ \E d \in Locals \cup {Remote} : Forward(h, b, d)
          \/ Name(h) \/ Retire(h) \/ Drop(h)

\* Bound: what becomes of a message that has two owners is not followed.
Next == crossed = {} /\ Step

Spec == Init /\ [][Next]_vars
-----------------------------------------------------------------------------
\* How many owners a buffer has; freed and leaked count as owners.
Owners(b) ==
    LET In(S) == IF b \in S THEN 1 ELSE 0 IN
    In(store.held) + In(store.harbor) + In(store.freed) + In(store.leaked)
      + Cardinality({h \in Locals : b \in current[h]})
      + Cardinality({p \in Locals \X (1 .. MaxPending) :
                        p[2] \in DOMAIN store.box[p[1]] /\ store.box[p[1]][p[2]] = b})

\* Whatever is copied, forwarded, reserved, logged or dropped, while contexts are retired:
\* data has one owner at any time, is freed once, and nothing that was freed is in a queue.
\* There are three exceptions: what send frees under its caller when a local name is
\* unknown; a message that one callback reserves and another's forward sends on; and a
\* multicast message, which its group and its receivers share, freed by a receiver that
\* has no callback, and by no one else (dispatcher.h:40-43, 61-151, 182-230).
OneOwner ==
    /\ store.twice \subseteq crossed
    /\ Shared \in store.freed => cb # Locals
    /\ \A b \in 1 .. store.made \ crossed : Owners(b) = IF b \in dangling THEN 2 ELSE 1
=============================================================================
