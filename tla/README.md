# fibernet in TLA+

fibernet is a C++ port of an actor runtime. *Contexts* (actors) have a handle, a message
queue and a callback; *workers* take queues from a global queue and dispatch one message at
a time; a registry maps handles to contexts and names to handles; a timer wheel turns
timeouts into messages; groups multicast. There is no `main` in the repository: threads call
`Dispatcher::dispatch`, `Timer::updatetime` and `Monitor::check`, modules call
`Command::exec` and `Dispatcher::send`.

Line numbers below are those of the files under `include/` and `src/`.

## How the source is read

The port is unfinished and does not compile as it stands. Two rules decide what a line means:

1. A name that resolves to nothing (`skynet_handle_findname`, `Contex`, `ctx->init` used as a
   flag, `GlobalModule`) is read as the one entity of this code that fits
   (`Handle::get_handle`, `Context`, `m_init`, `GlobalModules`). So is an expression no
   compiler accepts: `INIT_LIST_HEAD(&t[i])` in a loop over `j` (timer.h:118) is `&t[i][j]`.
2. What has a meaning in C++ keeps it, however unlikely. `uint32_t head = head` (mq.h:72),
   `uint32_t tail = GP(__sync_fetch_and_add(&tail,1))` (mq.h:96) and `int head = head - 1`
   (mq.h:296) initialise locals from themselves: the value is any value, and the models
   choose it nondeterministically. Uninitialised pointers and freed memory are treated the
   same way, or the thread that touches them is no longer followed ("lost").

Assertions are taken as compiled out (`NDEBUG`): a build that keeps them has a prefix of the
behaviours modelled. Where an assertion states something worth knowing, a run asks whether
it holds.

## Inventory

| Part | State | Operations | Called by / calls |
|---|---|---|---|
| `rwlock` (rwlock.h) | `write`, `read` | rlock, runlock, wlock, wunlock | registry |
| `MQ` (mq.h:107-341) | ring `queue/cap/head/tail`, `in_global`, `lock_session`, `m_release`, spin lock | push, pop, lock, pushglobal, mark_release, release, (expand, pushhead, drop_queue) | contexts, dispatcher; calls the global queue |
| `GlobalMQ` (mq.h:32-102) | `queue[]`, `flag[]`, `head`, `tail` | push, pop | MQ, context factory, dispatcher |
| `Dispatcher` (dispatcher.h) | none | dispatch, send (two forms), forwarding, multicast delivery | workers; calls all of the above |
| `Context`, `ContextFactory` (context.h/.cpp) | `m_ref`, `m_init`, `m_endless`, `m_forward`, session counter | create, push, send, endless, grab, release | registry, dispatcher, commands |
| `Handle` (handle.h/.cpp) | `h2c`, `h2n`, `n2h`, `handle_index`, `m_harbor` | reg, retire, retireall, grab, reg_name, get_handle | everyone |
| `Command` (command.h) | none | TIMEOUT LOCK REG NAME NOW EXIT KILL LAUNCH GETENV SETENV STARTTIME GROUP ENDLESS ABORT | services |
| `Timer` (timer.h) | `near[256]`, `t[4][63]`, `m_time`, `m_current`, spin lock | timeout, updatetime, execute | commands, timer thread; calls Context::push |
| `MulticastGroup`, `MulticastMessage` (multicast.h) | sorted `data[]`, enter and leave queues; message reference count | enter, leave, cast, combine_queue; copy | multicast service |
| `GroupManager` (group_mgr.h) | group id -> context, spin lock | query, enter, leave, clear | GROUP command |
| `GlobalModules` (module.h) | table of loaded modules, spin lock | query, insert | context factory |
| `Monitor` (monitor.h) | two version counters, source, destination | trigger, check | dispatcher, monitor thread |
| `Harbor`, `errorlog`, `Env` | remote context; cached logger; Lua state | send, reg; log; get, set | dispatcher, commands |
| `lib/` trees (rbtree.h, dos_tree.h, interval_tree.h) | nodes with colours, sizes, largest highs | insert, delete, look-up, rank, overlap | `rbtree` is the registry's map |
| `lib/` maps (binary_search_tree.h, skip_list.h, hash_table.h) | nodes, levels, slots | insert, find, delete, clear | the hash table is the group table |
| `lib/` sequences (double_linked_list.h, queue.h, stack.h, priority_queue.h, heap.h) | links; ring; array | add, move, splice; enqueue, dequeue; push, pop; decrease_key | the list is the timer's |
| `lib/` algorithms | - | sorting and selection, graph search, shortest paths, spanning tree, flow, A* | each other |
| `lib/` numbers and codes | digits; hash parameters; bits; digest contexts | integer arithmetic, universal and perfect hashing, bit sets, Bloom filters, Huffman, subsequences, segmentation, padding of digests | the Bloom filter uses the hash functions and SHA-1 |

What makes the runtime hard, and what correctness means for each part:

* **Scheduling.** A queue is scheduled by its creator, by a push that finds it idle, by a
  worker that is done with it, by an unlocking message, or by a worker that finds its
  context gone. `in_global` has to make exactly one of these happen. Wanted: a queue is
  dispatched by one worker at a time, in order, no message lost or doubled, a locked queue
  left alone until its session answers. The code keeps of this only that messages leave a
  queue in order, each once: two workers may dispatch one queue, a locked queue may be
  dispatched, and a queue may be left in no slot with messages in it (see Findings).
* **Lifetime.** A context lives while the registry or a thread refers to it; its queue
  outlives it until a worker drops it. Wanted: nobody uses what is deleted, everything
  retired is deleted.
* **Registry.** Look-up and increment against retirement; names that agree both ways; ABORT
  that reaches every context.
* **Lock.** A reader's increment races a writer's test-and-set. Wanted: exclusion, and a
  writer that gets in.
* **Timer.** Redistribution through five parts of a time. Wanted: every timer at its tick.
* **Groups.** A sorted merge of two command queues; a message shared by its receivers whose
  last one frees it; a table of contexts that are used after its lock is given up.
* **Data.** A message's data is copied or not, pushed, forwarded, reserved, shared, sent to
  another node, or freed on one of a dozen paths. Wanted: one owner at any time, freed once.
* **Modules.** A look without the lock before the look with it. Wanted: one load, one entry.
* **Monitor.** Two threads, three words, no lock. Wanted: a callback that never returns is
  reported.
* **Library.** Structures whose invariants pass through several calls, and loops whose
  indices are unsigned. Wanted: what the textbook says of each. Where the code misses it,
  the property says exactly for which inputs, and what comes out then.

`PROJECT.json` lists the hazards line by line, each with the properties that cover it, or why
none does.

## Modules

| Module | Models | Corresponds to |
|---|---|---|
| `ReadersWriters` | what a read-write lock promises | - |
| `RWLock` | `rwlock`, one step per access to a counter | pc labels are the places between two accesses: `r_spin` (line 20), `r_add` (24), `r_check` (26), `r_back` (27), `w_set` (39), `w_drain` (40) |
| `MessageQueueProofs`, `DispatcherProofs`, `HandlesProofs`, `NodeProofs` | theorems about the module of that name | - |
| `TableProofs` | theorems about `RWLock`, the lock on the table of handles, about `Maps`, the tables, and about `LongIntegers`, tables of components | - |
| `StructuresProofs` | theorems about `Timer`, `Queues` and `Sorting` | - |
| `MQ` | the fields of one `MQ` as a record, and each member function as an operator from the record to its successor, with `scheduled` telling whether it called `GlobalMQ::push` | mq.h:107-341 |
| `Mailbox` | first in, first out, until an unlock | - |
| `MessageQueue` | one queue with senders, workers, lockers; each function is a step, as it holds the queue's spin lock | mq.h:148-236, dispatcher.h:14-36 |
| `Primitives` | `RWLock`, `MessageQueue` and `Timer`, one of them per behaviour | - |
| `Dispatcher` | `GlobalMQ`'s two arrays, the worker loop, senders, retirement, deletion, dropping of queues | dispatcher.h:12-55, mq.h:70-101, 248-340, context.cpp:23-64 |
| `Handles` | registry and life cycle: create, retire, retireall, names, grab and release | context.cpp:48-116, handle.cpp, handle.h |
| `TimerService` | timers fire at their tick, in the order they were set | - |
| `Timer` | the wheel as one function from lists to sequences of nodes | timer.h:68-233 |
| `Multicast` | one group: `combine_queue` as operators on the array, `cast` step by step, and the receivers | multicast.h:9-189, context.cpp:9-18, dispatcher.h:40-43 |
| `Groups` | the group table under the GROUP commands of several services, step by step between lock, look-up, unlock and send; `sent` is what each group's context was told | group_mgr.h:38-128, command.h:118-132, 196-286 |
| `Modules` | `GlobalModules::query`: the look without the lock, the lock, the second look, dlopen, dlsym | module.h:79-189 |
| `Delivery` | who owns each buffer: `store` says for every buffer whether it is held by a caller, in a queue, with the harbor, freed or leaked; one action per way to send, dispatch, forward, reserve, log and drop | dispatcher.h:40-43, 61-230, context.cpp:20-33, harbor.cpp, errorlog.h, mq.h:320-340 |
| `Monitor` | trigger and check, one step per access | monitor.h:15-34, context.cpp:38-46, command.h:212-219, handle.cpp:21-44 |
| `Node` | `Multicast`, `Handles`, `Groups`, `Modules`, `Delivery` and `Monitor`, one of them per behaviour | - |
| `RedBlack` | the tree: rotations, `InsertCase1` to `InsertCase5`, `DeleteCase1` to `DeleteCase6`, and the callbacks by which sizes and largest highs follow a rotation | rbtree_defs.h, rbtree.h:117-126 |
| `Trees` | the map, the order-statistic tree and the interval tree on it | rbtree.h, dos_tree.h, interval_tree.h |
| `Maps` | search tree, skip list, hash table as operators, and every sequence of calls on them against a map | binary_search_tree.h, skip_list.h, hash_table.h, hash_multi.h |
| `Containers`, `Queues` | the linked list, ring, stack, priority queue and heap as operators, the heap's two loops as the sequence of their turns; every sequence of calls on them against plain sequences and sets | double_linked_list.h, sol.h, queue.h, stack.h, priority_queue.h, heap.h |
| `Sorting` | each algorithm as a function of its input: a loop as the sequence of its turns, a routine that calls itself as a function of its calls, `rand()` as a set of outcomes | generic.h, insertion_sort.h, merge_sort.h, quick_sort.h, radix_sort.h, random_select.h, shuffle.h |
| `Adjacency`, `GraphAlgorithms` | adjacency lists and searches; shortest paths, spanning tree, flow, A* | graph_defs.h, directed_graph.h, undirected_graph.h, graph_search.h, dijkstra.h, bellman_ford.h, prim_mst.h, edmonds_karp.h, astar.h, 2darray.h |
| `LongIntegers` | long integers, component by component | integer.h |
| `Hashing`, `Numbers` | primes, hash functions, perfect table, bit set, Bloom filter; every small input of these and of `LongIntegers` | prime.h, imath.h, universal_hash.h, hash_string.h, perfect_hash.h, bitset.h, bloom_filter.h |
| `Codes` | Huffman, common subsequences, segmentation, and what SHA-1 and MD5 hand to their compression functions | huffman.h, lcs.h, word_seg.h, sha1.h, md5.h |
| `LibraryState` | the variables that `Queues`, `Sorting`, `Maps` and `Library` share, and a step on them | - |
| `Library` | all parts of lib, one per behaviour: `s` is what the part holds, `model` what it should | - |
| `MQProofs` | lemmas about the operators of `MQ`, which two of the modules above cite | - |
| `Induction` | induction over the naturals, and with it loops, recursive calls, least and greatest numbers; division and sequences | - |
| `MCDispatcher`, `MCHandles`, `MCLibrary` | symmetry sets, small graphs and the alphabet for TLC | - |

How they fit together:

* `Handles` and `Dispatcher` take the registry's lock at the level `ReadersWriters`
  describes: a write section is one step, and in `Handles` a read section is a look-up and
  an increment with no write section in between. `RWLock` and the theorem `Implements`
  justify this.
* `MessageQueue` and `Dispatcher` share the operators of `MQ`. `MessageQueue` explores
  locks and sessions. With several workers it leaves the global queue open (any worker may be
  handed the queue at any time, as `Dispatcher` shows can happen); a lone worker is handed it
  as often as it was pushed (`held`). `Dispatcher` has the global queue store by store and
  leaves locks out.
* `Dispatcher` starts from launched contexts; how they come about is in `Handles`, whose
  `scheduled` set is the hand-over.
* `Primitives`, `Node` and `Library` put parts side by side that share no variable: a behaviour chooses
  one in its initial state (`primitive`, `part`, `kind`) and stays in it, so that one run checks the
  union of their behaviours. They say nothing about interactions between the parts.
* `Library` extends `Queues`, `Sorting` and `Maps`, whose properties and constants are its own,
  and instantiates the others. A behaviour of `Library` of a kind in `QueueKinds` is one of
  `QueuesSpec`, one of a kind in `SortingKinds` one of `SortingSpec`, and one of a kind in
  `MapKinds` one of `MapsSpec`.
* `Delivery` has dispatch and queues as `Dispatcher` shows them (messages popped in order, two
  workers in the callbacks of one context at a time included) and `Multicast`'s shared messages
  as entries without an owner of their own; `Groups` creates its contexts as `Handles` does, in one step under its lock.
* `Maps`' hash table is the table of `Groups`; `Containers`' list is the one that `Timer`
  takes as a sequence, which `QueuesAgree` justifies; `Trees`' map is the registry's.

Points of correspondence that are easy to miss:

* `MQ::pop` clears `in_global` when it returns a message (mq.h:181), and an empty pop leaves it.
  So 0 means that a message is being dispatched, and 1 nothing certain: `ZeroIsDispatching` and
  `MarkedIsScheduled` set this against the comment of mq.h:15-18.
* `MessageQueue`: a push in the callback that executes LOCK may come before it. Then the queue is
  in the global queue already, LOCK and `pushglobal` leave it there, and it is dispatched while it
  is locked; `strayed` notes that it was. From then on `SomeoneBringsItBack` promises less: the
  mark may be clear with nobody at work on the queue.
* `Dispatcher`: the pop (dispatcher.h:33) and the entry into the callback (45) are two steps, with
  the message in the worker's `hand` between them. Two workers with one queue may enter its
  callback in the order opposite to that of their pops; `EachOnce` orders the pops only. A context
  without a callback frees the message in that step instead, which shows nothing here.
* `Dispatcher`: `owner` is the queue's spin lock while `GlobalMQ::push` is between its two
  stores (mq.h:97-99). All other critical sections of a queue show nothing in between and are
  one step.
* `GlobalMQ::pop` compares with the member `tail`, which nothing ever changes: slot 0 is the
  end of the queue. Its compare-and-swap is on the local and succeeds.
* `Handles`: between `reg` and `new MQ` (context.cpp:92-94) the queue pointer is garbage; a
  pusher that gets in goes to "lost". After its `release` the launching thread keeps an
  uncounted pointer ("set_init", "read_handle"); a handle read from freed memory is any handle.
* `Handles`: what an init callback does (EXIT, NAME, KILL) happens in the same thread; here
  another thread does it at the same point. The launching thread's own reference makes the
  two indistinguishable.
* `Timer`: part 0 is `near`, part `i + 1` is `t[i]`; `Place` is `add_node`, `CascadePart` the
  condition of the loop at timer.h:218-231. `TIME_NEAR` and `TIME_LEVEL` (timer.h:15-18) are
  constants, so that masks and shifts are remainders and quotients for any of their values;
  `Span[p]` is `mask + 1` after p shifts. A node added at the tail of each list keeps the order
  of the list it came from.
* `Multicast`: `MergeEntered` is one turn of the two loops of `combine_queue` that merge,
  `RemoveLeft` one of the two that remove, on one array and with the code's indices; `MergeAll`
  and `RemoveFrom` take as many turns as the arrays can need, and a turn after the end changes
  nothing. Cells no loop has written hold `Junk`. `Uncast` is what `cast`
  still owes the count. `EndCast` gives back a release of 0 too: when all receivers are
  through by then, the message is gone and the step touches freed memory ("lost"); the model
  assumes that this does no further harm. A member in `Deaf` may turn out to have no callback
  (`deaf`): dispatch then frees the shared message, whatever its count (`Discard`,
  dispatcher.h:40-43). It is `torn` from then on, for all that still have it in their queues, and
  what the code does with it is followed no further; `CountIsExact` and `CastIsFreed` speak of the
  others, and of no group without such a member is a message torn.

* `Groups`: `m_hash.insert` does not exist and is read as `operator[]`; `effect` has
  each service's commands in the order in which they held the lock, `sent` those that a context
  was sent. `GroupsAgree` compares the two. Who is a member is the context's to say: it takes its
  commands in batches, and in a batch of ENTER, LEAVE, ENTER the leave wins
  (multicast.h:154-179; `CombineIsSetUnion`).
* `Delivery`: a caller's buffer that `send` frees although it should only copy it
  (dispatcher.h:109) is `dangling`; the caller does not touch it again. `crossed` are messages
  that one callback reserves while `m_forward`, which another callback of the same context
  has set, sends them on: the second exception `OneOwner` states; behaviours end there. The third is a
  multicast message in the queue of a context without a callback, which frees it like any other
  data (`Discard`); a context gets its callback in its init, or never (`cb`). `leaked` buffers are
  those no pointer leads to: a send to handle 0, a failed log, a dropped queue.
* `Modules`: entry `m_count + 1` is written before `m_count` counts it; `answers` is
  every answer given. The table only grows, so a refusal has to be right in the state it is given in.
* `Monitor`: the monitor reads `version` twice when it moved (lines 26 and 32) and `m_dest`
  twice when it did not (27 and 28), a third time for the log (29). `endless` grabs the context
  first: one that was retired during its callback is logged and not flagged.
* `Queues`: the calls on a list are made for its i-th entry, as their callers hold a pointer to
  one. A list is right when the walks along `next` and along `prev` pass through the entries of
  `model` in order and back to the head (`Visits`). `list_del` leaves the removed entry's links as `NULL`.
* `Containers`: `SiftUp` and `SiftDown` are the loops of `heap.h`, `turn[n]` the array and the
  hole after n turns; a turn after the end changes nothing.
* `Sorting`: arrays count from 0, as in the code. `turn[n]` is what a loop has made of its array
  after n turns; `sort[Call(a, begin, end)]` is what the call returns that finds `a` in memory,
  and the set of what it may return when it throws coins.
* `Maps`: a node is the key it was made for, as no structure holds a key twice; `Nil` is 0, and so
  is the skip list's header, of which no pointer is kept in a node. `BstEnd` takes as many turns as there
  are nodes, and a turn after the end changes nothing; `stop[x]` in `Advance` is the inner loop of
  a search from x, `u[i]` in `Update` what it has found when it leaves level i. `SkipUnlinked` is
  the loop of `delete_key` with its `break`: a level is passed when it and all below lead to the node.
  `SlotOf` multiplies modulo a word, and a slot is a sequence, as `QueuesAgree` justifies.
* `Containers`: a priority is a number below `UINTS` that `AsInt` turns into the int it is kept
  as; `Sooner` is the order this gives, with the upper half of the range in front.
* `Trees`: `index(i)` gives the i-th smallest key, where the comments of dos_tree.h say the
  i-th largest. After a deletion sizes and largest highs may be wrong; what look-ups find is
  still held (and overlaps), but `RankIsLost` and `OverlapIsLost` are sequences of calls after
  which they miss something.
* `Adjacency`: an undirected edge of a vertex to itself is in the vertex's list twice, and takes
  two from `num_edges` when it is deleted (undirected_graph.h:41-45, 118-124). `model.lost` counts
  these; `num_edges` is what it would be without them, modulo `UINTS`.
* `GraphAlgorithms`: in Bellman-Ford a sum above `INT_MAX` wraps, as the build's does, and
  `overflow` notes it. A* holds rows against the number of columns and columns against that of rows
  (astar.h:128, 130): on a grid that is not square it reads another cell (`Place`) or outside the
  array (`outside`). From a cell to itself it reads an entry that nothing was put into
  (`Nowhere`).
* `Hashing`: `Quotient` is the `int` that `m_based` puts a quotient of its 64-bit key into.
* `Codes`: `HighSymbols` are the bytes from 0x80 on, which `encode` looks up with their sign
  extended: the code is one that was never written (`Garbled`). `run` reads `EP`, which `CalcAll`
  alone computes, at the end of the constructor with a file; the constructor adds the last
  word of a file that ends in a newline twice (`Loaded`), as `feof` is not true before the read.
  A file without a word is left out: `word` is then read uninitialised.
* `Trees` renumbers its nodes in key order after every step: addresses cannot be observed,
  and states that differ in them only are one.
* `LongIntegers`, `Numbers`, `Codes`: digits, words and blocks are small (see the bounds); everything that
  depends on their width takes it from a constant. A product of two components that
  overflows the code's `int` is undefined and left out (`Multiplies`), and so are the operands on
  which `operator*` reads outside its array (`Convolves`).
* `Heap` takes one value more than its capacity and writes it one cell too far: `overrun`, which
  `HeapAgrees` says happens exactly then, and which ends the behaviour. A list of the skip list may come out of its constructor with levels that are not
  initialised: that one is `LostSkip`, and is followed no further.

## Runs

| Run | Bounds | Shows |
|---|---|---|
| `primitives` | lock: 4 threads; queue: 2 cells growing to 4, 2 workers, 1 payload, session 1; timer: 2 near lists, 3 lists per level, 2 timers of 0, 1, 6 or 33 ticks, 140 ticks, catch-up of 1 or 2 | counters and threads agree (`LockInv`), exclusion, refinement of `ReadersWriters`, and `WriterGetsIn`; ring indices valid, refinement of `Mailbox`, a queue kept out of the global queue has somebody who brings it back (`SomeoneBringsItBack`); every node where its expiry says, refinement of `TimerService`, every timer fires |
| `message_queue_unlock` | the same queue, 2 payloads | **violated**: the unlocking message does not come first |
| `message_queue_locked` | 1 worker, 2 payloads, in at most 3 slots | **violated**: a push, then LOCK, and the worker is handed the locked queue |
| `dispatcher` | 2 workers, 1 sender, 1 retirer, 2 contexts, 2 slots, 3 messages each | reference counts exact; nobody with a reference touches anything deleted; each message popped in order and dispatched once (`EachOnce`); `in_global` is 0 only while a worker has a message of the queue (`ZeroIsDispatching`) |
| `dispatcher_calling` | 1 context, 2 messages | **violated**: two workers inside one callback |
| `dispatcher_mark` | 1 worker, 1 context, 2 messages | **violated**: an empty pop leaves `in_global` 1 and the queue in no slot; a message pushed then waits for ever |
| `dispatcher_drop` | 1 context, 2 messages | **violated**: a dropped queue leaks its messages |
| `handles` | 3 threads, 2 launches, 2 names, harbor 0 | counts exact, deleted contexts unreachable, name maps agree, only initialised contexts scheduled, failed launches leave nothing, ABORT complete |
| `handles_abort` | 2 threads, harbor 1 | **violated**: ABORT finds nothing |
| `handles_names` | 2 threads, 2 names | **violated**: a second name survives retirement |
| `node` | multicast: handles 1, 2, 3, of which 2 may have no callback, 3 commands between casts, 2 casts; registry: 3 threads, 1 launch, 2 names, harbor 1; groups: 2 services, 2 groups, 2 contexts, 4 commands; modules: 2 threads, 5 names, room for 2; delivery: 2 contexts, 1 of them possibly without a callback, 2 callbacks at a time, 3 buffers, 1 message per queue, 1 shared entry; monitor: 2 contexts, 3 dispatches | `combine_queue` computes `(members \cup entered) \ left`; `m_ref` counts exactly the receivers to come and every message is deleted unless a receiver died with it in its queue, or freed it for want of a callback; every retired context is deleted; a group's context is sent each service's commands in the order of the table, and nothing else; a module is loaded once and everybody gets the same complete entry; data has one owner, with three exceptions that the property names; a callback that never returns is reported, and its context flagged while it is in the table |
| `library` | trees of 6 keys, 6 ranked nodes and 4 intervals, 2 deletions in each of the latter two; maps of 4 keys, 2 levels; 4 cells, lists 2, capacity 4, priorities 0, 1, 8, 15 below 16; arrays of 5 out of 3 values; graphs of 3 and 4 vertices, 1 self-loop deleted; grids of 3 by 3, 2 by 3 and 3 by 2 with every set of walls; `INT_MAX` 31; numbers of 3 digits to the base 4; keys of 16 bits with an `int` of 8, in bases 3, 5, 7, 13; 3 perfect keys; strings of 4, one symbol of 4 above 0x80; 2 words; 13 bytes in blocks of 4 | every structure holds what was put in, in the order the property states; sorting, Dijkstra, flow, spanning trees, Huffman trees and subsequences give the optimum for every small input and every outcome of `rand()`. The others do so on the inputs their property names, and it says what happens on the rest: Bellman-Ford is right exactly if nothing overflows, A* on square grids and to another cell, `m_based` for keys whose first quotient fits an int, a Bloom filter for strings that hash within its bits, `encode` for more than one symbol, all in the sample and below 0x80, segmentation for the words of the file |

Why the bounds are enough:

* *primitives, lock*: two readers and two writers in every mixture; the proof covers any number.
* *primitives, queue*: two cells expand at the second message, with `head` at either; four cells
  allow a full ring that has wrapped. Stale cells are part of the state, so the arbitrary cell
  of `pushhead` is explored against all contents. One worker and three slots are enough for a
  queue that is scheduled, locked, and handed out again.
* *dispatcher*: one usable slot besides slot 0 makes two queues collide; two workers are
  enough for one slot read twice, and for a drop against a drop. Three messages expand a
  queue of two cells with its head at 1.
* *handles*: a launcher, a pusher and a retirer are the three parties of each race in
  `create`; two launches let a handle read from freed memory hit the other context.
* *primitives, timer*: spans 2, 8, 32 and 128; 33 ticks cross two blocks from anywhere, and the block
  boundary at 128 is where the last part is used.
* *node, multicast*: three commands before each of two casts give every merge of up to three new
  handles into up to three old ones, duplicates and strangers among those that leave included;
  members found dead by the first cast leave in the second. Two casts let one message be
  dispatched while the next is sent. One member of three without a callback leaves two receivers
  with the message it frees.

* *node, registry*: one launch with two other threads gives every order of look-up, release
  and retirement for one context; two launches at a time are in `handles`.
* *node, groups*: two services on two groups cross a look-up with a clear and a new entry;
  four commands are ENTER, CLEAR, ENTER and LEAVE of one group with the first ENTER still on its way.
* *node, modules*: two threads miss one name together, with room left and without; the
  full table is reached, and of the five names one cannot be opened and one has no init function.
* *node, delivery*: three buffers are a message, its copy and a log of its loss; a queue of
  one message holds it back while its context retires; two callbacks of one context read
  and reset each other's `m_forward`.
* *node, monitor*: three dispatches give the checker a version it compared before the first
  and copies after the second.
* *library*: six keys reach every deletion case of a red-black tree, on both sides; a ring
  of four cells and a heap of four wrap and fill; arrays of five have pivots at every place; two
  orders of a four-vertex list make a relaxation come before and after its source's; three
  digits carry twice; 13 bytes are three blocks of four and one more, and pass the low word of the bit
  count (32) and its high word (3 * 32). Five values fill a heap of four beyond its end. Of the
  priorities two are in the upper half of the range; 31 as `INT_MAX` overflows at every weight above
  0; on a grid of two by three a row has more cells than the array has rows; the keys
  have quotients below, at and above half an int's range, and 2^8 - 1 has divisors among the bases (3, 5).

`CHECK_DEADLOCK FALSE` is set for `dispatcher*` (all workers may end up in memory that is
freed, and the message bound stops the senders), `message_queue_locked` (the cells' bound stops
the pushes, and a locked queue waits for one), `primitives` (the bound stops the clock), `node`
(the bounds stop the casts, the commands and the triggers) and `library` (an algorithm that
has run is done).

Fairness. `RWLock`: a thread inside an operation or a section runs on (sections are tree
operations that do not wait); nobody has to call. `Handles`: the same, and the `init` and
`release` functions of modules return; no thread has to begin a call. `Timer`: `updatetime` is
called again and again (timer.h:66). `Node` has each part's own: in `Multicast` a callback
that casts runs on to its end (nothing in it waits), and workers dispatch what is queued; the
registry's threads run on as in `Handles`; the monitor's thread goes on checking, while the worker
it watches may stop anywhere (`StuckIsReported` is about one that does). `Groups`, `Modules`
and `Delivery` have none: their spin lock gives no waiter a guarantee. `Dispatcher` has no fairness and no liveness: a test-and-set
spin lock gives no waiter a guarantee, and a worker that re-pushes a retired context's queue
(mq.h:257) can hold it off for ever.

## What is proved

TLAPS proves, for every value of the constants, every safety property that the passing runs
check of the runtime, and of the library that its lists, queues and heaps agree with sequences
and sets, that it sorts, and that its search tree, skip list and hash table are maps: 26
invariants, 4 refinements and action properties, and the inductive invariants they follow from.
A proof has the same shape everywhere: the initial states satisfy the invariant, every action
keeps each of its conjuncts, the property follows. One theorem more is about functions only:
that the long integers compute what arithmetic says.

| Theorem | Says, for any constants |
|---|---|
| `TableProofs`: `TypeCorrect`, `MutualExclusion`, `Implements` | any finite number of threads: a writer is alone; the lock implements `ReadersWriters` |
| `MessageQueueProofs`: `TypeCorrect`, `MailboxImplemented`, `BroughtBack` | any capacity, payloads, sessions and workers: the ring implements an unbounded `Mailbox`; a queue that its mark keeps out of the global queue has somebody who brings it back |
| `DispatcherProofs`: `TypeCorrect`, `RefCountsCorrect`, `HeldCorrect`, `EachOnceCorrect`, `ZeroCorrect` | any number of workers, senders, retirers, contexts and slots: counts are exact, who holds a context finds it, each message popped in order and given to the callback once, `in_global` 0 only while a message is dispatched |
| `HandlesProofs`: `TypeCorrect`, `RefCountsCorrect`, `DeletedCorrect`, `NamesCorrect`, `ScheduledCorrect`, `FailedCorrect`, `AbortCorrect` | any threads, names and launches below 2^24; `AbortCorrect` assumes harbor 0, as `handles_abort` refutes it for others |
| `StructuresProofs`: `TypeCorrect`, `WheelCorrect`, `ServiceImplemented` | any number of lists per part, any timers, any time within the five parts: the wheel implements `TimerService` |
| `StructuresProofs`: `QueuesDeliver` | any entries, capacity and keys, any sequence of calls: the linked lists, the ring queue, the stack, the priority queue and the heap hold what was put into them and yield it in order, the priority queue in that of an int; the heap is overrun exactly by the first entry above its capacity |
| `StructuresProofs`: `SortingSorts` | arrays of any length, any natural values, any radix of four digits, whatever `rand()` gives: the sorts sort, selection selects, the shuffle permutes, `remove_dup` keeps every value |
| `TableProofs`: `MapsFind` | any keys and values, any number of levels and any coin, any table size within a word: after any sequence of calls a look-up in the search tree, the skip list or the hash table finds what a map would hold |
| `TableProofs`: `ArithmeticIsExact` | any number of components, any width of one, any base of the digits below a component's: sums, differences, products, quotients, remainders, order and digits are what arithmetic says, and a string is read for what it spells |
| `NodeProofs`: `ModulesCorrect`, `GroupsCorrect`, `CountCorrect`, `CombineCorrect`, `OwnerCorrect` | any threads and names; any services and groups; any group size, command queues and set of members without a callback; any contexts and buffers, with or without a callback |

### The invariants and why they are needed

* **`RWLock`: `LockInv`.** `read` is the number of threads between increment and decrement,
  `write` is 1 exactly while one thread is between test-and-set and unlock, and a writer inside
  saw no reader that can still get in. The first conjunct carries the argument at `w_drain`:
  `read = 0` means that nobody is counted, so nobody is inside. The second carries it at
  `r_check`: a reader that sees `write = 0` knows that no writer has got past its test-and-set.
* **`MessageQueue`: `IInv`.** The queue is one whose indices are inside its array (`MQOver`).
  `Contents`, the messages from `head` on, is the mailbox. `MQProofs` has a lemma for each
  operator: a pop takes the first, a push appends, an expansion copies in order whatever `head`
  is, and scheduling leaves the messages alone. These are the only facts about the ring that
  `MessageQueueProofs` and `DispatcherProofs` use. `SomeoneBringsItBack` is inductive with the types:
  its three conjuncts hand the queue on to one another. Two lemmas, `MQProofs`' `ContentsFacts` and
  `CountFacts`, carry the wrap-around.
* **`Dispatcher`: `IInv`.** The properties are not inductive alone. `SlotInv` says that what a
  worker is about to read, and what it has read, is a queue. `RefInv` counts the holders and
  the table's entry, `ReleaseInv` orders the last release, the mark and the deletions, and
  `LeakInv` says that only a released queue is emptied by `drop_queue`, which keeps a drop out
  of `EachOnce`'s account of who has what. `Numbered` tells the messages of a queue apart, so that
  a set of those started says that none was started twice.
* **`Handles`: `IInv`.** `TableInv`: a handle in the table is its context's, and the handles
  given out are counted by `handle_index`. `CallInv`: what a thread may rely on about the
  context it works on, label by label. `LaunchInv`: two launching threads have two contexts,
  and what has no queue yet has a launching thread. `RefInv`: the count is 2 from the start of
  `create`, before there is a table entry to count, and after `reg` exactly the table's entry
  and the holders. `AbortCorrect` needs `AbortInv` besides: a handle that was there when the
  abort began is gone or still ahead of it.
* **`Timer`: `TimerInv`.** `WheelInv`, the order within every list, and ids that are not above
  `count`. The arithmetic comes first: with `Block(p, t)`, a time without its digits 0 to p, a
  node's part is the lowest in whose block it is (`PlaceFacts`); hence a node in the list of
  this tick expires in this tick and in no other (`PlaceNow`); at most one part is due for
  redistribution at a tick (`CascadeOne`), and a node whose place changes at a tick is in
  exactly the list that is redistributed then (`PlaceStep`). `RedistributeFacts` lifts this to
  the lists. The order survives since nodes of one tick are all in one place before a tick and
  all in one place after it.
* **`Modules`: `ModulesInv`.** The lock's exclusion, what the thread inside has found out at
  each label, and that an answer is right for ever (`Right`): the table only grows.
* **`Groups`: `GroupsInv`.** Who has read a context and has still to send to it, although the
  lock is given back, has it for that group (`GroupsOwner`); contexts have been told what the
  table took, but for an ENTER on its way (`GroupsTold`); a context that is no group's has one CLEAR, and only ENTERs after it
  (`GroupsCleared`).
* **`Multicast`: `MulticastInv`.** `McExact` is the count of every message, freed or not, `McTorn` says
  that only a member without a callback tears one, and `McSent` says that only members before the one `cast` is at have it. `CombineCorrect` is
  about the loops of `combine_queue`: `Merging` is the invariant of the two that merge (what
  lies above `new` is the sorted union of the members above `old` and the handles above `k`,
  and there is always room between `new` and `old` for what is left of the enter queue),
  `Removing` that of the two that remove. Each is kept by every turn, and a measure shows that
  the turns taken reach the end.
* **`Delivery`: `DeliveryInv`.** `Placed`: every buffer is in exactly one of six kinds of place
  (a caller, a queue, a callback, the harbor, freed, leaked), a queue or a callback has it
  once, and the worker's hand has it between two places. Each helper (`Free`, `Push`, `Copy`,
  ...) has a lemma that moves a buffer, and each action is a chain of them.

* **`Queues`: `QueuesInv`**, one conjunct per structure.
  * Lists (`Agree`): `next` and `prev` lead around the ring of a list's head and its entries
    (`Ring`, `Visits`), no list has an entry twice, and no two share one. Every operation
    replaces an arc of a ring by another or joins one ring into another; the lemmas are about that.
  * Ring queue and stack (`RingInv`, `StackInv`): the element of every index of `model` is at a
    known index of the array, `(front + i - 1) % Capacity` for the ring; the next one goes behind
    `rear`, which starts at -1.
  * Priority queue (`PQInv`): a sequence in order of its keys, whose elements are those still in.
  * Heap (`HeapInv`): every cell but the first has a parent that is not larger, and the cells are the
    values that are in, each once. The loops move a *hole*: the array in the middle
    of one is neither a heap nor the same values. The proof fills the hole with the entry that
    moves (`Filled`). Then a turn of `SiftUp` or `SiftDown` switches two cells, so the values
    survive every turn, and the order is broken at the hole only (`Rising`).
* **`Sorting`: `SortingInv`** says that a call returns one of its algorithm's outcomes; the
  work is in what these are (`OutcomeIsRight`).
  * That one array is another rearranged (`Rearranged`) is said by an injection of indices that
    leaves everything outside a range alone. It composes, and a swap is one; that every value
    occurs as often as before follows once, at the end.
  * `InsertionSorts`: the first n are in order after n turns. `MergeTurn`: what a turn copies is the
    least of what remains in both halves, and the copied indices are different.
  * `ExchangeTurn`: what lies before `i` is not above the pivot and what lies behind `j` is. From
    the second turn on both cursors move, so that the turns `Exchange` takes are enough
    (`ExchangeEnds`); the first may move only one of them.
  * `MergeSorts`, `QuickSorts` and `Selects` are by the size of the range. They use of a partition
    only that it leaves the pivot between what is not above it and what is.
  * `RadixSorts`: a digit's turn is stable. The place of an element is how many come before it in
    the order by digit, then by index; this rank is injective, so it reaches every place
    (`Onto`). After turn `byte` the array is in order by the remainder modulo `Weight[byte + 1]`.
  * `RemovesDup`: what is kept is a subsequence of the input with every value in it. An element that
    moves up to the place just closed is not compared; it takes two duplicates to get it past,
    which is why the property excludes values that occur three times.
* **`Maps`: `MapsInv`**, one conjunct per structure.
  * Search tree (`BstInv`): every node has a depth below the number of nodes, and a child has a greater
    one (`Depths`), so a search has ended when its turns are taken (`BstStops`); a search for a key of
    the tree ends at that key. That the tree is ordered is never needed: a new key is hung where its own
    search ended, and a search for an old key that came past there would have ended there too (`OldIsFound`).
  * Skip list (`SkipInv`): each level leads from a node to the least greater one of that level
    (`Follows`), levels include one another downwards, and the level in use is not empty. Hence a
    search that goes down comes to the last node before its key on each level (`UpdateIs`). A level leads on
    to the node to be deleted exactly if the node is on it, so `delete_key`'s `break` skips nothing
    (`SkipUnlinking`).
  * Hash table (`HashInv`): a slot holds the keys that hash to it, each once and with its value
    (`SlotHolds`); a hash is the number of a slot (`InTable`), since the factors are powers of two.
* **`LongIntegers`: what a loop carries** has to be weighed with what is still to come.
  * `Balanced`: if at each component the operand and the carry that comes in make the result and the
    carry that goes out, the numbers differ by the first carry. The components are read from the top, so
    the claim about the most significant k components has the carry out of the next one in it. Sum, product and
    quotient are this lemma; for the difference the result and the subtrahend make the minuend. That the
    last borrow is 0 needs the same of what is too small (`Unbalanced`), as does the order.
  * Remainder (`ModuloIsExact`): with `Unread`, what the bits not yet read make, the number exceeds
    `result + power * Unread` by a multiple of the divisor at every turn. `power` starts
    unreduced, so that it is the divisor itself when that is 1; `result` stays below it.
  * Digits (`DigitsAreExact`): every division leaves less, so the turns end, and spelling the digits runs
    through what the divisions left in the opposite order.
  * Strings (`FromStringIsExact`): the size is taken once, from the number of digits; a number below a power
    of the base has nothing above that many components (`NothingAbove`), so neither of the two assignments
    of a turn loses anything.

### What they rest on

The assumptions are the modules' `ASSUME`s, which TLC evaluates in every run: thread sets are
finite; bounds and sizes are numbers, a ring has a cell, every part of the wheel a list; fewer
than 2^24 handles (handle.cpp:11 does not check it, and this is a listed hazard); a node's own
handles do not differ by 2^24 or more, so that `compar_uint`'s difference has the right sign;
the harbor's handle is not a local one; list entries are numbers other than the heads', keys and array elements are naturals, and
a list, queue or heap has room for one element; a map's keys are positive, and its hash has no more
bits than a word (hash_multi.h does not check it); a component has a bit, and ten is below its base. The wheel's time stays below the 32 bits of the five
parts (`MaxTimeAssumption`), as `m_time` starts at 0.

`Induction` makes loops provable. The induction theorems of TLAPS take a predicate, which the
provers cannot instantiate; `SetInduction` states induction for a *set* of numbers, and follows
from its theorem that the naturals are well founded. From it follow that a function
can be iterated (`Iterated`) or folded (`Folded`), which gives recursive functions such as
`MergeAll`, `RemoveFrom`, `AddNodes` and the loops of `Containers` and `Sorting` their values;
that every sequence can be sorted (`Sortable`), which makes `Sorted`'s `CHOOSE` choose something;
that a function on calls has a value when every call depends on smaller ones only (`Recursion`),
and is right when it is right for each call provided it is for the smaller (`SizeInduction`). `UpTo` is
induction up to a bound, for the turns of a loop; `QuotientIs` says that a quotient and a remainder
are found in one way.

`QueuesDeliver`, `SortingSorts` and `MapsFind` are theorems of `QueuesSpec`, `SortingSpec` and
`MapsSpec`, not of `Library`'s `Spec`: `Library` reaches RECURSIVE operators through its other
parts, and tlapm has no SMT backend in such a module.

### Model-checked only

* Liveness: `WriterGetsIn`, `EveryTimerFires`, `CastIsFreed`, `RetiredIsDeleted` and
  `StuckIsReported`. Fairness and ENABLED are out of the prover's reach.
* Five of the library's eight invariants: `TreesAgree`, `GraphsAgree`, `AlgorithmsAreExact`,
  `NumbersAgree` and `CodesAreRight`. The modules of the others have RECURSIVE operators
  (tree descents, graph searches, codes), which the provers cannot reason about. `NumbersAgree`
  has none, and what it says of long integers is `ArithmeticIsExact`; the rest counts functions
  modulo a prime, and needs Bertrand's postulate to have one and a word in which no sum wraps.
* The seven refutations, which are counterexamples.

## Findings

Seven runs show the code doing other than its comments or assertions say; `PROJECT.json`
quotes the lines:

* the unlocking message is not put in front (mq.h:296);
* two workers read one slot of the global queue and are in one callback (mq.h:84);
* a locked queue is dispatched when a push came before the LOCK (mq.h:181);
* an empty pop leaves a queue marked and in no slot, for ever (mq.h:181);
* the inverted loop of `drop_queue` (mq.h:327);
* `retireall` without the harbor bits (handle.h:92);
* names left behind by `retire` (handle.cpp:35).

Others are in passing runs, whose properties state what the code does, exception included:

* `ZeroIsDispatching`: 0 and 1 of `in_global` mean the reverse of mq.h:15-16, and the assertion of
  mq.h:153 does not hold;
* `CountIsExact`, `OneOwner`: a receiver without a callback frees a shared multicast message
  (dispatcher.h:42);
* `QueuesAgree`: priorities from 2^31 on go first (priority_queue.h:75), and a full heap takes one
  more (heap.h:84);
* `TreesAgree`: the i-th smallest for the i-th largest (dos_tree.h:159), and sizes and highs that a
  deletion leaves wrong (dos_tree.h:112, interval_tree.h:127);
* `GraphsAgree`: self-loops counted once and discounted twice (undirected_graph.h:122);
* `AlgorithmsAreExact`: the overflow of Bellman-Ford (bellman_ford.h:107), A*'s swapped bounds
  (astar.h:128, 130) and its way from a cell to itself (107);
* `NumbersAgree`: the digits of large keys (imath.h:44), the strings a Bloom filter forgets
  (bloom_filter.h:104), and `compare` of equal numbers, which never answers (integer.h:293);
* `CodesAreRight`: bytes from 0x80 on and samples of one symbol (huffman.h:101), and words added
  without effect (word_seg.h:154).

## Not modelled, and the plan

Not modelled for good: formatting and parsing in `Command` and `errorlog`, the files behind
`dlopen`, the Lua state of `Env`, the harbor service (its code is elsewhere), message contents.
The lazy, unsynchronised `instance()` functions are taken as called once before threads start.
The timer's clock (`_gettime` and its 24-bit wrap) is left out, as are negative timeouts.
Handles stay below 2^24 launches (`MaxLaunchAssumption`). `GlobalModules::insert` writes through
a local pointer that is null, and nothing calls it. A GROUP command acts for its sender only.

In the library: the compression functions of SHA-1 and MD5 (arithmetic without branches, checked
best against published vectors), the shifts of `Integer` and `Integer % Integer` (their loops
count an unsigned below zero or ask `compare` about equal numbers, and do not end), a perfect
table asked for a key it was not made for (its second-level slots are not initialised), the
word tags of `WordSeg`, printing and destructors. After a deletion from `DosTree` or
`IntervalTree` the property says that what is found is held, and that some index and some overlap
is missed, not which.

What is left to prove is the rest of the library, whose recursive operators would first become
recursive functions as those of `Sorting` did; first `RedBlack`, that a rotation keeps the order
and each case of insertion and deletion the black height.
