# Verification of ts_lib and its companions

TLA+ models, TLC runs and TLAPS proofs for the concurrent code of this repository:
the thread-safe containers and thread utilities of `src/cppprojects/include/ts_lib`,
and the small daemons of `src/c_projects`.

## 1. Inventory

| component | source | state | operations | how it interacts |
|---|---|---|---|---|
| `ts_queue` | `ts_lib/threadsafe_queue.h` | linked nodes, `m_head`/`m_tail`, a mutex for each end, condition variable, interrupt flag | push family, pop, pop_n, waits with and without deadline, clear, moves, notify, stop_waitings | global queue of the thread pool; client threads |
| `ts_stack` | `ts_lib/threadsafe_stack.h` | `std::stack`, one mutex, condition variable, interrupt flag | as the queue, plus try_lock_and_pop, swap | client threads (`tests/test.cpp`) |
| `ts_hashmap` | `ts_lib/threadsafe_hashmap.h` | fixed vector of buckets, a shared mutex each | insert, insert_or_assign, mapped_for, remove, copy | client threads |
| `ts_ex_hashmap` | `ts_lib/threadsafe_extended_hashmap.h` | the same behind a global shared mutex, a size per bucket | the same, size, load_factor, rehash | client threads |
| `tfg_flist` | `ts_lib/ts_fine_graited_flist.h` | singly linked nodes, a mutex each | push_front, for_each, for_first_of, remove_if, remove_first_if, clear, empty | user callbacks run under node locks |
| `hierarchy_mutex` | `ts_lib/hierarchy_mutex.h` | mutex, its level, the level before it; per thread the current level | lock, try_lock, unlock | client threads with several mutexes |
| `basic_thread_pool` | `ts_lib/threadpool.h` | global `ts_queue`, a deque and a thread per core, stop flag | assign_task, try_work, stop, destruction | tasks assign tasks and help while they wait |
| `jointhread`, `thread_guard` | `ts_lib/jointhread.h`, `thread_guard.h` | a `std::thread` | moves, join, detach, destruction | owned by the pool |
| fd passing | `sockets/sendrecv_fd.c` | a stream of bytes with attached descriptors | send_err, send_fd, recv_fd | two processes |
| ruptime | `sockets/server.c`, `client.c` | sockets, child processes | serve loop, connect_retry, print_uptime | client, server, child |
| test_daemon | `daemonize/daemonize.h`, `test_daemon.c` | lock file, signal mask and handlers | start, single-instance check, signal thread | several instances, signals |

Hard behaviours: pushes and pops of `ts_queue` that hold different mutexes and meet at the
dummy node; notification without the waiter's mutex; hand-over-hand locking; rehash against
readers; stealing and nested helping in the pool; exceptions of user types in the middle of an
operation; stream reads that split messages; forks, signals and locks that outlive a crash.
`PROJECT.json` lists each under "hazards" at its line.

What makes each correct: the queue and the stack neither lose, duplicate nor reorder values
and release their waiters; the maps hold one pair per key across rehashes; the list never
touches a freed node and a traversal sees what stays exactly once; hierarchy_mutex excludes
circular waits; each assigned task of the pool runs exactly once and helping never blocks for
ever; a descriptor or an error arrives as it was sent; one instance of the daemon runs.

## 2. Plan

1. `TsQueue` against the abstract `FifoQueue`, proofs in `TsQueueProofs`, the refinement included - done.
2. `HierarchyMutex` and `HierarchyMutexProofs` - done.
3. `FineGrainedList` with the proofs that no freed node is touched and of what traversals meet - done.
4. `ThreadPool` with its recursive client; `ThreadPoolProofs`: a task is in one place, nested helping
   closes no circle - done.
5. `ExHashmap` against the abstract `MapSpec`; rehash of an empty map; `ExHashmapProofs`: one pair per key,
   sizes, complete scans, the refinement - done.
6. `TsStack` and `StackDrain`, the draining client of `tests/test.cpp`; `Hashmap`, the buckets of
   `ExHashmap` without rehash and sizes; `FdPassing`, `TestDaemon` and `Ruptime` - modelled and checked
   together (`MCBench`); `TsStackProofs` and `FdPassingProofs` - done.
7. `BenchProofs`: one daemon, ruptime's chain of servers and its clients' retries, copies of a `ts_hashmap`,
   and the five components of `MCBench` side by side - done. Every safety property a passing run checks is a theorem;
   liveness is left to TLC.

Each module has its parameters as CONSTANTS with named assumptions, one action per step that
another thread can see, and no RECURSIVE operators. Invariants are conjunctions of named parts
so that the proofs can cite them.

## 3. Modules

### TsQueue, FifoQueue

`TsQueue` models every operation of `ts_queue` at the granularity of its critical sections and,
where two mutexes are in play, of its single pointer writes. `next`, `data` and `free` are the
heap: `data[n] = NoValue` stands for `initialized == false`, and freed addresses are reused.
`emplace` and `push_range` are one operation: build the new nodes with no lock (`BuildSublist`),
lock the tail (`LockTail`), construct the first value in the dummy node (`ConstructData`, or
`ConstructThrows`), link (`LinkSublist`), advance `m_tail` (`AdvanceTail`), notify with no lock
(`NotifySome`). The pops lock the head, read the tail under the tail mutex (`Look`), then move
values out (`Take`, or `MoveThrows`); the waiting ones go to sleep (`Park`), wake by a
notification, a deadline (`Timeout`) or for no reason (`WakeSpuriously`), and look again.
`clear`, the move to another queue and the assignment are called (`BeginBoth`, `BeginAssign`) and then take both mutexes at once:
`LockBoth`, `ClearStep` node by node, `ClearDone` or `MoveIn`; `MoveOut` is one step. The list an assignment moves in is made when
it is called and is nobody else's, since the other queue's mutexes are taken together with this one's.

`FifoQueue` is the promise. Its state has, beside the sequence of values, the operation each thread is in with the arguments its
caller passed (`call`), until it has taken effect. A push appends that batch, all of it at once, and once, or throws and appends
nothing; a pop takes the oldest value, no more often than its count; "empty" and "timeout" are answered only on an empty queue; and only `clear` and
the moves do anything else to the values, each what it says: drop from the front, replace what is empty by the other queue's values,
or move everything away. In `TsQueue` a push takes effect when `m_tail` advances, a pop when a value is moved out.

Abstractions: values are model values; durations are absent, so a deadline may pass at any time;
`pop_n`'s return value is the sequence it got. The two moves take the allocation of the new dummy
to succeed. A node's value and its successor are apart: `m_storage` is declared as `std::aligned_storage<...>` without `::type`
(`threadsafe_queue.h:30`), an empty class, so this is so for a `T` of at most 8 bytes, and a larger one is constructed over `m_next`.

### HierarchyMutex

`here[t]` is the thread-local `this_thread_h_`, `prev[m]` is `prev_h_`. `lock` is three steps:
the check, the acquisition, the update; `try_lock` may fail, also for no reason. A violation throws
and changes nothing, so a call that would throw is simply not enabled. The maximum of `size_type`
is the constant `Top`.

### FineGrainedList

`next` is `m_next` of the nodes and of `m_before_begin`, `lock[n]` the holder of a node's mutex, `free`
the addresses not allocated. `prev[t]` and `cur[t]` are `prev_cptr` and `cur_cptr`; an address stays in
`cur[t]` while another thread may delete the node, which is what the invariant excludes. A traversal
begins when it gets the head's mutex (`Enter`), looks at the next node (`Step`), locks it (`LockNext`),
and then either lets go of the node before it and runs the user's code (`LetGo`, `Visit`), or tests it
with both held (`Keep`, `Unlink`, `Delete`). The user's code is a set of accepted values, and may throw
(`Throw`). `clear` is `remove_if` of everything, as in the code. `stays`, `passed` and `before` are history
variables that only the properties read. `empty()` reads one pointer under the head's mutex and is left out.
What is linked behind a node is the smallest set closed under `next` that holds its successor (`Reach`), so that
no recursion stands in the way of the proofs. `OneAtATime` reads the list as its nodes and which of them is
ahead of which (`Listed`, `Ahead`): a step adds one node at the front, takes one out, or leaves both as they are.

### ThreadPool

`inner[w]` is a worker's deque, `global` the `ts_queue` (atomic here, which `TsQueue` justifies), `stack[t]`
the tasks thread `t` is running, each started while the one below it waits. `pc` walks through
`thread_worker` and the three parts of `try_take_task`; each is one critical section. What tasks do is the
client's choice: assign (`Assign`), wait for a future by `try_work` as `f1` in `tests/test.cpp` does (`Help`),
call `stop()`, end (`Finish`, also for an exception, which the packaged task keeps). `Destroy` and `Drop` are the destructor: stop, join (members
are destroyed in reverse order, `m_threads` first), then the queues with what is left in them.

The pool does not own its tasks. `ptask_wrapper` makes an `impl<decltype(pt)>`, which is an `impl<std::packaged_task<T()>&&>`, so `m_callable`
(`threadpool.h:24`) is a reference to the packaged_task that `assign_task` was called with. A task in a queue, a hand or a stack of the model is such a
reference; `keeper[k]` is who has the object. Either it is a local variable of the code that assigned it, which waits for
the future before it ends, as `f1` (`tests/test.cpp:63-67`) and `main` (:91-93) do; or it lies outside, in code that was there before the pool
and is there after it (`Outside`), and then nobody inside need wait for it. A caller that does neither leaves a dangling wrapper; no code of the repository does so
unless `f1` throws between `assign_task` and its loop, which the model leaves out. With callers as assumed it remains to be shown that the pool
keeps no wrapper for longer (`NothingDangles`), and that it does not forget one (`RunsOnce`, `OnlyOutsideLeft`, `WaitedForRuns`). Destroying a queue
destroys references only: the tasks are `left`, not called any more, and no promise is broken by it. A task counts as done, and as off its stack, from the moment at which its future
is ready. That its owner may destroy the packaged_task before the thread that ran it has returned from `std::packaged_task::operator()` is
not modelled: what is left of that call is the library's.

### ExHashmap, MapSpec

A bucket is its list of pairs and its `m_size`; `global[t]` and `held[t]` say how a thread holds `m_mut` and
the mutex of its bucket. A call on one key enters (`Enter`: shared lock and `bucket_for`), locks the bucket
and searches it (`LockBucket`), and applies what it found (`PushFront`, `FindPresent`, `Erase`, `MappedFor`, or
`CopyThrows`). `copy`, `size` and `load_factor` visit the buckets one at a time (`Visit`, `Report`); after
a `load_factor()` above 1 the caller may rehash, as the stress test does. `rehash` counts, allocates, moves
one pair at a time and swaps (`LockAll`, `Count`, `Move`, `Swap`), and each of its steps may throw. A call on a map
without buckets ends the program (`crashed`): the remainder by zero is undefined.

Sums over the buckets (`size()`, the load, the pairs `rehash` counts) are written as the number of elements of a set of
units (`Units`), one for each pair or each count of `m_size`, again to avoid recursion. What the map holds is read off the buckets
(`PairsOf`), and the answer of a call off its local variables; that is the refinement mapping.

`MapSpec` is the promise: one value per key, and a moment between a call's beginning and its answer at which it takes
effect. A rehash whose hasher throws loses the pairs in `tmp`; `MapSpec` admits that (`Lose`) because
the code does it.

### TsStack, StackDrain

`ts_stack` has one mutex, so a push, a pop or a `clear` is one step; the waiting pops are three: test (`Look`),
sleep with the mutex given back (`Park`), and test again after a notification, a deadline or nothing (`WakeAlone`). What
matters is between them: a push adds under the mutex and notifies without it (`Push`, `Notify`), `stop_waitings` does both under it.
The count of a `pop_n` and whether a wait has a deadline are chosen where they are first used, which allows
the same behaviours as choosing them at the call. A push or a pop whose element operation throws stops after the
elements before it (`Throws`). `quiet` is a history variable: a value was pushed without a notification, a `push_range`
notified one waiter for several values, an exception ended the pop of an awakened thread, or `swap` brought values; in these
cases a sleeper beside a value is what the interface says. For all others `NoStrandedValue` says that each value has a thread on its way.

`StackDrain` composes `TsStack` with the pusher and the poppers of the third block of `tests/test.cpp`; what they call are the
actions of `TsStack`, with a flag and a program counter around them. The start through `cv` and the sleeps only delay and are left out.

### Hashmap

`lists` are the buckets; a call on one key is atomic under the mutex of its bucket. `RemoveIf` is the walk of `remove_if` along
the list, as a recursive function. `copy` takes one bucket at a time
(`BeginCopy`, `CopyValues`). It is no snapshot; `stayed` and `met` record which pairs were there all along and which at
any time, and `CopyKeepsUp` bounds the result between them.

### FdPassing

`wire` is the sequence of bytes written and not read, a zero byte carrying the number of its message and a code byte its descriptor.
The text of `send_err` is a run of equal bytes that are not zero; `userfunc` may fail wherever it is called. `recvmsg` returns as much as the buffer holds
and stops behind a descriptor, as Unix stream sockets do. `Receive` is one round of `recv_fd`'s loop: the first zero
byte decides. A protocol violation ends the process (`dead`). `AnswersAsSent` is what the protocol promises; `risky` names the
writes for which `recv_fd` aborts instead, and `AbortsOnlyIfRisky` that there are no others: a message written behind an unread error message,
text that fills the buffer but for one byte, and a code that is a multiple of 256 (`send_fd`'s comment "not zero is error").

### TestDaemon

Each instance is one start of the program: the forks of `daemonize`, the ignored SIGHUP, the closing of all descriptors, then open, `flock`,
`ftruncate` and write of `already_running` as separate steps, each of which may fail unnoticed (`unwritten` is a history variable for the property), the default SIGHUP, the mask, the signal thread. Signals may come and
crashes happen at every point. The lock is the kernel's: it goes with the process, the file stays. Of the two processes of a fork only the
one that goes on is modelled.

### Ruptime

`doing` is where each process of the server is in `serve()`; a child has its parent's descriptors (`clfd`, `std`), the parent waits for it.
When `execl` fails the child goes on to `accept`, with the connection it could not serve still its standard output, while its parent
waits for it for ever; `ClientEnds` says that all other clients are served. The processes then form a chain in which each waits for the next and the
last one works; `OneServes` says so, and that none that waits keeps a connection open, since its client would wait for ever. A connection is at its
end when no process has it. `connect_retry` sleeps 1, 2, 4 ... seconds in a `size_t` of `SizeRange` numbers.

### MCBench

These five components share nothing. `MCBench` extends them all and puts small instances of them into one run: the initial state
chooses one of them, and only that one moves, so that the reachable states are the union of theirs.

## 4. Runs

| run | instance | shows |
|---|---|---|
| `queue` | two producers, two consumers, one of them also clearing, moving and stopping; 3 addresses, 2 values, batches of 2 | the inductive invariant, no pop on an empty queue, no lock deadlock, refinement of `FifoQueue`, batches and outcomes included |
| `queue_stop` | one producer, two consumers, one stopper; fairness | `stop_waitings` releases every sleeper for good |
| `queue_lost_wakeup` | one producer, one consumer; fairness | expected violation: the notification of `push_and_notify_one` is lost |
| `hierarchy_mutex` | 3 threads, 5 mutexes, two of equal and one of maximal level | level stack, no circular wait, levels restored |
| `flist` | one pusher, one walker, one thread that does both; 3 addresses, 2 values | the inductive invariant (no freed node is touched), a traversal meets what stays exactly once, no overtaking, every step is a push, a removal or nothing |
| `flist_live` | one pusher, two walkers; 2 addresses; fairness | every traversal ends |
| `pool` | 2 workers, the main thread, 4 tasks | a task runs once, no wrapper outlives its packaged_task, nested helping closes no circle, the destruction drops no task that is waited for |
| `pool_live` | the same with 3 tasks; fairness | what is awaited runs, also after `stop()`; destruction ends |
| `ex_hashmap` | 3 threads, 2 keys whose hashes agree modulo 2, 2 buckets at first, load 0.7 | one pair per key in its bucket, sizes suffice, scans are complete, `rehash` meets its load factor, refinement of `MapSpec` |
| `ex_hashmap_stress` | inserter, remover and guarded rehasher of the stress test | expected violation: a map without buckets |
| `bench` | a `ts_stack` of 3 threads, up to 3 values and ranges of 2; a stream of 2 messages, text of 2 bytes and buffer of 3, bytes of 3 values; 3 starts of test_daemon; 3 processes and 2 clients of ruptimed, waits up to 0, 5 and 7 s in a `size_t` of 16 numbers; a `ts_hashmap` of 2 buckets, 3 keys, two of them in one bucket, and 2 values; fairness | no value is stranded and no interrupted thread sleeps; answers come as sent and `recv_fd` aborts only where said; one daemon, no signal forgotten; one process of ruptimed serves at a time, clients are served and retries bounded; a copy keeps up |
| `stack_drain` | one pusher, two poppers, 3 values; fairness | expected violation: the poppers sleep for ever |

Bounds. Three addresses hold a dummy and two values, or a dummy and the sublist of a push_range of
two: enough for an address to be freed and reused while others look at the list. `MaxBatch = 2` lets
a `pop_n` stop between values and at a stale tail. A push is held to the batch of its caller, so a batch of two shows
a value lost, doubled or out of order, also with no room for a third. One producer is also a consumer and one consumer
also a manager so that each pair of operations runs concurrently with three threads. Four levels and
five mutexes allow a stack of three, equal levels and the maximal level.

Three list addresses let one node be pushed, one be walked on and one be deleted and reused at the same
time. With two workers and the main thread, four tasks let three be nested on different stacks while one
is queued; a deque's owner, its thief and the global queue all meet. Two keys share a bucket of two and
part in a map of three, so that a rehash merges and splits; `MaxExcess = 1` lets `m_size` be wrong once.

For the five small components: three threads let a value be stolen from an awakened thread while a third one goes to sleep. A buffer of three bytes
holds a whole message, a message and half of the next, and text that just fills it; two messages are enough to join,
to cut and to drop one. Three starts let one daemon crash, one win and one lose at the same time. Each client of ruptimed can cost one process for
ever, so three processes serve two clients. Of 16 numbers a wait of 7 s is the largest whose doubling does not wrap;
`connect_retry` of 2^63 s and more would not end, and the program passes 120.

Fairness. `FairSpec` of `TsQueue` asks weak fairness of each thread's steps inside an operation, which is what an
operating system scheduler gives to threads that can run; mutexes are not assumed fair. No operation
must ever be called, and no spurious wakeup must happen. The deadline of a timed wait passes eventually.
In `FineGrainedList` a traversal that has begun goes on when it can, and the user's code returns or throws; no fairness of
the mutexes is needed since traversals cannot overtake. In `ThreadPool` threads go on, waiting code of tasks helps
again and again, and the main thread destroys the pool when it waits for nothing; the main thread may block on a future instead
of helping until the pool is stopped. In `TestDaemon` an instance goes on unless it is stopped, and nothing is asked of crashes and signals; `sigwait` may prefer SIGHUP
for ever, which `SignalsAreTaken` allows. In `Ruptime` processes and clients go on, `uptime` ends, and no call need ever fail. In `StackDrain` all threads go on.

## 5. Proofs

`TsQueueProofs` proves, for any number of threads, nodes and values and any `MaxBatch`, that `IInv` is
inductive, and from it `TypeOK`, `ListShape`, `QueueIsntEmptyHere` and `NoLockDeadlock`. `ListShape`
alone is not inductive: a push that links its sublist must own nodes nobody else has (`PrivateNodes`),
a pop that takes the head must have read a tail still ahead of it (`LocalsInPlace`), and what a push
has written in the dummy must be known where it goes on (`DummyInPlace`); all of it depends on who
holds which mutex (`MutexesHeld`). The assumptions are those of `TsQueue`: finitely many addresses,
at least one, and names that stand for nothing are not in the sets they are absent from.

From the same invariant `QueueIsFifo` proves that `TsQueue` implements `FifoQueue`. The values are read along the list (`Items`), which
is possible since there is only one (`ItemsAlongList`); a step that leaves the nodes before the dummy alone changes none of
them. What remains to be known is that a push's values are where it has written them (`BatchInPlace`), so that the step that advances
`m_tail` appends its whole batch, and that the head a pop moves out is the oldest value. An assignment's nodes are in its caller's order in the same way. The operation of a thread is pending from its beginning to the step that shows its effect
(`Pending`). Each action is then shown to be a beginning, a push, a take, an empty answer, an interruption, a failure, a drop, a replacement,
a move, or nothing.

`HierarchyMutexProofs` proves that the levels form a stack (`LevelStack`), and with `BelowHeld` that no
thread locks what it holds, that exactly one held mutex can be unlocked, that a thread that holds
nothing is back at the initial level, and that waiting is never circular: of the waiting threads, the
one that waits for the lowest level waits for a thread that does not wait. The levels are any function
into `0..Top`.

`FineGrainedListProofs` proves for any number of threads, addresses and values that `IInv` is inductive,
and from it `TypeOK` and `NoUseAfterFree`. That no deleted node is in use needs that locks are where the threads
stand (`LocksHeld`), that a node has one predecessor (`OnePredecessor`: whoever would unlink it holds that one's
mutex), that a new or unlinked node is in one thread's hands (`HandsOff`), and that `cur` is the successor of the `prev` that is
locked (`Adjacent`).

`EachOnce`, `NoOvertaking` and `OneAtATime` follow there from a second invariant about ranks. The linked nodes can be given integers that fall
along `next` (`Ordered`): a new node gets the head's rank and the head one below it, and taking a node out changes no other rank. Linked is then
what a chain of falling ranks reaches, by taking the gap that is smallest. For every traversal, each node behind it that stayed since it began has been met
once, and each node ahead not yet (`Scanned`); of two traversals the one that began later stands at a higher rank (`InTurn`),
because it cannot get the mutex the other one holds.

`ThreadPoolProofs` proves `TypeOK`, `RunsOnce`, `NothingDangles`, `NoHelpingCircle` and `OnlyOutsideLeft` for any number of workers and tasks. An assigned task is in the global
queue, in one deque, in one hand or on one stack (`LiesIn`, `OnePlace`), and nowhere twice (`NoneTwice`), which is what a thief and an owner at the two ends
of a deque could break. The code that holds a task runs until it is done (`KeepersRun`): with `OnePlace` no wrapper dangles, and when all stacks are empty
what is left in the queues is from outside. For the circle, the running tasks are ordered by when they were started (`StartedInOrder`): a stack grows at the top, and a task waits only
for tasks it has assigned and holds, which start after it. If the tops of all stacks waited, with no task queued or in a hand, what the top
started last waits for would be on some stack, started later, and so would the top above it. The assumptions are that there is a worker, that the main thread
is none, that its own code is no task, and that `NoTask` and `Outside` are neither.

`ExHashmapProofs` proves `TypeOK`, `OnePairPerKey`, `SizesSuffice`, `ScanIsComplete` and `RehashMeetsLoad`, and that `ExHashmap` implements `MapSpec`
(`ImplementsMap`), for any keys, values and threads (finite or not), any hash function into the naturals, any positive number of buckets and any
load factor. The runs use one value; the theorems cover all. Readers and writers of the map and of each bucket exclude each other (`MutexesHeld`), so the place
that a search found is still right when it is used (`AtTheirKeys`). During a rehash each pair is in an old or in a new bucket, the one its hash names (part of
`OnePairPerKey`), the new buckets are as many as the counted sizes ask for, and their sizes with the pairs still to be moved stay within what was
counted (`Rehashing`); from it follows `RehashMeetsLoad`. A scan has seen what was there all along in the buckets below its place, and nothing that never
was (`ScansSoFar`). The refinement adds that a thread inside a call has no answer yet and one outside has (`Answers`): the step
that applies what was found is the moment at which the call takes effect.

`TsStackProofs` proves `NoStrandedValue` and `InterruptedNobodySleeps` for any number of threads and values, any bound of the stack and the batches,
with and without exceptions. A waiting thread has the mutex from its test until it sleeps, and the stack is empty then (`HeldToSleep`): no push
or `stop_waitings` falls between. For the values the proof counts the threads on the way (`OnTheWay`) against the length of the stack: a push
of one value adds a notifying thread, a `notify_one` turns a notifying thread into an awakened one unless nobody sleeps,
and an awakened thread leaves with a value, with the flag set or with the stack empty.

`BenchProofs` has the proofs of the three components that have no proof module of their own.

- test_daemon: `OneInstance` for any number of starts; what is added to it is that the lock belongs to an instance that has got past `flock`
  (`OwnerGotPast`), and that the file names only instances that had it (`FileNamesPast`). It assumes that `Nobody` is no instance.
- ruptime: `OneServes` for any number of processes. A process that waits has a child that is there, no two processes have the same parent, and
  the process with a connection is between `accept` and the end of `dup2` (`ChainInv`); so the end of a process wakes one other. `RetryBounded` for any number of clients:
  a client that tries again has slept one second less than its next sleep (`RetryInv`), half of the seconds is reached exactly
  when no attempt comes after this one (`HalfIsEnough`), and the doubling does not wrap. The assumption is that no client waits for half of the
  numbers of `size_t` or more (`PatienceAssumption`): for such seconds the time would become zero and the loop never end, but the program passes 120.
- ts_hashmap: `CopyKeepsUp` for any keys, values, hash into the naturals, positive number of buckets and number of copies. Every pair
  is in the bucket of its key and no key twice (`Placed`). A copy has keys of the buckets behind its cursor only, so the next bucket adds no key it has; it has
  what stayed in those buckets, and the whole map is within what was met (`CopiedSoFar`). What `remove_if` leaves (`RemoveIfFacts`) is a fact about a recursive function:
  that the recursion has a solution (`WalkExists`) and what it keeps after each pair (`WalkFacts`) are shown by the least place along the list where they
  would fail, since the theorems of induction cannot be used here.
- The five together: a step of `MCBench` is a step of one component that leaves the variables of the others, so `BenchIInv`, all their invariants at
  once, holds in each of its states, and with it `TypeOK`.

`FdPassingProofs` proves `AnswersAsSent` and `AbortsOnlyIfRisky` for any descriptors, any buffer and any number of byte values, texts and messages.
In every state a message's zero byte has its code byte behind it (`Paired`), messages are in the socket in the order they were sent (`InOrder`). If
all codes fit into a byte, a zero byte that `recv_fd` answers to is that of a message (`ZerosMean`), and every message newer than the last one returned is in the
socket or lost (`Accounted`); what the next answer skips then lies before the first zero byte of its chunk, where no message is. For
the second, as long as nothing risky was written each message in the socket has its code byte with a descriptor or at the end of the socket (`Whole`), and the
text before it, counted from the last descriptor or from the next byte to be read, does not fill the buffer but for one byte, whatever multiple of the buffer it
is longer (`RoomLeft`): a chunk then ends within text or exactly behind a code byte (`WholeChunk`). The assumptions are a buffer of at
least one byte, bytes of at least two values, and descriptors that are no integers, which tell the answers apart.

Model-checked only: liveness (`StopReleasesWaiters`, `PushWakesWaiter`, `TraversalEnds`, `DestructionEnds`,
`WaitedForRuns`, `SignalsAreTaken`, `ClientEnds`), which TLAPS cannot prove with fairness. The inductive invariants of `FdPassing`, `TestDaemon`,
`Ruptime` and `Hashmap` are stated in the proof modules; TLC agrees with them on instances like those of the runs.
`TypeOK` of `TsQueue`, `HierarchyMutex` and `FineGrainedList` and `NoSelfLock` are parts or consequences of the `IInv` their runs check, and
are stated by theorems only.

## 6. Findings

`queue_lost_wakeup`: the pushes append under `m_tail_mut` and notify with no lock, while a waiter tests
and sleeps under `m_head_mut`. A push that falls between the test and the sleep is not noticed.
`ts_queue_test.cpp:143` expects the waiter to return the value.

`ex_hashmap_stress`: `rehash` of an empty map makes zero buckets, and the next call computes a remainder by zero.
The stress test (`ts_hashmap_ext_stress_test.cpp:50-51`) guards `rehash` by `load_factor()>1.0`, but others may remove
everything between the two calls.

`stack_drain`: in the third block of `tests/test.cpp` the pusher stores `stop` (:230) and notifies nobody. The loop of the poppers is commented
"does not wait any, if can't pop now" (:239), but `wait_and_pop` does wait; when both poppers are asleep by then, nobody
calls `stop_waitings`, and the block waits for its jointhreads for ever.

Disagreements of comments and code without a run, since they need no model: `sendrecv_fd.h:11` says that `userfunc` is called with the bytes before the zero, while
`sendrecv_fd.c:94` calls it again at every byte of a chunk, and with the whole of it, zero and code included, until the zero is met; `log_funcs.h` says that `log_sys` ends the program with
2, while it returns (`log_funcs.c:27-32`); `threadsafe_stack.h:52` names a member that does not exist, so the move assignment does not compile when used.

## 7. Not modelled

`jointhread` and `thread_guard` own one `std::thread` each; they have no state that others see, and the joins that matter are in `ThreadPool`
and `StackDrain`. The start of the ruptime server (`initserver` over the host's addresses) runs before anybody can connect. Failures that nothing in the repository
speaks of are left out: of the allocation in the moves of `ts_queue`, and of the creation of a thread in the pool's constructor. So is a caller of the pool whose packaged_task ends before its future is ready. A second pool, which would share the thread-local
queue pointer with the first, is not modelled since no code makes one.

Google Test and CMake output are vendored or generated. The assembly exercises and the C++ examples are
sequential demonstrations. `err_funcs.c`, `log_funcs.c` and `getaddr.c` only format and write. Deletion
of long node chains recurses on the machine stack in the destructors of `ts_queue` and `tfg_flist`; the
depth of that stack is not modelled.
