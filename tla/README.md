# Verification of libk2

libk2 (`src/trunk/libk2`) is a portable C++ library: atomics and locks, once-only
initialisation, threads with cancellation, singletons with a controlled lifetime, tasks
at exit, pools of memory, clocks, addresses, TCP and UDP transports, processes.  This
directory holds TLA+ models of the parts whose correctness depends on the order in
which things happen, TLC runs that check them on small instances, and TLAPS proofs of
the most important properties for every instance.

Everything is read from the sources; a comment, test or manual of the repository is used
only as a statement of what the code ought to do, where a run compares the two.
Paths below are relative to `src/trunk/libk2`.

## The system

| component | files | state | operations | who calls whom |
|---|---|---|---|---|
| atomics | `k2/atomic.h`, `source/atomic.cpp` | an integer | `atomic_increase`, `atomic_decrease`, `atomic_assign` | everything below that shares memory |
| spin lock, guards | `k2/spin_lock.h`, `k2/scoped_guard.h`, `k2/fast_lock.h`, `k2/dummy_lock.h` | the counter `m_counter`, from -1 | `acquire()`, `acquire(timer)`, `release()` | pools and the atexit list lock with it |
| once control | `k2/thread_once.h`, `threading.cpp:101-121` | `started`, `done` | `run()` | singletons construct with it |
| thread | `k2/thread.h`, `threading.cpp:261-513` | `thread_cntx`: state, exit cause, cancel flag, mutex, condition; the handle | `spawn`, `spawn_detached`, `cancel`, `join`, `join(timer)`, `~thread`, `test_cancel`, `cancel_enabled` | spawner, users and the new thread share the context; it finds its own through `tls_ptr` |
| mutex, condition | `k2/mutex.h`, `k2/cond_var.h`, `threading.cpp:122-223` | the pthread objects | acquire, release, wait, signal | thread, the programs |
| atexit | `k2/runtime.h`, `source/runtime.cpp` | a list of tasks by priority, a lock | `atexit()`, `init()`, `fini()` | called by singletons; calls the user's routines at exit |
| singleton | `k2/singleton.h` | a once control and raw memory per instance | `instance()` | uses the once control and atexit |
| pools and allocators | `k2/pool_alloc.h`, `k2/auto_alloc.h`, `k2/memory.h` | blocks, a list of free chunks, a lock | `alloc`, `dealloc`, destructor; `allocate`, `deallocate` of the `shared_pool_allocator` | containers of the programs |
| TCP streams | `source/transport.cpp:195-446, 586-690`, `k2/ipv4_tcp.h` | a descriptor; locals of the loop | `read`, `write`, `read_all`, `write_all`, each also with a timeout | over `select`, `send`, `recv` |
| listener, connect | `source/transport.cpp:258-343, 520-585` | a descriptor | `accept`, connect, each also with a timeout | makes streams |
| UDP | `source/transport.cpp:447-519, 683-738` | a descriptor | `read`, `write` | over `select`, `sendto`, `recvfrom` |
| time | `k2/timing.h`, `source/timing.cpp` | a 64-bit count of milliseconds; a calendar computed on demand | arithmetic with clamps, `expired()`, calendar fields | all timeouts |
| addresses | `k2/ipv4_addr.h`, `k2/ipv6_addr.h`, `source/addr.cpp`, `k2/net.h` | immutable values | comparison, packing, resolution | transports |
| tls | `k2/tls_ptr.h`, `threading.cpp:224-258` | a key, a pointer per thread | `get`, `reset`, `release` | thread |
| process | `k2/process.h`, `source/process.cpp` | a process id | constructor, `join` | the system |
| utilities | `type_manip.h`, `utility.h`, `assert.h`, `errno.h`, `exception.h`, ... | none | | |

What is hard here: the spin lock and the once control are built from increments that
several threads interleave; the thread context belongs to two threads, either of which
may be the last to use it; the condition variable is signalled once and may wake for
nothing; the list of tasks is walked while user code adds to it; singletons call each
other while they are constructed and destroyed; the list of a pool runs through memory
that has been handed out; a message is transferred in pieces under one timeout while the
peer may stop or close.  Nothing is persistent, so there is no recovery from crashes.

What makes each part correct, in a sentence: the lock has one owner and its counter
does not drift; the routine of a once control runs once and nobody returns before it is
over; the context outlives its users, and join means that the thread is over; tasks are
called once, by priority; a reference to a singleton is to a whole object, and lifetimes
order destruction; a chunk has one owner and none is lost; a message arrives whole and a
timeout bounds the call.

## Modules

| module | models | rests on |
|---|---|---|
| `Lock` | what users of a lock rely on: at most one holder | |
| `SpinLock` | `spin_lock` over either implementation of the atomics | implements `Lock` |
| `Once` | what `thread_once` promises: untouched, running, then done or failed for ever | |
| `ThreadOnce` | `thread_once::run_impl` | implements `Once` |
| `ThreadOnceProofs` | proofs | `ThreadOnce` |
| `Mutex` | `mutex` and `cond_var`, with their timed calls | implements `Lock` |
| `LockProofs` | proofs | `SpinLock`, `Mutex` |
| `MCLocks` | one of the two locks per behaviour, for TLC | `SpinLock`, `Mutex` |
| `Thread` | `thread`, `thread_cntx`, and the mutex and condition as they are used there | |
| `ThreadProofs` | proofs | `Thread` |
| `AtExit` (`MCAtExit`) | `atexit_stack`, `runtime::atexit`, `fini` | pushes under the lock one at a time |
| `AtExitProofs` | proofs | `AtExit` |
| `Singleton` (`MCSingleton`) | `singleton` | composes `Once` and `AtExit` |
| `SingletonProofs` | proofs | `Singleton`, on `AtExitProofs` |
| `MemPool` | `mem_pool<ChunkCount, ChunkBytes, true>` and the `shared_pool_allocator` on it | composes `Lock` |
| `TcpStream` | `write_all` and `read_all` over two descriptors and the system between them | |
| `TcpStreamProofs` | proofs | `TcpStream` |
| `Sockets` | construction, ownership and destruction of `socket_desc`, `tcp_listener`, `tcp_transport`, `udp_transport`; `accept`, connect | |
| `SocketsProofs` | proofs | `Sockets`, `Addr` |
| `Timing` | `timestamp` and `time_span`, in words of any width | |
| `Calendar` | `calendar`, read by several threads | extends `Timing` |
| `Addr` | interface and transport addresses of both versions, `net_conv`, `net_encode`, the sockaddr conversions | |
| `TlsPtr` | `tls_ptr` and the ends of threads | |
| `Process` | `process` on POSIX, from the fork to the wait | |
| `ClassProofs` | proofs | `Timing`, `Calendar`, `TlsPtr`, `Process`, `MemPool` |
| `MCClasses` | one of `Timing`, `Calendar`, `Addr`, `TlsPtr`, `Process`, `MemPool` per behaviour, for TLC | all six |

Variables have the names of the members and locals they stand for (`m_counter`, `started`,
`m_state`, `pstack`, `pnext`, `m_frees`, `bytes_done`); `pc` or `phase` says between
which statements a thread is.  Variables marked "history" exist only for the properties.
Definitions marked "Mutant" are plausible slips of the definition after them; they are
no part of the specification, and show that the properties notice.
The map from definitions to source lines is in `PROJECT.json`.

**SpinLock.**  `build` is chosen in the first state: `"interlocked"` (`source/atomic.cpp`:
Windows, and the variant with a mutex), where increment and test are one step, and
`"split"` (`k2/atomic.h:60-64`, GCC), where the increment and the read that decides are
two.  `acquire()` is increment, test, and if
that fails decrement and try again; `acquire(timer)` looks at its timer between the
attempts.  A thread chooses at the call whether it has a timer; `Expire` lets timers run
out at any time.

**ThreadOnce.**  One step per access to `started` and `done`, with the same two
builds.  The routine returns or throws.  A caller may call again after any return.

**Thread.**  `Owner` spawns, `Users` share the thread object, `Child` is the new thread.
A critical section is a step that locks and acts and one that unlocks, because what
another thread sees in between is only that the mutex is held.  A wait puts the thread in
the set of waiters; `signal()` moves at most one out; `WakeSpuriously` another.
Touching a context that was deleted leads to the location `"undefined"`, from which
nothing is claimed.  `detached` says in the first state which of `spawn` and
`spawn_detached` was called.

**AtExit.**  A push holds the lock, so only `exec()`, which takes none, can see one half
done.  A push made before the exit or by a routine that `exec()` is running is one step
(`Register`).  A push of another thread during the exit is made of its statements
(`PushStarts`, which allocates the task and compares it with the head, to `PushEnds`), and so
is `exec()`; each reads `pstack` anew.  `push` says how far the one push in progress has
got: the lock lets there be one.  `setting` says, in the first state, whether k2 is a shared library, whether
routines register tasks, and whether other threads do so while `exec()` runs.  Memory that
was deleted keeps its contents; `dangling` is history: somebody has followed a pointer to it.

**Singleton.**  `once[s]` is the abstract control of the instance `s`; the steps of
`Control` are those `ThreadOnce` was shown to implement.  The exit is `AtExit` as it is,
with a task for each singleton and the negated lifetime for a priority, negated as an
`int` is.  `stack[t]` is the stack of nested `instance()` calls of a thread: constructors
and destructors call `instance()` of what `uses` says, which is chosen in the first state
among five graphs.  Constructors may throw, the registration may fail for lack of memory.
`Interlocked` is the build of the atomics; in the other one it may be that nobody enters a
control (`once_nobody`), which is why fairness of `Enter` depends on it.
The program joins its other threads before it leaves `main()`.

**Mutex.**  pthread's mutex and condition variable are taken at their word (a wait leaves
the mutex and joins the waiters in one step, may end for no reason, and a mutex goes to
any thread that wants it); the loops around them are the code's: `acquire(timer)` tries,
and asks its timer only when it was told `EBUSY`, in a later step; `wait(timer)` ends at
`ETIMEDOUT`.  `contended` is history.

**MemPool.**  Chunks are pairs of a block and an index, and `word[c]` is what is stored in
the first word of a chunk: the link of the free list, or the user's data.  `alloc()`
reads the head twice and `dealloc()` writes in two steps, all under the lock.  The
destructor follows what it finds in the first words.  On top of the pool, `allocate()` of
more than a chunk comes from operator new (`AllocateLarge`); `deallocate()` of it deletes
it and then gives it to the pool all the same (`LinkDeleted`), after which the program is
undefined and `phase` is `"corrupt"`.  The destructor ends there too, when the link it follows
leads to something other than a block.  Allocators of the same parameters compare equal, so
any thread may give back what any other was given.

**TcpStream.**  The system between the two ends is a bounded sequence of bytes per
direction; bytes are `<<message, index>>`.  A blocking `send()` passes bytes on as there
is room and may return short only when a signal interrupts it; `recv()` returns any
part of what is there; `select()` stores the time that is left, as it does on Linux, and
when it is interrupted the code takes that for a timeout.  A signal may also end a `send()` or
`recv()` that waits, with an exception (`Interrupted`).  `Tick` is time that passes in
`select()`, `Blocked` time that passes in a `send()` or `recv()` of a timed call, which nothing limits.
The program is taken to ignore SIGPIPE: `send()` is given no flag against it, and without that
a write to a closed peer ends the process.

**Sockets.**  Threads construct and destroy one object each over one table of descriptors,
whose numbers are used again at once.  An object is `[class, desc, own, stale]`: `stale`
when another object has closed the number under it.  Every system call of a constructor
may fail, and `Unwind` is what the destructors of the members that are complete then
do.  `robbed` notes that what `select()` has seen was taken before the call that
follows; `strayed` that an object has used or closed a number that had become another's,
after which nothing is claimed.

**Timing.**  One `timestamp`, one `time_span` and the clock, changed by the operators; `exact`
is what the timestamp would be in words without end.  Overflow wraps as in the code, and
only the differences that the code clamps are clamped.

**Calendar.**  A getter is `Test` (of `m_validated`, without a lock), `LockBuffer`, `BreakDown` (the C
library writes its one buffer), `Copy`, `Mark`, `SetMsec`, `ReadField`; between any two of them
another reader may fill the same calendar, or use the buffer for another one.  The fields are copied
in one step, under the lock.  Stores are seen in the order of the program, as on the
machines the library is built for (x86): on one that reorders them a reader might find
`m_validated` before the fields.

**Addr.**  Addresses are records of bytes and numbers, with a byte of `Base` values and a flow
label of `FlowMod`.  Comparison is the code's, in which the interfaces are compared by a
truth value.  The exclusive or of the hashes is a constant, `BitXor`, to which the run gives its meaning.

**TlsPtr.*  `TlsInv` is `Owned` until `tangled`.  An object is in one slot at most (`Single`), in none unless it
is stored, or being destroyed by a `reset()` that has not cleared the slot yet (`Placed`, `Held`), and an
object that is stored is in one (`StoredSomewhere`).  `Running` says the same of the destructors on the stacks,
`Distinct` that no two run for the same object.  A destructor may call into other `tls_ptr`s, so each lemma
is for any stack; a call into its own slot sets `tangled`, which stays (`StaysTangled`).  What holds of a
tangled thread too is the shape of the stacks (`Shape`) and of the rounds (`Ends`), which is all that
`EndedEmpty` needs.

**Process.**  Objects, children, and a small set of process ids that are used again.  `fork()`
may fail, which the code does not see; a child never gets past the loop that splits its
name, unless the name is empty.

**MCLocks and MCClasses** put classes that do not touch each other into one run: the first state
picks the class, and the others do not move.

## Runs

The bounds are named constants.  The passing runs finish with the complete state space.

| run | instance | question |
|---|---|---|
| `locks` | a spin lock in either build, or a mutex and its condition; 3 threads, timed or not | a counter that does not drift (`CounterExact`), both are the abstract lock (`ImplementsLock`, `MutexImplementsLock`), timed calls that fail only for cause (`TimedTruthful`) and end (`TimedAcquireReturns`, `TimedCallsEnd`) |
| `once` | 3 callers that call again and again, both builds | no return before the routine is over (`ReturnedMeansBuilt`), everybody returns with interlocked atomics (`EveryCallReturns`), the abstract control, with its one run, implemented (`ImplementsOnce`) |
| `once_nobody` | the same | **violation**: somebody runs the routine (`SomebodyRuns`) |
| `thread` | an owner and a user, 2 calls each, 1 spurious wakeup, joinable or detached | the context outlives its users (`NoUseAfterFree`), join is true (`JoinedMeansOver`, `TimedJoinTruthful`), cancellation ends a thread whose cancel-enabled flag is set (`CancelledExits`), spawn and lone joins return (`CallsReturn`) |
| `thread_detached_spawner` | an owner | **violation**: the spawner is through with the context before it is deleted (`SpawnerSurvives`) |
| `thread_two_joiners` | an owner and a user, a call each, no spurious wakeup | **violation**: every join returns (`EveryJoinReturns`) |
| `atexit` | 4 tasks, 3 priorities, the settings without other threads and one with | tasks registered before the exit are called, in order (`EarlyCalled`, `CalledInOrder`), none twice, and nobody follows a pointer to a deleted task, unless other threads register during the exit; and a routine called twice is always that of a deleted task (`CalledOnce`) |
| `atexit_racing` | 4 tasks, a shared library, other threads register | **violation**: no routine is called twice (`CalledOnceWhoeverPushes`) |
| `tcp_stream` | messages of 3 bytes, pipes of 2, 2 ticks, 2 calls at each end | messages arrive whole, and beginnings are dropped only after a failure (`WholeMessages`), the timeout is one budget for all the waits of a read, and for those of a write in `select()` (`BudgetKept`), calls return (`TimedReadReturns`, `WriteReturns`) |
| `singleton` | 2 threads, 4 singletons, 3 lifetimes in a three-bit `int`, 5 graphs | references are to whole objects (`LiveReferences`), objects are destroyed whole, once and all of them (`DestroyedWhole`), the longer-lived later (`LifetimesKept`), and with interlocked atomics and no circle of uses `instance()` returns (`ReferencesReturn`) |
| `sockets` | 2 threads, 3 descriptors, 1 client that may give up, a backlog of 1 | an owned descriptor stays what it was (`OwnersKeepTheirs`), each open one has an owner (`NothingLeaks`), a constructed transport is connected and blocks (`ConstructedConnected`), a timed call comes back unless it was robbed (`TimedCallReturns`) |
| `classes` | one class at a time: words of 16 values; 2 calendars and 2 readers; all pairs of addresses; 2 tls_ptrs, 2 threads, 3 objects; 3 process objects, 2 ids; a pool of 2 blocks of 2 chunks and 2 threads, or one block and a larger piece | timestamps exact modulo the word (`StampExact`), comparisons, differences and `expired()` agree (`OrderAgrees`), getters of calendars true (`GettersTruthful`), addresses (`EqualBothWays`, `LessIsPartialOrder`, `SurvivesTheWire`), tls objects have one owner and are deleted once, until their destructors change their own slot or a store fails (`OneOwner`), none is left (`EndedEmpty`), a destroyed process has been waited for, by its own object (`EachReapsItsOwn`), chunks have one owner (`HandedOutOnce`) and none is lost (`Conserved`) |

The modules also state properties that are in no run.  `MutualExclusion` (it is in
`ImplementsLock`), `AtMostOneRun` (in `ImplementsOnce`), `CancelNotLost` and `SpansComeBack`
are theorems (below), and so are the type invariants that the modules state, but that of `Sockets`, which holds in
the instance of the table when it is added to it.  `NothingLost`, `DisabledIsNotCancelled`,
`YearFrom1970` and `DeletedOnce` say what the code does not do: each fails when it is added to the run
of its module, and each is an exception that one of the checked properties states (see below).  `classes` uses the symmetry of the
threads of a `tls_ptr` and of a pool, which are model values that no definition tells
apart; all its properties are invariants.

*Why the bounds are enough.*  The counters of the spin lock and of the once control
treat all threads alike: one thread in its attempt, a second that overlaps it and a third
that interferes with both make all cases of a decision on a sum of increments; the
proofs cover every number.  In `Thread` an owner and a user cover what two critical sections can do
to each other, two calls cover a call that follows another's effect, and the proofs cover
any number of users, calls and wakeups.  Two threads and three
descriptors let a number be closed, opened by the other thread and used through the
first's stale object, with a third for the listener.  Words of 16 with seconds of 3
milliseconds in words of 4 overflow in every operation and truncate the seconds; the
proofs are for every width.  Addresses in bytes of one bit have interfaces that differ in
the first, the middle and the last byte, and flow labels that differ only above the 20
bits.  Two process ids for three objects force an id to be used again.  Four tasks have two of equal priority and one
at each side, so every branch of the walk (head, between, end) is taken on both sides
of `exec()`; two of them are enough for a deleted task to be put back.  Pools grow once and run out, after which nothing new can happen.
Messages longer than the pipe cannot be passed at once, and two in a row show what the
first does to the second.  The lifetimes are the constants of `singleton_base`, scaled to
three bits, the smallest width at which `INT_MIN`, 0 and `INT_MAX - 1` are different and
only `INT_MIN` has no negation.

The pool runs in two instances because their product has more states than it
has cases: one grows and then fails, the other has one block and a larger piece.

*Fairness.*  Weak fairness of a thread that is in an operation stands for a scheduler that
runs every runnable thread; loops of `os_sched_yield()` (`spin_lock.h:75`,
`threading.cpp:117`) rely on just that.  Nothing makes a program call an operation,
except that a routine that runs for ever is taken to call `test_cancel()` again and again
(`CancelledExits` says nothing of one that does not).  Strong fairness is assumed of
taking a pthread mutex, which others release again and again: without it no program with
a mutex can be shown to progress.  Timers expire, and time passes inside `select()`.
Of `Singleton`, an `Enter` into a free control is fair in the interlocked build only (`Interlocked`,
`TRUE` in the run): in the other all callers may add before any reads, as `once_nobody` shows.
In `Sockets` a thread inside a call goes on, but not after it has strayed.  The timed calls of
a mutex need only weak fairness of their own polling and of the clock.  Of the spin lock no such thing is assumed: two waiters may make each other fail for
ever, and the properties claim no more than the code can give.

## Where the code and its documents differ

Runs with a counterexample:

* `once_nobody`: `atomic_increase` (`k2/atomic.h:60-64`) adds and then reads again; three
  callers, or two, can all read a number that includes each other's increments.  Then
  none of them runs the routine and all spin.  `thread_once.h:49-50` says that the code is
  executed exactly once.  With the interlocked build it is.
* `thread_detached_spawner`: a detached thread deletes the context (`threading.cpp:425`)
  although its spawner may have yet to lock the mutex in it (362); the comment at 372-374
  says that the spawner has given up its ownership by then.
* `atexit_racing`: a push by another thread reads the head into its task (`runtime.cpp:174`); `exec()`
  calls the head, deletes it and goes on (200-202); the push makes its task the head (175).
  `exec()` calls that and comes to the deleted one again.  The singletons, whose first
  `instance()` may be called by any thread, are to be destroyed once (`test_suit.cpp:396`).
* `thread_two_joiners`: the exiting thread signals once (`threading.cpp:431`), so one of two joiners
  sleeps on, where `thread.h:128` says that `join()` waits for the thread to stop.

Formulas of the modules that fail in the instance of a passing run, when they are added to it:

* `NothingLost` (`atexit`): `exec()` reads the next task before it calls the routine
  (`runtime.cpp:199`), so a task the routine pushes in front is dropped and leaks.  `EarlyCalled` and
  `CalledOnce` are what holds.
* `DisabledIsNotCancelled` (`thread`): `test_cancel()` does not look at `m_cancel_enabled`
  (`threading.cpp:511`), where `thread.h:145` says that it does nothing if the flag is not set.  It is the
  exception in `CancelledExits`.
* `YearFrom1970` (`classes`): `year()` is `tm_year + 1970` (`timing.cpp:433`), and `tm_year` counts from
  1900: 70 more than the year, 1970 more than the years since 1970 that `timing.h:201` promises.  It is the
  exception in `GettersTruthful`.
* `DeletedOnce` (`classes`): `reset()` destroys the old object with the slot still pointing to it
  (`threading.cpp:254`), so the object of a destructor that calls `reset()` there is deleted again, where
  `tls_ptr.h:130` says that the pointer is deleted.  It is the exception in `OneOwner`.

Seen without a formula of their own.

*Threads.*  `join(timer)` takes a spurious wakeup for the exit (476), which is why `TimedJoinTruthful` is stated without
them; `exec_registered` is never set, so `exec()` is called once for each registration
(`runtime.cpp:227`; `CalledOnce` shows that it does no harm by itself); a detached thread deletes
the context while it holds the mutex in it (425); `-lifetime_short` is `INT_MIN` again,
so that the shortest lifetime is the last to end (`singleton.h:57, 126`, which is the
exception in `LifetimesKept`); a destructor that uses a singleton of a shorter
lifetime is given a dead reference (the exception in `LiveReferences`), and one that
uses a singleton whose constructor had thrown never returns (the exception in
`ReferencesReturn`); the message of an exception is cut to the size of a pointer
(`exception.h:59`); `shared_pool_allocator::deallocate` lacks a return
(`pool_alloc.h:280-285`), so that a larger piece is deleted and then linked into the
pool; the link between the blocks of a pool lies in the first word of their first chunks
(`pool_alloc.h:101`), so that `~mem_pool()` follows the free list instead and deletes what is no
block (nothing in the repository says what it deletes; the model stops there); the seconds of a timed mutex are right and its nanoseconds
a thousandth (`threading.cpp:145`), which `pthread_mutex_trylock` does not look at;
the two `cond_var::wait(pred)` name a variable that is declared nowhere (`cond_var.h:82,
96`); `tls_ptr::operator*` returns the pointer.

*Sockets.*  A `tcp_listener` made with `own = false` closes the descriptor all the same
(`transport.cpp:537-538`) and a `udp_transport` made for a descriptor opens another and forgets
the one it was given (692-695), the exceptions in `OwnersKeepTheirs` and `NothingLeaks`; an
accepted connection leaks when there is no memory for its transport (561); a timed accept
or read blocks without limit when another thread, or the peer, was faster (280), the
exception in `TimedCallReturns`; a timed `write_all()` waits in `send()` without limit after
`select()` has found room (383), and two ends that both write wait for each other, the
exceptions in `BudgetKept` and `WriteReturns`; a failed UDP `read` or `write` without a timeout returns -1 as a
`size_t`; the Windows half of the timed connect compares
the result of `connect()` with an error number (339).

*Time.*  The milliseconds of a calendar are stored after `m_validated` (`timing.cpp:442-443`), the exception in
`GettersTruthful`; a `calendar` without a timestamp is of now, where `timing.h:171` says 00:00:00, Jan/1/1970; and
`now - timestamp` is the one difference that wraps (`timing.cpp:188`).

*Addresses.*  `interface_addr::compare` is a truth value (`addr.cpp:110`), so `==` of two unequal
addresses is true when the greater is on the left, and `<` between them is never true; this
is why the properties of addresses say "both ways" and "partial order".  `net_decode()` does not
convert (`net.h:127`).  `getaddrinfo()` (`addr.cpp:189-249`) dereferences the end of the list it was
given.  `K2_BIT_ENDIAN` (`net.h:89`) and `H2_HAS_POSIX_API` (`addr.cpp:259, 272`) are misspelt.

*Processes.*  The loop that splits the name of the file never moves `first`
(`process.cpp:119-128`), so that a child writes to beyond `argv`; `calloc` is given a count of
bytes and a size of 0; a failed `fork()` is taken for a child with the id -1, which is any
child to `waitpid()` (the premise of the second part of `EachReapsItsOwn`); an exception in
the child is thrown in a copy of the program.

*The test server.*  `test/test_tcp_server.cpp` pushes its queue under `cout_mtx` (206) and pops it
under `tq_mtx` (93), and never signals `tq_cv`: it polls, over a data race.

## Proofs

`tlapm` on `LockProofs`, `ThreadOnceProofs`, `ThreadProofs`, `AtExitProofs`, `SingletonProofs`,
`TcpStreamProofs`, `SocketsProofs` and `ClassProofs`.  Every invariant that a passing run checks is
a theorem of the whole specification, and so are the refinements.

| theorem | says |
|---|---|
| `LockProofs`: `TypeCorrect`, `Exclusion`, `CounterIsExact`, `Refinement` | the spin lock, for any finite set of threads and both builds: types, one owner, the counter is one less than the number of threads counted in it, and it implements `Lock` |
| `LockProofs`: `MutexTypeCorrect`, `FailsForCause`, `MutexRefinement` | the mutex, for any set of threads: types, a timed call fails only for cause, and with its waits it implements `Lock` |
| `ThreadOnceProofs`: `TypeCorrect`, `RunsOnce`, `WaitsForConstruction`, `FailureForEver`, `Refinement` | for any callers and both builds: types, one run, no return before its end, an exception is final, and `thread_once` implements `Once` |
| `ThreadProofs`: `TypeCorrect`, `ContextOutlivesUse`, `JoinIsTrue`, `CancelStays`, `ExitStays`, `TimedJoinIsTrue` | for any users and joiners, any number of calls and spurious wakeups: types, no use after the context was deleted, join means over, a cancellation stays until the exit, the exit stays; and a timed join that answers true is right as long as nobody wakes for nothing |
| `AtExitProofs`: `TypeCorrect`, `OrderKept`, `EachCalledOnce`, `EarlyTasksCalled` | for any finite set of tasks and any priorities, registrations from routines included: types, with other threads too; and unless other threads register during the exit, `CalledInOrder`, `CalledOnce`, and that nothing registered before the exit is left at the end |
| `SingletonProofs`: `TypeCorrect`, `ReferencesAreLive`, `EachDestroyedWhole`, `LifetimesAreKept` | for any threads, any finite set of singletons, ints of any width, any lifetimes and any graphs of uses, circular ones included: types, `LiveReferences`, `DestroyedWhole`, `LifetimesKept` |
| `SingletonProofs`: `ExitIsAtExit`, `ControlsAreOnce` | the singletons implement `AtExit`, with themselves for tasks, and for each of them `Once` |
| `TcpStreamProofs`: `TypeCorrect`, `WaitsBounded`, `MessagesArrive` | for messages, pipes and timeouts of any size and any number of calls: types, `BudgetKept` (all the waits of a timed read, those of a timed write in `select()`), `WholeMessages` |
| `SocketsProofs`: `DescriptorsKept`, `DescriptorsClosed`, `TransportsConnected` | for any threads and clients and a table of any size: `OwnersKeepTheirs`, `NothingLeaks`, `ConstructedConnected` |
| `SocketsProofs`: `EqualAddressesAreTheSame`, `AddressesAreOrdered`, `AddressesSurviveTheWire` | for both versions, bytes of any width, any number of bytes that four divides, any ports, labels and scopes: `EqualBothWays`, `LessIsPartialOrder`, `SurvivesTheWire` |
| `ClassProofs`: `TypeCorrect`, `TimestampExact`, `OrdersAgree`, `SpanComesBack` | for words of any width: values stay in their words, a timestamp is exact modulo the word and exact when it fits, the comparisons and differences agree, and `now - (now - s)` is `s` |
| `ClassProofs`: `CalendarsTruthful` | for any calendars, readers and zones: `GettersTruthful`, with its exceptions for the year and for milliseconds read too early |
| `ClassProofs`: `ReapsItsOwn` | for any process objects and ids: `EachReapsItsOwn` |
| `ClassProofs`: `ObjectsHaveOneOwner`, `ThreadsEndEmpty` | for any threads, keys and objects: `OneOwner`, until a destructor changes its own slot or a store fails (`tangled`), and `EndedEmpty` in any case |
| `ClassProofs`: `PoolTypeCorrect`, `ChunksHandedOutOnce`, `ChunksConserved` | for any threads and any number of blocks and chunks: types, `HandedOutOnce`, `Conserved` |

*Assumptions* are on the constants alone, each named in its module and evaluated by TLC in
a run.  Names are distinct: no thread is `Nobody`, no task or chunk is the null pointer, the
first word of a chunk that has an owner is no link (`NamesAssumption`: the model's
`Data`).  Sets are finite where a counter counts them (`SpinLock`'s `ThreadsAssumption`,
`TasksAssumption`, `SingletonsAssumption`).  Sizes are positive (`CountAssumption`, `SizesAssumption`,
`SocketsAssumption`, `TimingAssumption`).  There are two ends of a connection (`EndsAssumption`).  Lifetimes are
`int`s (`LifetimeAssumption`), bytes are bytes (`AddrAssumption`), and one thread is in
`main()` (`Singleton`'s `ThreadsAssumption`).
`AlignmentAssumption` is the static assertion of `pool_alloc.h`.  Priorities are integers and
nothing is assumed of them (`PrioAssumption`).  Every theorem is about the whole
specification of its module, without fairness.

*SpinLock.*  One owner is not inductive by itself: that a thread sees zero has to mean that
nobody else is counted.  `IInv` adds `CounterExact`: `m_counter + 1` is the cardinality
of the set of threads whose increment is in.  The lemmas `Joining`, `Leaving` and
`Staying` say what a step of the program counter does to that cardinality, and then
seeing 0 gives a set of one.  In the split build the read comes after the increment and
may see more than the thread's own, never less, which is the safe side.

*Mutex.*  `TimedTruthful` needs `Polled`: a thread that was told `EBUSY` knows of another's
possession before it asks its timer, and one that takes the mutex is noted by all who try.
`Exclusive` is what makes a release, or a wait, a `Release` of the abstract lock.

*ThreadOnce.*  In the split build the thread that reads zero does so after its
increment, so `IInv` says what a counter of -1 and of 0 means: nobody has incremented
(`Untouched`), or one thread has and was not chosen before (`FirstTest`).  `Choice`
shows that a zero is seen once.  `History` ties `done`, `outcome` and the program counters
together, and `Failed`, once true, stays.  For the refinement, `Move` says what a step
of `Once` looks like, and `Simulation` goes through the actions.

*Thread.*  The invariant is in parts named after what they say: who holds the mutex,
which operation goes with which location, when the object exists, who may still touch
the context, and what `m_state` says about the child.  The context is deleted after
`pthread_join`, and no user is inside when the owner destroys the object (the callers'
duty, a guard of `Destroy`); so nobody is left.  Types are proved separately (`Typing`),
since they also hold for a detached thread, of which the rest says only that it never
has an object (`Alone`).  For timed joins `Told` covers the waiter between its wakeup and
its return, and it rests on who is awake: the signal of the start is sent before there is an
object on which anybody could wait.

*AtExit.*  Tasks are linked through `pnext`, so the invariant is about a sequence that the
variables only imply.  `IInv` says that there is one: `q`, of length `n`, that starts at
`pstack`, is linked by `pnext` and ends (`Chain`), is sorted (`Sorted`), and of which nothing
is deleted but the task that `exec()` has just deleted, and will step over next (`Alive`); and a `k` such that `exec()` will go on
at the `k`-th task (`GoesOnAt`) and none from there on was called (`ToCall`).  `k` is what the
hazard of `runtime.cpp:199` comes to: the next task is read before the routine is called, so what the
routine pushes in front is between the head and the `k`-th, and is dropped when `pstack` becomes
`q[k]`.  That loses tasks (`NothingLost` fails) but never repeats one, and keeps the order of
those that were there.  `Registering` is the long lemma: what the walk of `push()` finds is
the place at which the sequence stays sorted.  `Kept` says that what was registered before the
exit has been called or is at or behind the `k`-th: what is dropped is in front of it, and late.
The whole of it is about an exit that no other thread pushes into; of the others only the types are proved.  `Emptied` is that
`exec()` is called again as long as there is something in the list.

*Singleton.*  Two parts that are proved elsewhere are put together: `ExitInv` is the invariant of
`AtExitProofs` with the singletons for tasks, and `once` moves as `Once` does.  What is left are
the calls.  `FramesOK` says of each thread's stack, counted from the outermost call, that a call
within a call is of something the outer one uses (`Calls`), and of each call what it knows of its
singleton (`Good`): the one that constructs it has it alone (`Single`), and a control that is
running is running in some call (`Somewhere`).  `Fates` ties the control, the object and the list
to each other.  `UsesFirst` carries the order: what a constructor uses is settled when the
constructor is over, so in the order of registration it comes before its user, unless it could not be
constructed.  Of two of one lifetime `AtExit` calls the later first, so a destructor finds what its
constructor used (`UsedLater`); of two lifetimes it calls the shorter first.  `Last` is where the
two meet: what `exec()` calls is preceded by all it should be preceded by, since
nothing early is lost (`Kept`).  A circle of uses never gets as far as a registration, so nothing
has to be assumed of the graph.

*MemPool.*  The free list is in the memory it is a list of.  `List` says that the words from
`m_frees` on run through a sequence `q` of all free chunks, each once, and end in Null; `Apart`,
that a chunk on its way back has no owner and nobody else gives it back; `Operating`, what
the lock's owner has prepared so far: `alloc()` has in hand the head, which only it can change,
and `dealloc()` has linked its chunk in front of it.  `List` needs no exception in
the middle of either, which is the reason why the code may write in any order before its last
statement, and why it must write under the lock.  The two properties are about `Free`, the list as a
recursive function finds it; the lemma `FreeIsList` says that this is `q`.

*TcpStream.*  `BudgetKept` follows from `CallInv`: what is left of the timeout and what was spent do
not exceed it, because each `select()` takes away from the one what it adds to the other.  That a `recv()`
does not wait after a `select()`, so that nothing is `stuck` in a timed read, is `Fed`: there is one reader
of a connection, and what the peer has sent or closed stays so.
For `WholeMessages`, every byte that was ever written has a place in its direction, `Place(n, i)` for
the i-th byte after n messages; `Flow` says that the k-th byte in the pipe is `k` places after the last
one the reader has, and that the last one in the pipe is where the writer is.  A call that fails
part-way breaks that and sets `broken`; nothing else does.  `SendAdds` and `RecvTakes` are what `send()`
and `recv()` do to the pipe, and `FlowWrites`, `FlowReads` and `FlowFails` the three kinds of steps.

*Sockets.*  The invariant is `Table`: each open descriptor is either in `lost` or that of just one
object that owns it, whatever thread has it and at whichever stage of its constructor (`Slots` are the
places where an object can be).  `Constructing` and `Having` say which stage goes with
which state of the descriptor.  A step opens the lowest free descriptor for one slot, closes that
of one, hands it from one to another or leaves all alone, so there are four lemmas about `Table`
and one for each way in which a slot changes.  All of it ends when an object has `strayed`: then
the code itself closes descriptors of others.

*Addr.*  The invariant is that both addresses have the parts of their version, and the theorems are
about the operators.  `Division` and `OneDivision` (a quotient and a remainder are the only ones) give
the bytes of a number and the number of some bytes, which are recursive functions and so unrolled,
for the two and four bytes that ports and words have (`PairBytes`, `FourBytes`); hence `net_conv` is its
own inverse (`Conv16`, `Conv32`).  The interfaces are in a total lexicographic order (`OneWay`,
`Transitive`, `NotBefore`, on the least place at which two differ), which the code's truth value loses half
of; `Compared` says what is left: when `compare()` is below 0 (`Lower`) and when it is 0 (`Even`).  In
`LessIsPartialOrder` a label above its 20 bits is excluded because the code masks one side of one test
only.  What the hash makes of `BitXor` does not matter: equal addresses have the same parts.

*Timing.*  The invariant is `TypeOK`, `Bounded` (the exact value is within one word of the
range) and `Near`: the timestamp is the exact value, or one word off.  `Remainder` and
`Product` are the facts about `%` and `*` that the solver has to be given.

*Calendar.*  `Marked` says that a calendar marked as computed has the right fields, and the right
milliseconds unless a reader is yet to store them (`Late`).  `Known` says what a reader that has
the lock has in its buffer, which is why `gmtime_lock` is needed; `Truthful` is the property
itself with what was read and not returned.

*Process.*  The property speaks of objects that are gone; the invariant says it of all: a
child that is there is known to its object, which is still to wait or was interrupted, and as long
as all forks succeed, an object that is to wait has its child.  Hence an id cannot be used again
under it.

*TlsPtr.*  An object is in one slot at most (`Single`), in none unless it is stored, or being
destroyed by a `reset()` that has not cleared the slot yet (`Placed`, `Held`), and an object that is stored is in one
(`StoredSomewhere`).  `Running` says the same of the destructors on the stacks, `Distinct` that no two run for
the same object.  A destructor may call into other `tls_ptr`s, so each lemma is for any stack.

*What the prover cannot do, and what is left to TLC.*  Liveness under fairness and ENABLED, so all
of `TimedAcquireReturns`, `TimedCallsEnd`, `EveryCallReturns`, `CallsReturn`, `CancelledExits`,
`EarlyCalled`, `TimedReadReturns`, `WriteReturns`, `ReferencesReturn` and `TimedCallReturns` are only
model-checked.  Theorems with an operator for a parameter, such as the library's induction,
cannot be used; where an induction was needed (`StayAlike`, on the two functions that follow a list) it is
done with `WFMin`, as the absence of a least counterexample.  The type
invariant of `Sockets` is left out because its backlog is filtered (`Remove`), which is an induction
over the sequence.  What a run with a violation shows is a matter for TLC anyway.

## Not modelled, and why

* `getaddrinfo()`: every successful lookup reads through a null pointer at the end of the
  list, and nothing follows from that.
* `udp_transport::write()` and `connect()`: one system call each, which changes nothing here.
* `auto_alloc`, `memory`, `utility`, `type_manip`, `exception`, `assert`, `endian`: compile
  time, or one owner and nothing to interleave.
* `mem_pool<..., false>`: the same without a lock, for one thread.
* Windows: `tls_ptr` (no destructors), `process`, `socket_nb`.
* `tls_ptr` in `Thread`: the new thread's way to its own context, taken as it is.
* `WSAStartup` in `DllMain`, the pthreads-win32 headers, project files.
* Registration with atexit from a static constructor that runs before the list's lock is
  constructed (the order is the linker's); when `pthread_create` stores the handle
  that a detached thread reads (`threading.cpp:426`: the library's affair).
* The test programs: sequential drivers, and the server of which see above.

## Plan

Done, in this order: `Lock`, `SpinLock`, `ThreadOnce`, `Thread`, `AtExit`, `MemPool`,
`TcpStream`, `Once`, `Singleton`, three modules of proofs; then `Sockets`, `Timing` with its
proofs, `Calendar`, `Addr`, `TlsPtr`, `Process`, `Mutex` with its proofs, and the allocator in
`MemPool`; then the proofs of `Sockets`, `Process`, `TlsPtr`, `Calendar`, `TcpStream`, `MemPool` and
`AtExit`, of the timed join, of `Addr`, and of `Singleton` on those of `AtExit`.

Next, proofs:

1. The mutual exclusion of the threads in `MemPool` and `Calendar` as a refinement of `Lock`.
2. The types of `Sockets` but for the backlog.
