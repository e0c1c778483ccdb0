# NPTL in TLA+

This directory is a verification development for the POSIX threads implementation of the GNU C
Library (`src/nptl`, `src/sysdeps/nptl`): TLA+ models of its synchronization objects and of the life
of its threads, TLC configurations that check them on small instances, and TLAPS proofs of the main
invariants and refinements for any number of threads. This is the part of glibc whose correctness
depends on interleavings that a test hardly reaches: every object is a handful of words changed by
atomic instructions, by the futex system call and by signal handlers.

## 1. Inventory

| part | state | operations | what is hard |
| --- | --- | --- | --- |
| futex wrappers (`futex-internal.h`) | the kernel's wait queues | wait, wake | a wait returns by wake-up, spuriously, by time-out or by cancellation |
| semaphores (`sem_*.c`) | value and waiter count, in one 64-bit word or in two 32-bit ones | wait, trywait, timedwait, clockwait, post | lost wake-ups; three ways out of the slow path; overflow; the waiters bit that is cleared on a guess |
| low-level locks (`lowlevellock.h`, `.c`) | one word: 0, 1, 2 | lock, cond_lock, trylock, cond_trylock, timed lock, unlock | overtaking between release and wake-up; time-outs that leave 2 behind |
| mutexes (`pthread_mutex_*.c`) | lock, owner, count, nusers, kind | lock, trylock, timedlock, cond_lock, unlock, destroy | unlocked reads of the owner; wrap of the recursion count; nusers across condvar waits |
| robust mutexes | the word with its FUTEX bits, the robust list, `list_op_pending` | as mutexes, plus consistent and the kernel's clean-up | the owner is killed between any two accesses |
| condition variables (`pthread_cond_*.c`) | wseq, g1_start, g1_orig_size, two groups, wrefs | wait, timedwait, signal, broadcast, destroy | group switch, cancellation in either group, late futex wakes, destruction |
| barriers (`pthread_barrier_*.c`) | in, out, current_round | wait, destroy | overlapping rounds, helping, reset at the threshold, destruction |
| once (`pthread_once.c`) | control word, fork generation | once, cancellation of the initializer, fork | initializers lost in a fork or cancelled |
| read-write locks (`pthread_rwlock_*.c`) | readers, writers, two futexes, cur_writer | rd/wr lock, timed, try, unlock | hand-over of phases, writer to writer hand-over, time-out against hand-over, overflow |
| thread life cycle, stacks (`pthread_create.c`, `allocatestack.c`, ...) | joinstate, tid, exiting, nthreads, stack lists | create, exit, join, detach, kill | who frees the stack; signals to a thread that exits; the last thread |
| cancellation (`pthread_cancel.c`, `cancellation.c`, ...) | cancelhandling, SIGCANCEL | cancel, state and type, cancellation points, unwinding | a request that races with a state change or with a system call |
| set*id (`nptl_setxid.c`) | setxid_futex, SETXID bit, the command | broadcast, handler, handshake at start and exit | threads that start or exit during the broadcast |
| thread-specific data (`pthread_key_*.c`, `nptl_deallocate_tsd.c`) | key table with sequence numbers, two-level arrays | key create and delete, set, get, destructor passes | slots and descriptors that are reused; keys deleted while a thread exits |

The parts meet in these places: all of them block on the futex wrappers; a condition variable unlocks
and relocks a mutex (`__pthread_mutex_unlock_usercnt`, `__pthread_mutex_cond_lock`) and has a lock of
its own in two bits of `__g1_orig_size`; a normal mutex is a low-level lock with an owner, a count and
a user count around it; SIGCANCEL and SIGSETXID share `cancelhandling`, in different bits; a set*id
broadcast walks the stack lists of the thread life cycle, and a cached stack keeps the arrays of
thread-specific data. The rest of the library (malloc, stdio, dynamic linker, strings, mathematics,
locales, name service, the Hurd port) is listed in `PROJECT.json` with the reason it is not modelled.

## 2. How the code is modelled

* **One action per shared access.** An action is one atomic load, store or read-modify-write, or one
  futex call. `pc[t]` names the access thread `t` performs next; locals of the C function are
  functions of the thread and are reset to a fixed value when they are dead. A compare-and-swap loop
  without side effects is one step, because a failed turn of it changes nothing.
* **Sequential consistency.** The C11 orders (relaxed, acquire, release) are not modelled: a behaviour
  that needs a weakly ordered load is outside these models.
* **Futexes.** A wait compares the word with the expected value and blocks in one step; a blocked
  thread is one whose `pc` is a `blocked...` label. `futex_wake(blocked, n)` in `Futex` is the set of
  the sets of `n` threads the kernel may choose (all, if there are fewer). Spurious returns are an
  action everywhere. In `Condvar` the waiters of a word form a queue, and the constant `FIFO` says
  whether the kernel wakes them in order.
* **Time, clocks and cancellation.** A timed wait may time out at any moment; a cancellation request
  acts at the cancellation points of the call.
* **Crashes and signals.** In `RobustMutex` a thread may be killed between any two accesses, and the
  kernel then walks its list. In `Cancellation` and `SetXid` a signal is delivered between any two
  steps of its thread at which it is not blocked.
* **Program rules.** Calls whose behaviour POSIX leaves undefined (unlocking somebody else's normal
  mutex, destroying a barrier others still wait on, using a deleted key) are not made; the guards of
  the invoking actions say so. Calls that return an error and change nothing are no actions.
* Definitions whose names end in an underscore and a word (`MustWake_Late`) are deliberate errors:
  putting one in the place of the definition after it must break a property. They are not part of
  any specification.

| module | models | abstraction |
| --- | --- | --- |
| `Futex` | `futex_wake` | the set of possible choices |
| `Semaphore` | `sem_init`, `sem_wait`, `sem_trywait`, `sem_timedwait`, `sem_clockwait`, `sem_post` (64-bit atomics) | `data` is the record of its halves |
| `Semaphore32` | the same calls without 64-bit atomics | `value` is the record of the tokens and the nwaiters bit |
| `CountingSemaphore` | what a semaphore promises | each call takes effect in one step |
| `LowLevelLock` | `lll_*`, `__futex_clocklock64` | - |
| `AbstractLock` | what a lock promises | owner only |
| `Mutex` | normal, recursive, adaptive and error-checking mutexes | the low-level lock is one step |
| `RobustMutex` | the robust kinds, the robust list, the kernel at a thread's death | the word is the record of its fields; one mutex |
| `AbstractRobustLock` | what a robust mutex promises | owner, health, who has been told |
| `CondvarLock` | `__condvar_acquire_lock`, `__condvar_release_lock`, `__condvar_set_orig_size` | sizes are a small set |
| `Condvar` | `__pthread_cond_wait_common`, signal, broadcast, `__condvar_quiesce_and_switch_g1`, cancellation, destroy | the internal lock and the mutex are one step; 64-bit counters are naturals |
| `Barrier`, `AbstractBarrier` | wait and destroy; rounds | - |
| `Once` | `__pthread_once_slow`, `clear_once_control`, fork in the child | `init_routine` is external |
| `RWLock` | `__pthread_rwlock_rdlock_full64`, `wrlock_full64`, both unlocks, both try calls | `__readers` and `__writers` are records of their fields |
| `ThreadLife` | create with its failures, exit, join, detach, kill, the used and cached stacks | a descriptor is its stack; sizes are left out; the cache is a set and its order a relation |
| `Cancellation` | `pthread_cancel`, state and type, the SIGCANCEL handler, `__syscall_cancel_arch`, testcancel, clean-up regions | one target; a system call is "before", "in" or "after its side effects" |
| `SetXid` | `__nptl_setxid`, its handler, the handshake of starting and exiting threads | ids are numbers; the lists are sets |
| `ThreadSpecific` | key create and delete, set and get, `__nptl_deallocate_tsd` | a value is the key it was stored under; integer widths are constants |
| `Locks`, `Mutexes`, `ThreadExit` | `LowLevelLock` next to `CondvarLock` and `Once`; `Mutex`; `ThreadSpecific` next to `Cancellation` | nothing is added: parts without a common variable, under names that do not clash, for the proofs and the runs |
| `...Proofs` | theorems, section 4 | |
| `MC...` | instances for TLC | model values, symmetry |

Correspondence of the state, where it is not by name: in `Semaphore`, `d[t]` is the snapshot of
`sem->data`; in `Barrier`, `i[t]` and `cr[t]` are the locals of `___pthread_barrier_wait`; in `Condvar`,
`cond.wseq` and `cond.g1_start` keep their units (the low bit of `wseq` is the index of G2) and
`unsignaled[p]` is a history variable that counts the waiters below position `p` that may go on
waiting; in `RWLock`, `timed` says whether the program uses timed write locks, `reads` and `writing`
who holds the lock; in `ThreadSpecific`, `live` and `last` are history variables that say which key a
program may use and what it stored last. `PROJECT.json` maps every definition to its lines.

## 3. Runs

Modules that share no state are checked in one run where both are small: the instance module has a
variable that is chosen in the initial state and says which of them the behaviour is about.

| run | instance | what it shows |
| --- | --- | --- |
| `semaphore` | 3 threads, maximum 2, either build | waiter count exact through every exit, no lost wake-up in either build; both implement `CountingSemaphore` |
| `locks_once` | low-level lock: 4 threads; condvar lock: 3 threads, 2 sizes; once: 3 threads, 3 forks, 2 generations | no lost wake-up; both locks implement `AbstractLock`; the size beside the lock bits survives; one initializer, done is final; every call returns, except after a wrap of the fork generation as in 5 |
| `mutex` | 3 threads, each kind, count up to 2 or 3, up to 2 deaths | owner reads without the lock are sound and errors justified, `__nusers` exact, a destroyed mutex is unused; a dead owner's mutex is found by the kernel, nobody is stranded, implements `AbstractRobustLock`: a killed thread gets nothing, and a mutex that is not recoverable is given out again only by the death of a further thread inside one of the functions |
| `barrier` | 4 threads, rounds of 2, threshold 5 | nobody leaves early, implements `AbstractBarrier`, every call of a full round returns, destruction waits (but see 5) |
| `condvar_rwlock` | 3 threads; 3 waits of every kind, groups of 1; or all kinds of read-write lock, 2 recursive reads, overflow at 4 | no signal lost to a later waiter, group accounting, destruction returns when it should and not before; exclusion, the state table, and, without timed writers on a lock that prefers writers, explicit hand-over and nobody stranded |
| `thread_life` | 4 descriptors, cache of 1 | a stack outlives its thread and is freed once, `pthread_kill` hits its target, the process ends with its last thread and not before |
| `signals_data` | cancellation: 1 target, 2 cancelers; set*id: 3 threads, 2 calls, also from cleanup handlers; keys: 2 descriptors, 3 threads one after another, 2 slots, 3 creations | no request lost, none acted upon where it must not be; all threads have the ids of the process, but those that a broadcast found exiting and what they create (see 5), nobody stuck in the handshake; everybody gets their own values, and destructors theirs |
| `barrier_destroy_at_reset`, `once_fork_in_init`, `condvar_wake_order`, `rwlock_timed_writer`, `key_sequence_wrap` | 2 to 4 threads | disagreements, section 5 |

**Bounds.** Three threads are one that acts, one that waits and one that interferes between two steps
of the others; four give overlapping rounds of a barrier and two sleepers beside an overtaking
thread. Counters are small so that their limits are reached: `SEM_VALUE_MAX` = 2 and `UINT_MAX` = 2
reach overflow, a threshold of 5 with rounds of 2 makes the threshold not a multiple of the count
and the reset frequent, three waits let a condvar group slot be reused, `READER_OVERFLOW` = 4 is
passed by three threads with two read locks each. Three forks wrap a
fork generation of two values, so that the run meets the control word of an old generation that looks
like the present one. With one cached stack a stack is reused and another unmapped. With sequence numbers
below 6 a slot is used twice and then retired, and the third creation goes to the other slot, which is
in the second array; a third thread runs on a descriptor used before. Sizes of one key per array make
the two levels visible; the skip of a missing array in `__nptl_deallocate_tsd`
(`idx += PTHREAD_KEY_1STLEVEL_SIZE`) is right there, as in the code, because it ends the walk or meets
the next array. Symmetry is used only in runs without liveness properties.

**Deadlock** is not checked where the system may rightly stop: threads that wait for a token, a
signal or a full round, or that hold a lock for ever.

**Fairness.** Liveness is stated as: if from some moment on no new calls are made (for `Once`: no
cancellations and forks), then every call returns; for the locks and the barrier this is written as
"from some moment on every thread is idle", which is the same and cheaper to check. A thread that can
take its next step takes it eventually (weak fairness of `Step(t)`), which is what a preemptive
scheduler gives. `Event`s (time-outs, cancellation, spurious wake-ups) are never fair, so no call
returns only because of one. A lock holder is assumed to release the lock; in `CondvarLock` this is
strong fairness of `Release`, as a holder may first change the size. In `Semaphore`, `Condvar`,
`RWLock`, `RobustMutex` and `SetXid` the corresponding statements are invariants (`NoLostWakeup`,
`NoLostSignal`, `DestroyExact`, `NobodyStranded`, `NobodyStuck`): a state where nobody can move has
nobody who should have been woken. They rule out lost wake-ups and deadlock, not endless retries.

## 4. Proofs

All theorems hold for every value of the constants that the named assumptions in the modules allow:
any finite set of threads (any set for the condvar lock, for once, for cancellation and for
thread-specific data), `SEM_VALUE_MAX` > 0, any `Count` below `BARRIER_IN_THRESHOLD`, any number of
descriptors and any size of the stack cache, any numbers of keys and passes, any depth of recursive
reads and any reader overflow mark above 1; the value that stands for "no owner" is no thread; 0 is a possible size of a condvar group. Four theorems need more, and say so:
those about `Once` that `init_routine` does not fork (`ForkInInit = FALSE`; see 5.2 for what happens
otherwise), and those about `ThreadSpecific` that no sequence number wraps in an `unsigned int`
(`NoWrap`; see 5.5), which `NeverWraps` shows to hold where `uintptr_t` is not longer.

Each part has an inductive invariant `IInv` (with a prefix where a module treats several parts), a
lemma for the initial states, one for each action or for the kinds of step that actions have in
common, and theorems that follow from it.

* `SemaphoreProofs`: `TypeCorrect`, `NwaitersCorrect`, `NoLostWakeupCorrect`, `Refinement`. The
  invariant `NoLostWakeup` (while somebody is blocked every token is covered by a waiter that will look
  at the word again or by a pending wake-up) is not inductive alone: a post that sees a waiter count
  of 0 does not wake, so `NwaitersExact` is needed to know that nobody is blocked then; and the
  compare-and-swaps need `SnapshotOK`, that a snapshot taken to grab has a token and one taken to
  post has room. `Move` says how the cardinalities of the sets of threads at some labels change when
  one thread moves. The refinement adds `CallOK`, which ties the pending call to the control, so that
  each step is known to complete a call of the abstract semaphore or to stutter (`NextRefines`).
* `LocksProofs`, about `Locks` (the low-level lock, with the condvar lock and once as instances) and
  `Mutexes`:
  * `MutualExclusionCorrect`, `NoLostWakeupCorrect`, `Refinement`: the low-level lock. `IInv` adds to
    the two invariants `CallOK`, as above; `StepOfOne` is the argument for steps that move one thread.
  * `CondvarWordIntactCorrect`, `CondvarRefinement`. `CvIInv` is the type, mutual exclusion, that a
    holder's copy of the word agrees with the word but for the lock bits that others may set, and that
    the size is the one stored last. Every step moves one thread along the paths of the locking
    functions or wakes threads, and maps to a step of the abstract lock.
  * `OneInitializerCorrect`, `DoneIsFinalCorrect`. `OnceAnnounced` says that whoever initializes has
    announced it in the control word with the present generation, `OnceAlone` that there is only one; a
    fork leaves one thread, which is why a wrap of the generation does no harm to these two; what it
    does to liveness is in 5.
  * `OwnershipExactCorrect` (with the reasons for EDEADLK, EPERM and EAGAIN) and `NusersExactCorrect`.
    `MutexIInv` says of each thread what holding, its pending operation and its last return value
    imply, and that `nusers` is the number of threads at the places where it is counted.

  The steps use two facts about finite sets, `WakesOne` and `Countable`; the last section proves them.
* `RobustMutexProofs`: `FoundAtDeathCorrect`, for any number of deaths. `IInv` gives for each control
  location where the mutex is (list, pending slot, both or neither) and what the word may be, and that
  a word marked as the legacy of a dead owner names no thread.
* `BarrierProofs`: `NoEarlyExitHolds`, `DestroySafeButResetHolds`, `Refinement`. The heart of `IInv` is
  `Accounted`: unless a thread is resetting, `out` and the number of threads inside add up to the
  positions given out, or to `MaxIn` once destruction has pretended that the rest have come and gone.
  With it the leaver that brings `out` to `MaxIn` knows that nobody is inside (`ResetInv`).
  `FullHasWaiter` says that whoever found the barrier full is still there, `DestroyInv` that what
  destruction has read is current unless a reset came between, and `RoundFilling` that the threads
  waiting for their round are exactly the incomplete round, which is what the abstract barrier counts.
  The arithmetic of rounds is in lemmas of its own (`DivMod`, `Remainder`, `Rounds`).
* `ThreadLifeProofs`: `StackOutlivesThreadHolds`, `KillHitsTargetHolds`, `FreedOnceGoneHolds`,
  `EndsWithLastHolds`. `Joinstate` ties the state word of a descriptor to what its thread does and to
  what the program still may do with the handle; `Lives` says in which list a descriptor is; `Calls`,
  `Creates`, `Joins` and `Kills` what a call under way knows about its target, in particular that
  `exit_lock` is held between the test of `exiting` and the signal; `Counts` that `__nptl_nthreads` is
  the number of the threads that have not yet subtracted themselves and of those being created.
* `ThreadSpecificProofs` (the calls on keys and values) and `ThreadExitProofs` (the walk at thread exit):
  `GetsOwnHolds`, `DestructorsRunHolds`, `NeverWraps`. `Slots` says that an odd sequence number is that
  of a key the program has or of one being created; `Data` that a non-null value in an array is current
  exactly if its number is that of the slot, and then is what was stored last; `Walks` that what an
  exiting thread has passed in a pass that met nothing is empty. `DestructorsRun` needs one more fact of
  the code, that the two levels have one size (`OneSize`; the skip of a missing array adds the wrong
  one, see the end of 5).
* `ThreadExitProofs`, on `Cancellation`: `RequestNotLostCorrect`, `ActsOnlyWhenAllowedCorrect`, for any set
  of cancelers. `CancelIInv` adds that cancellation is open whenever the target is in the system-call
  bridge, that SIGCANCEL is not blocked where it is relied on, and that nobody unwinds unless a request
  was made. The second is an action property: every step that begins to act satisfies `Allowed`.
* `RWLockProofs`: `ExclusionCorrect`, `StateTableCorrect`, for any set of kinds, timed writers included.
  Neither is inductive: that a writer finds no reader rests on the counts, and that the counts are exact
  rests on who may write which bit. `IInv` says of each thread (`OK`) which phase its place in the code
  or its local `ready` entitles it to; of the writers (`Primaries`) that `WRLOCKED` belongs to one thread
  or to one hand-over token; and (`Counts`) that `__readers` counts the read locks held and the calls
  registered, that all of them but those backing out of an overflow stay below the mark, and that
  `__writers` counts the writers waiting to become primary. A blocked thread is taken to be at the place where it
  looks again (`Awake`), so that a wake-up changes the place of the waker alone. `StepOfOne` proves
  once what a step must do to the bits and the counts (`ProperBits`, `ProperCounts`) to keep `IInv`, and
  each action is shown to do it; `QuietPreserves` does so for the actions that change the control alone.

Where cardinalities are counted, the facts about finite sets come last in the module or from
`FiniteSetTheorems`: what waking one of a set of waiters does (`WakeOne`, `WakesOne`), and how the number of
threads at some labels changes when one moves (`WhereMove`, `CountMove`).

Only model-checked:

* every liveness property (liveness under fairness and ENABLED are out of the prover's reach);
* `NobodyStranded` of `RobustMutex`, `NoLostWakeup32`, `NobodyStuck` of `SetXid`, `NobodyStranded` and
  `HandedOver` of `RWLock`, `NoLostSignal` of `Condvar`: their invariants speak of chains of pending
  wake-ups through several threads, and no inductive form of them has been found yet;
* `GroupsAccounted` and `DestroyExact` of `Condvar`, `IdsOfProcess` of `SetXid`, and the refinements of
  `AbstractRobustLock` and, by `Semaphore32`, of `CountingSemaphore`: within reach, not yet done.

## 5. Disagreements between the code and its comments, and observations

Found by a run:

1. `barrier_destroy_at_reset`. If exactly `max_in_before_reset` threads have entered,
   `pthread_barrier_destroy` can return while the last leaver still has its reset stores to do
   (`pthread_barrier_destroy.c:44`); with the real threshold this takes about 2^31 entries.
   `DestroySafeButReset` shows that this is the only case.
2. `once_fork_in_init`. The generation that tells an interrupted initialization from one in progress
   (`pthread_once.c:53`) also differs when `init_routine` itself forks: in the child another thread
   takes the running initializer for an interrupted one.
3. `condvar_wake_order`. A signaler's `futex_wake` comes after the release of the internal lock
   (`pthread_cond_signal.c:92`). If the kernel may wake any waiter of the word, it can go to a
   waiter of the group that reuses the slot, and a waiter that was signaled stays asleep. The
   `condvar_rwlock` run assumes first-in first-out wake-ups (`FIFO`), which rules this out; its
   `NoLostSignal` is about the rest of the protocol and is no evidence about late wake-ups.
4. `rwlock_timed_writer`. A writer that inherits WRLOCKED from one that timed out can find the write
   phase begun by the last reader and take the lock without the explicit hand-over
   (`pthread_rwlock_common.c:777`); the reader's late store to `__wrphase_futex` may then put back a
   phase that is over, and a reader sleeps although the read phase has begun.
5. `key_sequence_wrap`. `pthread_key_delete` keeps the sequence number in an `unsigned int`
   (`pthread_key_delete.c:30`). On a 64-bit machine it wraps to 0 after 2^31 uses of a slot, where
   `KEY_USABLE` was to retire the slot after 2^63 (`internaltypes.h:146`), and values of old keys
   become current again.

Met while modelling, and excluded from a property by a named condition or a history variable; TLC
finds each when the exclusion is removed:

* `DestructorsRun`, `Reallocated`: between the test of the sequence number
  (`nptl_deallocate_tsd.c:67`) and the load of the destructor (line 73) the key can be deleted and its
  slot created again; the value is then passed to the destructor of another key.
* `NobodyStuck`, `NeverStarted`: if clone or the set-up of a thread fails, its `setxid_futex` stays -2
  and a set*id function that found it on the list waits for ever (`nptl_setxid.c:101`,
  `pthread_create.c:865`). `LeftMarked`: the initial thread can leave through
  `libc_start_call_main.h:72` after it was marked and without the handshake of `start_thread`.
  With these excluded, `NobodyStuck` answers the question in the comment at `pthread_create.c:585`.
* `IdsOfProcess`, `skipped`: a broadcast ignores a thread that has begun to exit
  (`nptl_setxid.c:116`), but that thread still runs cleanup handlers and destructors, with its old ids.
  A thread it creates there (`pthread_create.c:814` provides for creators that run cancellation handlers)
  inherits them and keeps them until the next call, against `nptl_setxid.c:265`, "we have gotten all
  running threads, and their children will be automatically correct once started"; TLC needs 19
  states. A set*id call that such a thread makes itself is executed by it with other ids than by the
  rest, and `setxid_error` may abort. `skipped` holds these threads and what they create, until they
  execute a command or leave.
* `OnceEveryCallReturns`, `GenerationReused`: once the fork generation has wrapped, an initialization
  interrupted by an earlier fork looks like one in progress, and the calls wait for ever. The comment
  at `pthread_once.c:57` says so ("an ABA issue on the fork generation"). The property leaves out exactly the states
  with a wrapped generation, a control word of the present one and nobody who initializes; the safety
  theorems hold there too.
* `RobustMutex`, `dropped`: a wake-up is lost if the thread that carries it is killed after another
  thread took the word without FUTEX_WAITERS; the kernel then sees a mutex with a live owner.
* `Cancellation`, `lost`: tgkill can fail with EAGAIN after CANCELED was set; the error is returned, and
  a second call returns 0 without sending a signal (`pthread_cancel.c:137`; `nptl_setxid.c:182`
  retries). And SIGCANCEL that arrives while a handler of the application runs on top of the bridge is
  spent in vain.

Other observations:

* A mutex that is not recoverable is handed on as EOWNERDEAD again if a thread is killed between
  taking and giving back its word; `pthread_mutex_trylock.c:172` writes `__count` without the lock.
* A thread that cancels itself in a clean-up handler with asynchronous cancellation acts again on the
  request (`pthread_cancel.c:131`).
* If clone fails, the stack is queued with joinstate still JOINABLE or DETACHED and is neither reused
  nor unmapped (`pthread_create.c:895`); `__nptl_stack_in_use` returns the opposite of its name. In the
  child of a fork the stacks of the other threads are "marked as free" by clearing tid (`fork.h:108`),
  but reuse goes by joinstate (`nptl-stack.h:35`), so they stay.
* The 32-bit semaphore does not handle EOVERFLOW of the futex wait (`sem_waitcommon.c:285`) and retries.
* `setxid_unmark_thread` never finds a bit set.
* `nptl_deallocate_tsd.c:78` adds the size of the first level where that of the second is meant; both
  are 32.

## 6. Not modelled, and the plan

The models cover the synchronization protocols of `src/nptl`, a small part of the tree: the
repository is the whole C library (over 1.5 million lines, of which `src/nptl` and `src/sysdeps/nptl`
are about one in a hundred). Most of the rest is mathematics, locale and character-set tables, string
functions, per-architecture variants and tests: sequential functions of their arguments or generated
data, for which a state machine says nothing that their tests do not. The share of the tree that is
mapped is therefore small and will remain so.

Limits of what the properties say: `KillHitsTarget` is about the tid; that the descriptor is not
reused during `pthread_kill` follows from the rule that a program does not join or detach a thread while
it signals it. `ActsOnlyWhenAllowed` takes a system call to have had side effects exactly if it got to
its end label with a result. In `Cancellation` the target ends by `pthread_exit` or cancellation; a
return from `start_routine`, after which no request is acted upon, is left out. In `SetXid` the
destructors of thread-specific data are part of the code that runs before them.

Not modelled within NPTL: weak memory; priorities, scheduling and the private/shared distinction; lock
elision; priority-inheritance and priority-protection mutexes, whose protocol is in the kernel; the
32-bit variant of the condvar counters; the GLIBC_2_0 semaphores; joining the initial thread; the
recovery of a half-done list operation after a fork (`in_flight_stack`) and the other work of fork; the
unwinder; more than one robust mutex on a list.

Order of further work:

1. Compositions: `Mutex` over `LowLevelLock`, `Condvar` over `Mutex` and `CondvarLock`. The refinements
   proved for the two locks justify the one-step locks used now.
2. fork: `in_flight_stack`, the reclaiming of stacks and thread-specific data in the child.
3. Proofs: `HandedOver` of `RWLock`, `IdsOfProcess` of `SetXid`, the group accounting of
   `Condvar`, the refinement of `AbstractRobustLock`.
4. Priority protection (`tpp.c`), and outside NPTL the protocols named in `PROJECT.json` as candidates:
   the generation counter of `dl-tls.c`, the queue of `aio_misc.c`, handlers registered while exit runs.
