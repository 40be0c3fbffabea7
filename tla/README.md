# A TLA+ model of the CMRX kernel

CMRX is a microkernel for microcontrollers with memory protection. Threads of
several processes run under a prioritised round-robin scheduler; system calls
are handled by short handlers that device interrupts may preempt at any point.
The kernel takes no locks while it searches its tables. It works with
*transactions*: remember a counter, look around, and commit only if the counter
has not moved. Much of what is hard to test here comes from that style: what
happens when the commit is refused, and what an interrupt may do between two
steps of a handler.

The modules cover the kernel core (`src/os/kernel`) on one core, the Cortex-M
port with its memory protection and remote procedure calls, the hand-over of the
Linux port, the trap frames of the RISC-V port, and two libraries that
applications build on: mutexes and queues. Paths below are relative to the
repository.

## Inventory

| component | state | operations | interacts with | hard part |
|---|---|---|---|---|
| transactions (`kernel/txn.c`) | `os_txn_current_id`, the core/SMP lock | start, commit (read-only, read-write), start_commit, done | every table of the kernel | lock-free reads, 8-bit counter |
| scheduler (`kernel/sched.c`, `context.c`) | `core[]`, `cpu_context` | yield, tick, next-thread search, switch request, shutdown | PendSV, timers, all blocking calls | request and switch are separate; refused yields |
| threads and stacks (`kernel/sched.c`) | `os_threads[]`, `os_stacks` | create, exit, kill, stop, continue, join, setpriority | scheduler, signals, notifications | multi-step creation and termination |
| wait/notify (`kernel/notify.c`) | `os_notification_waiters`, `wait_object` | wait (plain, on a value, with a timeout), notify (plain, with flags), init | scheduler, timers, ISRs, mutexes | lost wakeups, stale search results |
| pending notifications (`notify.c`, `algo.h`) | `os_notification_buffer` | queue, dequeue, clear | wait/notify | deletion and full table |
| timers (`kernel/timer.c`) | `sleepers`, sorted `sleeper_queue`, cursor, `sched_microtime` | usleep, setitimer, timeouts, cancel, run | tick, wait/notify | wrap, cursor, stale timeouts |
| signals (`kernel/signal.c`, `arm/signal.c`) | `signals`, `signal_handler` | signal, kill, delivery | threads, PendSV | wake of stopped threads |
| ISR services (`kernel/isr.c`) | none | isr_kill, isr_notify_object | everything, at any moment | no transaction in isr_kill |
| context switch, SVC (`arm/cortex.c`, `arm/runtime.c`, `syscall.c`) | PendSV pending, saved registers, `exc_return` | SVC, PendSV, results of calls | scheduler | decision made earlier than executed |
| RPC (`kernel/rpc.c`, `arm/rpc.c`) | `rpc_stack` per thread, forged frames | call, return | MPU, scheduler | depth limit, alignment, FPU frames |
| memory protection (`arm/mpu.c`) | region registers, `os_processes[].mpu` | configure, load, restore, stack | RPC, switches | which process' regions are loaded |
| mutexes (`lib/arch/*/mutex.c`) | state and owner byte | init, lock, trylock, unlock | wait on value, notify2 | preemption at any instruction |
| queues (`extra/queue_server/queue.c`) | ring, two cursors, empty flag | send, silent send, receive | notifications | order of four stores |
| Linux port (`arch/linux`) | host threads, pipes, signal masks | entry, tick, interrupt, switch, start, RPC | kernel core | hosts really run in parallel |
| RISC-V port (`arch/riscv`, `quirks/pico-sdk-riscv`) | trap frames, pending switch | ecall, timer trap, safe point | kernel core | one frame for all purposes |
| inter-core calls, queue server, trace, access checks, user stubs, timing providers, communication interfaces | | | | see *Not modelled* |

What makes each correct: transactions are exclusive and see a consistent state;
the CPU runs the thread the scheduler believes in, the most urgent one, and
nobody starves; a stack has exactly one owner; no wakeup is lost and the most
urgent waiter gets it; a notification is recorded until it is consumed; a sleep
ends, and a timeout ends the wait it was set for, not before its time; a signal
wakes a stopped thread; a thread reaches the memory of the process it works in
and no other; a call returns to its caller; a thread resumes with its registers;
a mutex excludes and nobody sleeps on a free one; a queue delivers in order.

## Modules

| module | models | state and actions |
|---|---|---|
| `Txn` | `txn.c` | the counter, the lock, and per context a handle and what it has read; one action per call and outcome; unlocked reads of single fields in between, so a reader can observe half of another's commit. `age` is a history variable counting commits since `os_txn_start`. |
| `Sched` | `sched.c`, `context.c`, `signal.c`, `syscall.c` | `os_threads[]` as functions on slots, `os_stacks.allocations` as the set of its set bits, `core[]`, `cpu_context`, `pendsv`. |
| `Notify` (extends `Sched`) | `notify.c`, `isr_notify_object` | `wait_object`, `waiters`, `pending` per object. |
| `Kernel` (extends `Notify`) | start-up, PendSV, `isr_kill`, composition | `Next`, fairness, properties, inductive invariants. |
| `Timers` (extends `Kernel`) | `timer.c`, timeouts in `notify.c`, the clock of the tick | `timers` (slots, queue, size, cursor), `sched_microtime`. Steps of `Kernel` run unchanged inside `Timed`, which adds what the callbacks do to the timers; the tick is replaced by one that runs them. |
| `Pending` | what `ipc/notify.h` promises | abstract: a counter per object. |
| `NotifyTable` | the hash table in `notify.c`, `HASH_SEARCH` | entries, load, and whether a search hangs; refines `Pending` until a freed entry cuts a probe sequence. |
| `Mpu` | `mpu.c` | operators: what the two generations of the unit make of a region, and how slots are loaded. |
| `Arm` (extends `Mpu`) | `arm/rpc.c`, `kernel/rpc.c`, `arm/sched.c`, `cortex.c` | loaded regions, `rpc_stack`, forged frames, FPU state; start-up, RPC step by step, switches requested at any step, shutdown and restart. `overlapped` is a history variable: a switch was requested while a call was being handled. |
| `Context` | `cortex.c`, `runtime.c`, `arm/sched.c`; `arch/riscv`, trap handlers | the words around a thread's `sp`, the CPU's registers, what the thread should find in them. |
| `Lock` | what `ipc/mutex.h` promises | abstract: ask, get, give up, release. |
| `Mutex` | `lib/arch/arm/mutex.c`, `lib/arch/riscv/mutex.c` | the two bytes, the exclusive monitor, the waiters; one action per access; refines `Lock`. |
| `Fifo` | what `queue.h` promises | abstract: a bounded sequence. |
| `Queue` | `queue.c` | ring, cursors, flag, locals of sender and receiver, notifications that are pending or were refused; one action per shared access; refines `Fifo`. |
| `Posix` | `arch/linux/*.c`, the yield of `sched.c` | per host the functions it is in, pending signals, pipe, suspension, and for each handler what its search for the next thread found; the flag of the interrupt, and which assertion ended the program; one action per step of a handler. `interrupts` is a history variable counting `generate_interrupt`. |
| `TxnProofs`, `KernelProofs`, `NotifyTableProofs`, `MutexProofs`, `QueueProofs`, `ArmProofs`, `ContextProofs`, `PosixProofs` | | theorems, checked by TLAPS. |
| `MC...` | | instances for TLC. |

**Steps.** A handler is a sequence of steps named by `pc`. A step boundary is
put wherever interrupts are enabled and something was read that a later step
uses: after a search, before the commit; between critical sections; before a
trailing `os_sched_yield`. A critical section is one step because it runs with
interrupts disabled. `call` holds the handler's arguments and locals.
`call.fresh` stands for "`os_txn_commit` would be granted". Module `Txn` justifies
it: a commit is refused exactly when another read-write commit happened, as long
as the counter has not wrapped (theorems `GrantedIsCurrent`,
`RefusalNeedsConflict`), and on one core only an interrupt can commit in between.
In `Mutex` and `Queue`, which are thread code, a step is one access to shared
memory; in `Posix` a step is what a host does between two points at which a
signal or another host can be noticed.

**Exceptions.** SVC, the tick and PendSV start when thread code runs; device
interrupts at any step boundary. PendSV is taken before thread code runs again.
Interrupts do not nest; `isr_notify_object` is therefore one step, including its
yield, and `isr_kill` another.

**Data.** Addresses of objects are model values; a thread descriptor used as an
object (`thread_join`) is the thread's number. In `Kernel` register contents are
the number of the thread they belong to (`cpu`); `Context` has them one by one.
The signal mask is whether a signal is pending. Exit codes and return values are
left out, except where a property needs them. `stack_mask` is modelled with its
32 bits, because the retry in `os_stack_create` can shift it out. Times wrap at
`TimeMod`; `SleeperHash` is what `os_hash_key` gives for the keys of the first
threads. Addresses in `Arm` count words, regions are base and size in bytes. In
`Posix` the kernel's operations are cut down to what they do to thread states.

**Bounds.** `MaxPending` limits the notifications pending per object by not
issuing another notify call; `WaitersBound` stops waiting once an entry has been
written past `os_notification_waiters` (only reachable after
`init_waitable_object`). `TimersBound` sets a timer only while the tables have
room. `MaxDepth` limits nested remote calls, `MaxBurst` the sends that begin while
one item is received, `MaxSpurious` notifications without an item and `MaxRefused`
notifications the kernel has no room for, `MaxNested` RISC-V traps inside a
handler, `MaxInterrupts` the calls of `generate_interrupt`. `queue_send` has no
check like `MaxBurst`, nor `os_rpc_call` one that keeps `MaxDepth` below
`RPC_SLOTS`; what happens beyond is under *What the code does not keep*.
`Ops` selects the entry points a run uses; it is a constant, so the theorems hold
for every choice of it that they do not exclude by name. `setitimer` and
`setitimer_once` are the same system call; an application that uses the second
sets no interval timer that is running. The bounds are guards of the actions, so
the theorems hold within them.

## Runs

| run | instance | shows |
|---|---|---|
| `txn` | 3 contexts, 2 fields, counter of 3 values | exclusive commits; a granted commit means a current snapshot unless the counter went round; a refusal has a cause. Three values are enough to wrap within a run. |
| `threads` | 2 threads + idle, 4 slots, 3 stacks, all thread calls, wait, notify, no device interrupts | stack ownership, live threads have stacks, the CPU runs the current thread, pending switches are consistent, the waiter list is exact. Slots and stacks run out and are reused. |
| `interrupts` | 2 threads + idle, one object, both ISR services at every step of wait, notify, init, exit and yield | indices and counts in range, no lost wakeup, the most urgent waiter is woken even if the search is stale; also after `isr_kill` has put `thread_current` and the CPU at odds. |
| `fair` | 2 threads + idle, all calls that change readiness or priority except create, ticks, no device interrupts | the most urgent runnable thread runs; no starvation under round robin (`setpriority` makes the two threads equals). `thread_create` is left out: it does not yield to a more urgent new thread, which waits for the next tick. |
| `table` | 4 entries, 4 notified objects, two with the same hash value and all with probe sequences that cross, and one that is only waited for | the load counts the entries in use, also when the table is full and a search hangs; with every entry reachable the next operation is that of `Pending`, and entries stay reachable until one is freed on the way to another. |
| `sleepers` | 2 threads + idle, `usleep` and `setitimer_once`, clock of 4 ticks | queue and slots agree while timers are re-armed, cancelled and fired; every sleep ends. The clock wraps within one sleep. |
| `timeouts` | 2 threads + idle, waits that all have a limit of 1 or 2 ticks, notify from threads and interrupts | no lost wakeup beside a timeout, the waiter list stays exact, no wait ends before its own latest request allows, every wait ends. |
| `mutex` | 3 threads, ARMv6-M, ARMv7-M, RISC-V | the futex implements `Lock`; sleepers have a waker; locking makes progress. Three threads let one hold, one sleep and one steal. |
| `queue` | depth 3, items of 2 bytes, sends from interrupts, one notification more than items and one that is refused | the ring implements `Fifo`, its flag tells full from empty, not more items are stranded than notifications were refused, and with none refused items are delivered. Cursors wrap, and the queue fills. |
| `rpc` | 3 threads in 2 processes, calls nested twice, FPU, both protection units, switches requested by interrupts at every step | returns to the caller, frames within the stack; memory isolation, except from a switch that is requested within a call until the unit is loaded again; also after a restart. |
| `linux` | 3 threads, two of them started at boot, all call kinds, ticks, one interrupt on any host at any step | one host executes at a time, a call was served when it returns, the current thread gets to run - with the interrupt anywhere. Until it comes: the tick finds the current thread alone RUNNING, and a blocked thread stays off the CPU. |
| `context` | 2 threads on Cortex-M without FPU | **violated**: the result of a wait is written into a saved register (below). |

`MCTxn` declares symmetry over contexts, fields and values, which the module
treats alike. It checks no liveness. The other instances use none.
`MCArm` tells TLC (`VIEW`) not to distinguish states by the entries of `rpc_stack`
above its depth, which `rpc_stack_push` writes before anything reads them.

`sleepers` and `timeouts` are separate because a thread that both sleeps and
waits breaks the waiter list (next section).

**Fairness.** `Kernel` and `Timers`: a handler that was entered goes on (`WF`), a
pending switch is taken (`WF`), both because hardware executes them; the tick
recurs and stays pending while it cannot be taken (`SF`). Threads are not assumed
to issue any call. `Mutex`: every thread inside an operation runs on (`WF`; the
holder releases), and a conditional store that is tried again and again succeeds
at last (`SF`), because the exceptions that make it fail are not synchronised
with it. `Queue`: the receiver keeps receiving, a send that has begun ends.
`Posix`: the host system runs every host that can run, in a hand-over and in a
handler that was entered (`WF` per host); interrupts are generated finitely often.

## What the code does not keep

The finding, with its run:

- `arm/sched.c:148`: `os_set_syscall_return_value` takes `thread->sp` for the
  exception frame. For a thread that PendSV switched out it points at the eight
  registers saved below the frame, so the result of a timed-out wait or a join
  lands in R8 and R0 keeps its old value. The RISC-V port is right as long as no
  trap interrupts a handler, and `RiscvKeepsContext` proves it. With `FPU = TRUE`
  the same run also meets `arm/runtime.c:33`, where S16-S31 are loaded from one
  word too high.

The modules contain what follows as well. A passing run states its property for
the applications, or up to the event, named there; TLC refutes it on the instance
named here, which is that of the run with the constant changed or the proviso
dropped. Some formulas no run checks because nothing is left of them within such
a limit; they stay in their modules as the statement of what is meant
(`SignalWakes`, `RecordsNotifications`, `ResumesSuspended`,
`InterruptsHitCurrent`, `InterruptIsServed`).

Scheduler and threads:

- `sched.c:128`: `os_sched_yield` gives up when its commit is refused. An interrupt
  that records a notification between search and commit makes it so, and a thread
  that was just set WAITING goes on, against the assertion of the tick
  (`sched.c:167`). `CurrentThreadRuns`, with two objects, `wait` and `isr_notify`.
- As a consequence a waiting thread can quit while it is listed as a waiter; the
  next notification makes the finished thread RUNNING without a stack.
  `LiveHasStack`, with `wait`, `exit` and `isr_notify`.
- `sched.c:253`: the retry in `os_stack_create` starts again at stack 0 but keeps
  `stack_mask`, so the bit that is set is not that of the stack it returns.
  `StackOwnership`, with `create` and `isr_notify`.
- `sched.c:375`: `os_thread_continue` does not retry a refused commit and the
  thread stays stopped, against "arrival of signal will wake thread up, if it is
  stopped" (`ipc/signal.h:34-35`). `SignalWakes`, with `isr_notify`. Without
  interrupts the commit is always granted and the formula says nothing.
- `sched.c:435`: a join waits for the caller's own descriptor and never returns.
- `sched.c:396`: a raised priority is not applied.
- `isr.c:44` compares priorities the wrong way round and replaces
  `thread_current` without `thread_next`. `SwitchIsConsistent`, with `isr_kill`.
- `txn.h` promises that any modification is noticed; the counter has 8 bits.
  `GrantedSnapshotIsCurrent`, without its proviso `age < TxnMod`.

Notifications:

- `notify.c:59`: `os_notify_dequeue_event` frees an entry by marking it empty, which
  cuts the probe sequence of an object placed behind it: what was recorded for
  that object is no longer found, against "the notification is recorded"
  (`ipc/notify.h:25-26`). `RecordsNotifications`, on the instance of `table`; `Cut`
  is the event.
- `notify.c:26`: a full notification table makes the search for an object that is
  not in it endless (`Hang`).
- `notify.c:272`: a thread notified between its wait and PendSV is kept
  running "so it won't be swapped out", but its switch stays pending and it is. `MostUrgentRuns`,
  with `wait` and `isr_notify`.
- `notify.c:90`: `init_waitable_object` makes waiters READY and leaves them in the
  list, against the assertion of `notify.c:165`. `WaitersAreWaiting`, with `wait`
  and `init`.
- `notify.c:367`: priority inheritance tests a bit number that is 0 and is dead.

Timers:

- `timer.c:58`: an interval timer that has fired is queued later than
  `sleep_from + interval`, where the search looks for it; setting it again adds a
  second entry, against "slot already occupied [...] will set / update"
  (`timer.h:76-77`). `QueueMatchesSleepers`, with `setitimer`.
- `notify.c:308`: a timeout is armed before a recorded notification is looked for and
  stays armed when there is one; it ends the thread's next wait, also one with the
  limit 0 that "waits indefinitely" (`ipc/notify.h:60-61`). `NotBeforeTime`, with
  `wait` and `timeout`.
- `timer.c:60`: two events at one time make the search for one of them endless
  (`Spin`); `SleepEnds` and `TimeoutEnds` say "or stuck".
- `timer.c:354`: after an entry fired, the cursor skips the next one for a turn
  of the queue, against "run all scheduled events in given time interval"
  (`timer.h:127`); `timer.c:323` can fail after a cancellation.
- `timer.c:314`: near the wrap an event is due too early; `NotBeforeTime` has a
  proviso. `timer.c:331`: an expired sleep makes its thread READY even if it
  waits or has finished. `WaitersAreWaiting`, with `usleep` and `timeout`.

Libraries:

- `arm/mutex.c:72`: on ARMv6-M `futex_trylock` blocks, and swallows a wakeup.
  `SleeperHasWaker`, with `TryArchs` including ARMv6-M.
- `queue.c:65`: `depth + 1` sends from interrupts while one item is received
  overwrite an unread one. `ImplementsFifo`, with `MaxBurst = depth + 1`.
- `queue.c:22`: a sending *thread* preempted between cursor and flag, with the
  receiver holding a spare notification, leaves an empty queue marked full.
  `ImplementsFifo` and `FlagTellsFullFromEmpty`, with `ISR = FALSE`.
- `queue.c:33`: `queue_send` ignores that `notify_object` was refused for want of room;
  the item stays in the queue and nobody is woken. `Delivered`, without
  `refused > 0`.

Cortex-M and RISC-V:

- `kernel/rpc.c:41`: a call at depth 7 of 8 overwrites `stack_id`.
  `RpcReturnsToCaller`, with `MaxDepth = RPC_SLOTS`. The run and the theorems
  about `Arm` assume an application whose calls nest less deeply.
- `context.c:50`: the host captured with a switch request is stale if an interrupt
  requests the switch while a call is entered or left; the unit is not loaded
  again. `MemoryIsolation`, without `~overlapped`.
- `mpu.c:223`: sizes of 3 * 2^k and bases aligned to half a region are accepted
  and protect something else; the instance uses powers of two.
- `riscv/sched.c:158`: `os_core_unlock` enables interrupts in the middle of a handler
  (`riscv_hal_backend.c:12-16`), although `quirks/pico-sdk-riscv/README.md:34` counts
  on them being disabled; a timer trap there switches threads, and `thread->sp` is
  then not the frame results are written to. `ContextPreserved`, with
  `Arch = "RISC-V"` and `MaxNested = 1`.

Linux port:

- `linux/thread.c:52`: a thread that was just started does not wait for its
  predecessor to be suspended and may hand back too early; the assertion of
  `thread_resume_execution` fails. `ResumesSuspended`, with `yield` and `create`.
- `posix.c:334`: the masks of SIGURG and SIGALRM leave SIGUSR2 open. An interrupt
  that notifies between search and commit of the yield has the commit refused: the
  blocked thread goes on, and the next tick fails its assertion (`sched.c:167`).
  `TickFindsRunning` and `CallCompletes`, without `interrupts = 0`, with `wait`.
- `interrupt.c:52`: SIGUSR2 goes to the process and may be taken by a host that was
  not started or by the main thread, against "interrupting the currently running
  CMRX thread" (`emulator.h:26-27`); in the latter the assertion of `interrupt.c:58`
  fails. `InterruptsHitCurrent`. `OnlyCurrentExecutes` therefore speaks of user code,
  system calls and the tick.
- `interrupt.c:66`: the flag of an interrupt is cleared after its function was called,
  and one generated in between is forgotten. `InterruptIsServed`, with
  `MaxInterrupts = 2`.
- `posix.c:122`: a refused remote call fails the assertion after it.

## Proofs

`TxnProofs`, for any set of contexts, fields and values and any counter width of
at least 2: `TypeCorrect`, `Exclusive`, `GrantedIsCurrent`,
`RefusalNeedsConflict`. The inductive invariant `IInv` adds to the types

- `LockOwner`: the lock is held exactly by the context in its critical section;
- `CounterDistance`: until the counter has gone round, its distance from a handle
  is the number of commits since `os_txn_start` - this is what makes comparing
  for equality meaningful;
- `QuietSnapshot`: with no commit since `os_txn_start` nobody is writing and what
  was read is what is there - it covers reads in the middle of a commit.

`KernelProofs`, for any table sizes up to 254 threads and 32 stacks, any objects,
priorities, autostarted threads and any `Ops`:

- `TypeCorrect`: `TypeOK` is not inductive alone; `CallOK` says what a handler's
  locals are at each step, in particular that a waiter position found by a search
  is a position of the list as long as the commit would be granted.
- `StacksAreOwned`: `StackOwnership`, for every `Ops` that does not have both
  `thread_create` and `isr_notify_object` - with both it is false.
  `CreationOwnsNothing` is the strengthening: slots that are free or under
  construction own no stack, and the stack a creation has found is still free.

Its second part is about waking and scheduling. Which entry points an application
uses (`Ops`) decides what holds, so each theorem names the ones it excludes; every
exclusion is one of the cases above, and TLC refutes the property without it.

- `WakeupsAreNotLost`: `NoLostWakeup`, for any `Ops`. `WakeupInv` adds that whoever
  waits is in the waiter list with a priority the search can see (application
  priorities are below the idle one), and that what the search of a notification
  found is what it would find now, as long as the commit would be granted.
- `MostUrgentIsWoken`: the action property `WakesMostUrgent`, without `create`: a
  slot that is reused would change a priority under the search.
- `CurrentRuns`, `SwitchesAreConsistent`, `WaitersAreListed`,
  `LiveThreadsHaveStacks`: under `Undisturbed` (no device interrupt uses the
  kernel, no object is initialised anew). None of the four properties is inductive:
  they speak about thread code or about a pending switch, and the handlers in
  between break and restore them. `ScheduleInv` says what holds at every step:
  `OneRunning` (the CPU, `thread_current` and the states agree, except on a thread
  that has given up the CPU and is on its way to the yield), `RequestStands` (a
  switch is only requested at the end of a handler, for a thread that can run) and
  `CheckedStands` (what a handler checked before its commit still holds at it).
- `MostUrgentGetsCpu`: `MostUrgentRuns`, under `Undisturbed` and without `create`,
  which does not yield. `UrgentInv` carries the claim through the yield and the
  pending switch: it is the next thread that is most urgent there.

Its third part is about `Timers`, for any number of slots up to 254, any hash, any
tick and any delays:

- `QueueStaysMatched`: `QueueMatchesSleepers`, for any `Ops` without `setitimer`
  (`IntervalsSetOnce`; `setitimer_once` is included). `TimersInv` consists of
  `TimersTyped` (a type invariant of its own, since `Kernel`'s confines `pc` to the
  kernel's steps), `Ordered` (the queue is sorted, and no slot is in it twice),
  `Matched` (the armed slots are those with an entry, that of a single event under
  its own time) and `SearchStands`: the entry a search found is still at its
  position as long as the commit would be granted, and there is room for the new
  one. The work is in the lemmas about insertion into the sorted queue and deletion
  from it.
- `NothingEndsEarly`: the action property `NotBeforeTime`, for applications all of
  whose waits have a limit (`OnlyTimedWaits`) and under `IntervalsSetOnce`. The
  history variable `unlimited` holds the threads whose present wait or stop has no
  limit; no timer may end that. What was found due
  before the commit is due at it (`SearchStands`), the entry's time is the one its
  slot asks for (`Matched`), and `DueIsLate` is the arithmetic modulo `TimeMod`.
- `TimeoutsLoseNoWakeup`: `NoLostWakeup` for the kernel with timers, under
  `IntervalsSetOnce`; `WakeupInv` is preserved by the steps of the timers too.
- `TimedWaitersAreListed`: `WaitersAreWaiting`, under `WaitsEndInOrder`, with device
  interrupts and timeouts, which `WaitersAreListed` excludes. `WaitingInv` says that
  no handler changes the state of a waiting thread or switches to one
  (`NotAmongWaiters`), that whoever starts to wait is the current thread and waits
  for an object (`WaitsForObject`), and that every timer is a timeout
  (`OnlyTimeouts`). Each entry point `WaitsEndInOrder` excludes makes the property
  false, as TLC shows in the instance of `timeouts` with two objects: after a
  refused yield a waiting thread goes on and quits (`exit`) or sets a timer whose
  end makes it READY while it waits (`usleep`, `setitimer`); a joining
  thread is listed for a thread that is no object, and a refused yield lets it
  arm a timeout that ends the join instead (`join`); the switch that `isr_kill`
  requests goes to `thread_next`, which may be waiting; `init` leaves woken threads
  listed.

`NotifyTableProofs`, for any size of the table and any objects:

- `LoadIsRight`: `SizeIsLoad` is inductive, for every hash function. The work is in
  the cardinality of the set of entries in use, and in showing that a search that
  ends stops at a slot of the table.
- `TableImplementsCounters`: `RecordsUntilCut`, for any hash function, collisions
  included. `AllReachable` says that the search for the object of any entry in use
  finds that entry; in such a state every operation is one of `Pending`, and it
  keeps `AllReachable` unless it is a `Cut`: it frees an entry that the search for
  another object in use passes (`OnTheWay`). The lemmas are that filling the entry
  at which a search ended hides no other, since a search that passes it stopped
  there before, and that freeing one hides only what is behind it.

`MutexProofs`, for any set of threads and any of the three architectures:
`FutexExcludes`, `FutexImplementsLock` (the refinement of `Lock`, step by step)
and `SleepersAreWoken`. `MutualExclusion` is not inductive alone; `LoadIsCurrent`
says that what a thread loaded is still there as long as the monitor covers it,
which is why its store is right when it succeeds. `SleepersAreWoken` adds that a
thread that is about to sleep saw the futex taken, and excludes `futex_trylock` on
ARMv6-M, for which it is false.

`QueueProofs`, for rings of any depth and items of any size, a sender that is an
interrupt handler (`ISR = TRUE`) and at most `depth` sends that begin within one
receive (`MaxBurst <= depth`): `NothingIsStranded`, `FullAndEmptyDiffer` and
`RingImplementsFifo`, the refinement of `Fifo`. Without either hypothesis
`ImplementsFifo` is false. `QueueInv` consists of

- `Layout`: the cursors are at boundaries of items, the bytes of the i-th item are i
  places behind the read cursor, and the half-copied item of the sender and of the
  receiver agree with the ring up to the byte they have reached;
- `Capacity`: the place of an item is not filled again before the receiver has left
  it; when the ring was emptied, the flag is set *before* the cursor moves, and what
  is sent in between is bounded by `burst`;
- `Flag`: what the flag says at each step of the receiver, for the number of items
  in the ring;
- the number of notifications, those owed, just consumed and refused included, is
  at least the number of items.

`ArmProofs`, for any number of threads, processes and slots of the unit: `ArmTypes`,
`MemoryIsIsolated`, `CallsReturnToCaller`, for `WellConfigured` applications: the
unit expresses the regions and stacks as they are (`Describable`; the lemma
`AlignedIsExact` shows it for ARMv8 regions aligned to 32 bytes, for ARMv7 it is the
application's duty), stacks end at an even word and have room for the nested calls
(`FramesFit`), and calls nest less deeply than `rpc_stack` is long, which the code
does not ensure. Interrupts request switches at every step. `ArmInv` consists of
`ProcessesInv` (created processes hold their definitions), `UnitInv` (the unit is on
once the kernel has started), `OpenInv` (unless `overlapped`, at every step the unit
is open to the current thread's stack and to the process it works in - or, before
the frame of a call is forged, to the process it is about to enter), `SwitchInv` (a
pending switch still describes the two threads, but for the host of the one that
leaves), `FramesInv` (the frames of a thread are stacked one
below the other, aligned, and the stack pointer is below the last one), `HostsInv`
(the hosts on `rpc_stack` are those of the calls, with the one a handler has pushed
or popped already) and `HandlerInv` (what a handler has in its locals).

`ContextProofs`, for any set of threads and handlers no trap interrupts
(`MaxNested = 0`): `RiscvKeepsContext`. The invariant
`FrameInv` says that the frame of every thread that is switched out, and of the
one a handler interrupted, holds what the thread expects
to find in its registers, up to the result of a call that has still to be written.

`PosixProofs`, for any number of threads, any threads started at boot, any set of
calls, any depth of remote calls and any number of interrupts, each taken by any
host that leaves SIGUSR2 open: `PosixTypes`, `OnlyOneExecutes` and `CallsAreServed`,
wherever the interrupts come; `TickIsSafe` and `CallsComplete`, which say what holds
until the first one (`interrupts = 0`). No property is inductive; `PosixInv`
consists of

- `Values`, with `Nested`: the functions a host is in follow the masks, and the
  handler of a system call is directly above the code that called - this is what
  keeps the tick out of a call, and the switch out of both;
- `Token`: the right to run is in one place. Hosts other than the current one are
  suspended, on their way there, or about to write to the current one's pipe;
- `Agreement`: `is_suspended`, the thread states and the functions of the hosts
  tell the same story, created threads included;
- `Targets`: a switch that was asked for, and what any search has found, is a thread
  with a host; the idle thread can always run, so that a search finds one;
- `Calls`: SIGURG is pending, or being handled, or the call was served.

`Orderly` holds beside it as long as `interrupts = 0` (`OrderlyUntilInterrupt`): the
current thread is RUNNING unless it is on its way to the switch, a switch that is
asked for is about to be looked at and goes to a thread that can run, and what a
yield found is up to date when it commits.

The assumptions are those of the constants: the tables hold the autostarted
threads and the idle thread, application priorities are below the idle one, a hash
value is a slot of the timer table, tick and delays are times other than 0, and
the sentinels are none of the numbers or objects. Only Z3, Zenon and LS4 are used.
TLC checked every inductive invariant on the instance of its run first.

Every invariant and every action property of a passing run is proved, under the
hypotheses named above, which the runs' instances satisfy. Only model-checked are
the liveness properties (`NoStarvation`, `SleepEnds`, `TimeoutEnds`, `Delivered`,
`CurrentGetsToRun` and the `Progress` of `Mutex`), which with fairness and `ENABLED`
are out of the prover's reach. That a power of two as the size of a region has the
properties the theorems ask of it is left to the hypothesis `Describable`, which is
about recursive functions of data.

## Not modelled

- Several cores: the SMP lock, `os_thread_migrate` (no caller) and inter-core calls
  (`extra/cm_ipi.c`). A request right after a release can find a core that has not
  left its loop, whose flag it clears: it then waits for ever.
- RISC-V traps between two writes to the control registers in `LOAD_CONTEXT`; traps
  elsewhere in a handler are modelled (`MaxNested`).
- The frame `os_deliver_signal` builds (`arm/signal.c`): at its only call the thread
  is not RUNNING, so that it returns before it builds one; the signal is dropped,
  and that is modelled.
- Linux port: delivery of CMRX signals, re-use of thread slots and which of several
  interrupts was generated. A commit is one step although `os_core_lock` does nothing
  there; handlers interrupt each other between search and commit only.
- Access classes and the fixed executable region of the MPU; the ARMv7-M
  subregion mask, which is compiled out.
- The queue server (it has no storage for its queues), the communication
  interfaces (declarations only), linker tables, access checks, the trace buffer,
  user-side stubs and timing providers: no state the properties are about.
- `os_is_object_waited_for`, `mpu_store`: no caller.
- `CMRX_KERNEL_TRANSACTION_VERIFICATION` in `txn.c`: compiled out; line 58 lacks
  a semicolon when it is on.

## Plan

1. A second core: `Txn`'s lock, `cm_ipi.c`.
2. Signal masks and delivery.
