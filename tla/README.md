# TLA+ models of the TOPPERS/ASP kernel for GR-PEACH

This directory is a verification project for the real-time kernel in
`asp-1.9.2-utf8` (TOPPERS/ASP 1.9.2 with dynamic creation and mutexes, as used
under the mbed libraries of this repository). Paths below are relative to
`asp-1.9.2-utf8/` unless they begin with another directory of the repository.

The mbed, lwIP, mbedtls and wolfSSL libraries are third-party code and the
examples are demonstrations; what is the program's own core logic is the
kernel: a single-processor, priority-driven scheduler with interrupts, timeouts
and synchronization objects. That is what is modelled.

## 1. Inventory

| Component | State | Operations | Interacts with |
|---|---|---|---|
| Scheduler, `kernel/task.c` | `ready_queue`, `ready_primap`, `p_schedtsk`, `p_runtsk`, TCBs (`tstat`, `priority`, `bpriority`) | `make_runnable`, `make_non_runnable`, `make_active`, `make_dormant`, `change_priority`, `rotate_ready_queue` | every service call; the dispatcher reads `p_schedtsk` |
| Waiting, `kernel/wait.c/.h` | WINFO on the waiting task's stack, object wait queues | `make_wait`, `wait_complete`, `wait_release`, `wait_tmout`, `init_wait_queue` | time events (callbacks), all objects |
| Task management, `task_manage.c` | `actque`, `free_tcb`, initial priorities | create, delete, activate, end, terminate, change priority | scheduler, mutex hooks |
| Task synchronization, `task_sync.c` | `wupque`, suspended flag | sleep, wake up, delay, release, suspend, resume | waiting |
| System state, `sys_manage.c`, `interrupt.c` | CPU lock, `disdsp`, `ipmflg`, `dspflg` | lock and unlock, disable and enable dispatching, interrupt mask, rotate | dispatcher |
| Dispatcher and interrupts, `arch/arm_gcc/common/*.S` | `excpt_nest_count`, `reqflg`, `p_runtsk` | `dispatch`, idle loop, interrupt entry and exit | everything |
| Mutexes, `mutex.c` | `p_loctsk`, wait queue, `mutex_queue` of the holder, ceilings, `free_mtxcb` | lock (with timeout, polling), unlock, initialize, create, delete | `chg_pri`, `ext_tsk`, `ter_tsk` call it through `mtxhook_*` |
| Time events, `time_event.c` | heap, `current_time`, `min_time`, `next_time`, `next_subtime` | insert, delete, tick (`signal_time`), left time | timeouts, alarms, cyclic handlers |
| Alarm and cyclic handlers | `almsta`, `cycsta`, `evttim`, free lists | create, delete, start, stop, call | time events |
| Semaphores, event flags, data queues, priority data queues, mailboxes, memory pools | counters, buffers, wait queues, free lists of blocks | send and receive, with and without timeouts, from tasks and handlers; create, delete, initialize | waiting: data pass through the WINFO of a waiting task |
| Task exceptions, `task_except.c`, `call_texrtn` | `texptn`, `enatex`, routine, saved `disdsp` | define, raise, enable, disable, call | dispatcher, interrupt exit and `chg_ipm` call `call_texrtn`, which calls `dispatch` |
| System log, `syssvc/syslog.c`, `logtask.c` | ring buffer, number of lost records, masks | write, read, set the mask; the log task; its end | written from any context, read by the log task, printed through the serial driver |
| Serial driver, `syssvc/serial.c` | two ring buffers, flow-control state, settings, two semaphores | open, close, read, write, control; callbacks of the device | semaphores, device interrupts |
| CMSIS-RTOS layer, `mbed-lib/EthernetInterface/cmsis-rtos` | none of its own | maps CMSIS calls to kernel calls | dynamic creation |

What is hard here:

* **Interleaving.** A service call is atomic because it locks the CPU, but it
  decides on a dispatch by a chain of Boolean results; handlers must leave a
  request (`reqflg`) for the return of the outermost one; dispatching may be
  disabled by two independent flags. One lost result leaves the wrong task
  running, with no error at the place where it is lost.
* **Timeouts.** A timeout in the tick handler races wake-ups, forced releases
  and terminations. The block for it lives on the waiting task's stack, and a
  union (WINFO) holds first its address, then the error code.
* **Caches.** `p_schedtsk`, the bit map, current priorities and `index` fields
  duplicate other data and are updated case by case.
* **Reuse.** TCBs and mutexes may be deleted and created again while other
  tasks are between reading and using them.
* **Arithmetic.** Event times wrap; ticks may be fractions of a millisecond.
* **Hand-over.** A resource or datum goes to a waiting task while that task may
  time out, be released or be terminated before it runs again.
* **Mutual recursion.** `call_texrtn` calls `dispatch`, and the task that comes
  back from it tests whether to call `call_texrtn`.
* **Two sides of a buffer.** In the serial driver one side of a semaphore is
  given by an interrupt, depending on how full the buffer was, and the
  interrupt itself is switched off when there is nothing to do.

What makes each part correct is stated as the properties of section 4. The
complete list of hazards, with the line where each bites and the property that
would show it, is in `PROJECT.json`.

## 2. Modules

```
TaskSched <- Wait <- MutexHooks <- Kernel <- MCKernel
    ^                                |^^^--- Mutex <- MCMutex
    |                                ||----- TaskExcept <- MCTaskExcept
    |                                |------ WaitObj <- Semaphore, EventFlag, DataQueue,
    |                                |                  PriDataQueue, Mailbox, MemPFix
    |                                |                       <- SyncObjects <- MCSyncObjects
TaskSched_proofs <------------- Kernel_proofs <- KernelTasks_proofs    (implements Channel)
                                     ^---------- TaskExcept_proofs, Mutex_proofs,
                                                 SyncObjects_proofs
TimeEvent <- MCTimeEvent
    ^------- TimeEvent_proofs
Serial, Syslog <- LogTask <- MCLogTask                          (implements Stream)
                     ^------ LogTask_proofs
```

**`TaskSched`** (`kernel/task.c`, `include/queue.h`). The kernel's data is one
record `k` whose fields have the names of the C variables and of the TCB's
fields; a C function is an operator from `k` to `k`, so that a service call is
the composition of what it calls, in its order. Linked queues are sequences,
the bit map is the set of its 1 bits, `tstat` is a set of flags. A function
that returns "a dispatch is necessary" sets `k.dspreq`, and the caller does
with it what the code does: `dispatch()`, `reqflg = true`, or `(void)`
(`t_leave`, `i_leave`, `Void`).

**`Wait`** (`kernel/wait.c`, `kernel/wait.h`). `k.winfo[t]` is the one word of
the union WINFO: NULL, a pointer to the time event block, or an error code. The
comparison with NULL in `wait_dequeue_tmevtb` is made on that word, so that
code which overwrites it too early goes wrong in the model as well.
`k.tmevtb[t]` is the callback of the task's block while it is registered. When
it fires is left open: at any moment in a handler (module `TimeEvent` models
the order of events).

**`MutexHooks`** (`kernel/mutex.c`): the functions of the mutexes that
`task_manage.c` calls through the `mtxhook_*` pointers. The callers call them
only for a task that holds or waits for a mutex, so that they play no part in
`Kernel` alone.

**`Kernel`** (`task_manage.c`, `task_sync.c`, `sys_manage.c`, `chg_ipm`,
`core_support.S`, `gic_support.S`). One action per service call, guarded by the
code's checks: `CHECK_TSKCTX_UNL` and the others. A call that returns an error
or only reads changes nothing and has no action. The processor is in a task
(`excpt_nest_count = 0`), in nested handlers, or in the idle loop (which counts
as a non-task context, as in the code). `wait_return` is the task's continuation
after `dispatch()` in a waiting call, still with the CPU locked: it reads
WINFO. `chg_pri` with TPRI_INI is two actions, since it reads the initial
priority before it locks the CPU. `signal_time` is one iteration of the tick's
loop; other handlers may run between two iterations, because `wait_tmout`
unlocks the CPU at its end. `Next` is the kernel without mutexes, in which every
`mutex_queue` stays empty.

**`Mutex`** (`kernel/mutex.c`) adds the mutexes' fields and calls to
`Kernel`; with them the tasks' actions do call the functions of `MutexHooks`. A
free mutex control block is linked in the free list by the field that is its wait
queue in use; a call that takes one for the other corrupts memory, which is
`k.undef`, and nothing is said about what follows.

**`WaitObj`** holds what the other objects share: the part of WINFO through
which data pass (`k.winfo_data`), the second wait queue of a data queue, and
creation and deletion. **`Semaphore`**, **`EventFlag`**, **`DataQueue`**,
**`PriDataQueue`**, **`Mailbox`** and **`MemPFix`** have one action per call of
`semaphore.c`, `eventflag.c`, `dataqueue.c`, `pridataq.c`, `mailbox.c` and
`mempfix.c`; calls with and without a timeout are one action with a parameter.
Ring buffers keep their head and tail, the lists of the priority data queue, of
the mailbox and of the pool keep their links, and the mark `INDEX_ALLOC` is in
the same word as the link, as in the code.

**`SyncObjects`** puts them together with the tasks. A behaviour is that of one
program, which uses the objects of one kind: objects of different kinds share
nothing but the tasks.

**`Channel`** is the abstract specification of an object: items enter, wait in
order, and leave once; a wait that ends with an error neither delivers nor
consumes. `ChannelSpec` maps the state of a semaphore (items are alike), data
queue, priority data queue, mailbox or pool (items are free blocks, last in,
first out) to it. The mapping is in the definitions `SemPar`, `SemBuf`,
`DtqPar` and so on of each module.

**`TaskExcept`** (`task_except.c`, `call_texrtn`, and the tests in
`core_support.S` and `chg_ipm`) adds to `Kernel` the exception state and the
frames of `call_texrtn` on each task's stack. `chk` marks the moments at which
the code tests the conditions. `call_texrtn` is three steps, because the
address of the routine is read, and the routine runs, with the CPU unlocked.

**`TimeEvent`** (`time_event.c`, `alarm.c`, `cyclic.c`). The binary heap with
`tmevt_up` and `tmevt_down` as recursive functions over the iterations of their
loops, wrapped event times, the fractional tick, and `signal_time` step by step: callbacks run with the CPU
unlocked inside the loop, and calls in them change the heap. Handlers may be
created and deleted; those with TA_STA are registered by `initialize_cyclic` in the
order of their table, the sequence `TaSta`. The ghost variable `wait` is the exact time left for each
event, never wrapped, in units of 1/TIC_DENO ms; the properties compare the
code's arithmetic with it.

**`Serial`** (`syssvc/serial.c` on the device of `arch/arm_gcc/rza1`). One port
as a record `s`. A section with the CPU locked, a call of the kernel and a
callback are one step each, and anything may happen between two steps of a
task. The two semaphores are those of module `Semaphore`, reduced to at most one
resource. The device accepts a character or not, and interrupts only while TIE
is set and the line is not masked. `sio_cls_por` leaves TIE and RIE set, as the
code does: `scif_cls_por` adds the register's offset to a pointer to 16-bit
words and so writes to another register. `acc` and `gap` are ghosts that count
the log messages on the line.

**`Syslog`** (`syssvc/syslog.c`) is the log buffer, and **`LogTask`**
(`syssvc/logtask.c`) the log task between it and the driver, with other tasks
on the same port, and the end of the kernel.

**`Stream`** is the abstract specification of the three ring buffers: a bounded
queue, without loss or giving up its oldest entry.

Definitions marked *Fault* are plausible mistakes in the definition they
precede. They are not part of any specification; each shows that a property
would notice the mistake.

## 3. Abstractions and bounds

* Activation and wake-up queues have the code's length, one.
* Timeout values are "for ever" or "some time" in `Kernel`; polling does not wait
  and is covered by the calls that do not wait.
* Stacks and registers are left out, except for what a restarted task loses
  (`activate_context`).
* `MaxNest` bounds nested handlers: two are enough to tell the outermost
  handler, which looks at `reqflg`, from an inner one. In runs about other
  questions it is one.
* Two priorities distinguish higher, equal and lower. Two or three tasks give
  queues with a head, a middle and a tail across two priorities, and with one
  mutex a wait queue of two.
* `EVTTIM_MOD = 8` with `TMAX_RELTIM = 3` keeps the code's relation between the
  two (2^32 and 2^31 - 1), and every run wraps around often. Five alarms and a
  cyclic handler make a heap of three levels in which a deleted node's
  replacement has to go up. Alarms are interchangeable (symmetry).
* With `TMAX_RELTIM` of half the range the code relies on `min_time` lagging by
  at most one tick, and on two ticks and the longest relative time fitting in
  EVTTIM. `TimeAssumption` says so; with 2^32, 2^31 - 1 and ticks of some
  milliseconds it holds by far.
* Objects: capacity two (and zero for a data queue), two or three tasks and a
  handler, three messages or data of two priorities: a full and an empty object
  with a waiting task on either side, and a wrap-around of the ring.
* The run of `SyncObjects` uses a VIEW that leaves out words no step reads
  before it writes them: the WINFO of a task that is in no call, places of a
  buffer that are not in use, links of messages that are in no mailbox. Two
  states with the same view have the same behaviours and the same value of every
  property.
* Task exceptions: one factor (a set of pending factors is either empty or not
  for every decision of the code) and two nested routines (`MaxTexNest`).
* Serial: two places to send, three to receive (STOP at 2, START at 1), a log
  of two records and up to three records, so that records are lost; at most one
  or two calls of other tasks and one to four characters that arrive
  (`MaxCall`, `MaxRcv`).

## 4. Runs

| Run | Instance | States | What it shows |
|---|---|---|---|
| `kernel` | two programs: 2 tasks, every call, 2 nested handlers; 3 tasks, one created and deleted | 1 260 000 | types, scheduler data, no lost dispatch, WINFO, termination and reuse of a TCB, order within a priority |
| `mutex` | two programs: 3 tasks at 1 ceiling mutex; 2 tasks, 2 mutexes, one dynamic, dispatching disabled and enabled | 1 190 000 | holders, priorities and ceilings, hand-over, timeouts, forced release and termination |
| `objects` | six programs, one object each, 2 or 3 tasks and a handler | 247 000 | every object but the event flag implements `Channel`; event flags release whom they should; wait queues and blocks |
| `tex` | 2 tasks, one dynamic, 1 handler, 2 nested routines | 1 570 000 | task exceptions start, nest, and restore the state, while routines are defined and taken away at any time |
| `time_heap` | 5 alarms, 1 cyclic handler, all dynamic, ticks of 1 ms | 331 000 | order and indexes of the heap, punctuality, wrap-around |
| `time_frac` | 3 alarms, 1 cyclic handler, ticks of 3/2 ms | 436 000 | rounding: never early, never a millisecond late, left times |
| `syssvc` | two programs: log task and a task; two tasks that open, close, set and release | 703 000 | semaphores, flow control, refinement of `Stream`, logs accounted for, liveness |

Properties:

* `SchedInv`: ready queue, bit map, priorities and `p_schedtsk` agree.
* `NoLostDispatch`: with dispatching enabled the running task is `p_schedtsk`;
  where a handler has changed `p_schedtsk`, `reqflg` is set, also for the idle
  loop.
* `RunningOK`: the running task stays runnable in every context.
* `WinfoOK`: WINFO is read as a pointer exactly while it is one, and a block
  is in the heap exactly while its task waits with a timeout. Otherwise a
  timeout would later write through a pointer into a dead stack frame.
* `DormantOK`: nothing of a task survives its end; the free list is exact.
* `PrecedenceStable` (action property): two tasks of one priority change their
  order only because one moved to the tail.
* `MutexQueueOK`, `NoOrphanWaiter`, `PriorityOK`, `CeilingOK`, `WaitQueueOK`:
  what `extension/mutex/test/bit_mutex.c` checks at run time, and that no task
  waits for a mutex that is free.
* `ChannelSpec` (refinement): see `Channel` above.
* `WobjQueueOK`: a wait queue is exactly the tasks that wait there, in order.
* `NoMissedFlag`, `FlagReleaseOK` (action property): no task waits for a pattern
  that is set, and a task is released only for a pattern it waits for, one at a
  time with TA_CLR.
* `PdqBlocksOK`, `MpfBlocksOK`: every block is in one place, free, in use or
  never used, however lists and hand-overs interleave.
* `TexStarted`: the six conditions of `doc/design.txt` never hold while the task
  goes on. `TexNested`: the stack does not grow by the mutual recursion.
  `TexRestored` (action property): the state after the routine.
  `RequestDefined`: exceptions are pending only for a task that has a routine, so
  that one was defined whenever `call_texrtn` took the factors. That it still is
  when its address is read does not hold: `RoutineExecuted`, finding 5.
* `IndexOK`, `HeapOrdered`, `NotEarly`, `NotLate`, `LefttimOK`: see `TimeEvent`.
* `ResourceOK`: each semaphore of the port has its resource in exactly one
  place, under the rules on releases and closings below. `NoMutualStop`: STOP is out only while there is something to read.
  `StreamSpecs` (refinement). `LogAccounted`: before a record on the line every
  earlier one was printed or counted as lost.
* `LogReachesLine` (liveness): every record is sent or reported as lost, if the
  peer sends no STOP and the kernel does not end.
* `KernelInv` and `TexKernelInv` are the kernel's invariants in the larger
  models.

Deadlock is checked in every passing run but `syssvc`, which stops when its
bounded calls are used up or the kernel has ended, and `tex`, which stops when
`call_texrtn` has called address NULL (finding 5); what follows is undefined.

Programs. With three tasks some calls are left out to stay within minutes; the
first program of `kernel` has them all. The passing runs assume programs that
keep these rules, and the list of hazards names what happens otherwise:

* no locked mutex is deleted, none that does not exist is initialized
  (findings 2 and 3), and mutexes are created with ceiling 1, the one value that
  is in range in both representations when there are two priorities: `acre_mtx`
  stores the external one (`mutex.c:413`) where `mutex.h:59` says internal;
* a port is closed only while the other tasks are outside the driver or wait
  for a semaphore, since a task preempted inside it would go on with a closed
  port; and no task is released from its wait for the echo while it has
  characters left, since the driver would not give back the resource.

Fairness. Only `SpecLog` states any: weak fairness of the log task, of every
task inside the driver, and of the device with its interrupt. The code justifies
it as far as the program does: the tasks never wait with the CPU locked, sections
and callbacks are finite, the transmitter empties its FIFO without help, and no
task of higher priority runs for ever (an assumption on the application).
Nothing is assumed of calls, of characters that arrive or of the peer.

### Findings

Five runs show disagreements between the code and its documentation or its own
checks; each run stops with a counterexample.

1. `chg_pri_ini`: `chg_pri(t, TPRI_INI)` reads the initial priority outside the
   critical section (`task_manage.c:526`); `t` may be deleted and created again
   in between.
2. `del_mtx`: deleting a locked mutex leaves it in its holder's `mutex_queue`
   (`mutex.c:451`), which `bit_mutex.c` would report.
3. `ini_mtx` has no check for a mutex that is not registered (`mutex.c:697`), unlike
   `ini_sem` and the other calls.
4. `xon`: after STOP and START the driver sends one character and may leave the
   transmit callback disabled (`serial.c:718`, disabled at 689), so that the rest
   of the buffer is not sent; `doc/user.txt:1249` says that sending is resumed.
5. `tex_def`: `call_texrtn` unlocks the CPU (`task.c:463`) and then reads the
   address of the routine (465). A task that preempts in between may take the
   routine away (`def_tex`, `task_except.c:148-153`, has no check against it), and
   the address called is NULL, where `doc/design.txt:467` says that the routine is
   started. In the instance `t1` has the highest priority and a handler wakes it
   while `t2` is in that window. A task whose routine is taken away while it runs
   ends, for the same reason, with exceptions enabled and no routine (488).
   The counterexample is a behaviour under the fairness above.

## 5. Proofs

Eight modules are checked by TLAPS. Their theorems hold for every value of the
constants that satisfies the assumptions stated in the modules.

| Module | Theorems | For every |
|---|---|---|
| `TaskSched_proofs`, `Kernel_proofs` | `Spec =>` `[]TypeOK`, `[]SchedInv`, `[]NoLostDispatch`, `[]RunningOK`, `[]WinfoOK` | set of tasks, number of priorities, table of static and dynamic tasks, nesting depth |
| `KernelTasks_proofs` | `Spec =>` `[]DormantOK`, `PrecedenceStable` | the same |
| `Mutex_proofs` | `SpecOrderly =>` `[]MutexQueueOK`, `[]NoOrphanWaiter`, `[]PriorityOK`, `[]CeilingOK`, `[]WaitQueueOK`, `[]NoCorruption`, and the four invariants of the task part | the same, and every set of mutexes, static or dynamic, with any attributes and ceilings |
| `SyncObjects_proofs` | `SpecObjects =>` `[]KernelInv`, `[]WobjQueueOK`, `[]NoMissedFlag`, `[]PdqBlocksOK`, `[]MpfBlocksOK` | the same, and every set of objects of the six kinds, static or dynamic, with any attributes, sizes, data and messages |
| `TaskExcept_proofs` | `SpecTex =>` `[]TexKernelInv`, `[]TexStarted`, `[]TexNested`, `[]RequestDefined`, `TexRestored` | the same, and every set of exception factors and depth of routines |
| `TimeEvent_proofs` | `Spec =>` `[]TypeOK`, `[]IndexOK`, `[]HeapOrdered`, `[]NotEarly`, `[]LefttimOK`, `[]NotLate` | set of handlers, phases and cycles, length of a tick, width of EVTTIM |
| `LogTask_proofs` | `SpecLog =>` `[]ResourceOK`, `[]NoMutualStop`, `StreamSpecs` | set of tasks, size of the three buffers, texts |

The theorems are about the specifications of the modules; the programs of the
runs are restrictions of them.

### The task part

The assumptions: there is at least one priority (`TnumTpriAssumption`), NULL is
no task (`NullAssumption`), the tables list tasks without repetition
(`TableAssumption`), the depth is a number (`MaxNestAssumption`).

None of these invariants is inductive by itself: `SchedInv` needs to know that a
task to be inserted is not in the queue yet (from its `tstat`), `NoLostDispatch`
needs `SchedInv` and `RunningOK`, and deletion needs to know that a free TCB is
dormant. The inductive invariant is

    IInv == Static /\ Context

`Static` is what the kernel's tables satisfy when no function is in the middle
of changing them (types, ready queue, `p_schedtsk`, the three words that
describe a wait, the free list, the dispatch flags). `Context` relates them to
what runs (the running task is runnable, the dispatch that is due has been made
or requested, nothing is left in `dspreq`, and the state before
`start_dispatch`). The argument follows the code. `TaskSched_proofs` says what
each function of `task.c` does to `ReadyQueueOK` and `SchedtskOK` and that it
sets `dspreq` whenever it changes `p_schedtsk` with dispatching enabled. A
service call is a chain of such functions from `Static` to `Static`, and
`Dispatcher`, `TaskLeave` and `IntLeave` reestablish `Context` from `dspreq`.
`NextIInv` has one case per action. The specification proved about here is the
kernel without mutexes, so a second part of the induction, `NoMutex`
(`NextNoMutex`), says that every `mutex_queue` is empty and the functions of
`MutexHooks` are never called.

`DormantOK` is carried by `Life(x, S, a, f)`: the dormant tasks of `S` have their
initial values while the attributes are `a` and the free list is `f`. Only
creation and deletion change `a` and `f`; between `make_non_runnable` and
`make_dormant` the task that ends is outside `S`. `PrecedenceStable` is an action
property: every function of `task.c` keeps the order of two tasks of a priority
or appends one of them, and a chain of functions that touches one task only does
so too.

### Mutexes

The theorems are about `SpecOrderly`, the programs that delete no locked mutex
and initialize only registered ones. The kernel checks neither, and both rules
are needed: the runs `del_mtx` and `ini_mtx` violate `MutexQueueOK` and
`NoCorruption` without them. Nothing else is asked of a program: mutexes may be
initialized while they are locked, tasks terminated while they hold or wait for
any number of them, ceilings may have any value, also one in the wrong representation.
`MutexAssumption` says that the table of dynamic mutexes has no repetition.

The inductive invariant is `IInv(k) /\ MutexOK(k)`, where `MutexOK(x)` is
`MInv(x, {}, {}, {})`. `MInv(x, X, Y, L)` says: mutex queues and `p_loctsk` agree
and owners are active and their mutexes registered; a wait queue is the tasks
that wait there, in order, and that of a free mutex is empty; base priorities are
within the ceilings of the mutexes that a task holds or waits for; every current
priority is the one `mutex_calc_priority` would compute; the free list has only
unregistered mutexes. None of these is inductive without the others: the hand-over
in `mutex_release` needs the base priority of the new owner to be within the
ceiling, the order of a wait queue needs exact current priorities, and
`NoOrphanWaiter` needs that `mutex_queue` misses no locked mutex when its owner
ends.

In the middle of a call some of it is false, and that is what the parameters are
for: the tasks of `X` have left the wait queues and have not been made ready, the
priority of the tasks of `Y` has still to be changed, the mutexes of `L` have left
the queue of their owner. Each function of `wait.c`, `task.c` and `mutex.c` is a
lemma from one triple to another, and a service call is a chain that begins and
ends with three empty sets. A function of `task.c` that moves a task between
priorities leaves the queues of the mutexes alone but for one position, that of
the task in its own wait queue (`wobj_change_priority`).

Two functions loop over a queue of any length: `mutex_release_all` over the
mutexes of a task, `init_wait_queue` over the tasks that wait. They are recursive
functions over the number of iterations, and what holds after every number of
them is shown as for the heap below, by the least number for which it fails. The
measure is that each iteration takes one entry out of the queue, so that the
loop's bound, the length at its beginning, is enough to empty it.

The actions of `Kernel` were proved for empty mutex queues; `Mutex_proofs` proves
those that call the hooks again (`chg_pri`, `ext_tsk`, `ter_tsk`, and the ends of
waits), now with mutexes, and takes the others from `Kernel_proofs`.

### Synchronization objects

The assumptions about the constants are those of the generated tables: an object
is of one kind and has one WOBJCB, the second wait queue of a data queue is of no
other object (`ObjectsAssumption`, `RwaitAssumption`), the lists of dynamic
objects have no repetition, and the initialization blocks and creation packets
have the types of the C structures (`SemAssumption` and so on).

The inductive invariant is in three parts, each needed for the next. `ObjInv` is
`IInv` with `QInv`: a wait queue holds exactly the tasks that wait there, once and
in order, and is empty if its object does not exist; the objects of a free list
do not exist and are listed once. `QInv(x, X)` leaves out the tasks `X` that a
call has taken from a wait queue and has not made ready yet. `KernelInv` and
`WobjQueueOK` follow from it. Every call is shown to be one of a few forms (a
function on tasks, a wait, the completion of the first wait, creation, deletion,
initialization), and to change only the fields of its own kind of objects
(`Touches`). So does each of the six parts of `NextObjects` (`SemInv` to
`MpfInv`), and `TaskInv` for the calls on tasks.

`FInv` says of every task in the queue of an event flag that its condition is not
met by the present bits, whence `NoMissedFlag`. Only the walk of `set_flg` adds
bits. It is a recursive function over the positions of the wait queue it found,
and `WalkedTo` is its loop invariant: the tasks before the position that are
still in the queue are unmet, those from it on are still there, and other flags
are as they were. After the walk has added the bits they are only taken away
(TA_CLR), so that a task that was passed over stays unmet: conditions are
monotonic in the bits (`MeetsLess`).

`PInv` and `LInv` are about the blocks. In a priority data queue the queue and the
free list share the blocks below `unused` (`Shared`). A pool's free list is
threaded through the words of its own blocks: `PoolOK(s, d, mb, n)` says that
these links spell the list `s` (`Linked`), and that `s` is the blocks below
`unused` without the mark INDEX_ALLOC, each once (`Free`). That following the
links, `chain`, gives just `s` is `ChainOf`, shown by the least length for which
it fails; that they end in time is that a list of different blocks is no longer
than the pool (`FewBlocks`). `PdqBlocksOK` and `MpfBlocksOK` then are lemmas about
two lists one after the other.

### Task exceptions

`TexIInv` adds to `IInv`: `PerTask`, how the frames of one task belong to its
`enatex`, `texptn` and `texrtn` (a frame below another one is of a routine that
called `ena_tex`; nothing is pending for a task without a routine); `LoopOK`, the state that a
task finds at the end of `call_texrtn`'s loop, also when it was dispatched in
between; `DormantTex`; and `ChkOK`, where the conditions are tested. `PerTask` is
local, so that most steps are about one task (`TexLocal`). `TexRestored` then
follows from `LoopOK` at the step `loop`. `def_tex` is not restricted: it changes
the routine of any task, also of one that is inside `call_texrtn` or its routine
(`DefineTex`). The kernel's own steps inside `NextTex`
use `NextIInv`.

### Time events

`TimeInv` says: the nodes are a heap by the distance from `min_time` and `index`
is the inverse of the positions (`HeapOK`); `current_time` is the present rounded
down, and the present is less than a tick and a millisecond after `min_time`
(`ClockOK`); the time of every registered event is its exact time, from the
ghost `wait`, rounded up (`Rounded` in `EventsOK`); which handlers are registered,
and `evttim` of a cyclic handler is the time of its event (`BlocksOK`); and
`min_time` is `current_time` outside the tick. Exactly this relation between
rounded and exact times makes both comparisons right: `NotEarly`, `NotLate` and
`LefttimOK` follow from it by arithmetic.

The loops are proved correct by their loop invariants: `UpState` and
`DownState` say that the heap is one with a hole, into which the event fits from
one side. That they hold after every number of iterations is shown by taking the
set of numbers for which they hold and the least number outside it
(`Least`, `SetInduction`), for which set-theoretic statement the provers need no
operator parameter. `initialize_cyclic` is treated the same way.

`TimeNotLate` has a hypothesis, that no handler with TA_STA has the phase 0.
Such a handler is due at time 0, before the first tick; with ticks of a
whole number of milliseconds the invariant is false of it until that tick. The
configurator warns of it (`kernel/kernel.tf:849`) and the passing runs do not
configure it.

### The system services

`LogInv` has, besides types: in an open port the resource of each semaphore is in
the semaphore, or with exactly one task in the critical part, or gone because the
buffer is full (for the send semaphore) or empty (for the receive semaphore)
(`OpenInv`); in a closed port no task is in the driver (`ClosedInv`); STOP is out
only above the mark (`StopInv`); and head, tail and count of the three rings agree.
After `ext_ker` only the rings and the flow control are kept. `LogStreamSpecs` is
the refinement of the three bounded queues of module `Stream`: a ring with its
pointers maps to the sequence of its contents, every step writes at the tail,
reads at the head, overwrites the oldest record of a full log, or stutters
(`SndStep`, `RcvStep`, `RecStep`).

### Only model-checked

* `FlagReleaseOK` and `ChannelSpec`, the action properties of the
  synchronization objects. For the refinement of `Channel` the data queue's ring
  and the mailbox's links have to be mapped to sequences as the pool's were.
* `LogAccounted`, which needs the order of all record numbers on their way from
  the log to the line.
* Liveness (`LogReachesLine`): fairness is out of the prover's reach.

## 6. Not modelled

* The CMSIS layer: each of its functions is one kernel call with converted
  arguments.
* CPU exceptions, device registers and interrupt lines: hardware. Of the serial
  device the model has what the driver depends on.
* Reference calls, `get_tim`, `sns_*`: they only read. `logtask_flush` polls.
* The memory pool from which created objects get their areas.
* The configurator is a host program whose output is the models' constants.
* Most of the repository by lines is not the kernel: mbed and its drivers,
  register definitions, mbedtls, wolfSSL, lwIP, ports of the kernel to other
  processors and examples. They are third-party or generated, so that the
  models cover a small share of the repository, and nearly all of
  `asp-1.9.2-utf8/kernel` and of the services in `syssvc`.

## 7. Plan

1. Done: the task part; mutexes; time events with their handlers; all
   synchronization objects with their refinement; task exceptions; the system
   log, the log task and the serial driver with liveness. Proofs of the task
   part, of mutexes, of the synchronization objects, of task exceptions, of time
   events and of the system services.
2. Proofs that each kind of object implements `Channel`, the semaphore first.
3. An abstract scheduler, a set of ready tasks with a precedence order, and
   `Kernel` shown to implement it.
4. Liveness of the task part: a timed wait ends, a requested dispatch is made.
