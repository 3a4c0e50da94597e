# TLA+ models of the Toit virtual machine

This directory holds specifications of the concurrent parts of the Toit VM and
its system libraries, the TLC configurations that check them on small
instances, and TLAPS proofs of some of their properties for every instance.
Line numbers refer to the repository this directory sits beside; `src/` in
them is its root.

## The system

| part | source | state |
|---|---|---|
| Process scheduler | `src/src/scheduler.cc`, `process.cc`, `process_group.cc` | modelled but for what "left out" says (`Scheduler`) |
| Object notifiers, resources, event sources | `src/src/resource.cc`, `heap.cc`, `event_sources/` | partly (`EventSources`) |
| Timers | `src/src/event_sources/timer.cc`, `src/lib/core/timer.toit` | modelled (`EventSources`; in `Monitor` what interrupts a wait) |
| Message encoding | `src/src/messaging.cc`, primitives of `primitive_core.cc` | partly: ownership of memory (`Messaging`) |
| Tasks and monitors of one process | `src/lib/core/task.toit`, `monitor_impl.toit`, `message.toit`, `src/lib/monitor.toit` | partly (`Monitor`, `Channel`, `Gate`) |
| RPC broker and client side | `src/lib/rpc/broker.toit`, `rpc.toit` | modelled (`Rpc`) |
| Flash registry | `src/system/flash/`, `src/src/flash_registry_shared.cc`, `resources/image.cc` | partly (`FlashRegistry`) |
| Service discovery and service managers | `src/lib/system/services.toit`, `src/system/services.toit` | not modelled, see the plan |
| Container manager | `src/system/containers.toit` | not modelled but for its images (`FlashRegistry`), see the plan |
| Shared network service | `src/system/extensions/shared/network_base.toit` | not modelled, see the plan |
| Heap and collector, interpreter, primitives, compiler and language server, collections and encodings, networking and TLS, drivers, snapshots | `src/src/...`, `src/lib/...` | not modelled: sequential code, pointer manipulation or input and output |

How they interact: OS threads (`SchedulerThread`) take processes from the
scheduler's ready queues and interpret them.  A process has cooperative tasks
that synchronise with monitors.  Event sources and other processes send it
messages; a message makes an idle process ready.  The boot process runs the
system program: it starts containers (groups of processes of one program),
hears of every process that starts and ends, and offers services over RPC.
The flash registry holds the programs.

Most of the lines of the repository are the compiler, the collector, drivers and
libraries without concurrency, so the models stand for a small part of the code.

The modules rely on each other as the code does, but each is checked by itself:
`EventSources`, `Messaging` and `Rpc` take from `Scheduler` that messages
of one sender arrive in order and that a process with a message runs;
`Rpc` takes from `Monitor` that a task that awaits is told when its condition
becomes true, and that its deadline or cancellation ends the wait.

The twelve runs are `calls`, `queues`, `ready`, `kill`, `exit_during_gc`
(`Scheduler`), `channel`, `channel_interrupted` (`Channel`), `gate_enter`
(`Gate`), `messaging`, `event_sources`, `flash` and `rpc`.  Where TLC shows more
on an instance that has no run here, the section of the module says so and gives
the constants.

## The scheduler: `Scheduler.tla`

Every action is a stretch of code that runs under the scheduler's `mutex_`, or a
step that a thread takes without it.  A locked stretch that is several actions
(a GC that suspends its targets one by one, `kill` of a group, `spawn` with its
message) keeps `mutex` set to its thread, so nobody else that needs the lock
comes in between.

State: `state`, `signals`, `messages` (the length of the queue), `priority`,
`target_priority`, `idle_since_gc` of each process; `live`, the processes in
some group; `ready_queue` by index; `waiting`, the threads asleep on
`has_processes_`; `pinned`; the thread's place `pc`, its process `cur` and the
last interpreter `result`; `gc_cross` and `gc_waiting` for the handshake;
`boot_process`, `exit` and `main`, the place of `launch_program`.

| code | actions |
|---|---|
| `Scheduler::run` | `WaitForProcess`, `TakeProcess`, `ExitThread` |
| `run_process` | `EnterProcess`, `ReturnFromRun` (any result of the interpreter), `FinishRun` (the signal loop and the switch), `RequeueProcess`, `YieldProcess`, `RemoveProcess`, `DestroyProcess` (the destructor, without the lock), `ProcessTerminated` |
| `wait_for_any_gc_to_complete` | the operator of that name and `GcIsOver` |
| `gc` | `GcSoft` or `GcHard`, `GcPreempted` (all stopped, or a second went by), `GcSuspend`, `GcCollect`, `GcResume`, `GcDone` |
| `process_ready` | `process_ready`, with `append_ready` (queue and wake up) and `PinThread` (reserve, start or preempt a thread) |
| calls | `send_message`, `signal_process`, `kill`, `update_priority`, `spawn`, `run_program`, `run_external`, `ReceiveMessage` |
| `launch_program` | `tick`, `LeaveLoop`, `JoinThread`, `DeleteRemaining` |

Abstractions: messages are counted, not told apart; the exit value is only zero
or not; the order of `threads_` is arbitrary, so any thread that fits is pinned;
a GC of a heap is a step that may or may not count as a full one.

Left out: `send_notify_message` (it is in `EventSources`), profiling, which
only makes ticks more frequent, failures to allocate the scheduler's own
messages, and `process_stats`.

### Runs

`MCScheduler` gives the constants their values: the boot process `sys`, the
programs `app` and `aux`, and `ext`, which a `ProcessRunner` runs.

| run | shows |
|---|---|
| `calls` | With signals that kill, messages, shutdown and programs that both ask for cross-process collections, in every interleaving of two threads: no process is handled by two threads or queued while handled (`OneThreadPerProcess`); an idle process has no messages (`IdleHasNoMessages`) and no pending KILL (`IdleIsNotKilled`); no wakeup is lost (`NoThreadSleepsOnWork`); a process is in exactly the queue of its priority when it is scheduled (`ReadyQueuesAgree`), is not run while it is collected (`NoMutatorDuringGc`) and belongs to one collection at a time (`OneCollectorPerTarget`). |
| `queues` | Priorities that change, soft collections, an external process: `ReadyQueuesAgree` and `NoMutatorDuringGc` again, and the system does not empty without a reason to exit (`ExitBeforeEmpty`). |
| `ready` | Three processes that need not yield on two threads: a ready process that none beats in importance is run (`ReadyIsRun`); an exit completes (`ExitCompletes`).  On this instance, which has `spawn`, TLC also finds the first two and the fourth invariant of `calls` to hold. |
| `kill` | With `kill` and signals: a killed process is deleted (`KillTerminates`), a cross-process collection ends (`CrossGcEnds`). |
| `exit_during_gc` | Expected to fail: a process whose thread waits for a collection when the exit begins has no interpreter yet and is not killed, so the exit may never complete. |

Instances without a run (two processes `sys`, `app` in groups of their own, two
threads, `Calls = {"program"}`, `MaxMessages = 1` unless said otherwise):

- A third process `aux` and `SoftGc = {sys, app}`: two collections without
  handshake (the first attempt after a failed allocation) at the same time
  suspend the same process, so `SuspendedOnce`, the assertion at
  `scheduler.cc:758`, is violated.  In a build without assertions the process can
  later be IDLE and queued, against the assertion at line 397.
- As above without collections: between the deletion of the boot process and
  `boot_process_ = null` another thread sends the boot process a message;
  `NoMessageToFreed` is violated.
- One thread: a preemption replaces the result DEEP_SLEEP, so `deep_sleep`
  returns, against its doc (`src/lib/esp32.toit:31`); `DeepSleepDoesNotReturn`
  is violated.
- Both kinds of collection and three threads: a collection without handshake
  also accepts a process that waits for the end of another thread's
  cross-process collection, and that process runs once the other one ends, while
  it is still collected.
- An external process and a collection: an external process that yields during
  the collection can end up idle with a pending KILL, which takes effect with
  its next message.

### Bounds

Two threads are the least that interleave, and the smallest number with a
handshake.  Two or three processes give a running, a
ready and a deleted one at the same time, and in `ready` more processes than
threads.  `MaxMessages` bounds what outside senders put in one queue; messages of
the scheduler itself are not bounded, their number is bounded by that of the
processes.  Each process is started at most once, and each thread, so `Threads`
bounds the restarts of threads.  `Priorities` has a value below and one above
that of a new process, so that queues differ and preemption happens.  `Calls`
limits the calls of a run to those its question is about; the actions of the
runs together are all the actions.

With `MaxMessages = 0` (`ready`, `kill`) the system may come to rest with idle
processes; that is no deadlock, so these two runs do not look for one.

### Fairness

Each thread keeps running (`ThreadStep`, strong fairness since it competes for
`mutex_`); the interpreter returns when it finds a signal and a `ProcessRunner`
always returns; the launch thread keeps ticking and joining.  Nothing makes a
process yield or terminate by itself, and nothing makes anybody call.

## Tasks and monitors: `Monitor.tla`, `Channel.tla`, `Gate.tla`

The tasks of a process are cooperative, so an action is what the current task
does until the next place where control may pass to another one: the `yield`
at the end of every locked method, a suspension in `wait_` or `await_`, a `yield`
of its own.  Only time (`DeadlinePasses`) and the timer thread (`Fire`) move
independently of the current task.

`Monitor` has what all monitors share.  State: `ring`, the running tasks from the
current one on; `state`, the place `pc` and the method `op` of each task;
`owner`; the queues `awaiters` and `waiters`; `deadline`, `canceled`, `timer` of
each task, and `fired`, the messages of timers that nobody has processed.
`program` says what each task may do; it is chosen at the start.

| code | operators and actions |
|---|---|
| `__Monitor__.resume_`, `notify_`, `Task_.resume_` | `resume_`, `notify_`, `LinkIn` |
| `process_messages_` | `process_messages_`: a fired timer notifies the monitor unless its target was cleared |
| `yield`, `Task_.suspend_`, `exit_`, `cancel` | `Yield`/`yield`, `suspend_`, `exit_`, `cancel`; `Wakeup` is the loop of `suspend_` in the only task left |
| `locked_` | `Locking`, `LockThrows`, `wait_`, `Enters`, and `unlock` for its end |
| `try_await_` | `Awaiting`, `AwaitThrows`, `await_`, `Admitted` |
| `with_timeout`, `critical_do` | `with_timeout` (its start and its end), "critical" in the program of a task |
| `TimerEventSource::arm`, `entry` | `Arm`, `Fire` |

Abstractions: a deadline is not there, in the future, or passed; a program
catches the exception of a timeout where it set the deadline and lets the one of
a cancellation end the task; a critical task is critical all the time; all tasks
exist at the start.

`Channel` adds the ring buffer and the methods of that class; a message is
represented by its sender.  The block of `send [block]` may yield, return or
throw (`BlockYields`, `BlockReturns`, `BlockThrows`).  `BoundedFifo` is the
abstract specification: a sequence of at most `Capacity` messages.  `Contents`,
the part of the buffer from `start_` on, is the refinement mapping.

`Gate` adds `Signal.wait [condition]` and `Signal.raise` without a maximum, and
the class `Gate` that uses them.

### Runs

`channel` checks five programs of three tasks on a channel of capacity two:

- `OwnerIsInside`: exactly the task whose block runs owns the monitor.
- `NoLostNotification`: a task sleeps in the monitor only while its condition is
  false or the monitor is taken, it is not canceled, and a passed deadline still
  has a timer or a message to tell it.
- `ListsAgree`: ring and queues hold each task once and agree with its state,
  also when messages resume a task in the middle of `suspend_`.
- `IsFifo`: the channel implements `BoundedFifo`.
- `InterruptReturns`: a call whose deadline has passed or whose task is canceled
  ends, even if the monitor stays taken for ever.

Two runs are expected to fail:

- `channel_interrupted`: a receiver waits for a message while a sender's block
  yields; the receiver's deadline passes, and on its way out it sets `owner_` to
  null although the sender owns the monitor.  A third task can then enter.
- `gate_enter`: `unlock` wakes two tasks, but another task locks the gate before
  they run.  The first one resets the counters of the signal; the second compares
  its old number with the new counters and waits on.  The next `unlock` raises
  the signal to the first one's number only, so the second one sleeps with the
  gate open.

Because of the first of these, the programs of `channel` are those in which no
wait for a condition is interrupted while a block of another task runs: the
first has blocks and no interruptions, the next two interruptions and no
blocks, and in the last two only calls that wait for the monitor are interrupted
while a block runs.

### Bounds and fairness

Three tasks give an owner, one that waits and one that enters or interrupts; the
failure of `gate_enter` needs two that wait and two that lock and unlock.  With
capacity two the buffer wraps around and is empty, half full and full.  Nothing
else is bounded.  Programs may end, or wait for each other for ever (two
receivers), so `channel` does not look for deadlocks; `NoLostNotification` says
when sleeping is legitimate.

Fairness: a task that is inside a monitor or at its end goes on when it is
current, deadlines pass while it is there, and timers fire, since nothing in
that code waits for anything else.  Outside monitors each task yields again and
again (strong fairness, as other tasks take turns): "Tasks are cooperative and
thus must yield" (`src/lib/core/task.toit:61`).  Nothing makes a block return.

## Resources, notifiers and timers: `EventSources.tla`

A process owns resources in groups, an event source has them too and sets their
state, and an object notifier with its one message tells the process.  The
threads are the timer thread, the threads that deliver other events, and the
one that runs the process; an action is a section under the mutex of an event
source, or Toit code between two primitives.

State: `exists`, `group`, `source` (who knows a resource), `rstate`; `notifier`,
`object`, `msg` and `queue` for the notifications; `timers`, `thread`,
`signalled`, `now` for the timer event source; `current`, `task`, `received`,
`removed`, `wakeup`, `seen` for what the process does; `closing`, `proc`.

| code | operators and actions |
|---|---|
| `EventSource::dispatch`, `try_notify`, `send_notify_message` | the operators of these names, `Event` |
| `update_resource_monitor`, `delete_resource_monitor`, `~ObjectNotifier` | `update_resource_monitor`, `dispose`, `DeleteNotifier` |
| `TimerEventSource::arm`, `on_unregister_resource`, `entry` | `arm`, `Unlinks`, `ThreadWakes`, `ThreadDispatches`, `ThreadWaits` |
| `register_resource`, `unregister_resource`, `tear_down` | `register_resource`; `unregister_resource` and `DeleteResource`; `tear_down` |
| `~Process` | `Terminate`, `tear_down`, `Drain`, `DeleteProcess` |
| `process_messages_` and its primitives | `ReceiveMessage`, `remove_first_message`, `notify_` |
| `Sleeper_.sleep_until_` | `sleep_until_`, `RegisterMonitor`, `CheckTime`, `ArmTimer`, `Cancel`, `release_timer_` |
| `ResourceState_` | `Open`, `RegisterMonitor`, `CheckState`, `dispose` |

Abstractions: a resource has one bit of state; a task that sleeps has one timer,
which it keeps between sleeps; an allocation of a notifier may fail at any time.

The run `event_sources`, with a task that sleeps and one that uses a resource:

- `MessageLifetime`: a notify message is in memory as long as its notifier or
  the queue needs it, and not longer, and it is queued at most once, although
  the notifier may be deleted while the message is queued or being received.
- `TimersExist`: the timer thread meets only timers that are registered, each
  once and in order, also while the process closes them or ends.
- `NoLostEvent`: an event that nobody has read is on its way.
- `ThreadWakesInTime`: unless a signal is on its way the timer thread wakes up
  for its first timer, although `arm` signals only when it thinks it must.
- `SleepEnds`: a task that sleeps wakes up, unless the process ends.

Bounds: times up to `MaxTime = 2`, so that a second sleep can end before, with
or after a timer that an earlier, canceled sleep left armed; three messages, so that
a new notifier gets one while the message of a deleted one is still queued.
The clock moves one tick at most while the thread dispatches.  With two sleeping
tasks and four messages TLC finishes the four invariants as well (2.4 million
states), and the proofs below are for any number.  Nothing need happen when all
tasks are idle and no event comes, so the run does not look for deadlocks.

Fairness: the timer thread, the clock, the handling of messages and the end of
the process go on; tasks take turns (strong fairness, since the messages come
first); and events do not come so fast that the process never finds its queue
empty, because `process_messages_` goes on until it does.  That last assumption
is one on the environment, not on the code.

## Memory of messages: `Messaging.tla`

Large strings and byte arrays travel as pointers to malloced memory; external
byte arrays change their owner.  The model has the places that own memory: the
external objects of a process (`heap`, counted in `external`), the encoder of a
primitive (`enc`), encoded messages in queues (`mq`) and the arguments of a
spawned process (`args`).  `live` is what is malloced.  Objects are sequences of
leaves, told apart by how they are encoded.

| code | actions |
|---|---|
| `MessageEncoder` | `StartEncoding` (the pass that computes the size), `encode_inline`, `encode_byte_array`, `encode_copy`, `free_copied`, `neuter_externals` |
| `process_send`, `spawn` | `process_send`, then `neuter_externals` outside the lock; `spawn` |
| `MessageDecoder`, `task_receive_message`, `spawn_arguments` | the actions of these names, with `DecodeSucceeds`, `DecodeFails` (the objects made so far lose their finalizers) and `DecodeStops` |
| `~Process`, `MessageDecoder::deallocate`, VM finalizers | `DeleteProcess`, `free_external_memory` |
| `ExternalSystemMessageHandler` | `HandlerReceives`, `HandlerSends`, `HandlerFrees` |

The run `messaging` has a process that spawns another and one with an external
handler: no memory has two owners and no owner has memory that was freed, even
between the moment a message is visible and the moment the sender loses its
arrays (`SingleOwner`); no memory is without an owner on any path on which
encoding, sending or decoding fails (`NoLeak`); `external_memory_` counts what a
process has (`Accounting`).

Owners have bags of areas, since the code can make somebody own an area twice.
It does so in three places, all of them in the model:

- an external byte array that is twice in one message is encoded as two pointers
  to the same area, and the receiver makes two objects that will free it;
- `spawn` does not neuter the external byte arrays its lambda captures;
- the second encoder of `process_send` reads `externals_` that only the first one
  has stored to (`messaging.cc:287`), so `neuter_externals` finds what it should
  when the build gives both the same stack, or else some of it, or a wild pointer.

The areas concerned are in the history variable `shared`, and `SingleOwner` excepts
them and no others.  When one of them is freed twice, or a wild pointer is
followed, memory is corrupt: `fatal` is set and the model stops.  It also stops
when the SPAWNED message cannot be allocated: the arguments are then freed by the
new process and again by the primitive.

Bounds: four blocks and one message per queue allow a message of a buffer and two
areas while another is received.  With `MaxShared = 0` nobody makes new calls
once an area is shared; all that is under way, received or deleted goes on.
Programs may stop sending, so the run does not look for deadlocks.

Instances without a run:

- A value with a `"map"` that nobody receives: `deallocate` has no case for
  `TAG_MAP` and stops the VM (`NoFatal` is violated).
- A value with more copies than `MESSAGING_ENCODING_MAX_EXTERNALS`: the copy that
  does not fit in `copied_` is leaked (`NoLeak` is violated), as a TODO there says.

## The flash registry: `FlashRegistry.tla`

The state that survives is `flash`, page by page: clean, data of an image, the
header of an image, or garbage.  The rest is the memory of the system process:
the registry's `allocations_` and `holes_`, the `reservations` of the
primitives, the open `writers`, the registered `images_`, the images that
`uninstall_image` is `deleting`, and `op`, a flash operation under way.

A writer compares its cursor with the end of the partition only, and moves it
also when a write fails.  So a client may commit an image with a gap, and may
write over what lies behind its reservation before it closes its writer; a commit
needs a cursor at the end.  The history variable `spoiled` has the pages of failed
writes and of writes beyond the end of a reservation.

| code | operators and actions |
|---|---|
| `find_next`, the primitives `next` and `info`, `scan_`, `update_allocations_` | `find_next`, `Scanned`, `coalesce_`, `scan_` |
| `image_writer_open`, `FlashRegistry.reserve`, `erase_chunk` | `image_writer_open`, `EraseNext` (a page), `EraseFails`, `OpenDone` |
| `ContainerImageWriter` and `resources/image.cc` | `image_writer_write`, `image_writer_close`, `image_writer_commit` (the header without uuid), `CommitDone` (the uuid; registration, which a failing allocation may prevent) |
| `uninstall_image`, `FlashRegistry.free` | `uninstall_image`, `DeleteDone`, `EraseNext`, `FreeDone` |
| start of the system | `Crash`: power goes at any moment, `Boot` scans and registers |

The run `flash`:

- `RegionsDisjoint`: holes, reservations and allocations share no page and lie in
  the partition.
- `ValidIsComplete`: what a scan takes for an image is complete, whenever the
  power went, but for spoiled pages.
- `WritersKeepTheirPages`: an open writer has its reservation, and nobody
  overwrites what it wrote, but for spoiled pages.
- `ScanIsExact`: a scan finds exactly the allocations and the free pages.
- `ImagesAreValid`: registered images, and those about to be deleted, are in
  flash, unless their header is spoiled.
- `AllocationsChangeByRequest`: an image appears by its commit and disappears by
  its uninstallation or under the cursor of a writer that has passed its own end,
  never by a crash, a failing erase or a scan.

Three pages, images of one or two pages, two program ids and two open writers
give holes before, between and after images, holes that are too small, and two
writers at work while an image is uninstalled.  One page may be spoiled
(`MaxSpoiled = 1`); with none TLC also finishes four pages (664,401 states).
`reserve` takes any hole that fits.  Two assumptions on images: the size that a
program says it has, which the commit puts in the header unchecked, fits the
image, and its data never looks like a header.

Instance without a run: with `MaxAssets = 1` the last page of an image may hold
assets.  `find_next` steps over the program only (`flash_registry_shared.cc:33`),
while `get_size` counts the assets too (`primitive_flash_registry.cc:100`), so
a scan reports the assets of an image as a hole and `RegionsDisjoint` is
violated.

## Remote procedure calls: `Rpc.tla`

Callers (`id_`, `map_`, `outcome`, `replies`) send requests and cancellations to
one process that serves (`messages`), whose broker has `pids_`, the `queue`, the
counters `unprocessed_` and `tasks_`, and for each processing task what it does
(`task`, `processing_requests_`, `is_canceled`).

| code | operators and actions |
|---|---|
| `RpcSynchronizer_` | `send`, `receive` in `OnReply`, `Return`, `GiveUp` (deadline or cancellation) |
| `RpcBroker.on_message`, `ServiceManager_.on_message` | `OnMessage` with `Accepted`, `add`, `cancel` |
| `RpcRequestQueue_` | `add`, `cancel`, `ensure_processing_task_`, and the loop of a task: `Take`, `Await`, `IdleTimeout`, `Leave`, `ProcessDone` |
| discovery and the end of a process, as the broker sees them | `discover`, `ProcessEnds`, `on_process_stop` |

The run `rpc`, with four calls, two of which block until they are canceled, two
tasks and three requests at most; the procedure of one (`Failing`) may throw or not
be registered:

- `CountersAgree`: the counters agree with the lists and keep to their maxima, and
  a request is in one place.
- `EnoughTasks`: there is a task for each request or the maximum of tasks,
  though idle and canceled tasks leave at any moment.
- `NoRequestsOfRemoved`: nothing is left of a process that has ended, except
  canceled tasks on their way out.
- `CanceledOnRequest`: a task is canceled only for the caller it works for, and
  no caller that waits gets CANCELED.
- `OutcomeIsFinal`: a late reply has no effect.
- `CallReturns`, `CanceledLeaves`: each call comes to an end, and what was given
  up leaves the broker.

Bounds: one process calls, from as many tasks as it has calls, so four calls
meet a full queue, tasks that all block, and a request behind them.  Ids wrap
around after 2^30 calls in the code and not in the model.  Requests and replies
can be encoded and sent: a reply that cannot (`broker.toit:106`) leaves its caller
to its deadline, and a `send.call` that throws (`rpc.toit:61`) ends its call at once.  Calls may be used up,
so the run does not look for deadlocks.

Fairness: processes handle their messages and run their tasks; a procedure that
does not block ends; whoever calls one that blocks has a deadline.  The last one
is an assumption on programs: without it two such calls hold both tasks for ever.

## Proofs

| module | theorems |
|---|---|
| `SchedulerProofs` | `TypeCorrect`: `Spec => []TypeOK` |
| `SchedulerWakeupProofs` | `NoLostWakeup`: `Spec => []NoThreadSleepsOnWork`; `ExitReason`: `Spec => []ExitBeforeEmpty` |
| `EventSourcesProofs` | `MessagesLive`, `EventsAreNotLost`, `LinkedTimersExist`, `ThreadIsInTime`: `Spec` implies `[]MessageLifetime`, `[]NoLostEvent`, `[]TimersExist`, `[]ThreadWakesInTime`; all from `Inductive` |
| `ChannelProofs` | `ChannelIsFifo`: `Spec => IsFifo`, and `OwnerInside`: `Spec => []OwnerIsInside`, both for programs that are `Uninterrupted` |
| `RpcProofs` | `EndedIsFinal`: `Spec => OutcomeIsFinal` |

The constants are arbitrary up to the named assumptions of the modules.

Scheduler (`ConstantsAssumption`: finite sets of processes and threads,
priorities of one byte, the boot process is not external).

- `TypeCorrect` (no run checks it, the theorem covers them all): the inductive
  invariant `TypeInv` adds that a thread inside `run_process` has a process;
  without it nothing is known of `state[cur[t]]`.
- `NoLostWakeup`: the invariant adds that threads sleep only in `Scheduler::run`
  (`SleepersAtTop`).  A step that adds work to empty queues or sets the exit
  reason signals (`WakeSignal`), a step that takes the thread that was awake away
  either leaves no work or passes the signal on, and every other step leaves
  both sides alone (`WakeKept`).  The one exception is `launch_program` itself,
  which sets a reason to exit without a signal; it is harmless because that
  happens only when no thread is left, which needs the next theorem.
- `ExitReason`: the invariant `BootInv` says that until there is a reason to exit
  `boot_process_` is set and the boot process exists, or the thread that deleted
  it has yet to look.

Event sources (`ConstantsAssumption`: timers and other resources are different,
and null is none of the objects).  Three invariants are inductive together:

- `StructInv`: an event source has exactly the resources that exist and are not
  being closed, and a task that is not idle has its resource;
- `TimerInv`: the list of timers is sorted, without duplicates, and all of them
  are in the source; with it `ThreadWakesInTime` is inductive, because the head
  of a sorted list can only become later when it is removed, or earlier when
  `arm` signals;
- `EventInv`: `Fit` ties messages, queue and notifiers (a message has its
  notifier, is queued, or both, and is in the queue exactly when it is marked),
  and while a message is received but still in the queue it is the first one.
  Without the latter `remove_first_message` could unmark the wrong message and
  an event be lost.

Channel (`CapacityAssumption`, `ProgramsAssumption`; any number of tasks).  The
theorems assume `Uninterrupted`: each program has no `send [block]`, or no
deadlines and cancellations.  Without some such restriction they are false, which
is what `channel_interrupted` shows; the two mixed programs of the run `channel` are
covered by TLC only.  The invariant `ChannelInv` says that only the owner is in a
block (`MonitorInv`), that the indices are in range (`BufferOK`) and that the slot
a block was told is still the next free one when it returns (`IndexIsFree`),
which is what makes each step of the channel a step of `BoundedFifo`.

RPC (`RpcAssumption`).  `WaitInv`: nobody waits for a call that has ended, and
calls not made yet have neither entry nor outcome, so a new id is never one that
has ended.

Only model-checked: the other invariants and action properties, and all liveness
properties, since fairness and ENABLED are out of the prover's reach.  So is
induction over data: what recursive definitions compute for every input, such as
`Scanned` of the flash registry, is not proved.

## Not modelled, and why

- Services, containers and the shared network service: they can be modelled on
  top of `Rpc` and are in the plan.
- The threads of the other event sources (epoll, subprocesses, GPIO, UART, lwIP):
  each is an action that delivers an event; what they ask of the operating
  system is input and output.  Also `LazyEventSource`'s use count, and resources
  whose `make_deletable` defers their deletion.
- The bytes of encoded messages and Tison; `main_arguments`, which are read the
  way spawn arguments are.
- Of `lib/monitor.toit`: `Mutex`, `Latch`, `Semaphore`, `Mailbox`, `Signal.raise`
  with a maximum; of tasks: creation at run time, background tasks,
  `MessageProcessor_`.
- Bundled images of the flash registry, `erase_flash_registry`, which nothing
  calls, the data cache of the ESP32, and the file a host uses for its flash.
- A reply that cannot be encoded, the wrap-around of RPC ids.
- The collector, the interpreter, the compiler, libraries, drivers, TLS and
  snapshots: sequential code, pointer manipulation, or protocols whose peers
  would have to be modelled.

## Plan

1. `Services` on `Rpc`: discovery, clients and their resources when processes
   end; then `Containers`: a container stops exactly once and its exit code is
   reported; then the shared network service.
2. On top of `Monitor`: `Mailbox`, `Semaphore`, `Latch`, `Signal` with a maximum;
   `MessageProcessor_` with tasks that start and end at run time.  A passing run
   for `Gate` with one task that locks.
3. `Scheduler` with `EventSources`: notify messages in the scheduler's queues.
4. Proofs: `ReadyQueuesAgree` and `OneThreadPerProcess` of the scheduler,
   `CountersAgree` of the broker, `RegionsDisjoint` of the flash registry.
