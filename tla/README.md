# TLA+ models of chan_modemmanager

This directory holds TLA+ models of `chan_modemmanager`, the Asterisk channel
driver for cellular modems managed by ModemManager (sources in `src/src/`),
the TLC configurations that check them on small instances, and TLAPS proofs.

## The system

The driver turns each modem that ModemManager (MM) knows into an Asterisk
channel technology.  Voice calls, texts and MMS notifications arrive as D-Bus
signals; a dial, an answer and a hangup arrive from Asterisk core threads.

| Component | Sources | Modules |
|---|---|---|
| Voice line | `call.c`, `channel.c`, `mm_glue.h` | `CallLine`, `CallLineProofs` |
| Audio stream | `audio_alsa.c` | `AudioStream`, `AudioStreamProofs` |
| MMS worker | `mms/mms_core.c` | `MmsWorker`, `MmsInbox`, `MmsWorkerProofs` |
| Message intake | `sms.c` | `SmsIntake`, `SmsIntakeProofs` |
| Modem and SIM registry | `modem.c`, `sim.c`, `pvt_container.h` | `Registry`, `RegistryProofs` |
| Configuration | `config.c` | `Registry`, `ModuleLife` |
| Modem init commands | `atinit.c`, `at_tty.c` | `Registry` (when), `AtInit` (how), `Devices`, `DevicesProofs` |
| Module life | `chan_modemmanager.c`, `mm_bus.c` | `ModuleLife`, `ModuleLifeProofs` |
| MMS codec | `mms/mms_codec.c` | `WapPush` |
| MMS fetch and delivery | `mms/mms_fetch.c`, `mms/mms_deliver.c` | `MmsPath`, `MmsPathProofs` |
| Audio autodetection | `audio_detect.c` | `AudioDetect`, `Devices`, `DevicesProofs` |
| CLI | `cli.c` | not modelled: it prints |
| WSP/MMS library | `mms/vendor/*` | not modelled: vendored |

### Threads and what they share

* The **GMainLoop thread** (`mm_bus.c`) dispatches every D-Bus signal in order.
  It does no blocking work: handlers push tasks.
* Each modem has a **serializer** on a threadpool; its tasks run one at a time,
  in order.  The registry has one more for hotplug.
* Each channel has an **Asterisk core thread** for request, answer and hangup.
* A running call has a **capture thread**; the MMS core has one **worker**.
* A **reload** runs on the thread that asks for it.

They share the modem pvt (under its object lock, except the bit fields that
`mark_destroy_cb` writes), `sim->modem`, the PCM handles (under `pcm_lock`), and
the MMS transactions (under `worker_lock`, except in `mms_kick`).  Between two
locked sections or two blocking D-Bus calls any other thread may run, and that is
the grain of every model here: one action is one section that no other thread of
the model can split.

### Inventory

**Voice line.** State: `modem->call`, `owner`, `last_call_state`,
`sub_call_state`, `voice`.  Operations: request, answer, hangup; the call-added
handler and its serializer task; the state-changed handler, reached over a raw
D-Bus subscription and over the proxy; the subscribe source; the tasks that start
the stream and delete a terminated call; attach and detach.  It calls the audio
stream, kicks the MMS core, and is detached by the registry.  Hard: MM, the
network and four kinds of thread move the same call; signals come late, twice or
never; the owner is a bare pointer.  Correct when a channel owns the line alone,
acts on its own call only, hears its own call's frames in order, and every
incoming call is answered, rejected or gone.

**Audio stream.** State: two PCM handles, `rate`, `streamstate`, `stream_stop`,
`thread`.  Operations: open, start, stop, close, the capture loop.  Hard: open
happens outside the lock and in parallel; stop takes the thread under the lock and
joins it outside.  Correct when no handle or thread leaks, none is used after it
is closed, and stop ends.

**MMS worker.** State: the transactions with their attempts and times, the
worker's hands and timeout.  Operations: intake with deduplication, scan, wait,
fetch, decode, deliver, retry, postpone, finish, tombstone sweep, kick, SMS
deletion, init and shutdown.  Hard: memory-only state across crashes, kicks
without the worker's lock, repeated notifications, time.  Correct when no message
is lost or delivered twice, no retry is endless and the unload ends.

**Message intake.** State: tasks queued, running or with a timer.  Operations:
the added handler, rechecks of an incomplete message, text delivery, the handover
of a notification, the rescan, delete.  Hard: each of listing, delivering and
deleting may fail; unplug, reload and unload fall between.  Correct when texts
reach the dialplan once and notifications are recovered.

**Registry.** State: containers of modem and SIM pvts, destroy marks, the attached
object and its handlers, `sim->modem`, `atinit_done`.  Operations: build, mark,
prune, resolve, hotplug, detach, the init commands.  Hard: two threads resolve,
objects come and go, pvts live by reference counts after they left the container.
Correct when only configured pvts listen, the modem of a call stays, incoming
events find their modem and init commands run once per appearance.

**Module life.** State: what has been made and not released — containers, loop
thread, manager, pool, MMS core, watch, registrations.  Operations: load, with a
failure at any step, reload, unload, the loop thread's dispatch of hotplug signals,
the `mm/resolve` serializer.  Hard: three threads, and undoing exactly what was
done.  Correct when nothing is left behind, no thread uses what is gone, loads and
unloads end and every modem gets attached.

**Init commands.** State: the port that is open, the line buffer, the deadline.
Operations: choice of the port, probe, commands.  Hard: the modem answers late,
never, in pieces, or says something else.  Correct when a result is that of its
command, and the task ends and gives its ports back.

**MMS codec, fetch, delivery.** State: the body received so far, spool files,
queued messages.  Operations: find the notification in a payload, `write_cb`,
the parts of a message, their files, queueing.  Hard: lengths from the network,
transfers that break, names from the network, a reader that comes later.  Correct
when a notification is found exactly where one is, and the dialplan reads the
message that was sent.

**Audio autodetection.** Stateless: which card is a function of the modem's own
USB device.

The hazards of each part, at their lines, are listed in `PROJECT.json`.

## The modules

### CallLine

One modem, a finite set of calls; a call and its channel share a name.  `mm` is
MM's view, `voice .. subs` are fields of the pvt, `loopQ`/`loop` and `serQ`/`ser`
are the loop thread and the serializer with what they are in the middle of, `pc`
and `snap` the core thread of each channel with the `modem->call` it read,
`heard` the frames queued to each channel with the call that caused them.

Actions are named for the functions: `RequestCheck`, `RequestCreate`,
`RequestAttach`, `RequestStart` are the four sections of `modemmanager_request`
and `call_start`; `LoopSignal` and `LoopAct` are the two halves of
`handle_call_state`; `SerAdded .. SerPbx` are `task_call_added`; `Resolve` is
`resolve_object` as this line sees it, `DetachRemoved` is `detach_by_path_cb`.

`Failures` lets every call that can fail do so: D-Bus calls, device opens, channel
creation, and a push to the serializer (`Push`, which also stands for a modem without
one and for an allocation).  `push_sim_task` and the call-added handler report a lost
task to nobody; `stranded` are the calls that such a loss, or MM, left as they were,
and the two liveness properties name them.

Left out: DTMF, indicate, fixup, audio frames.  The task that removes a call and
the resolver reach the line through the loop thread in the code; the hop is
collapsed.  A reload between a replug and the still queued removal task of the
old object is not modelled.

### AudioStream

Any number of overlapping channels and start tasks on one modem.  Capture and
playback are opened, installed and closed together, so one handle stands for both.
`OpenDevices`, `Install`, `SetRate` are `open_stream`; `StartLocked` is
`start_stream`; `StopLocked`, `Join`, `Close` are `stop_stream`; `CaptureCheck`,
`CaptureWake`, `CaptureRead` are the loop.  Handle and thread names are used again
once nobody can refer to them.  Left out: `alsa_write_frame`, xrun recovery.

### MmsWorker

One SIM on one modem.  Time is a countdown to each transaction's `next_attempt`
and to its `expiry` and the tombstone's grace behind it (`left`, `Expired`), and `Tick` may come at any point, so every step of the worker, a fetch
included, may take any time.  `Scan`, `Wait`, `Process`, `Failed`,
`Postpone`, `Postponed`, `Count`, `Deliver`, `FinishDelivered` are the worker;
`KickTest` and `KickWrite` the two unlocked halves of `txn_kick_cb`; `Signal` the wait
for `worker_lock` after a push or a kick.  Fetch and decode are outcomes of
`Process`.  The history variables `delivered`, `spoilt`, `lapsed` say what became
of a message.  Left out: other ways for a call to detach (reload, unplug), which
do not kick; the outcome of the acknowledgement, which the code ignores;
`mms_deliver` returns nothing and counts as a delivery.

`MmsInbox` is what the core promises, in three variables: where each SMS is,
which messages are pending, which are settled.  A message is taken in only while
an SMS on the modem announces it, a copy is deleted only when its message is
settled, so a pending message that is not has a copy on the modem, and giving up (an unload, a
crash, a spent budget) leaves the copies where they are.
`MmsWorker!ImplementsInbox` is `Inbox!Spec` under the mapping of those three to
`arrived`/`stored`, `state` and the histories.

### SmsIntake

One SIM on one modem.  A message is a text or a binary notification, and is
complete or not when it is announced.  Whatever the code calls may fail, a push
included, which frees the task (`LoopAdded`, `Timer`).  `DeliverText` has three
outcomes: the text is queued, it is not and stays, or `ast_msg_queue` fails, whose
result the code ignores (`unqueued`): that text is deleted too.  `LoopAdded` is `on_message_added`; `Listed
.. HandNotice` are `task_message_added`, `RescanBegins .. RescanEnds` are
`task_rescan_stored`; `Timer` is the recheck through `mm_bus.c`; `Load`,
`MmsInit`, `MmsShutdown`, `DetachAll`, `BusStop` are the order of
`chan_modemmanager.c`; `Crash` is the death of the process.  `refs` counts the
task structs alive, and `leaked` those that an unload leaves in the queue or in timers.
Left out: `msg_send`, and hotplug before the module watches
for it (in `Registry`).

### Registry

The configuration names modems and SIMs.  A pvt is its identifier and the load
that built it, so the pvt that replaces a pruned one is another.  `objs` are the
objects MM put on the bus so far; a modem that is plugged in again is a new path.
`Begin .. EndLoad` is `load_config`, `Walk` its `modem_resolve_all`; `FindModem`,
`FindSim`, `Attach`, `Assign`, `Kick` are the sections of `resolve_object`, run by
thread `"reload"` or `"resolver"`; `TakeAdded`/`TakeRemoved` are the tasks of the
hotplug serializer; `Rises` is the state-changed handler; `RunCommands` is
`atinit_task`.  A call begins in two sections, the test of the owner (`CallAsks`) and
the assignment (`CallTakes`, or `CallFails`), with an open of the device and a blocking
D-Bus call between them, for a dial as for an incoming call; a reload or another call may
come in between, and `overtaken` are the modems whose owner was set although they were
pruned or taken meanwhile.  References are not counted but computed: a pvt is `Rooted` when a
container, a thread, a channel or a task holds it, and `Alive` is the largest set of
pvts of which each is rooted or referred to by another member.  `unspent` is a history: how often a path was
attached less how often its commands ran.  `raced` remembers that `load_config`
overlapped a hotplug task or that the bus changed between the load and the watch,
`moved` that the SIM of a live channel was found in another modem; the properties
that these break are stated for histories without them.

Simplifications: the client's view of the bus is the bus; one call per SIM; a
modem that is enabled stays so; the pvts that died are forgotten at the end of a
load; option defaults are left out, the unload is `ModuleLife`'s.  Dropping a call
when its modem is attached again is `CallLine`'s.

### ModuleLife

The module thread goes through the steps of `load_module`, each of which may
fail, and of `unload_module`; the labels of the one and the body of the other are
one sequence (`Unregister .. DestroyContainers`) that is entered at different
places.  `parts` is what has been made and not released.  `LoopRuns`, `Dispatch`,
`HandlerTests`, `HandlerPushes`, `LoopEnds` are the GMainLoop thread, `TaskBegins` and
`TaskEnds` the pool.  `Dispatch` also models GLib: an announced object becomes
known, and reaches the handler only if it is connected.  `g_main_loop_run` sets
`is_running` itself, so a quit before it is lost (`quitEarly`).  Resolving an object
is one step here (its sections are `Registry`'s).  A handler that saw `resolve_tps`
and pushes after it was given up is undefined once the serializer has no task;
`HandlerPushes` lets the task be queued or be lost.

### WapPush and MmsPath

`WapPush` finds a notification in a payload: `PushBody` is `wsp_push_try_parse`,
`UdhSkip` is `udh_skip_len` (a recursive function over the information elements),
`Uintvar` (with `Bits`, the number that its octets make) and `ContentTypeEnd` what they
need of the WSP library.  A payload is a
sequence of octets; the text form of the content type is one octet and its zero.
`MmsPath` is what follows: `Receive` looks at a payload, `Announce` makes a message
pending; `FetchBegins .. FetchEnds` are `mms_http_fetch` with `write_cb` (`Chunk`);
`DeliverBegins .. Finish` are `mms_deliver`, one part at a time, and `DialplanReads`
the thread of Asterisk that runs the dialplan for a queued message.  `Sanitize` works
on characters, because two ids that become one are the point.  `PushFound` compares
with how the payload was put together (`Envelope`) and with what `mms_codec.h` promises
of its header (`Admitted`); `Overruled` are the headers that the code lets through
against that promise.  `MessageArrives` compares with the message.

Left out: `pick_from` and the other variables of the message, curl's options,
decoding of the retrieved message.

### AtInit, AudioDetect and Devices

`Start`, `NoPort`, `Open` are `at_pick_port` with `at_tty_open`; `Send`, `Read`,
`Fails` are `at_tty_command`, `Returns` what its callers make of the result.  The
modem's side is `Answer`, `Chatter`, `Unplug`; `owed` are the commands it has not
answered, also of an earlier session, which opening the port does not undo.  A read
takes any number of the characters that wait, so lines are cut anywhere.
`AudioDetect` has the components of a sysfs path as sequences of characters
(`IsUsbPort`, `IsUsbRoot`), `RootToken` and `CardFor` as in `audio_detect.c`, and
`SysfsPath`, the kernel's layout, as the reference.  `Devices` composes the two in the
order of `resolve_object`: the look for the card, then the task.  A card that comes
or goes while the directory is walked is not modelled.

## The runs

| Run | Instance | Shows |
|---|---|---|
| `callline_any` | a dial, an incoming call, a reload, failures | no dangling owner, no leaked subscription, no state applied backwards, whatever is reloaded |
| `callline_incoming` | two incoming calls, an unplug, failures, signals delivered twice | channel, owner and attached call stay together; late frames (without an unplug) and the late delete task never hit the next call; every call is disposed of and a seen end frees the line, unless its task could not be queued; the channel of an unplugged modem ends |
| `callline_stale_delete` | two dials; **violated** | the delete task of one call deletes the next |
| `audiostream_any` | two dials, an incoming call, overlapping, a late start task | no handle or thread leaks or is ended twice; none runs without a rate; until calls overlap no capture thread uses a closed PCM and every hangup ends; the last stop closes the PCMs |
| `audiostream_redial_join` | a dial and an incoming call that overlap; **violated** | a start clears `stream_stop` and the hangup joins for ever |
| `mmsworker_any` | one message notified twice, a call, an unload or a crash, `mmsc` removed and added, two retries | the core implements the inbox; nothing lost or delivered twice, no lost wakeup, the unload ends |
| `smsintake_any` | a text and a notification, a recheck, a reload, a replug, a restart, failures | texts once and never deleted unread but for the ignored failure, no task leaks but at an unload, rechecks end, notifications recovered |
| `registry_any` | a modem and a SIM, a load and a reload with any configuration, two appearances, calls | handlers belong to a pvt of the container and lead to it, the modem of a call stays unless it was overtaken, commands once and not missed, hotplug attaches |
| `modulelife_any` | two objects, two loads with a failure anywhere, a reload | nothing left behind, nothing used that is gone, loads and unloads end, objects get attached |
| `modulelife_quit` | one load; **violated** | a load that fails right after `mm_bus_start` waits for ever |
| `mmspath_any` | nearly three thousand payloads; four messages, two deliveries | notifications found where they are, also behind an overruled port; the dialplan reads the message that was sent |
| `devices_any` | two candidate ports, two commands; two cards on ten devices | results are those of their commands, the task ends and closes its ports; a modem gets its own card |

### Bounds

Two actors are what a race needs: two calls on one line, an opener and a stopper,
a worker and a kick, two resolving threads, two notifications of one message.
Counters bound the environment only (reloads, unplugs, restarts, calls, appearances), never
the code, and one of each is enough to fall between any two sections.  Where two
are needed for the interesting case the run has two: the second load is the
reload, the second appearance the replug, `MaxRetries = 2` separates the first
failure from the last, `Backoff` has two steps so that its end is reached.
`MaxRestarts` and `MaxLoads` count whole lives.  `Lifetime = 2` lets a message expire while it waits and `Grace = 1` keeps a
tombstone one step longer, so that it can be swept while a deletion is queued.  `audiostream_any` has four handles and three threads,
as many as its actors can hold at once.

`MmsPath` has two deliveries, the one whose files are at stake and the one that
could touch them, of four messages: two ids that are the same once sanitized and cut
to `IdMax`, one that is empty, one that exceeds `MaxSize`.  `Pushes` combines ten user
data headers, types, lengths in three forms, content types in eleven, bodies and every
cut; all but `Usual` come only before the first transfer, since looking at a payload
leaves no trace.  `AtInit` has `BufMax = 5`, so that a chattering modem fills the buffer
and lines are cut in it, `Timeout = 2` for an answer in time, at the deadline and
after it, and `InputMax` bounds only what the modem says unasked.

Deadlock is no question here: calls, messages and appearances run out and the
system then rests (in `MmsWorker` time always passes).  That no thread waits for
ever is stated by the liveness properties instead.

### Fairness

No fairness is assumed of the network, the dialplan, MM or the operator.

* `CallLine`: the loop thread and the serializer never stop (`WF` on each as a
  whole: a thread works on whatever is next); a core thread finishes the operation
  it is in; a channel told to hang up is hung up by the PBX.
* `AudioStream`: each thread finishes its operation; `snd_pcm_wait` has a timeout,
  so the capture thread runs on.
* `MmsWorker`: worker and serializer run, a fetch ends (curl has a timeout), time
  passes.  `SF` on `Signal`: `worker_lock` is free again and again and a waiter
  gets it in the end.
* `SmsIntake`: loop thread, timers and serializer run; an unload that has begun ends.
* `Registry`: the thread that loads, the serializer of the hotplug (each as a whole:
  it works on whatever is next) and the pool run.
* `ModuleLife`: a load, reload or unload that has begun goes on; the loop thread and
  the pool run.
* `AtInit`: the task and the clock go on; the modem owes nothing.
* `MmsPath`: none; it has no liveness property.

## The proofs

Every theorem is proved for any values of the constants under the named `ASSUME`
of its module, which say that sets are disjoint, `None` is not a member, bounds are
naturals, and what type a constant has.  Two say more: `UrcAssumption`, that what a
modem says unasked is a line and no final result code, which is what makes it
unasked; `DetectAssumption`, that the numbers of buses and ports are single digits in
the model and that the address of a device fits the token buffer of `audio_detect.c`.

* **CallLineProofs.** `TypeCorrect`: `TypeOK` is inductive; it contains which
  items carry a call, without which the loop's and serializer's steps are not
  typed.  `OwnerNeverDangles`: inductive with `TypeOK` — the owner is set only by
  a channel being made and cleared by its own hangup.  `CallIsOwners` (`CallMatchesOwner`) is
  inductive by itself, with any dials.  The rest of `LineKeptApart`, that a channel that was
  not hung up owns the line (`ChannelsOwnLine`) and acts on its own call only
  (`ActsOnOwnCall`), is false as soon as a dial attaches its call to a line that was taken
  since the busy test.  `FreeLineKeepsApart` proves it of every behaviour in which no dial
  does (`DialsFindLineFree`: there is no owner when `RequestAttach` is taken), so the test
  that `modemmanager_request` makes in its first section, made again in the second, is all
  that is missing.  The invariant is `ApartInv`: when a call is attached no channel holds the
  line, and while the serializer is about to start a PBX the channel is still new
  (`PbxPending`).  `IncomingCallsKeepApart` is the case `Dials = {}`, which the run checks.
  `SubscriptionsKept` and `StatesOnlyAdvance` come from `LineInv`: the path of a call is
  in one place between its signal and its attach (`OnePlace`), so it is taken to
  `call_attach` at most once and its subscription is made at most once
  (`SubscribedOnce`), and the states on their way to the loop thread are in MM's order
  and not behind the one acted upon (`StatesAhead`).  `IdleLineFramesReachOwnCall`
  and `IdleLineDeletesTheEnded` assume that a dial finds neither an owner nor a call
  (`DialsFindLineIdle`, the tests of `task_call_added`): with a test of the owner alone a
  dial may attach while the end of the previous call is still on its way, and TLC then finds
  both properties violated.  They use `EndedInv`, which adds that a call whose
  end is on its way stays attached and is over, and that its end comes once (`EndInv`);
  the properties stop at the first reload, and frames at the first unplug, because the
  resolver may detach a call between a decision and what is done about it: TLC finds
  both violated without that condition.  `FramesReachOwnCall` and `DeletesTheEnded` are
  their cases without dials.
* **AudioStreamProofs.** `HandlesNeverLeak` and `ThreadsNeverLeak`, together
  `StreamNeverLeaks`, are inductive
  with the type invariant: the equation between open handles (running threads) and
  their holders is kept by every step, because `Install`
  either makes the held handle the modem's or closes it.  `CapturesHaveRate` needs `OwnersRated`:
  there is no owner before the rate is set.  `IdleClosed`: until a start task is pushed, what is open is some active channel's to
  close (`OpenIsWanted`), because the owner is one (`OwnerBusy`) and each actor has goals
  of its own (`OwnGoals`).  `CapturesReadOpen`: until calls overlap, one channel is active
  (`OneAtATime`), and a capture thread has the open PCMs, which nobody is about to close
  (`CaptureSafe`).
* **MmsWorkerProofs.** `TypeCorrect` needs `Tracked` (a transaction's path is an
  SMS of its key) and `InHand` (the worker's transaction is waiting or fetching).
  `MessagesNeverLost` and `PendingStaysOnModem`, together `NoticesAreKept`, need `IInv`: what was deleted or
  is to be was settled (`GoneSettled`), an expiry the worker saw is recorded
  (`SeenToExpire`), the worker finishes only what it delivered (`FinishDue`), and
  the SMS of a pending transaction that is not settled is stored and not to be deleted:
  a deletion is queued only for what is settled, so what the intake takes in behind one
  is a settled message once more.
  `DeliveredAtMostOnce` needs no assumption: the property speaks of histories
  without call or restart, in which no kick is under way (`Quiet`), and then a
  delivered message stays in the finish step or a tombstone, or is expired
  (`Once`).  `WorkerImplementsInbox` is the refinement: from `IInv`, each step of
  the core is a step of `MmsInbox` or leaves its three variables alone — `Intake` is
  `TakeIn`, `Deliver`, `Process` and `Finish` are `Conclude` or `GiveUp`, `DeleteSms` is
  `Delete` because what is in `deletes` is settled, `Tick` is `Expire`, unload and crash are `GiveUp`.
* **SmsIntakeProofs.** `TypeCorrect`, and `TextsAreSafe` from `TextsKept` (a delete
  step follows a delivery or an ignored failure of one) and `TextsOnce`: a message is at one place of the pipeline at a time —
  not announced yet, a signal, a queued task, the running task, a timer — and a
  delivered one is at none; the lemmas `Pushed` and `Popped` say what the queue
  operations do to that count.  `TasksAccounted` counts: the added tasks in the queue
  are the image of its slots under the shift a push or a pop makes (`SlotsPushed`,
  `SlotsPopped`), the timers are finitely many (`TimersCount`), and a timer that fires or
  is set was or was not there, because its message is in one place; an unload moves what
  waits to `leaked`, and a task whose push fails is freed.
* **ModuleLifeProofs.** `NothingIsLeft` and `ThreadsAreSafe`, from `LifeInv`:
  what may have been made when a step of a load begins (`MadeSoFar`) and what may
  still be there when a step that releases begins (`StillThere`) — the labels of
  `load_module` are right exactly when each jump lands where the second follows
  from the first; the loop thread exists only between `mm_bus_start` and the join
  in `mm_bus_stop` (`LoopThread`), and tasks only with the pool and the containers
  they search (`Tasks`).
* **RegistryProofs.** `TypeCorrect`, and `CommandsAtMostOnce` from `Spendable`: no more
  pvts that have not run their commands are attached to a path than it was attached
  less the runs so far, so a task that finds its modem not done has an attach to
  spend.  `HandlersStayPaired` needs `Linked`: a pvt and the object
  attached to it, or being resolved to it, have the same identifiers (`Matching`), which
  are unique in the container and on the bus (`Distinct`), and, until the two threads
  meet (`Watched`), they take turns (`Separate`), what is attached or about to be is in
  the container (`Contained`), a removed object stays attached only while a queued task
  tells of its removal (`Noticed`), the SIM of an attached modem leads back to it or is
  about to (`LeadsBack`), and a SIM that is being attached is in no other modem on the
  bus (`Freed`).  `CallsKeepTheirModem` adds `Owned`: two channels have two modems, unless one was overtaken
  between its test and its assignment.
  That `Alive` is the largest set of its kind is used
  directly: what is kept is shown by naming a kept set, what is not by leaving it out.
* **MmsPathProofs.** `MessagesArrive` from `PathInv`: the draft has the texts and files of
  the parts before the one whose turn it is (`Collected`), its files are numbered and on
  the disk (`Named`) and hold their parts (`Own`); a file that was opened is empty until
  it is written (`Opened`); a queued message has all parts, and its files hold them
  until a later delivery uses the directory (`QueueWhole`).
  `OnePush` needs no assumption: for every sequence of octets the extractor returns at most
  one place, between the fifth octet and the end.  `PushesAreFound` proves `PushFound` for
  payloads of any size, with any user data header, length form, parameters and body, under
  two conditions.  `WellFormed`: a push as a gateway writes it, whose content type
  is a value, or a length with a value and its parameters, with headers of at most 127 octets
  and a user data header of at most 256.  `Unambiguous`: the octets are not a push at a
  second place too; this cannot be dropped, because a push of another type may have the
  octets of a header that is followed by a notification.  Of the payloads of
  `mmspath_any`, 2050 of 2776 meet both, 335 of them with a notification.  The argument: what `Uintvar` reads of the length is what was
  written, in each of its forms; the content type ends where the one that was written ends;
  and `UdhSkip` lets a header through exactly when no element names a port or the last that
  does names that of WAP pushes, which is `Admitted` or `Overruled` (`PassesWhen`).  The walk over the elements and the concatenation of the
  header are recursive functions; that they exist is shown by the least length at which they
  would not (`PortExists`, `FlattenParts`), and least numbers by `Least`, below.
* **DevicesProofs.** `CardsAreFound`: an address is the deepest of a path exactly when it
  is the device's own, because every component before it is shorter and the interface
  behind it has a colon, and two addresses are equal only for the same device
  (`AddressIs`).  `AnswersAreTrue` from `AtInv`: as long as nothing is spoilt, no answer
  waits when a command is sent (`NoneWaits`) and then at most its own does, in what was
  read and what was not taken together (`OneWaits`); the lemmas on lines say that
  appending what is said, cutting at the end of a line (`CutLines`) and reading a
  prefix (`PrefixLines`) keep the final results that remain.  Greatest and least of a
  set of numbers exist by the well-foundedness of strict inclusion among finite sets
  (`Least`), which the library states without an operator parameter.

Only model-checked: everything that must eventually happen, which is out of the prover's
reach; `PushFound` for payloads that are not `WellFormed` (content types that are missing or
cut, malformed lengths) or not `Unambiguous`, which TLC goes through in `Pushes`; and the three
properties that are violated.

## Where the code and its words differ

Shown by a run: a late delete task deletes the next call
(`callline_stale_delete`, where the next is dialled; after a reload that detached the
first, the next may as well come in); a redial during a hangup leaves the hangup in `pthread_join`
(`audiostream_redial_join`); a load that fails right after `mm_bus_start` may lose its
`g_main_loop_quit` and wait for the loop thread for ever (`modulelife_quit`).

Named in a property of a passing run, which holds only with the exception (the budget of
runs goes to the three above):

* A user data header whose port is not that of WAP pushes is let through when a later
  element names the right one (`mms_codec.c:163-171`), although `mms_codec.h:115-117` says
  "a mismatched port is a hard reject" and `mms_codec.c:124-127` "the whole payload is
  rejected".  `PushFound` says that the notification is found there: `Overruled`.
* A text that `ast_msg_queue` does not take is deleted all the same: `sms.c:153-154`
  ignores its result, `deliver_text_sms` returns 0, which `sms.c:117` calls "queued to the
  dialplan (safe to delete from the modem)".  `TextKept`: `unqueued`.
* An unload leaves the task structs in the queue and in timers, with their references to
  the SIM (`mm_bus.h:75-76` says so of timers).  `RefsAccounted`: `leaked`.
* A modem that a reload prunes, or another call takes, between the test of its owner and
  the assignment is taken all the same (`channel.c:166-172` and `202-204`,
  `call.c:364-426`): the channel then has a modem outside the container, or shares one,
  where `modem.c:206` says "Active call: keep until it ends".  `CallsKeepModem`:
  `overtaken`.
* A call whose task cannot be queued keeps ringing, and one whose end cannot be queued
  stays attached (`call.c:250-253`, `call.c:458-478`).  `RingsDisposed`,
  `TerminationFreesLine`: `stranded`.
* An expired notification may be taken in again behind the task that deletes its SMS, once
  its tombstone is swept (`mms_core.c:245-253`, `340-343`, `515-583`): it is then pending
  without an SMS.  `PendingOnModem`: `Settled`.

Met while modelling; the models reach them but no run states them:

* A dial attaches its call to a line that another dial, or an incoming call, took after
  the busy test of `modemmanager_request` (`CallLine_incoming.cfg` with `Dials <- OneDial`).
* A call that ends before its subscription is live stays attached
  (`TerminationFreesLine` starts from an end that is seen).
* A frame goes to the channel of the next call when a reload or an unplug detaches the
  call between the decision of `handle_call_state` and the owner it reads
  (`FramesFromOwnCall` without its first line).
* A start task that runs after the hangup leaves the PCMs open
  (`IdleMeansClosed` without `pushed = 0`).
* A capture handle is closed under a reader when calls overlap
  (`CaptureHandleOpen` without its first line).
* A kick that falls between the test for a call and the postponement is lost, and
  the retry waits for its timer; a kick that hits a tombstone shortens it, so that
  a later rescan delivers again (`DeliveredOnce` without `calls = 0`); so does an
  expiry relative to now that is decoded again after the sweep (`Relative`).
* A failing fetch after the end of the call burns budget like any other.
* `mms_kick` and the intake use `txns` after an unload may have freed it.
* A rescan that runs before `mms_init` hands its notifications to nobody until
  the next reload or replug (`NoticesRecovered` starts with the MMS core up).
* A text still incomplete after the last recheck is left to a rescan that skips
  texts.
* A reload resets `atinit_done`: the commands run again on the same appearance.
* A SIM that left the configuration keeps being served while a modem holds it.
* A modem without identifiers at its appearance is never resolved again.
* A reload that overlaps hotplug may attach a modem that is gone, or leave
  handlers on a pruned pvt (`raced`).
* A reload detaches the call of a live channel, although `config.h` says that
  modems with an active call survive until it ends: the pvt does, its call does not
  (`Resolve` of `CallLine`).
* A modem that disappears stays in `sim->modem`; when it comes back with another
  configured SIM, a dial through the old SIM goes out through the new one.  When the
  SIM of a live channel is found in another modem (`moved`), `modemmanager_hangup`
  clears the owner of that one; the first modem stays taken, although `modem.c:206`
  says of an active call "keep until it ends; the next reload sweeps it".
* An object that is announced between `modem_resolve_all` and the connecting of the
  hotplug handlers is missed until a reload (`missed`).
* `mm_bus_stop` drops the manager before it shuts the pool down, while the comment in
  `unload_module` names the other order; a resolve task may still run in between.
* A hotplug handler may push to a serializer that the unload has given up.
* After an answer that came too late every result of the session is that of the
  command before (`spoilt`); `at_tty.h` says that 0 means that the command was answered.
* The files of a message are truncated when it, or one whose id looks the same once
  sanitized, is delivered again before the dialplan has read them; spool files are
  never deleted.
* `detected_device` keeps the card of an earlier appearance when the card of the new one
  is not found yet.

## State of the plan

Every component but those under "Not modelled" has its module, its run and its proofs, in
the order voice line, audio stream, MMS worker and inbox, message intake, module life,
registry, MMS path, devices.  Every safety property a run checks is stated by a theorem;
`LineKeptApart`, `FramesFromOwnCall`, `DeletesOnlyTerminated` and `PushFound` under a named
condition without which they are false or the code promises nothing.

## Not modelled

* `cli.c` prints the state of the pvts and keeps none.
* `mms/vendor/*` is third-party code; `WapPush` has the few operators of its WSP
  decoder that the codec's answer depends on, and decoding is otherwise an outcome.
* `msg_send` of `sms.c` creates and sends a text with no state of ours; `pick_from`
  chooses a string.
* DTMF, indicate and fixup of `channel.c`, `alsa_write_frame` and xrun recovery of
  `audio_alsa.c` change no state that a property is about.
* The race between the bit fields that `mark_destroy_cb` writes without the lock and
  their neighbours would need every flag of the pvt in one word of every module.
* What happens after a use of memory that is gone (`mms_kick` or a hotplug handler
  against an unload): the models reach the point where it may happen.
