----------------------------- MODULE SmsIntake -----------------------------
(***************************************************************************)
(* Messages that come in: src/src/sms.c with the timers of mm_bus.c and    *)
(* the order in which chan_modemmanager.c brings the parts up and down.    *)
(*                                                                         *)
(* One SIM on one modem.  ModemManager announces a message, perhaps before *)
(* it has read all of it; the GMainLoop thread makes a task of it, and the *)
(* serializer of the modem runs the tasks one after another.  A message    *)
(* that is still being received is looked at again, by a timer, a limited  *)
(* number of times.  A rescan walks over what the modem has stored.        *)
(***************************************************************************)
EXTENDS Integers, FiniteSets, Sequences

CONSTANTS
  Sms,         \* messages
  Text,        \* those with a text; the others are binary WAP pushes
  MaxRechecks, \* SMS_RECHECK_MAX
  MaxReloads,  \* bound: reloads
  MaxReplugs,  \* bound: how often the modem is unplugged
  MaxRestarts, \* bound: how often the module goes down
  Failures     \* TRUE: the dialplan may not want a text or the core not queue it;
               \* ModemManager may fail to list or to delete; a task may not be
               \* allocated or pushed

ASSUME SmsAssumption ==
  /\ Text \subseteq Sms /\ MaxRechecks \in Nat
  /\ MaxReloads \in Nat /\ MaxReplugs \in Nat /\ MaxRestarts \in Nat
  /\ Failures \in BOOLEAN

VARIABLES
  mm,         \* what ModemManager has of each message
  signals,    \* Messaging.Added on its way to the GMainLoop thread
  plugged, epoch,     \* the modem is there; how often it came back
  attached,   \* modem->messaging is set and its handler connected
  queue,      \* tasks pushed to the serializer
  stage, running, seen, todo,   \* the task that runs
  timers,     \* tasks that wait for a timer
  refs,       \* message_added_task structs alive, each with a reference to the SIM
  delivered,  \* how often a text went to the dialplan
  unqueued,   \* texts that ast_msg_queue did not take
  handed,     \* notifications the MMS core took since the module was loaded
  unlisted,   \* a rescan since the last attach could not list the messages
  life, mmsUp,        \* how far the module is up; mms_init has run
  leaked,     \* structs left behind by unloads, in a queue or with a timer
  reloads, restarts

modem  == <<mm, signals, plugged, epoch>>
task   == <<stage, running, seen, todo>>
result == <<delivered, unqueued, handed, unlisted>>
module == <<life, mmsUp, leaked, reloads, restarts>>
vars   == <<modem, attached, queue, task, timers, refs, result, module>>

\* message_added_task; the path of a message is another one after a replug.
Added(s, n) == [op |-> "added", sms |-> s, n |-> n, epoch |-> epoch]
Rescan      == [op |-> "rescan"]
NoTask      == [op |-> "none"]

Tasks == [op : {"added"}, sms : Sms, n : 0 .. MaxRechecks, epoch : 0 .. MaxReplugs]

Init ==
  /\ mm = [s \in Sms |-> "absent"] /\ signals = {}
  /\ plugged = TRUE /\ epoch = 0 /\ attached = FALSE
  /\ queue = <<>> /\ stage = "idle" /\ running = NoTask /\ seen = "absent" /\ todo = {}
  /\ timers = {} /\ refs = 0
  /\ delivered = [s \in Sms |-> 0] /\ unqueued = {} /\ handed = {} /\ unlisted = FALSE
  /\ life = "down" /\ mmsUp = FALSE /\ leaked = 0 /\ reloads = 0 /\ restarts = 0

-----------------------------------------------------------------------------
(* ModemManager *)

Arrives(s) ==
  /\ plugged /\ mm[s] = "absent"
  /\ \E state \in {"receiving", "received"} : mm' = [mm EXCEPT ![s] = state]
  /\ signals' = IF life = "down" THEN signals ELSE signals \cup {s}
  /\ UNCHANGED <<plugged, epoch, attached, queue, task, timers, refs, result, module>>

\* Only a property changes; Added is not emitted again.
Completes(s) ==
  /\ plugged /\ mm[s] = "receiving" /\ mm' = [mm EXCEPT ![s] = "received"]
  /\ UNCHANGED <<signals, plugged, epoch, attached, queue, task, timers, refs, result, module>>

\* task_delete_sms of the MMS core, for a notification that is settled.
NoticeDeleted(s) ==
  /\ plugged /\ s \in handed /\ mm[s] = "received" /\ stage = "idle"
  /\ mm' = [mm EXCEPT ![s] = "deleted"]
  /\ UNCHANGED <<signals, plugged, epoch, attached, queue, task, timers, refs, result, module>>

-----------------------------------------------------------------------------
(* The GMainLoop thread *)

\* on_message_added: pushed, or let go with what it holds.
LoopAdded(s) ==
  /\ s \in signals /\ signals' = signals \ {s}
  /\ \/ attached /\ queue' = Append(queue, Added(s, 0)) /\ refs' = refs + 1
     \/ (Failures \/ ~ attached) /\ UNCHANGED <<queue, refs>>
  /\ UNCHANGED <<mm, plugged, epoch, attached, task, timers, result, module>>

\* Mutant: a task that cannot be pushed again is not freed.
TimerLeaks(t) ==
  /\ t \in timers /\ timers' = timers \ {t}
  /\ \/ life /= "detached" /\ queue' = Append(queue, t)
     \/ (Failures \/ life = "detached") /\ UNCHANGED queue
  /\ UNCHANGED <<modem, attached, task, refs, result, module>>

\* recheck_message_cb: pushed again, or freed; sim->modem is NULL once
\* sim_detach_all has run.
Timer(t) ==
  /\ t \in timers /\ timers' = timers \ {t}
  /\ \/ life /= "detached" /\ queue' = Append(queue, t) /\ UNCHANGED refs
     \/ (Failures \/ life = "detached") /\ refs' = refs - 1 /\ UNCHANGED queue
  /\ UNCHANGED <<modem, attached, task, result, module>>

-----------------------------------------------------------------------------
(* The serializer: task_message_added *)

Next1 == Head(queue)

\* The task lists the messages of the modem and looks for its own.
Listed ==
  /\ stage = "idle" /\ queue /= <<>> /\ Next1.op = "added"
  /\ attached /\ Next1.epoch = epoch /\ mm[Next1.sms] \in {"receiving", "received"}
  /\ queue' = Tail(queue) /\ running' = Next1
  /\ stage' = "act" /\ seen' = mm[Next1.sms]
  /\ UNCHANGED <<modem, attached, todo, timers, refs, result, module>>

\* No modem, no such message, or the list cannot be had.
NotListed ==
  /\ stage = "idle" /\ queue /= <<>> /\ Next1.op = "added"
  /\ \/ Failures
     \/ ~ (attached /\ Next1.epoch = epoch /\ mm[Next1.sms] \in {"receiving", "received"})
  /\ queue' = Tail(queue) /\ refs' = refs - 1
  /\ UNCHANGED <<modem, attached, task, timers, result, module>>

Done == stage' = "idle" /\ running' = NoTask /\ UNCHANGED <<seen, todo>>

\* Mutant: the count of the rechecks stays.
RecheckUncounted ==
  /\ stage = "act" /\ seen = "receiving" /\ running.n < MaxRechecks
  /\ timers' = timers \cup {running} /\ Done
  /\ UNCHANGED <<modem, attached, queue, refs, result, module>>

\* The timer takes the task over.
Recheck ==
  /\ stage = "act" /\ seen = "receiving" /\ running.n < MaxRechecks
  /\ timers' = timers \cup {[running EXCEPT !.n = @ + 1]} /\ Done
  /\ UNCHANGED <<modem, attached, queue, refs, result, module>>

GiveUp ==
  /\ stage = "act" /\ seen = "receiving" /\ running.n = MaxRechecks
  /\ refs' = refs - 1 /\ Done
  /\ UNCHANGED <<modem, attached, queue, timers, result, module>>

\* deliver_text_sms: what the dialplan does not want stays on the modem; whether
\* ast_msg_queue took the text is not looked at.
DeliverText ==
  /\ stage = "act" /\ seen = "received" /\ running.sms \in Text
  /\ \/ /\ \/ /\ delivered' = [delivered EXCEPT ![running.sms] = @ + 1]
              /\ UNCHANGED unqueued
           \/ Failures /\ unqueued' = unqueued \cup {running.sms} /\ UNCHANGED delivered
        /\ stage' = "delete" /\ UNCHANGED <<running, seen, todo, refs>>
     \/ Failures /\ Done /\ refs' = refs - 1 /\ UNCHANGED <<delivered, unqueued>>
  /\ UNCHANGED <<modem, attached, queue, timers, handed, unlisted, module>>

\* A text that was passed on is deleted, unless that fails.
DeleteText ==
  /\ stage = "delete" /\ Done /\ refs' = refs - 1
  /\ \/ plugged /\ running.epoch = epoch /\ mm' = [mm EXCEPT ![running.sms] = "deleted"]
     \/ (Failures \/ ~ plugged \/ running.epoch /= epoch) /\ UNCHANGED mm
  /\ UNCHANGED <<signals, plugged, epoch, attached, queue, timers, result, module>>

\* mms_on_wap_push_sms, a no-op before mms_init.
HandOver(s) == handed' = IF mmsUp THEN handed \cup {s} ELSE handed

HandNotice ==
  /\ stage = "act" /\ seen = "received" /\ running.sms \notin Text
  /\ HandOver(running.sms) /\ Done /\ refs' = refs - 1
  /\ UNCHANGED <<modem, attached, queue, timers, delivered, unqueued, unlisted, module>>

-----------------------------------------------------------------------------
(* The serializer: task_rescan_stored *)

Stored == {s \in Sms : mm[s] = "received"}

RescanBegins ==
  /\ stage = "idle" /\ queue /= <<>> /\ Next1 = Rescan
  /\ queue' = Tail(queue)
  /\ IF attached
       THEN stage' = "scan" /\ todo' = Stored
       ELSE UNCHANGED <<stage, todo>>
  /\ UNCHANGED <<modem, attached, running, seen, timers, refs, result, module>>

RescanFails ==
  /\ stage = "idle" /\ queue /= <<>> /\ Next1 = Rescan /\ attached /\ Failures
  /\ queue' = Tail(queue) /\ unlisted' = TRUE
  /\ UNCHANGED <<modem, attached, task, timers, refs, delivered, unqueued, handed, module>>

\* Mutant: stored texts are delivered again.
RescanDelivers(s) ==
  /\ stage = "scan" /\ s \in todo /\ todo' = todo \ {s}
  /\ IF s \in Text
       THEN delivered' = [delivered EXCEPT ![s] = @ + 1] /\ UNCHANGED handed
       ELSE HandOver(s) /\ UNCHANGED delivered
  /\ UNCHANGED <<modem, attached, queue, stage, running, seen, timers, refs, unqueued, unlisted,
                 module>>

\* Mutant: notifications are skipped like texts.
RescanSkips(s) ==
  /\ stage = "scan" /\ s \in todo /\ todo' = todo \ {s}
  /\ UNCHANGED <<modem, attached, queue, stage, running, seen, timers, refs, result, module>>

\* Texts are skipped, notifications go to the MMS core.
RescanOne(s) ==
  /\ stage = "scan" /\ s \in todo /\ todo' = todo \ {s}
  /\ IF s \in Text THEN UNCHANGED handed ELSE HandOver(s)
  /\ UNCHANGED <<modem, attached, queue, stage, running, seen, timers, refs, delivered, unqueued,
                 unlisted, module>>

RescanEnds ==
  /\ stage = "scan" /\ todo = {} /\ Done
  /\ UNCHANGED <<modem, attached, queue, timers, refs, result, module>>

-----------------------------------------------------------------------------
(* Attaching the modem; the life of the module *)

\* resolve_object: the handler is connected, a rescan pushed if that succeeds.
Attach == /\ attached' = TRUE /\ unlisted' = FALSE
          /\ queue' = Append(queue, Rescan) \/ (Failures /\ queue' = queue)

Reload ==
  /\ life = "up" /\ plugged /\ reloads < MaxReloads /\ reloads' = reloads + 1 /\ Attach
  /\ UNCHANGED <<modem, task, timers, refs, delivered, unqueued, handed, life, mmsUp, leaked, restarts>>

\* task_object_removed
Unplug ==
  /\ life \in {"down", "up"} /\ plugged /\ epoch < MaxReplugs
  /\ plugged' = FALSE /\ attached' = FALSE /\ signals' = {}
  /\ UNCHANGED <<mm, epoch, queue, task, timers, refs, result, module>>

\* task_resolve_object
Replug ==
  /\ life \in {"down", "up"} /\ ~ plugged /\ plugged' = TRUE /\ epoch' = epoch + 1
  /\ IF life = "up" THEN Attach ELSE UNCHANGED <<attached, queue, unlisted>>
  /\ UNCHANGED <<mm, signals, task, timers, refs, delivered, unqueued, handed, module>>

\* load_module: load_config resolves what is there ...
Load ==
  /\ life = "down" /\ life' = "resolved"
  /\ IF plugged THEN Attach ELSE UNCHANGED <<attached, queue, unlisted>>
  /\ UNCHANGED <<modem, task, timers, refs, delivered, unqueued, handed, mmsUp, leaked, reloads,
                 restarts>>

\* ... and mms_init comes after it.
MmsInit ==
  /\ life = "resolved" /\ life' = "up" /\ mmsUp' = TRUE
  /\ UNCHANGED <<modem, attached, queue, task, timers, refs, result, leaked, reloads, restarts>>

\* unload_module: mms_shutdown, ...
MmsShutdown ==
  /\ life = "up" /\ restarts < MaxRestarts /\ life' = "stopping" /\ mmsUp' = FALSE
  /\ restarts' = restarts + 1
  /\ UNCHANGED <<modem, attached, queue, task, timers, refs, result, leaked, reloads>>

\* ... modem_detach_all and sim_detach_all, ...
DetachAll ==
  /\ life = "stopping" /\ life' = "detached" /\ attached' = FALSE
  /\ UNCHANGED <<modem, queue, task, timers, refs, result, mmsUp, leaked, reloads, restarts>>

\* Nothing of the intake runs, or is connected any more.
Gone == /\ life' = "down" /\ mmsUp' = FALSE /\ attached' = FALSE /\ signals' = {}
        /\ queue' = <<>> /\ timers' = {} /\ handed' = {}
        /\ stage' = "idle" /\ running' = NoTask /\ todo' = {}
        /\ UNCHANGED <<mm, plugged, epoch, seen, delivered, unqueued, unlisted, reloads>>

Waiting == {i \in 1 .. Len(queue) : queue[i].op = "added"}

\* ... mm_bus_stop: the loop is joined, then the pool, with the task that runs;
\* what is queued or waits for a timer never runs: the structs are left behind,
\* with their references.
BusStop ==
  /\ life = "detached" /\ stage = "idle" /\ Gone
  /\ leaked' = leaked + Cardinality(Waiting) + Cardinality(timers)
  /\ UNCHANGED <<refs, restarts>>

\* The process ends, and its memory with it.
Crash ==
  /\ life = "up" /\ restarts < MaxRestarts /\ restarts' = restarts + 1 /\ Gone
  /\ refs' = 0 /\ leaked' = 0

-----------------------------------------------------------------------------
TaskNext == \/ Listed \/ NotListed \/ Recheck \/ GiveUp \/ DeliverText \/ DeleteText
            \/ HandNotice \/ RescanBegins \/ RescanFails \/ RescanEnds
            \/ \E s \in Sms : RescanOne(s)

Next == \/ \E s \in Sms : Arrives(s) \/ Completes(s) \/ NoticeDeleted(s) \/ LoopAdded(s)
        \/ \E t \in timers : Timer(t)
        \/ TaskNext
        \/ Reload \/ Unplug \/ Replug \/ Load \/ MmsInit \/ MmsShutdown \/ DetachAll
        \/ BusStop \/ Crash

Spec == Init /\ [][Next]_vars

\* The loop thread and the serializer keep running, a load and an unload end.
FairSpec == /\ Spec /\ WF_vars(TaskNext)
            /\ \A s \in Sms : WF_vars(LoopAdded(s) \/ \E t \in timers : t.sms = s /\ Timer(t))
            /\ WF_vars(MmsInit \/ DetachAll \/ BusStop)

-----------------------------------------------------------------------------
(* Properties *)

\* Type correctness; the tasks of a message are its own.
TypeOK ==
  /\ mm \in [Sms -> {"absent", "receiving", "received", "deleted"}] /\ signals \subseteq Sms
  /\ plugged \in BOOLEAN /\ epoch \in 0 .. MaxReplugs /\ attached \in BOOLEAN
  /\ ~ plugged => epoch < MaxReplugs
  /\ queue \in Seq(Tasks \cup {Rescan})
  /\ stage \in {"idle", "act", "delete", "scan"}
  /\ running \in Tasks \cup {NoTask} /\ (running /= NoTask <=> stage \in {"act", "delete"})
  /\ seen \in {"absent", "receiving", "received"} /\ todo \subseteq Sms
  /\ timers \subseteq Tasks /\ IsFiniteSet(timers) /\ refs \in Int
  /\ delivered \in [Sms -> Nat] /\ unqueued \subseteq Text
  /\ handed \subseteq Sms \ Text /\ unlisted \in BOOLEAN /\ leaked \in Nat
  /\ life \in {"down", "resolved", "up", "stopping", "detached"} /\ mmsUp \in BOOLEAN
  /\ reloads \in 0 .. MaxReloads /\ restarts \in 0 .. MaxRestarts

\* deliver_text_sms: "queued to the dialplan (safe to delete from the modem)".  No
\* text leaves the modem unread, whatever fails on the way, but for one failure
\* that the code does not look at: a text that ast_msg_queue did not take is
\* deleted all the same.
TextKept == \A s \in Text : mm[s] = "deleted" => delivered[s] > 0 \/ s \in unqueued

\* sms.h: "re-delivering on every reload would duplicate them".  A text reaches
\* the dialplan once at most, though its deletion may fail and the modem be
\* scanned again after a reload, a replug or a restart.
TextOnce == \A s \in Text : delivered[s] <= 1

\* A text is kept until it was passed to the dialplan, which gets it once.
TextsSafe == TextKept /\ TextOnce

\* Every message_added_task alive is in one place, queued, running or with a
\* timer, or an unload left it there: its SIM is released once, also when it
\* cannot be pushed, and only an unload leaks it.
RefsAccounted ==
  refs = Cardinality(Waiting) + Cardinality(timers) + (IF running = NoTask THEN 0 ELSE 1)
           + leaked

Chained(s) == \/ \E i \in 1 .. Len(queue) : queue[i].op = "added" /\ queue[i].sms = s
              \/ running /= NoTask /\ running.sms = s
              \/ \E t \in timers : t.sms = s

\* A message is not looked at for ever: the rechecks of one that never gets
\* complete come to an end.
ChainsEnd == \A s \in Sms : Chained(s) ~> ~ Chained(s)

RescanQueued == \E i \in 1 .. Len(queue) : queue[i] = Rescan

\* sms.h: "notifications that arrived while the module was not watching are
\* recovered on every modem (re)appearance".  A rescan that can list the messages
\* and begins once the MMS core is up hands it every complete notification.
NoticesRecovered ==
  \A s \in Sms \ Text :
    mmsUp /\ attached /\ RescanQueued /\ mm[s] = "received"
      ~> s \in handed \/ unlisted \/ ~ attached \/ ~ mmsUp
=============================================================================
