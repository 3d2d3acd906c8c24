----------------------------- MODULE MmsWorker -----------------------------
(***************************************************************************)
(* The MMS receive core of src/src/mms/mms_core.c: notifications taken in  *)
(* on the serializer of a modem, the transactions they are tracked in, the *)
(* worker thread that fetches, and the deletion of the notification SMS.   *)
(*                                                                         *)
(* One SIM on one modem.  The serializer runs the intake, the deletions    *)
(* and the kick that ends task_call_terminated, one after another; a kick  *)
(* reads and writes a transaction without a lock the worker holds.  Time   *)
(* is a countdown to next_attempt and to the expiry of every transaction.  *)
(***************************************************************************)
EXTENDS Naturals, FiniteSets, Sequences

CONSTANTS
  Keys,        \* (sim, transaction id) pairs
  Sms,         \* notification SMS; a carrier may send one notification twice
  KeyOf,       \* the key in the notification an SMS carries
  Relative,    \* keys whose notification states its expiry relative to now
  None,        \* NULL
  MaxRetries,  \* sim->mms_max_retries
  Backoff,     \* backoff_s
  CallRetry,   \* TXN_CALL_RETRY_S
  Grace,       \* TXN_TOMBSTONE_GRACE
  Lifetime,    \* time from the arrival of a notification to its expiry
  MaxCalls,    \* bound: voice calls
  MaxRestarts, \* bound: unloads and crashes, each followed by a load
  Reconfigs    \* TRUE: a reload may remove sim->mmsc, or add it, at any time

ASSUME MmsAssumption ==
  /\ KeyOf \in [Sms -> Keys] /\ Relative \subseteq Keys /\ None \notin Keys \cup Sms
  /\ MaxRetries \in Nat /\ CallRetry \in Nat /\ Grace \in Nat /\ Lifetime \in Nat \ {0}
  /\ Backoff \in Seq(Nat) /\ Backoff /= <<>>
  /\ MaxCalls \in Nat /\ MaxRestarts \in Nat /\ Reconfigs \in BOOLEAN

VARIABLES
  state,      \* txn->state; "none" when txns has no such transaction
  attempts,   \* txn->attempts
  decodes,    \* txn->decode_failures
  due,        \* time left until txn->next_attempt
  left,       \* time left until txn->expiry + TXN_TOMBSTONE_GRACE
  path,       \* txn->sms_path
  arrived, stored,   \* SMS that came in; those ModemManager has stored
  deletes,    \* task_delete_sms waiting on the serializer
  wpc, cur, wakeup,  \* the worker: where it is, its transaction, its timeout
  spc, todo, hit,    \* the serializer: where it is, keys a kick has not visited,
                     \* the one it found waiting
  call, calls,       \* modem->call is set; how many calls there were
  life, stop, restarts,   \* the subsystem, worker_stop; how often it went down
  delivered, refused, \* what became of messages: how often queued to the dialplan;
                      \* that nobody in the dialplan wanted, or could not be built;
  spoilt, lapsed      \* fetched in vain twice; expired

txns   == <<state, attempts, decodes, due, left, path>>
store  == <<arrived, stored, deletes>>
worker == <<wpc, cur, wakeup>>
serial == <<spc, todo, hit>>
voice  == <<call, calls>>
module == <<life, stop, restarts>>
fates  == <<delivered, refused, spoilt, lapsed>>
vars   == <<txns, store, worker, serial, voice, module, fates>>

\* "ready": the scan found nothing, the worker still holds worker_lock.
WorkerPlaces == {"scan", "ready", "waiting", "process", "failed", "count",
                 "postpone", "postponed", "deliver", "finish", "exit"}

\* The worker has a transaction in its hands.
Busy == {"process", "failed", "count", "postpone", "postponed", "deliver", "finish"}

Lesser(m, n) == IF m < n THEN m ELSE n

\* time(NULL) is past txn->expiry.
Expired(k) == left[k] <= Grace

Init ==
  /\ state = [k \in Keys |-> "none"] /\ attempts = [k \in Keys |-> 0]
  /\ decodes = [k \in Keys |-> 0] /\ due = [k \in Keys |-> 0]
  /\ left = [k \in Keys |-> Lifetime + Grace] /\ path = [k \in Keys |-> None]
  /\ arrived = {} /\ stored = {} /\ deletes = {}
  /\ wpc = "scan" /\ cur = None /\ wakeup = None
  /\ spc = "idle" /\ todo = {} /\ hit = None
  /\ call = FALSE /\ calls = 0
  /\ life = "up" /\ stop = FALSE /\ restarts = 0
  /\ delivered = [k \in Keys |-> 0] /\ refused = {} /\ spoilt = {} /\ lapsed = {}

-----------------------------------------------------------------------------
(* The world: messages, time, calls *)

\* An SMS is stored by the modem.
Arrive(s) ==
  /\ s \in Sms \ arrived
  /\ arrived' = arrived \cup {s} /\ stored' = stored \cup {s}
  /\ UNCHANGED <<txns, deletes, worker, serial, voice, module, fates>>

Down(n) == IF n = 0 THEN 0 ELSE n - 1

\* A relative expiry counts from the announcement, so it runs out only for a
\* message that is tracked.
Tick ==
  /\ due' = [k \in Keys |-> Down(due[k])] /\ left' = [k \in Keys |-> Down(left[k])]
  /\ wakeup' = IF wakeup = None THEN None ELSE Down(wakeup)
  /\ lapsed' = lapsed \cup {k \in Keys : /\ left[k] <= Grace + 1
                                        /\ (state[k] /= "none" \/ k \notin Relative)}
  /\ UNCHANGED <<state, attempts, decodes, path, store, wpc, cur, serial, voice,
                 module, delivered, refused, spoilt>>

CallBegins ==
  /\ ~ call /\ calls < MaxCalls /\ life = "up"
  /\ call' = TRUE /\ calls' = calls + 1
  /\ UNCHANGED <<txns, store, worker, serial, module, fates>>

-----------------------------------------------------------------------------
(* The serializer *)

\* mms_on_wap_push_sms, in any of the tasks that found the SMS on the modem: the one
\* of its arrival or a rescan.  Such a task may have been queued before a deletion of
\* the same SMS, which then is still to come.  A notification whose transaction is
\* known is ignored, and so is one for a SIM without an mmsc: nothing makes this
\* action happen.
Intake(s) ==
  LET k == KeyOf[s] IN
  /\ spc = "idle" /\ life /= "down" /\ s \in stored
  /\ state[k] = "none"
  /\ state' = [state EXCEPT ![k] = "waiting"]
  /\ attempts' = [attempts EXCEPT ![k] = 0] /\ decodes' = [decodes EXCEPT ![k] = 0]
  /\ due' = [due EXCEPT ![k] = 0] /\ path' = [path EXCEPT ![k] = s]
  /\ left' = IF k \in Relative THEN [left EXCEPT ![k] = Lifetime + Grace] ELSE left
  /\ spc' = "signal"
  /\ UNCHANGED <<store, worker, todo, hit, voice, module, fates>>

\* Mutant: the condition is signalled without worker_lock.
SignalUnlocked ==
  /\ spc = "signal" /\ life /= "down"
  /\ spc' = "idle"
  /\ wpc' = IF wpc = "waiting" THEN "scan" ELSE wpc
  /\ UNCHANGED <<txns, store, cur, wakeup, todo, hit, voice, module, fates>>

\* ast_cond_signal under worker_lock, at the end of the intake and of mms_kick.
Signal ==
  /\ spc = "signal" /\ life /= "down" /\ wpc /= "ready"
  /\ spc' = "idle"
  /\ wpc' = IF wpc = "waiting" THEN "scan" ELSE wpc
  /\ UNCHANGED <<txns, store, cur, wakeup, todo, hit, voice, module, fates>>

\* task_delete_sms; ModemManager may fail to delete.
DeleteSms(s) ==
  /\ spc = "idle" /\ s \in deletes
  /\ deletes' = deletes \ {s} /\ stored' \in {stored, stored \ {s}}
  /\ UNCHANGED <<txns, arrived, worker, serial, voice, module, fates>>

\* task_call_terminated detaches the call and ends in mms_kick.
CallEnds ==
  /\ spc = "idle" /\ call
  /\ call' = FALSE
  /\ IF life = "down" THEN UNCHANGED <<spc, todo>>
                      ELSE spc' = "kick" /\ todo' = {k \in Keys : state[k] /= "none"}
  /\ UNCHANGED <<txns, store, worker, hit, calls, module, fates>>

\* txn_kick_cb tests the state of each transaction ...
KickTest ==
  /\ spc = "kick" /\ hit = None /\ life /= "down"
  /\ IF todo = {}
       THEN spc' = "signal" /\ UNCHANGED <<todo, hit>>
       ELSE \E k \in todo : /\ todo' = todo \ {k}
                            /\ hit' = IF state[k] = "waiting" THEN k ELSE None
                            /\ UNCHANGED spc
  /\ UNCHANGED <<txns, store, worker, voice, module, fates>>

\* ... and sets next_attempt, whatever the worker made of it in between.
KickWrite ==
  /\ spc = "kick" /\ hit /= None /\ life /= "down"
  /\ due' = [due EXCEPT ![hit] = 0] /\ hit' = None
  /\ UNCHANGED <<state, attempts, decodes, left, path, store, worker, spc, todo,
                 voice, module, fates>>

-----------------------------------------------------------------------------
(* The worker thread *)

Waiting == {k \in Keys : state[k] = "waiting"}
Swept   == {k \in Keys : state[k] = "terminal" /\ due[k] = 0}

\* Under worker_lock: the sweep, then pick_due.
Scan ==
  /\ wpc = "scan"
  /\ IF stop
       THEN wpc' = "exit" /\ UNCHANGED <<state, cur, wakeup>>
       ELSE LET kept == [k \in Keys |-> IF k \in Swept THEN "none" ELSE state[k]] IN
            \/ \E k \in Waiting : /\ due[k] = 0
                                  /\ state' = [kept EXCEPT ![k] = "fetching"]
                                  /\ cur' = k /\ wpc' = "process" /\ UNCHANGED wakeup
            \/ /\ \A k \in Waiting : due[k] > 0
               /\ state' = kept /\ wpc' = "ready" /\ UNCHANGED cur
               /\ \/ Waiting = {} /\ wakeup' = None
                  \/ \E k \in Waiting : /\ \A j \in Waiting : due[k] <= due[j]
                                        /\ wakeup' = due[k]
  /\ UNCHANGED <<attempts, decodes, due, left, path, store, serial, voice,
                 module, fates>>

\* ast_cond_wait or ast_cond_timedwait releases worker_lock.
Wait ==
  /\ wpc = "ready" /\ wpc' = "waiting"
  /\ UNCHANGED <<txns, store, cur, wakeup, serial, voice, module, fates>>

TimedOut ==
  /\ wpc = "waiting" /\ wakeup = 0 /\ wpc' = "scan"
  /\ UNCHANGED <<txns, store, cur, wakeup, serial, voice, module, fates>>

\* Mutant: the transaction is unlinked, no tombstone stays.
FinishUnlinked(k, delete) ==
  /\ deletes' \in IF delete THEN {deletes, deletes \cup {path[k]}} ELSE {deletes}
  /\ state' = [state EXCEPT ![k] = "none"]
  /\ due' = [due EXCEPT ![k] = left[k]]
  /\ wpc' = "scan" /\ cur' = None

\* Mutant: the worker keeps its reference.
FinishKeepsCur(k, delete) ==
  /\ deletes' \in IF delete THEN {deletes, deletes \cup {path[k]}} ELSE {deletes}
  /\ state' = [state EXCEPT ![k] = "terminal"]
  /\ due' = [due EXCEPT ![k] = left[k]]
  /\ wpc' = "scan" /\ UNCHANGED cur

\* txn_finish: the delete task, which may not get pushed, and the tombstone, which is
\* over at once when the message expired longer than the grace period ago.
Finish(k, delete) ==
  /\ deletes' \in IF delete THEN {deletes, deletes \cup {path[k]}} ELSE {deletes}
  /\ state' = [state EXCEPT ![k] = "terminal"]
  /\ due' = [due EXCEPT ![k] = left[k]]
  /\ wpc' = "scan" /\ cur' = None

\* Mutant: a message for a SIM without an mmsc is dropped with its SMS.
ProcessDropsSms ==
  LET k == cur IN
  /\ wpc = "process"
  /\ \/ Reconfigs /\ Finish(k, TRUE) /\ UNCHANGED <<decodes, spoilt>>
     \/ Expired(k) /\ Finish(k, TRUE) /\ UNCHANGED <<decodes, spoilt>>
     \/ /\ ~ Expired(k) /\ wpc' \in {"failed", "deliver"}
        /\ UNCHANGED <<deletes, state, due, cur, decodes, spoilt>>
  /\ UNCHANGED <<attempts, left, path, arrived, stored, wakeup, serial, voice,
                 module, delivered, refused, lapsed>>

\* The head of process_txn, which finds no mmsc when a reload has removed it, and
\* mms_http_fetch with the decoder.
Process ==
  LET k == cur IN
  /\ wpc = "process"
  /\ \/ Reconfigs /\ Finish(k, FALSE) /\ UNCHANGED <<decodes, spoilt>>
     \/ Expired(k) /\ Finish(k, TRUE) /\ UNCHANGED <<decodes, spoilt>>
     \/ /\ ~ Expired(k) /\ wpc' \in {"failed", "deliver"}
        /\ UNCHANGED <<deletes, state, due, cur, decodes, spoilt>>
     \/ /\ ~ Expired(k)
        /\ decodes' = [decodes EXCEPT ![k] = @ + 1]
        /\ IF decodes[k] + 1 >= 2
             THEN Finish(k, TRUE) /\ spoilt' = spoilt \cup {k}
             ELSE wpc' = "failed" /\ UNCHANGED <<deletes, state, due, cur, spoilt>>
  /\ UNCHANGED <<attempts, left, path, arrived, stored, wakeup, serial, voice,
                 module, delivered, refused, lapsed>>

\* txn_retry looks for a call ...
Failed ==
  /\ wpc = "failed"
  /\ wpc' = IF call THEN "postpone" ELSE "count"
  /\ UNCHANGED <<txns, store, cur, wakeup, serial, voice, module, fates>>

\* ... during which a failure costs nothing: first the state is written, then
\* next_attempt ...
Postpone ==
  /\ wpc = "postpone"
  /\ state' = [state EXCEPT ![cur] = "waiting"] /\ wpc' = "postponed"
  /\ UNCHANGED <<attempts, decodes, due, left, path, store, cur, wakeup, serial,
                 voice, module, fates>>

Postponed ==
  /\ wpc = "postponed"
  /\ due' = [due EXCEPT ![cur] = CallRetry] /\ wpc' = "scan" /\ cur' = None
  /\ UNCHANGED <<state, attempts, decodes, left, path, store, wakeup, serial,
                 voice, module, fates>>

\* Mutant: the SMS of a message that is given up is deleted all the same.
CountDeletes ==
  LET k == cur
      n == attempts[k] + 1 IN
  /\ wpc = "count"
  /\ attempts' = [attempts EXCEPT ![k] = n]
  /\ IF n >= MaxRetries
       THEN Finish(k, TRUE)
       ELSE /\ due' = [due EXCEPT ![k] = Backoff[Lesser(n, Len(Backoff))]]
            /\ state' = [state EXCEPT ![k] = "waiting"]
            /\ wpc' = "scan" /\ cur' = None /\ UNCHANGED deletes
  /\ UNCHANGED <<decodes, left, path, arrived, stored, wakeup, serial, voice,
                 module, fates>>

\* ... and otherwise counts the attempt, gives up or backs off.
Count ==
  LET k == cur
      n == attempts[k] + 1 IN
  /\ wpc = "count"
  /\ attempts' = [attempts EXCEPT ![k] = n]
  /\ IF n >= MaxRetries
       THEN Finish(k, Expired(k))
       ELSE /\ due' = [due EXCEPT ![k] = Backoff[Lesser(n, Len(Backoff))]]
            /\ state' = [state EXCEPT ![k] = "waiting"]
            /\ wpc' = "scan" /\ cur' = None /\ UNCHANGED deletes
  /\ UNCHANGED <<decodes, left, path, arrived, stored, wakeup, serial, voice,
                 module, fates>>

\* mms_deliver, then the acknowledgement.  Nobody looks at the outcome of either:
\* a message that the dialplan does not take is finished like one that it took.
\* Bound: the second delivery of a message is counted, a third is not.
Deliver ==
  /\ wpc = "deliver" /\ wpc' = "finish"
  /\ \/ delivered' = [delivered EXCEPT ![cur] = Lesser(2, @ + 1)] /\ UNCHANGED refused
     \/ refused' = refused \cup {cur} /\ UNCHANGED delivered
  /\ UNCHANGED <<txns, store, cur, wakeup, serial, voice, module, spoilt, lapsed>>

FinishDelivered ==
  /\ wpc = "finish" /\ Finish(cur, TRUE)
  /\ UNCHANGED <<attempts, decodes, left, path, arrived, stored, wakeup, serial,
                 voice, module, fates>>

-----------------------------------------------------------------------------
(* Load, unload, crash *)

\* Mutant: the worker is not woken.
ShutdownUnsignalled ==
  /\ life = "up" /\ restarts < MaxRestarts /\ wpc /= "ready"
  /\ life' = "stopping" /\ stop' = TRUE /\ restarts' = restarts + 1
  /\ UNCHANGED <<txns, store, worker, serial, voice, fates>>

\* mms_shutdown sets worker_stop and signals under worker_lock ...
Shutdown ==
  /\ life = "up" /\ restarts < MaxRestarts /\ wpc /= "ready"
  /\ life' = "stopping" /\ stop' = TRUE /\ restarts' = restarts + 1
  /\ wpc' = IF wpc = "waiting" THEN "scan" ELSE wpc
  /\ UNCHANGED <<txns, store, cur, wakeup, serial, voice, fates>>

\* Nothing of a transaction survives txns.
Forget ==
  /\ state' = [k \in Keys |-> "none"] /\ attempts' = [k \in Keys |-> 0]
  /\ decodes' = [k \in Keys |-> 0] /\ due' = [k \in Keys |-> 0]
  /\ path' = [k \in Keys |-> None] /\ UNCHANGED left

\* ... joins the worker and frees txns.
Joined ==
  /\ life = "stopping" /\ wpc = "exit"
  /\ life' = "down" /\ Forget
  /\ UNCHANGED <<store, worker, serial, voice, stop, restarts, fates>>

\* Asterisk dies at any point; tasks that were queued are gone.
Crash ==
  /\ restarts < MaxRestarts /\ life = "up" /\ restarts' = restarts + 1
  /\ life' = "down" /\ Forget /\ deletes' = {}
  /\ wpc' = "exit" /\ cur' = None /\ wakeup' = None
  /\ spc' = "idle" /\ todo' = {} /\ hit' = None /\ call' = FALSE
  /\ UNCHANGED <<arrived, stored, calls, stop, fates>>

\* mms_init, with new serializers; a kick that was under way when txns was freed
\* is not followed further.
Load ==
  /\ life = "down"
  /\ life' = "up" /\ stop' = FALSE /\ wpc' = "scan" /\ cur' = None /\ wakeup' = None
  /\ deletes' = {} /\ spc' = "idle" /\ todo' = {} /\ hit' = None /\ call' = FALSE
  /\ UNCHANGED <<txns, arrived, stored, calls, restarts, fates>>

-----------------------------------------------------------------------------
WorkerNext == \/ Scan \/ Wait \/ TimedOut \/ Process \/ Failed \/ Postpone \/ Postponed
              \/ Count \/ Deliver \/ FinishDelivered

SerialNext == Signal \/ KickTest \/ KickWrite \/ \E s \in Sms : DeleteSms(s)

Next == \/ \E s \in Sms : Arrive(s) \/ Intake(s)
        \/ Tick \/ CallBegins \/ CallEnds
        \/ WorkerNext \/ SerialNext
        \/ Shutdown \/ Joined \/ Crash \/ Load

Spec == Init /\ [][Next]_vars

\* The worker and the serializer keep running, a fetch ends (curl has a timeout),
\* a lock that is free again and again is got in the end, and time passes.
FairSpec == /\ Spec /\ WF_vars(WorkerNext) /\ WF_vars(SerialNext) /\ SF_vars(Signal)
            /\ WF_vars(Tick) /\ WF_vars(Joined)

-----------------------------------------------------------------------------
(* Properties *)

\* Type correctness, and where the worker and the kick are.
TypeOK ==
  /\ state \in [Keys -> {"none", "waiting", "fetching", "terminal"}]
  /\ attempts \in [Keys -> Nat] /\ decodes \in [Keys -> Nat]
  /\ due \in [Keys -> Nat] /\ left \in [Keys -> 0 .. Lifetime + Grace]
  /\ path \in [Keys -> Sms \cup {None}]
  /\ stored \subseteq arrived /\ arrived \subseteq Sms /\ deletes \subseteq Sms
  /\ wpc \in WorkerPlaces /\ cur \in Keys \cup {None} /\ wakeup \in Nat \cup {None}
  /\ wpc \in Busy <=> cur /= None
  /\ spc \in {"idle", "signal", "kick"} /\ todo \subseteq Keys /\ hit \in Keys \cup {None}
  /\ call \in BOOLEAN /\ calls \in 0 .. MaxCalls
  /\ life \in {"up", "stopping", "down"} /\ stop \in BOOLEAN
  /\ restarts \in 0 .. MaxRestarts
  /\ delivered \in [Keys -> 0 .. 2]
  /\ refused \subseteq Keys /\ spoilt \subseteq Keys /\ lapsed \subseteq Keys

\* A message is settled once it was delivered or refused, expired, or came in vain
\* twice.
Settled(k) == delivered[k] > 0 \/ k \in refused \cup spoilt \cup lapsed

\* A notification SMS leaves the modem only when its message was handed to
\* mms_deliver, has expired or was fetched in vain twice: neither a restart at any
\* point nor the end of the retry budget destroys one that could still be fetched.
NeverLost == \A s \in arrived \ stored : Settled(KeyOf[s])

\* mms.h: "a restart re-discovers pending notifications (memory-only state)".
\* A transaction whose message is not settled has its SMS on the modem still, and no
\* delete task for it is under way.  One that is settled already, taken in again by a
\* late task once its tombstone is over, may lose its SMS while it is pending.
PendingOnModem ==
  \A k \in Keys : state[k] \in {"waiting", "fetching"} /\ ~ Settled(k) =>
    path[k] \in stored \ deletes

\* Whatever fails and whenever the process dies: a notification is on the modem, where
\* a restart finds it, until its message is settled.
NoticesKept == NeverLost /\ PendingOnModem

\* txns, worker, serializer and kick together implement the inbox: a message is
\* taken in only from the modem and concluded only while it is pending, and a copy
\* is deleted only when its message is settled.
Pending == {k \in Keys : state[k] \in {"waiting", "fetching"}}
Where(s) == IF s \in stored THEN "modem" ELSE IF s \in arrived THEN "gone" ELSE "network"
Inbox == INSTANCE MmsInbox WITH place <- [s \in Sms |-> Where(s)], pending <- Pending,
                                settled <- {k \in Keys : Settled(k)}
ImplementsInbox == Inbox!Spec

\* Until a restart or a call disturbs the subsystem, the tombstone absorbs rescans
\* and repeated notifications: however often deletion fails, a message whose
\* expiry is absolute is delivered at most once.
DeliveredOnce ==
  calls = 0 /\ restarts = 0 => \A k \in Keys \ Relative : delivered[k] <= 1

\* A notification that was taken in is settled: no wakeup of the worker is lost,
\* no retry goes on for ever.
NoticesSettled ==
  \A k \in Keys : state[k] \in {"waiting", "fetching"} ~> state[k] \in {"terminal", "none"}

\* mms_shutdown, and with it the unload of the module, comes to an end.
ShutdownCompletes == life = "stopping" ~> life = "down"

=============================================================================
