-------------------------- MODULE SmsIntakeProofs --------------------------
(***************************************************************************)
(* Proofs about SmsIntake for any number of messages, rechecks, reloads,   *)
(* replugs and restarts.                                                   *)
(***************************************************************************)
EXTENDS SmsIntake, SequenceTheorems, FiniteSetTheorems, TLAPS

-----------------------------------------------------------------------------
(* Type correctness *)

Items == Tasks \cup {Rescan}

\* A task that is queued is in the queue afterwards, and nothing else is new.
LEMMA Queued ==
  ASSUME NEW q \in Seq(Items), NEW t \in Items
  PROVE  /\ Append(q, t) \in Seq(Items)
         /\ Len(Append(q, t)) = Len(q) + 1
         /\ \A i \in 1 .. Len(q) : Append(q, t)[i] = q[i]
         /\ Append(q, t)[Len(q) + 1] = t
BY AppendProperties

\* The task at the head leaves, the others move up.
LEMMA Dequeued ==
  ASSUME NEW q \in Seq(Items), q /= <<>>
  PROVE  /\ Tail(q) \in Seq(Items) /\ Head(q) \in Items /\ Head(q) = q[1]
         /\ Len(q) >= 1 /\ Len(Tail(q)) = Len(q) - 1
         /\ \A i \in 1 .. Len(Tail(q)) : Tail(q)[i] = q[i + 1]
<1>1. Len(q) \in Nat /\ Len(q) /= 0
  BY EmptySeq
<1>2. Head(q) \in Items /\ Tail(q) \in Seq(Items)
  BY HeadTailProperties
<1> QED
  BY <1>1, <1>2, HeadTailProperties, ElementOfSeq

\* A rescan is no task of a message, nor is no task at all.
LEMMA Kinds ==
  /\ \A t \in Tasks : t.op = "added" /\ t.sms \in Sms /\ t.n \in 0 .. MaxRechecks
  /\ Rescan.op = "rescan" /\ Rescan \notin Tasks /\ NoTask \notin Tasks /\ Rescan \in Items
BY DEF Tasks, Rescan, NoTask, Items

\* The task of a message that has just been added.
LEMMA AddedTask ==
  ASSUME TypeOK, NEW s \in Sms PROVE Added(s, 0) \in Tasks /\ Added(s, 0).sms = s
BY SmsAssumption DEF Added, Tasks, TypeOK

\* One more recheck of the task that runs.
LEMMA RecheckedTask ==
  ASSUME TypeOK, running \in Tasks, running.n < MaxRechecks
  PROVE  /\ [running EXCEPT !.n = @ + 1] \in Tasks
         /\ [running EXCEPT !.n = @ + 1].sms = running.sms
<1> DEFINE t == [running EXCEPT !.n = @ + 1]
<1>1. running.n + 1 \in 0 .. MaxRechecks
  BY SmsAssumption DEF Tasks
<1>2. t = [op |-> running.op, sms |-> running.sms, n |-> running.n + 1,
           epoch |-> running.epoch]
  BY DEF Tasks
<1>3. /\ running.op = "added" /\ running.sms \in Sms /\ running.epoch \in 0 .. MaxReplugs
  BY DEF Tasks
<1> QED
  BY <1>1, <1>2, <1>3 DEF Tasks

\* The initial state is well formed.
LEMMA TypeInit == Init => TypeOK
<1> SUFFICES ASSUME Init PROVE TypeOK
  OBVIOUS
<1>1. queue \in Seq(Tasks \cup {Rescan})
  BY EmptySeq DEF Init
<1>2. epoch \in 0 .. MaxReplugs /\ reloads \in 0 .. MaxReloads /\ restarts \in 0 .. MaxRestarts
  BY SmsAssumption DEF Init
<1>3. /\ mm \in [Sms -> {"absent", "receiving", "received", "deleted"}]
      /\ delivered \in [Sms -> Nat] /\ IsFiniteSet(timers)
  BY FS_EmptySet DEF Init
<1>4. /\ plugged \in BOOLEAN /\ attached \in BOOLEAN /\ unlisted \in BOOLEAN /\ mmsUp \in BOOLEAN
  BY DEF Init
<1>5. /\ stage \in {"idle", "act", "delete", "scan"}
      /\ running \in Tasks \cup {NoTask} /\ (running /= NoTask <=> stage \in {"act", "delete"})
  BY DEF Init
<1> QED
  BY <1>1, <1>2, <1>3, <1>4, <1>5 DEF Init, TypeOK

\* Every action keeps the variables in their types.
LEMMA TypeInductive == ASSUME TypeOK, [Next]_vars PROVE TypeOK'
<1> USE SmsAssumption, Kinds
<1>q. queue \in Seq(Items) /\ Rescan \in Items /\ Tasks \subseteq Items
  BY DEF TypeOK, Items
<1>t. ASSUME queue /= <<>>
      PROVE  Tail(queue) \in Seq(Items) /\ Head(queue) \in Items
  BY <1>q, <1>t, Dequeued
<1>r. Append(queue, Rescan) \in Seq(Items)
  BY <1>q, Queued
<1>s. Next1.op = "added" /\ queue /= <<>> => Next1 \in Tasks
  BY <1>t DEF Next1, Items
<1>1. ASSUME NEW s \in Sms, Arrives(s) PROVE TypeOK'
  BY <1>1 DEF Arrives, TypeOK, task, result, module
<1>2. ASSUME NEW s \in Sms, Completes(s) PROVE TypeOK'
  BY <1>2 DEF Completes, TypeOK, task, result, module
<1>3. ASSUME NEW s \in Sms, NoticeDeleted(s) PROVE TypeOK'
  BY <1>3 DEF NoticeDeleted, TypeOK, task, result, module
<1>4. ASSUME NEW s \in Sms, LoopAdded(s) PROVE TypeOK'
  <2>1. Append(queue, Added(s, 0)) \in Seq(Items)
    BY <1>q, AddedTask, Queued
  <2>2. queue' \in Seq(Tasks \cup {Rescan})
    BY <1>4, <2>1, <1>q DEF LoopAdded, Items
  <2> QED
    BY <1>4, <2>2 DEF LoopAdded, TypeOK, task, result, module
<1>5. ASSUME NEW t \in timers, Timer(t) PROVE TypeOK'
  <2>1. Append(queue, t) \in Seq(Items)
    BY <1>q, Queued DEF TypeOK
  <2>2. queue' \in Seq(Tasks \cup {Rescan})
    BY <1>5, <2>1, <1>q DEF Timer, Items
  <2>3. IsFiniteSet(timers')
    BY <1>5, FS_RemoveElement DEF Timer, TypeOK
  <2> QED
    BY <1>5, <2>2, <2>3 DEF Timer, TypeOK, modem, task, result, module
<1>6. CASE Listed
  BY <1>6, <1>t, <1>s DEF Listed, TypeOK, Items, modem, result, module
<1>7. CASE NotListed
  BY <1>7, <1>t DEF NotListed, TypeOK, Items, modem, task, result, module
<1>8. CASE Recheck
  <2>1. [running EXCEPT !.n = @ + 1] \in Tasks
    BY <1>8, RecheckedTask DEF Recheck, TypeOK
  <2>2. IsFiniteSet(timers')
    BY <1>8, FS_AddElement DEF Recheck, TypeOK
  <2> QED
    BY <1>8, <2>1, <2>2 DEF Recheck, Done, TypeOK, modem, result, module
<1>9. CASE GiveUp
  BY <1>9 DEF GiveUp, Done, TypeOK, modem, result, module
<1>10. CASE DeliverText
  BY <1>10 DEF DeliverText, Done, TypeOK, modem, module
<1>11. CASE DeleteText
  <2>1. mm' \in [Sms -> {"absent", "receiving", "received", "deleted"}]
    BY <1>11 DEF DeleteText, TypeOK
  <2>2. UNCHANGED <<signals, plugged, epoch, attached, queue, timers, delivered,
                    unqueued, handed, unlisted, life, mmsUp, leaked, reloads, restarts>>
    BY <1>11 DEF DeleteText, result, module
  <2>3. stage' = "idle" /\ running' = NoTask /\ UNCHANGED <<seen, todo>> /\ refs' = refs - 1
    BY <1>11 DEF DeleteText, Done
  <2> QED
    BY <2>1, <2>2, <2>3 DEF TypeOK
<1>12. CASE HandNotice
  BY <1>12 DEF HandNotice, HandOver, Done, TypeOK, modem, module
<1>13. CASE RescanBegins
  BY <1>13, <1>t DEF RescanBegins, Stored, TypeOK, Items, modem, result, module
<1>14. CASE RescanFails
  BY <1>14, <1>t DEF RescanFails, TypeOK, Items, modem, task, module
<1>15. ASSUME NEW s \in Sms, RescanOne(s) PROVE TypeOK'
  BY <1>15 DEF RescanOne, HandOver, TypeOK, modem, module
<1>16. CASE RescanEnds
  BY <1>16 DEF RescanEnds, Done, TypeOK, modem, result, module
<1>17. CASE Reload
  <2>1. reloads' \in 0 .. MaxReloads
    BY <1>17 DEF Reload, TypeOK
  <2> QED
    BY <1>17, <2>1, <1>r DEF Reload, Attach, TypeOK, Items, modem, task
<1>a. ASSUME Attach
      PROVE  queue' \in Seq(Items) /\ attached' \in BOOLEAN /\ unlisted' \in BOOLEAN
  BY <1>a, <1>q, <1>r DEF Attach
<1>18. CASE Unplug
  BY <1>18 DEF Unplug, TypeOK, task, result, module
<1>19. CASE Replug
  <2>1. epoch' \in 0 .. MaxReplugs
    BY <1>19 DEF Replug, TypeOK
  <2> QED
    BY <1>19, <2>1, <1>r DEF Replug, Attach, TypeOK, Items, task, module
<1>20. CASE Load
  BY <1>20, <1>r DEF Load, Attach, TypeOK, Items, modem, task
<1>21. CASE MmsInit
  BY <1>21 DEF MmsInit, TypeOK, modem, task, result
<1>22. CASE MmsShutdown
  <2>1. restarts' \in 0 .. MaxRestarts
    BY <1>22 DEF MmsShutdown, TypeOK
  <2> QED
    BY <1>22, <2>1 DEF MmsShutdown, TypeOK, modem, task, result
<1>23. CASE DetachAll
  BY <1>23 DEF DetachAll, TypeOK, modem, task, result
<1>24. CASE BusStop \/ Crash
  <2>1. queue' \in Seq(Tasks \cup {Rescan})
    BY <1>24, EmptySeq DEF BusStop, Crash, Gone
  <2>2. restarts' \in 0 .. MaxRestarts
    BY <1>24 DEF BusStop, Crash, TypeOK
  <2> QED
    <3>1. /\ UNCHANGED <<mm, plugged, epoch, seen, delivered, unqueued, unlisted, reloads>>
          /\ handed' = {}
      BY <1>24 DEF BusStop, Crash, Gone
    <3>2. /\ life' = "down" /\ mmsUp' = FALSE /\ attached' = FALSE /\ signals' = {}
          /\ timers' = {} /\ IsFiniteSet(timers')
          /\ stage' = "idle" /\ running' = NoTask /\ todo' = {}
      BY <1>24, FS_EmptySet DEF BusStop, Crash, Gone
    <3>3. /\ mm' \in [Sms -> {"absent", "receiving", "received", "deleted"}]
          /\ signals' \subseteq Sms /\ plugged' \in BOOLEAN /\ epoch' \in 0 .. MaxReplugs
          /\ attached' \in BOOLEAN /\ (~ plugged' => epoch' < MaxReplugs)
      BY <3>1, <3>2 DEF TypeOK
    <3>4. /\ stage' \in {"idle", "act", "delete", "scan"}
          /\ running' \in Tasks \cup {NoTask}
          /\ (running' /= NoTask <=> stage' \in {"act", "delete"})
      BY <3>2
    <3>5. /\ seen' \in {"absent", "receiving", "received"} /\ todo' \subseteq Sms
          /\ timers' \subseteq Tasks /\ IsFiniteSet(timers') /\ unqueued' \subseteq Text
          /\ delivered' \in [Sms -> Nat] /\ handed' \subseteq Sms \ Text
      BY <3>1, <3>2 DEF TypeOK
    <3>6. /\ unlisted' \in BOOLEAN /\ mmsUp' \in BOOLEAN /\ reloads' \in 0 .. MaxReloads
          /\ life' \in {"down", "resolved", "up", "stopping", "detached"}
      BY <3>1, <3>2 DEF TypeOK
    <3>7. refs' \in Int /\ leaked' \in Nat
      <4>1. CASE BusStop
        <5>1. Cardinality(Waiting) \in Nat /\ Cardinality(timers) \in Nat
          <6>1. IsFiniteSet(1 .. Len(queue)) /\ Waiting \in SUBSET (1 .. Len(queue))
            BY <1>q, LenProperties, FS_Interval DEF Waiting
          <6>2. IsFiniteSet(Waiting) /\ IsFiniteSet(timers)
            BY <6>1, FS_Subset DEF TypeOK
          <6> QED
            BY <6>2, FS_CardinalityType
        <5> QED
          BY <4>1, <5>1 DEF BusStop, TypeOK
      <4>2. CASE Crash
        BY <4>2 DEF Crash
      <4> QED
        BY <1>24, <4>1, <4>2
    <3> QED
      BY <2>1, <2>2, <3>3, <3>4, <3>5, <3>6, <3>7 DEF TypeOK
<1>25. CASE UNCHANGED vars
  BY <1>25 DEF vars, modem, task, result, module, TypeOK
<1> QED
  BY <1>1, <1>2, <1>3, <1>4, <1>5, <1>6, <1>7, <1>8, <1>9, <1>10, <1>11, <1>12, <1>13,
     <1>14, <1>15, <1>16, <1>17, <1>18, <1>19, <1>20, <1>21, <1>22, <1>23, <1>24, <1>25
     DEF Next, TaskNext

\* Type correctness of the message intake.
THEOREM TypeCorrect == Spec => []TypeOK
<1>1. Init => TypeOK
  BY TypeInit
<1>2. TypeOK /\ [Next]_vars => TypeOK'
  BY TypeInductive
<1> QED
  BY <1>1, <1>2, PTL DEF Spec

-----------------------------------------------------------------------------
(* No text leaves the modem that was not passed on *)

Passed(s) == delivered[s] > 0 \/ s \in unqueued

\* A text that is about to be deleted has been passed to ast_msg_queue.
DeletesPassed == stage = "delete" => running.sms \in Text /\ Passed(running.sms)

\* deliver_text_sms leaves a text that was not passed on on the modem.
THEOREM TextsKept == Spec => []TextKept
<1> USE SmsAssumption
<1> DEFINE Inv == TypeOK /\ TextKept /\ DeletesPassed
<1>1. Init => Inv
  <2>1. Init => TextKept /\ DeletesPassed
    BY DEF Init, TextKept, DeletesPassed, Passed
  <2> QED
    BY <2>1, TypeInit
<1>2. Inv /\ [Next]_vars => Inv'
  <2> SUFFICES ASSUME Inv, [Next]_vars PROVE TextKept' /\ DeletesPassed'
    BY TypeInductive
  <2> USE DEF TextKept, DeletesPassed, Passed, TypeOK
  <2>1. CASE DeleteText
    BY <2>1 DEF DeleteText, Done, result
  <2>2. CASE DeliverText
    <3>1. stage = "act" /\ running.sms \in Text /\ running.sms \in Sms
      BY <2>2 DEF DeliverText
    <3>2. UNCHANGED mm /\ (stage' = "delete" => UNCHANGED running)
      BY <2>2 DEF DeliverText, Done, modem
    <3>3. /\ \A s \in Text : delivered'[s] >= delivered[s]
          /\ unqueued \subseteq unqueued'
          /\ stage' = "delete" => delivered'[running.sms] > 0 \/ running.sms \in unqueued'
      BY <2>2, <3>1 DEF DeliverText, Done
    <3>4. delivered' \in [Sms -> Nat]
      BY TypeInductive
    <3>5. TextKept'
      BY <3>2, <3>3, <3>4
    <3> QED
      BY <3>1, <3>2, <3>3, <3>5
  <2>3. ASSUME NEW s \in Sms, Arrives(s) \/ Completes(s) \/ NoticeDeleted(s)
        PROVE  TextKept' /\ DeletesPassed'
    <3>1. UNCHANGED <<stage, running, delivered, unqueued>>
      BY <2>3 DEF Arrives, Completes, NoticeDeleted, task, result
    <3>2. \A r \in Text : mm'[r] = "deleted" => mm[r] = "deleted"
      BY <2>3 DEF Arrives, Completes, NoticeDeleted
    <3> QED
      BY <3>1, <3>2
  <2>4. CASE Listed
    BY <2>4 DEF Listed, modem, result
  <2>5. ASSUME UNCHANGED <<mm, delivered, unqueued>>,
               stage' /= "delete" \/ UNCHANGED <<stage, running>>
        PROVE  TextKept' /\ DeletesPassed'
    BY <2>5
  <2>6. ASSUME NEW s \in Sms, LoopAdded(s) \/ RescanOne(s)
        PROVE  TextKept' /\ DeletesPassed'
    BY <2>5, <2>6 DEF LoopAdded, RescanOne, task, result, modem
  <2>7. ASSUME NEW t \in timers, Timer(t) PROVE TextKept' /\ DeletesPassed'
    BY <2>5, <2>7 DEF Timer, task, result, modem
  <2>8. CASE NotListed \/ Recheck \/ GiveUp \/ HandNotice
    BY <2>5, <2>8 DEF NotListed, Recheck, GiveUp, HandNotice, Done, task, result, modem
  <2>9. CASE RescanBegins \/ RescanFails \/ RescanEnds
    BY <2>5, <2>9 DEF RescanBegins, RescanFails, RescanEnds, Done, task, result, modem
  <2>10. CASE Reload \/ Unplug \/ Replug \/ Load \/ MmsInit \/ MmsShutdown \/ DetachAll
    BY <2>5, <2>10
       DEF Reload, Unplug, Replug, Load, MmsInit, MmsShutdown, DetachAll, task, result, modem
  <2>11. CASE BusStop \/ Crash
    BY <2>5, <2>11 DEF BusStop, Crash, Gone
  <2>12. CASE UNCHANGED vars
    BY <2>5, <2>12 DEF vars, modem, task, result
  <2> QED
    BY <2>1, <2>2, <2>3, <2>4, <2>6, <2>7, <2>8, <2>9, <2>10, <2>11, <2>12
       DEF Next, TaskNext
<1> QED
  BY <1>1, <1>2, PTL DEF Spec

-----------------------------------------------------------------------------
(* No text is delivered twice *)

For(t, s)    == t \in Tasks /\ t.sms = s
Has(q, s)    == \E i \in 1 .. Len(q) : For(q[i], s)
Single(q, s) == \A i, j \in 1 .. Len(q) : For(q[i], s) /\ For(q[j], s) => i = j
Timed(s)     == \E t \in timers : t.sms = s
Runs(s)      == For(running, s)

\* At any time a message is in one place at most: announced, queued, running or
\* with a timer; and in none before it came.
OnePlace(s) ==
  /\ Single(queue, s)
  /\ \A t, u \in timers : t.sms = s /\ u.sms = s => t = u
  /\ Has(queue, s) => ~ Timed(s) /\ ~ Runs(s)
  /\ Timed(s) => ~ Runs(s)
  /\ s \in signals => ~ Has(queue, s) /\ ~ Timed(s) /\ ~ Runs(s)
  /\ mm[s] = "absent" =>
       s \notin signals /\ ~ Has(queue, s) /\ ~ Timed(s) /\ ~ Runs(s) /\ delivered[s] = 0

\* While it is on its way it has not been delivered.
Undelivered(s) ==
  s \in signals \/ Has(queue, s) \/ Timed(s) \/ (Runs(s) /\ stage = "act")
    => delivered[s] = 0

Once(s) == OnePlace(s) /\ Undelivered(s) /\ delivered[s] <= 1

\* What pushing a task does to the places of a message.
LEMMA Pushed ==
  ASSUME NEW q \in Seq(Items), NEW t \in Items, NEW s
  PROVE  /\ Has(Append(q, t), s) <=> Has(q, s) \/ For(t, s)
         /\ Single(q, s) /\ ~ (Has(q, s) /\ For(t, s)) => Single(Append(q, t), s)
<1> DEFINE p == Append(q, t)
<1>1. /\ Len(q) \in Nat /\ Len(p) = Len(q) + 1
      /\ \A i \in 1 .. Len(q) : p[i] = q[i]
      /\ p[Len(q) + 1] = t
  BY Queued, LenProperties
<1> HIDE DEF p
<1>2. Has(p, s) <=> Has(q, s) \/ For(t, s)
  <2>1. \A i : i \in 1 .. Len(p) <=> i \in 1 .. Len(q) \/ i = Len(q) + 1
    BY <1>1
  <2> QED
    BY <1>1, <2>1 DEF Has
<1>3. ASSUME Single(q, s), ~ (Has(q, s) /\ For(t, s)) PROVE Single(p, s)
  <2> SUFFICES ASSUME NEW i \in 1 .. Len(p), NEW j \in 1 .. Len(p), For(p[i], s), For(p[j], s)
               PROVE  i = j
    BY DEF Single
  <2>1. CASE i \in 1 .. Len(q) /\ j \in 1 .. Len(q)
    BY <1>1, <1>3, <2>1 DEF Single
  <2>2. CASE i = Len(q) + 1 /\ j = Len(q) + 1
    BY <2>2
  <2>3. CASE i \in 1 .. Len(q) /\ j = Len(q) + 1
    BY <1>1, <1>3, <2>3 DEF Has
  <2>4. CASE i = Len(q) + 1 /\ j \in 1 .. Len(q)
    BY <1>1, <1>3, <2>4 DEF Has
  <2> QED
    BY <1>1, <2>1, <2>2, <2>3, <2>4
<1> QED
  BY <1>2, <1>3 DEF p

\* What taking the task at the head does to them.
LEMMA Popped ==
  ASSUME NEW q \in Seq(Items), q /= <<>>, NEW s
  PROVE  /\ Has(Tail(q), s) => Has(q, s)
         /\ For(Head(q), s) => Has(q, s)
         /\ Single(q, s) => Single(Tail(q), s)
         /\ Single(q, s) /\ For(Head(q), s) => ~ Has(Tail(q), s)
<1> DEFINE p == Tail(q)
<1>1. /\ Len(q) \in Nat /\ Len(q) >= 1 /\ Len(p) = Len(q) - 1 /\ Head(q) = q[1]
      /\ \A i \in 1 .. Len(p) : p[i] = q[i + 1]
  BY Dequeued, LenProperties
<1> HIDE DEF p
<1>2. \A i \in 1 .. Len(p) : i + 1 \in 1 .. Len(q) /\ i + 1 /= 1 /\ p[i] = q[i + 1]
  BY <1>1
<1>3. Has(p, s) => Has(q, s)
  BY <1>2 DEF Has
<1>4. For(Head(q), s) => Has(q, s)
  BY <1>1 DEF Has
<1>5. ASSUME Single(q, s) PROVE Single(p, s)
  <2> SUFFICES ASSUME NEW i \in 1 .. Len(p), NEW j \in 1 .. Len(p), For(p[i], s), For(p[j], s)
               PROVE  i = j
    BY DEF Single
  <2>1. i + 1 = j + 1
    BY <1>2, <1>5 DEF Single
  <2> QED
    BY <2>1, <1>1
<1>6. ASSUME Single(q, s), For(Head(q), s) PROVE ~ Has(p, s)
  <2> SUFFICES ASSUME NEW i \in 1 .. Len(p), For(p[i], s) PROVE FALSE
    BY DEF Has
  <2>1. i + 1 = 1
    BY <1>1, <1>2, <1>6 DEF Single
  <2> QED
    BY <2>1, <1>2
<1> QED
  BY <1>3, <1>4, <1>5, <1>6 DEF p

\* A step that puts a message nowhere new and delivers nothing.
LEMMA NowhereNew ==
  ASSUME TypeOK, NEW s \in Sms, Once(s),
         Has(queue', s) => Has(queue, s), Single(queue', s),
         timers' \subseteq timers, signals' \subseteq signals,
         Runs(s)' => Runs(s) /\ (stage' = "act" => stage = "act"),
         mm'[s] = "absent" => mm[s] = "absent", delivered'[s] = delivered[s]
  PROVE  Once(s)'
BY DEF Once, OnePlace, Undelivered, Timed

\* Every action leaves every message in one place, delivered once at most.
LEMMA OnceStep ==
  ASSUME TypeOK, NEW s \in Sms, Once(s), [Next]_vars PROVE Once(s)'
<1> USE SmsAssumption, Kinds
<1>q. queue \in Seq(Items) /\ Rescan \in Items /\ Tasks \subseteq Items
  BY DEF TypeOK, Items
<1>r. /\ Has(Append(queue, Rescan), s) => Has(queue, s)
      /\ Single(Append(queue, Rescan), s)
  BY <1>q, Pushed DEF For, Once, OnePlace
<1>t. ASSUME queue /= <<>>
      PROVE  /\ Has(Tail(queue), s) => Has(queue, s)
             /\ Single(Tail(queue), s)
             /\ For(Head(queue), s) => Has(queue, s) /\ ~ Has(Tail(queue), s)
  BY <1>q, <1>t, Popped DEF Once, OnePlace
<1>h. queue /= <<>> /\ Next1.op = "added" => Next1 \in Tasks
  BY <1>q, Dequeued DEF Next1, Items
<1>u. Single(queue, s)
  BY DEF Once, OnePlace
<1>1. ASSUME NEW r \in Sms, Arrives(r) PROVE Once(s)'
  <2>1. UNCHANGED <<queue, stage, running, timers, delivered>>
    BY <1>1 DEF Arrives, task, result
  <2>2. CASE s = r
    <3>1. mm[s] = "absent" /\ mm'[s] /= "absent" /\ mm' \in [Sms -> {"absent", "receiving", "received", "deleted"}]
      BY <1>1, <2>2 DEF Arrives, TypeOK
    <3> QED
      BY <2>1, <3>1 DEF Once, OnePlace, Undelivered, Timed, Runs
  <2>3. CASE s /= r
    <3>1. mm'[s] = mm[s] /\ (s \in signals' => s \in signals)
      BY <1>1, <2>3 DEF Arrives, TypeOK
    <3> QED
      BY <2>1, <3>1 DEF Once, OnePlace, Undelivered, Timed, Runs
  <2> QED
    BY <2>2, <2>3
<1>2. ASSUME NEW r \in Sms, Completes(r) \/ NoticeDeleted(r) PROVE Once(s)'
  <2>1. UNCHANGED <<signals, queue, stage, running, timers, delivered>>
    BY <1>2 DEF Completes, NoticeDeleted, task, result
  <2>2. mm'[s] = "absent" => mm[s] = "absent"
    BY <1>2 DEF Completes, NoticeDeleted, TypeOK
  <2> QED
    BY <2>1, <2>2, <1>u, NowhereNew DEF Runs
<1>3. ASSUME NEW r \in Sms, LoopAdded(r) PROVE Once(s)'
  <2>1. UNCHANGED <<mm, stage, running, timers, delivered>> /\ signals' = signals \ {r} /\ r \in signals
    BY <1>3 DEF LoopAdded, task, result
  <2>2. CASE UNCHANGED queue
    BY <2>1, <2>2, <1>u, NowhereNew DEF Runs
  <2>3. CASE queue' = Append(queue, Added(r, 0))
    <3>1. /\ Added(r, 0) \in Items /\ (For(Added(r, 0), s) <=> s = r)
      BY <1>q, AddedTask DEF For
    <3>2. CASE s = r
      <4>1. ~ Has(queue, s) /\ ~ Timed(s) /\ ~ Runs(s) /\ delivered[s] = 0 /\ mm[s] /= "absent"
        BY <2>1, <3>2 DEF Once, OnePlace, Undelivered
      <4>2. Single(queue', s)
        BY <4>1, <2>3, <3>1, <1>q, <1>u, Pushed
      <4>3. s \notin signals' /\ ~ Timed(s)' /\ ~ Runs(s)'
        BY <4>1, <2>1, <3>2 DEF Timed, Runs
      <4> QED
        BY <2>1, <4>1, <4>2, <4>3 DEF Once, OnePlace, Undelivered
    <3>3. CASE s /= r
      <4>1. (Has(queue', s) => Has(queue, s)) /\ Single(queue', s)
        BY <2>3, <3>1, <3>3, <1>q, <1>u, Pushed
      <4> QED
        BY <2>1, <4>1, NowhereNew DEF Runs
    <3> QED
      BY <3>2, <3>3
  <2> QED
    BY <1>3, <2>2, <2>3 DEF LoopAdded
<1>4. ASSUME NEW t \in timers, Timer(t) PROVE Once(s)'
  <2>1. UNCHANGED <<mm, signals, stage, running, delivered>> /\ timers' = timers \ {t}
    BY <1>4 DEF Timer, modem, task, result
  <2>2. CASE UNCHANGED queue
    BY <2>1, <2>2, <1>u, NowhereNew DEF Runs
  <2>3. CASE queue' = Append(queue, t)
    <3>1. t \in Items /\ (For(t, s) <=> t.sms = s)
      BY <1>q DEF For, TypeOK
    <3>2. CASE t.sms = s
      <4>1. ~ Has(queue, s) /\ Timed(s) /\ ~ Runs(s) /\ s \notin signals
            /\ delivered[s] = 0 /\ mm[s] /= "absent"
        BY <3>2 DEF Once, OnePlace, Undelivered, Timed
      <4>2. Single(queue', s)
        BY <4>1, <2>3, <3>1, <1>q, <1>u, Pushed
      <4>3. ~ Timed(s)' /\ ~ Runs(s)'
        BY <4>1, <2>1, <3>2 DEF Timed, Runs, Once, OnePlace
      <4> QED
        BY <2>1, <4>1, <4>2, <4>3 DEF Once, OnePlace, Undelivered
    <3>3. CASE t.sms /= s
      <4>1. (Has(queue', s) => Has(queue, s)) /\ Single(queue', s)
        BY <2>3, <3>1, <3>3, <1>q, <1>u, Pushed
      <4> QED
        BY <2>1, <4>1, NowhereNew DEF Runs
    <3> QED
      BY <3>2, <3>3
  <2> QED
    BY <1>4, <2>2, <2>3 DEF Timer
<1>5. CASE Listed
  <2>1. /\ UNCHANGED <<mm, signals, timers, delivered>> /\ queue /= <<>> /\ Next1 \in Tasks
        /\ queue' = Tail(queue) /\ running' = Next1 /\ stage' = "act"
        /\ stage = "idle"
    BY <1>5, <1>h DEF Listed, modem, result
  <2>2. CASE For(Next1, s)
    <3>1. Has(queue, s) /\ ~ Has(queue', s) /\ Single(queue', s)
      BY <2>1, <2>2, <1>t DEF Next1
    <3>2. ~ Timed(s)' /\ s \notin signals' /\ delivered'[s] = 0 /\ mm'[s] /= "absent"
      BY <2>1, <3>1 DEF Once, OnePlace, Undelivered, Timed
    <3>3. \A t, u \in timers' : t.sms = s /\ u.sms = s => t = u
      BY <2>1 DEF Once, OnePlace
    <3> QED
      BY <3>1, <3>2, <3>3 DEF Once, OnePlace, Undelivered
  <2>3. CASE ~ For(Next1, s)
    <3>1. ~ Runs(s)'
      BY <2>1, <2>3 DEF Runs
    <3>2. (Has(queue', s) => Has(queue, s)) /\ Single(queue', s)
      BY <2>1, <1>t
    <3> QED
      BY <2>1, <3>1, <3>2, NowhereNew
  <2> QED
    BY <2>2, <2>3
<1>6. CASE NotListed \/ RescanFails
  <2>1. /\ UNCHANGED <<mm, signals, timers, stage, running, delivered>>
        /\ queue /= <<>> /\ queue' = Tail(queue)
    BY <1>6 DEF NotListed, RescanFails, modem, task, result
  <2> QED
    BY <2>1, <1>t, NowhereNew DEF Runs
<1>7. CASE Recheck
  <2> DEFINE again == [running EXCEPT !.n = @ + 1]
  <2>1. /\ UNCHANGED <<mm, signals, queue, delivered>> /\ stage = "act"
        /\ running \in Tasks /\ timers' = timers \cup {again} /\ running' = NoTask
    BY <1>7 DEF Recheck, Done, modem, result, TypeOK
  <2>2. again \in Tasks /\ again.sms = running.sms
    BY <1>7, <2>1, RecheckedTask DEF Recheck
  <2>3. ~ Runs(s)'
    BY <2>1 DEF Runs, For
  <2> HIDE DEF again
  <2>4. CASE running.sms = s
    <3>1. Runs(s) /\ ~ Has(queue, s) /\ ~ Timed(s) /\ s \notin signals /\ delivered[s] = 0
          /\ mm[s] /= "absent"
      BY <2>1, <2>4 DEF Runs, For, Once, OnePlace, Undelivered
    <3>2. \A t, u \in timers' : t.sms = s /\ u.sms = s => t = u
      BY <2>1, <3>1 DEF Timed
    <3> QED
      BY <2>1, <2>3, <3>1, <3>2, <1>u DEF Once, OnePlace, Undelivered
  <2>5. CASE running.sms /= s
    <3>1. Timed(s)' => Timed(s)
      BY <2>1, <2>2, <2>5 DEF Timed
    <3>2. \A t, u \in timers' : t.sms = s /\ u.sms = s => t = u
      BY <2>1, <2>2, <2>5 DEF Once, OnePlace
    <3> QED
      BY <2>1, <2>3, <3>1, <3>2, <1>u DEF Once, OnePlace, Undelivered
  <2> QED
    BY <2>4, <2>5
<1>8. CASE GiveUp \/ HandNotice \/ DeleteText \/ RescanEnds
  <2>1. /\ UNCHANGED <<signals, queue, timers, delivered>> /\ running' = NoTask
    BY <1>8 DEF GiveUp, HandNotice, DeleteText, RescanEnds, Done, modem, result
  <2>2. mm'[s] = "absent" => mm[s] = "absent"
    BY <1>8 DEF GiveUp, HandNotice, DeleteText, RescanEnds, modem, TypeOK
  <2>3. ~ Runs(s)'
    BY <2>1 DEF Runs, For
  <2> QED
    BY <2>1, <2>2, <2>3, <1>u, NowhereNew
<1>9. CASE DeliverText
  <2>1. /\ UNCHANGED <<mm, signals, queue, timers>> /\ stage = "act" /\ running \in Tasks
    BY <1>9 DEF DeliverText, modem, TypeOK
  <2>2. CASE delivered' = [delivered EXCEPT ![running.sms] = @ + 1] /\ stage' = "delete"
             /\ UNCHANGED running
    <3>1. CASE running.sms = s
      <4>1. Runs(s) /\ ~ Has(queue, s) /\ ~ Timed(s) /\ s \notin signals /\ delivered[s] = 0
            /\ mm[s] /= "absent"
        BY <2>1, <3>1 DEF Runs, For, Once, OnePlace, Undelivered
      <4>2. delivered'[s] = 1
        BY <2>2, <3>1, <4>1 DEF TypeOK
      <4>3. Runs(s)' /\ ~ Timed(s)'
        BY <2>1, <2>2, <4>1 DEF Runs, Timed
      <4>4. OnePlace(s)'
        BY <2>1, <4>1, <4>3 DEF Once, OnePlace
      <4>5. Undelivered(s)'
        BY <2>1, <2>2, <4>1, <4>3 DEF Undelivered
      <4> QED
        BY <4>2, <4>4, <4>5 DEF Once
    <3>2. CASE running.sms /= s
      <4>1. delivered'[s] = delivered[s]
        BY <2>2, <3>2 DEF TypeOK
      <4> QED
        BY <2>1, <2>2, <4>1, <1>u, NowhereNew DEF Runs
    <3> QED
      BY <3>1, <3>2
  <2>3. CASE UNCHANGED delivered /\ running' = NoTask
    <3>1. ~ Runs(s)'
      BY <2>3 DEF Runs, For
    <3> QED
      BY <2>1, <2>3, <3>1, <1>u, NowhereNew
  <2>4. CASE UNCHANGED <<delivered, running>> /\ stage' = "delete"
    BY <2>1, <2>4, <1>u, NowhereNew DEF Runs
  <2> QED
    BY <1>9, <2>2, <2>3, <2>4 DEF DeliverText, Done
<1>10. CASE RescanBegins
  <2>1. /\ UNCHANGED <<mm, signals, timers, running, delivered>>
        /\ queue /= <<>> /\ queue' = Tail(queue) /\ stage' \in {stage, "scan"}
    BY <1>10 DEF RescanBegins, modem, result
  <2> QED
    BY <2>1, <1>t, NowhereNew DEF Runs
<1>11. ASSUME NEW r \in Sms, RescanOne(r) PROVE Once(s)'
  <2>1. UNCHANGED <<mm, signals, timers, queue, stage, running, delivered>>
    BY <1>11 DEF RescanOne, modem
  <2> QED
    BY <2>1, <1>u, NowhereNew DEF Runs
<1>12. CASE Reload \/ Replug \/ Load \/ Unplug \/ MmsInit \/ MmsShutdown \/ DetachAll
  <2>1. /\ UNCHANGED <<mm, timers, stage, running, delivered>> /\ signals' \subseteq signals
    BY <1>12 DEF Reload, Replug, Load, Unplug, MmsInit, MmsShutdown, DetachAll, modem, task, result
  <2>2. queue' \in {queue, Append(queue, Rescan)}
    BY <1>12 DEF Reload, Replug, Load, Unplug, MmsInit, MmsShutdown, DetachAll, Attach
  <2>3. (Has(queue', s) => Has(queue, s)) /\ Single(queue', s)
    BY <2>2, <1>r, <1>u
  <2> QED
    BY <2>1, <2>3, NowhereNew DEF Runs
<1>13. CASE BusStop \/ Crash
  <2>1. /\ UNCHANGED <<mm, delivered>> /\ signals' = {} /\ timers' = {}
        /\ queue' = <<>> /\ running' = NoTask
    BY <1>13 DEF BusStop, Crash, Gone
  <2>2. ~ Has(queue', s) /\ Single(queue', s)
    <3>1. Len(<<>>) = 0
      BY EmptySeq
    <3>2. 1 .. 0 = {}
      OBVIOUS
    <3> QED
      BY <2>1, <3>1, <3>2 DEF Has, Single
  <2>3. ~ Runs(s)'
    BY <2>1 DEF Runs, For
  <2> QED
    BY <2>1, <2>2, <2>3, NowhereNew
<1>14. CASE UNCHANGED vars
  BY <1>14, <1>u, NowhereNew DEF vars, modem, task, result, Runs
<1> QED
  BY <1>1, <1>2, <1>3, <1>4, <1>5, <1>6, <1>7, <1>8, <1>9, <1>10, <1>11, <1>12, <1>13, <1>14
     DEF Next, TaskNext

\* Before a message came it is nowhere.
LEMMA OnceInit == ASSUME Init PROVE \A s \in Sms : Once(s)
<1> SUFFICES ASSUME NEW s \in Sms PROVE Once(s)
  OBVIOUS
<1>1. Len(<<>>) = 0 /\ 1 .. 0 = {}
  BY EmptySeq
<1>2. ~ Has(queue, s) /\ Single(queue, s)
  BY <1>1 DEF Init, Has, Single
<1>3. ~ Runs(s)
  BY Kinds DEF Init, Runs, For
<1> QED
  BY <1>2, <1>3 DEF Init, Once, OnePlace, Undelivered, Timed

\* sms.h: a rescan that delivered texts again "would duplicate them".  However
\* often deletions fail and modems are scanned, a text is delivered once at most.
THEOREM TextsOnce == Spec => []TextOnce
<1> DEFINE Inv == TypeOK /\ \A s \in Sms : Once(s)
<1>1. Init => Inv
  BY TypeInit, OnceInit
<1>2. Inv /\ [Next]_vars => Inv'
  BY TypeInductive, OnceStep
<1>3. Inv => TextOnce
  BY SmsAssumption DEF Once, TextOnce
<1> QED
  BY <1>1, <1>2, <1>3, PTL DEF Spec

\* Whatever fails, restarts or is scanned again, no text is deleted that was not
\* passed to ast_msg_queue, and none is repeated.
THEOREM TextsAreSafe == Spec => []TextsSafe
<1>1. TextKept /\ TextOnce => TextsSafe
  BY DEF TextsSafe
<1> QED
  BY <1>1, TextsKept, TextsOnce, PTL

-----------------------------------------------------------------------------
(* No task is lost, none is freed twice *)

\* The places of the queue that hold the task of a message.
Slots(q) == {i \in 1 .. Len(q) : q[i].op = "added"}

InHand == IF running = NoTask THEN 0 ELSE 1

\* The tasks of a queue can be counted.
LEMMA SlotsFinite ==
  ASSUME NEW q \in Seq(Items)
  PROVE  IsFiniteSet(Slots(q)) /\ Cardinality(Slots(q)) \in Nat
<1>1. IsFiniteSet(1 .. Len(q))
  BY LenProperties, FS_Interval
<1>2. Slots(q) \in SUBSET (1 .. Len(q))
  BY DEF Slots
<1> QED
  BY <1>1, <1>2, FS_Subset, FS_CardinalityType

\* A task that is pushed is one more, a rescan is none.
LEMMA SlotsPushed ==
  ASSUME NEW q \in Seq(Items), NEW t \in Items
  PROVE  /\ t = Rescan => Slots(Append(q, t)) = Slots(q)
         /\ t \in Tasks => Cardinality(Slots(Append(q, t))) = Cardinality(Slots(q)) + 1
<1> DEFINE p == Append(q, t)
           n == Len(q) + 1
<1>1. /\ Len(q) \in Nat /\ Len(p) = n
      /\ \A i \in 1 .. Len(q) : p[i] = q[i]
      /\ p[n] = t
  BY Queued, LenProperties
<1>2. \A i : i \in 1 .. n <=> i \in 1 .. Len(q) \/ i = n
  BY <1>1
<1>3. n \notin Slots(q)
  BY <1>1 DEF Slots
<1> HIDE DEF p, n
<1>4. ASSUME t = Rescan PROVE Slots(p) = Slots(q)
  <2>1. p[n].op /= "added"
    BY <1>1, <1>4, Kinds
  <2> QED
    BY <1>1, <1>2, <2>1 DEF Slots
<1>5. ASSUME t \in Tasks PROVE Cardinality(Slots(p)) = Cardinality(Slots(q)) + 1
  <2>1. p[n].op = "added"
    BY <1>1, <1>5, Kinds
  <2>2. Slots(p) = Slots(q) \cup {n}
    BY <1>1, <1>2, <2>1 DEF Slots
  <2> QED
    BY <1>3, <2>2, SlotsFinite, FS_AddElement, Zenon
<1> QED
  BY <1>4, <1>5 DEF p

\* A task that is taken is one less.
LEMMA SlotsPopped ==
  ASSUME NEW q \in Seq(Items), q /= <<>>
  PROVE  Cardinality(Slots(q))
           = Cardinality(Slots(Tail(q))) + (IF Head(q).op = "added" THEN 1 ELSE 0)
<1> DEFINE p    == Tail(q)
           S    == Slots(p)
           T    == Slots(q) \ {1}
           f    == [i \in S |-> i + 1]
<1>1. /\ Len(q) \in Nat /\ Len(q) >= 1 /\ p \in Seq(Items) /\ Len(p) = Len(q) - 1
      /\ Head(q) = q[1] /\ \A i \in 1 .. Len(p) : p[i] = q[i + 1]
  BY Dequeued, LenProperties
<1>2. IsFiniteSet(S) /\ Cardinality(S) \in Nat /\ IsFiniteSet(Slots(q))
      /\ Cardinality(Slots(q)) \in Nat
  BY <1>1, SlotsFinite
<1> HIDE DEF p
<1>3. \A i \in S : i \in Nat /\ i + 1 \in T
  BY <1>1 DEF Slots
<1>4. \A j \in T : j - 1 \in S /\ (j - 1) + 1 = j
  BY <1>1 DEF Slots
<1>5. f \in Bijection(S, T)
  <2>1. f \in [S -> T] /\ \A i, j \in S : f[i] = f[j] => i = j
    BY <1>3
  <2>2. \A j \in T : \E i \in S : f[i] = j
    BY <1>4
  <2> HIDE DEF f, S, T
  <2> QED
    BY <2>1, <2>2 DEF Bijection, Injection, Surjection, IsInjective
<1> HIDE DEF S, T, f
<1>6. Cardinality(T) = Cardinality(S)
  BY <1>2, <1>5, FS_Bijection DEF ExistsBijection
<1>7. Cardinality(Slots(q)) = Cardinality(T) + (IF 1 \in Slots(q) THEN 1 ELSE 0)
  <2>1. Cardinality(T) = IF 1 \in Slots(q) THEN Cardinality(Slots(q)) - 1
                                           ELSE Cardinality(Slots(q))
    BY <1>2, FS_RemoveElement, Zenon DEF T
  <2> QED
    BY <1>2, <2>1
<1>8. 1 \in Slots(q) <=> Head(q).op = "added"
  BY <1>1 DEF Slots
<1> QED
  BY <1>6, <1>7, <1>8 DEF S, p

\* What the steps keep: the sum, and that the timers can be counted.
Accounted == RefsAccounted /\ IsFiniteSet(timers)

\* The tasks with a timer, with one more and with one less.
LEMMA TimersCount ==
  ASSUME IsFiniteSet(timers), NEW t
  PROVE  /\ Cardinality(timers) \in Nat
         /\ IsFiniteSet(timers \cup {t}) /\ IsFiniteSet(timers \ {t})
         /\ t \notin timers => Cardinality(timers \cup {t}) = Cardinality(timers) + 1
         /\ t \in timers => Cardinality(timers \ {t}) = Cardinality(timers) - 1
<1>1. /\ Cardinality(timers) \in Nat
      /\ IsFiniteSet(timers \cup {t}) /\ IsFiniteSet(timers \ {t})
  BY FS_CardinalityType, FS_AddElement, FS_RemoveElement, Zenon
<1>2. t \notin timers => Cardinality(timers \cup {t}) = Cardinality(timers) + 1
  BY FS_AddElement, Zenon
<1>3. t \in timers => Cardinality(timers \ {t}) = Cardinality(timers) - 1
  BY FS_RemoveElement, Zenon
<1> QED
  BY <1>1, <1>2, <1>3

LEMMA AccountedIs ==
  RefsAccounted <=> refs = Cardinality(Slots(queue)) + Cardinality(timers) + InHand + leaked
BY DEF RefsAccounted, Waiting, Slots, InHand

LEMMA AccountedNext ==
  RefsAccounted' <=> refs' = Cardinality(Slots(queue')) + Cardinality(timers')
                               + (IF running' = NoTask THEN 0 ELSE 1) + leaked'
BY DEF RefsAccounted, Waiting, Slots

\* A step that moves no task.
LEMMA AccountedStays ==
  ASSUME Accounted, Slots(queue') = Slots(queue), UNCHANGED <<timers, refs, running, leaked>>
  PROVE  Accounted'
BY AccountedIs, AccountedNext DEF Accounted, InHand

\* Every action keeps the account.
LEMMA AccountedStep ==
  ASSUME TypeOK, \A s \in Sms : Once(s), Accounted, [Next]_vars PROVE Accounted'
<1> USE Kinds
<1> DEFINE C == Cardinality(Slots(queue))
           W == Cardinality(timers)
<1>q. queue \in Seq(Items) /\ Rescan \in Items /\ Tasks \subseteq Items
      /\ running \in Tasks \cup {NoTask} /\ timers \subseteq Tasks
  BY DEF TypeOK, Items
<1>c. C \in Nat /\ W \in Nat /\ IsFiniteSet(timers) /\ refs \in Int
  BY <1>q, SlotsFinite, FS_CardinalityType DEF Accounted, TypeOK
<1>n. refs = C + W + InHand + leaked /\ leaked \in Nat
  BY AccountedIs DEF Accounted, TypeOK
<1>r. Slots(Append(queue, Rescan)) = Slots(queue)
  BY <1>q, SlotsPushed
<1>p. \A t \in Tasks : Cardinality(Slots(Append(queue, t))) = C + 1
  BY <1>q, SlotsPushed
<1>t. ASSUME queue /= <<>>
      PROVE  /\ Cardinality(Slots(Tail(queue))) \in Nat
             /\ C = Cardinality(Slots(Tail(queue))) + (IF Next1.op = "added" THEN 1 ELSE 0)
  BY <1>q, <1>t, SlotsPopped, SlotsFinite, Dequeued DEF Next1
<1>x. queue /= <<>> => Next1 \in Items
  BY <1>q, Dequeued DEF Next1
<1> HIDE DEF C, W
<1>1. ASSUME NEW r \in Sms, Arrives(r) \/ Completes(r) \/ NoticeDeleted(r) PROVE Accounted'
  BY <1>1, AccountedStays DEF Arrives, Completes, NoticeDeleted, task, module
<1>2. ASSUME NEW r \in Sms, LoopAdded(r) PROVE Accounted'
  <2>1. UNCHANGED <<timers, running, leaked>>
    BY <1>2 DEF LoopAdded, task, module
  <2>2. CASE UNCHANGED <<queue, refs>>
    BY <2>1, <2>2, AccountedStays
  <2>3. CASE queue' = Append(queue, Added(r, 0)) /\ refs' = refs + 1
    <3>1. Cardinality(Slots(queue')) = C + 1
      BY <2>3, <1>p, AddedTask
    <3> QED
      BY <2>1, <2>3, <3>1, <1>c, <1>n, AccountedNext DEF Accounted, InHand, W
  <2> QED
    BY <1>2, <2>2, <2>3 DEF LoopAdded
<1>3. ASSUME NEW t \in timers, Timer(t) PROVE Accounted'
  <2>1. UNCHANGED <<running, leaked>> /\ timers' = timers \ {t}
    BY <1>3 DEF Timer, task, module
  <2>2. IsFiniteSet(timers') /\ Cardinality(timers') = W - 1
    BY <2>1, <1>c, TimersCount DEF W
  <2>3. CASE queue' = Append(queue, t) /\ UNCHANGED refs
    <3>1. Cardinality(Slots(queue')) = C + 1
      BY <2>3, <1>p, <1>q
    <3> QED
      BY <2>1, <2>2, <2>3, <3>1, <1>c, <1>n, AccountedNext DEF Accounted, InHand
  <2>4. CASE refs' = refs - 1 /\ UNCHANGED queue
    BY <2>1, <2>2, <2>4, <1>c, <1>n, AccountedNext DEF Accounted, InHand, C
  <2> QED
    BY <1>3, <2>3, <2>4 DEF Timer
<1>4. CASE Listed
  <2>1. /\ queue /= <<>> /\ Next1.op = "added" /\ queue' = Tail(queue) /\ running' = Next1
        /\ stage = "idle" /\ UNCHANGED <<timers, refs, leaked>>
    BY <1>4 DEF Listed, module
  <2>2. running = NoTask /\ running' /= NoTask
    BY <2>1, <1>x DEF TypeOK, Items
  <2>3. C = Cardinality(Slots(queue')) + 1 /\ Cardinality(Slots(queue')) \in Nat
    BY <2>1, <1>t
  <2> QED
    BY <2>1, <2>2, <2>3, <1>c, <1>n, AccountedNext DEF Accounted, InHand, W
<1>5. CASE NotListed
  <2>1. /\ queue /= <<>> /\ Next1.op = "added" /\ queue' = Tail(queue)
        /\ refs' = refs - 1 /\ UNCHANGED <<timers, running, leaked>>
    BY <1>5 DEF NotListed, task, module
  <2>2. C = Cardinality(Slots(queue')) + 1 /\ Cardinality(Slots(queue')) \in Nat
    BY <2>1, <1>t
  <2> QED
    BY <2>1, <2>2, <1>c, <1>n, AccountedNext DEF Accounted, InHand, W
<1>6. CASE Recheck
  <2> DEFINE again == [running EXCEPT !.n = @ + 1]
  <2>1. /\ UNCHANGED <<queue, refs, leaked>> /\ stage = "act" /\ running' = NoTask
        /\ timers' = timers \cup {again}
    BY <1>6 DEF Recheck, Done, module
  <2>2. running \in Tasks /\ running /= NoTask
    BY <2>1 DEF TypeOK
  <2>3. again \in Tasks /\ again.sms = running.sms
    BY <1>6, <2>2, RecheckedTask DEF Recheck
  <2> HIDE DEF again
  <2>4. again \notin timers
    <3>1. Runs(running.sms) /\ running.sms \in Sms
      BY <2>2 DEF Runs, For
    <3>2. ~ Timed(running.sms)
      BY <3>1 DEF Once, OnePlace
    <3> QED
      BY <2>3, <3>2 DEF Timed
  <2>5. IsFiniteSet(timers') /\ Cardinality(timers') = W + 1
    BY <2>1, <2>4, <1>c, TimersCount DEF W
  <2> QED
    BY <2>1, <2>2, <2>5, <1>c, <1>n, AccountedNext DEF Accounted, InHand, C
<1>7. CASE GiveUp \/ HandNotice \/ DeleteText
  <2>1. /\ UNCHANGED <<queue, timers, leaked>> /\ refs' = refs - 1 /\ running' = NoTask
        /\ stage \in {"act", "delete"}
    BY <1>7 DEF GiveUp, HandNotice, DeleteText, Done, module
  <2>2. running /= NoTask
    BY <2>1 DEF TypeOK
  <2> QED
    BY <2>1, <2>2, <1>c, <1>n, AccountedNext DEF Accounted, InHand, C, W
<1>8. CASE DeliverText
  <2>1. UNCHANGED <<queue, timers, leaked>> /\ stage = "act"
    BY <1>8 DEF DeliverText, module
  <2>2. running /= NoTask
    BY <2>1 DEF TypeOK
  <2>3. CASE UNCHANGED <<running, refs>>
    BY <2>1, <2>3, AccountedStays
  <2>4. CASE running' = NoTask /\ refs' = refs - 1
    BY <2>1, <2>2, <2>4, <1>c, <1>n, AccountedNext DEF Accounted, InHand, C, W
  <2> QED
    BY <1>8, <2>3, <2>4 DEF DeliverText, Done
<1>9. CASE RescanBegins \/ RescanFails
  <2>1. /\ queue /= <<>> /\ Next1 = Rescan /\ queue' = Tail(queue)
        /\ UNCHANGED <<timers, refs, running, leaked>>
    BY <1>9 DEF RescanBegins, RescanFails, task, module
  <2>2. C = Cardinality(Slots(queue'))
    BY <2>1, <1>t
  <2> QED
    BY <2>1, <2>2, <1>n, AccountedNext DEF Accounted, InHand, W
<1>10. ASSUME NEW r \in Sms, RescanOne(r) PROVE Accounted'
  BY <1>10, AccountedStays DEF RescanOne, module
<1>11. CASE RescanEnds
  <2>1. UNCHANGED <<queue, timers, refs, leaked>> /\ running = NoTask /\ running' = NoTask
    BY <1>11 DEF RescanEnds, Done, TypeOK, module
  <2> QED
    BY <2>1, AccountedStays
<1>12. CASE Reload \/ Replug \/ Load \/ Unplug \/ MmsInit \/ MmsShutdown \/ DetachAll
  <2>1. UNCHANGED <<timers, refs, running, leaked>>
    BY <1>12
       DEF Reload, Replug, Load, Unplug, MmsInit, MmsShutdown, DetachAll, task, module
  <2>2. queue' \in {queue, Append(queue, Rescan)}
    BY <1>12 DEF Reload, Replug, Load, Unplug, MmsInit, MmsShutdown, DetachAll, Attach
  <2> QED
    BY <2>1, <2>2, <1>r, AccountedStays
<1>13. CASE BusStop \/ Crash
  <2>1. timers' = {} /\ queue' = <<>> /\ running' = NoTask
    BY <1>13 DEF BusStop, Crash, Gone
  <2>2. Slots(<<>>) = {}
    <3>1. Len(<<>>) = 0 /\ 1 .. 0 = {}
      BY EmptySeq
    <3> QED
      BY <3>1 DEF Slots
  <2>3. Cardinality({}) = 0 /\ IsFiniteSet({})
    BY FS_EmptySet, Zenon
  <2>4. IsFiniteSet(timers')
    BY <2>1, <2>3
  <2>5. Cardinality(Slots(queue')) = 0 /\ Cardinality(timers') = 0
    BY <2>1, <2>2, <2>3
  <2>6. refs' = leaked' /\ leaked' \in Nat
    <3>1. CASE Crash
      BY <3>1 DEF Crash
    <3>2. CASE BusStop
      <4>1. refs' = refs /\ leaked' = leaked + C + W
        BY <3>2 DEF BusStop, Waiting, Slots, C, W
      <4>2. running = NoTask
        BY <3>2 DEF BusStop, TypeOK
      <4> QED
        BY <4>1, <4>2, <1>c, <1>n DEF InHand
    <3> QED
      BY <1>13, <3>1, <3>2
  <2> QED
    BY <2>1, <2>4, <2>5, <2>6, AccountedNext DEF Accounted
<1>14. CASE UNCHANGED vars
  BY <1>14, AccountedStays DEF vars, task, module
<1> QED
  BY <1>1, <1>2, <1>3, <1>4, <1>5, <1>6, <1>7, <1>8, <1>9, <1>10, <1>11, <1>12, <1>13, <1>14
     DEF Next, TaskNext

\* sms.c hands a task from the queue to a timer and back; every struct alive is
\* in one place or was left behind by an unload.  It is freed once, also when a
\* push fails, and its reference to the SIM is given back then.
THEOREM TasksAccounted == Spec => []RefsAccounted
<1> DEFINE Inv == TypeOK /\ (\A s \in Sms : Once(s)) /\ Accounted
<1>1. Init => Inv
  <2> SUFFICES ASSUME Init PROVE Inv
    OBVIOUS
  <2>1. TypeOK /\ \A s \in Sms : Once(s)
    BY TypeInit, OnceInit
  <2>2. Slots(queue) = {}
    <3>1. Len(<<>>) = 0 /\ 1 .. 0 = {}
      BY EmptySeq
    <3> QED
      BY <3>1 DEF Slots, Init
  <2>3. Accounted
    BY <2>2, AccountedIs, FS_EmptySet DEF Init, InHand, Accounted
  <2> QED
    BY <2>1, <2>3
<1>2. Inv /\ [Next]_vars => Inv'
  BY TypeInductive, OnceStep, AccountedStep
<1>3. Inv => RefsAccounted
  BY DEF Accounted
<1> QED
  BY <1>1, <1>2, <1>3, PTL DEF Spec

=============================================================================
