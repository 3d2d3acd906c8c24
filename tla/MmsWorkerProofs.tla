-------------------------- MODULE MmsWorkerProofs --------------------------
(***************************************************************************)
(* Proofs about MmsWorker for any number of notifications, retries, calls, *)
(* reloads, unloads and crashes.                                           *)
(***************************************************************************)
EXTENDS MmsWorker, SequenceTheorems, TLAPS

-----------------------------------------------------------------------------
(* Type correctness, one conjunct per part of the state *)

TxnsType == /\ state \in [Keys -> {"none", "waiting", "fetching", "terminal"}]
            /\ attempts \in [Keys -> Nat] /\ decodes \in [Keys -> Nat]
            /\ due \in [Keys -> Nat] /\ left \in [Keys -> 0 .. Lifetime + Grace]
            /\ path \in [Keys -> Sms \cup {None}]

StoreType == stored \subseteq arrived /\ arrived \subseteq Sms /\ deletes \subseteq Sms

WorkerType == /\ wpc \in WorkerPlaces /\ cur \in Keys \cup {None}
              /\ wakeup \in Nat \cup {None}
              /\ wpc \in Busy <=> cur /= None

SerialType == /\ spc \in {"idle", "signal", "kick"} /\ todo \subseteq Keys
              /\ hit \in Keys \cup {None}

ModuleType == /\ call \in BOOLEAN /\ calls \in 0 .. MaxCalls
              /\ life \in {"up", "stopping", "down"} /\ stop \in BOOLEAN
              /\ restarts \in 0 .. MaxRestarts

FatesType == /\ delivered \in [Keys -> 0 .. 2]
             /\ refused \subseteq Keys /\ spoilt \subseteq Keys /\ lapsed \subseteq Keys

LEMMA TypeParts ==
  TypeOK <=> TxnsType /\ StoreType /\ WorkerType /\ SerialType /\ ModuleType /\ FatesType
BY DEF TypeOK, TxnsType, StoreType, WorkerType, SerialType, ModuleType, FatesType

\* backoff_s is never read beyond its end: the last value repeats.
LEMMA BackoffType == ASSUME NEW n \in Nat \ {0}
                     PROVE  Backoff[Lesser(n, Len(Backoff))] \in Nat
<1> DEFINE len == Len(Backoff)
<1>1. Backoff \in Seq(Nat) /\ Backoff /= <<>>
  BY MmsAssumption
<1>2. len \in Nat /\ len /= 0
  BY <1>1, EmptySeq, LenProperties
<1>3. Lesser(n, len) \in 1 .. len
  BY <1>2 DEF Lesser
<1> QED
  BY <1>1, <1>3, ElementOfSeq

-----------------------------------------------------------------------------
(* Transactions and their SMS *)

\* A transaction knows the SMS its notification came in.
Tracked == \A k \in Keys : state[k] /= "none" => path[k] \in Sms /\ KeyOf[path[k]] = k

\* The transaction the worker has in its hands is not settled.
InHand == cur /= None => state[cur] \in {"waiting", "fetching"}

\* txn_finish keeps the transactions, the delete tasks and the worker typed.
LEMMA FinishType ==
  ASSUME TypeOK, Tracked, InHand, wpc \in Busy, NEW delete \in BOOLEAN, Finish(cur, delete)
  PROVE  /\ cur \in Keys /\ path[cur] \in Sms /\ KeyOf[path[cur]] = cur
         /\ state' = [state EXCEPT ![cur] = "terminal"]
         /\ due' \in [Keys -> Nat] /\ deletes' \in {deletes, deletes \cup {path[cur]}}
         /\ ~ delete => deletes' = deletes
         /\ wpc' = "scan" /\ cur' = None
<1>1. cur \in Keys /\ path[cur] \in Sms /\ KeyOf[path[cur]] = cur
  BY DEF TypeOK, Tracked, InHand
<1>2. left[cur] \in Nat
  BY <1>1, MmsAssumption DEF TypeOK
<1>3. due' \in [Keys -> Nat]
  BY <1>1, <1>2 DEF Finish, TypeOK
<1>4. deletes' \in {deletes, deletes \cup {path[cur]}} /\ (~ delete => deletes' = deletes)
  BY DEF Finish
<1> QED
  BY <1>1, <1>3, <1>4 DEF Finish

\* The steps of the worker keep the variables in their types.
LEMMA WorkerStepType ==
  ASSUME TypeOK, Tracked, InHand, WorkerNext PROVE TypeOK'
<1> USE TypeParts DEF WorkerPlaces, Busy
<1> SUFFICES TxnsType' /\ StoreType' /\ WorkerType' /\ SerialType' /\ ModuleType' /\ FatesType'
  BY DEF TypeOK, TxnsType, StoreType, WorkerType, SerialType, ModuleType, FatesType
<1>1. SerialType' /\ ModuleType'
  BY DEF WorkerNext, Scan, Wait, TimedOut, Process, Failed, Postpone, Postponed, Count,
         Deliver, FinishDelivered, serial, voice, module, SerialType, ModuleType
<1>2. CASE Scan
  <2>1. TxnsType'
    BY <1>2 DEF Scan, TxnsType
  <2>2. WorkerType'
    <3>1. CASE stop
      BY <1>2, <3>1 DEF Scan, WorkerType
    <3>2. CASE ~ stop
      <4>1. CASE wpc' = "process" /\ UNCHANGED wakeup /\ \E k \in Keys : cur' = k
        BY <4>1, MmsAssumption DEF WorkerType
      <4>2. CASE wpc' = "ready" /\ UNCHANGED cur
        <5>1. wpc = "scan" /\ cur = None
          BY <1>2 DEF Scan, WorkerType
        <5>2. wakeup' \in Nat \cup {None}
          BY <1>2, <3>2, <4>2 DEF Scan, Waiting, TxnsType
        <5> QED
          BY <4>2, <5>1, <5>2 DEF WorkerType
      <4> QED
        BY <1>2, <3>2, <4>1, <4>2 DEF Scan, Waiting
    <3> QED
      BY <3>1, <3>2
  <2>3. StoreType' /\ FatesType'
    BY <1>2 DEF Scan, store, fates, StoreType, FatesType
  <2> QED
    BY <1>1, <2>1, <2>2, <2>3
<1>3. CASE Wait
  BY <1>1, <1>3 DEF Wait, txns, store, fates, TxnsType, StoreType, WorkerType, FatesType
<1>4. CASE TimedOut
  BY <1>1, <1>4 DEF TimedOut, txns, store, fates, TxnsType, StoreType, WorkerType, FatesType
<1>5. CASE Process
  <2>1. cur \in Keys
    BY <1>5 DEF Process, WorkerType
  <2>2. CASE \E delete \in BOOLEAN : Finish(cur, delete)
    <3>1. /\ state' = [state EXCEPT ![cur] = "terminal"] /\ due' \in [Keys -> Nat]
          /\ deletes' \subseteq Sms /\ wpc' = "scan" /\ cur' = None
      BY <1>5, <2>2, FinishType DEF Process, StoreType
    <3>2. decodes' \in [Keys -> Nat]
      <4>1. CASE UNCHANGED decodes
        BY <4>1 DEF TxnsType
      <4>2. CASE decodes' = [decodes EXCEPT ![cur] = @ + 1]
        BY <4>2, <2>1 DEF TxnsType
      <4> QED
        BY <1>5, <4>1, <4>2 DEF Process
    <3>3. TxnsType'
      BY <1>5, <2>1, <3>1, <3>2 DEF Process, TxnsType
    <3>4. FatesType'
      BY <1>5, <2>1 DEF Process, FatesType
    <3> QED
      BY <1>1, <1>5, <3>1, <3>3, <3>4 DEF Process, StoreType, WorkerType
  <2>3. CASE wpc' \in {"failed", "deliver"}
    BY <1>1, <1>5, <2>1, <2>3 DEF Process, TxnsType, StoreType, WorkerType, FatesType, Finish
  <2> QED
    BY <1>5, <2>2, <2>3 DEF Process
<1>6. CASE Failed
  BY <1>1, <1>6 DEF Failed, txns, store, fates, TxnsType, StoreType, WorkerType, FatesType
<1>7. CASE Postpone
  BY <1>1, <1>7 DEF Postpone, store, fates, TxnsType, StoreType, WorkerType, FatesType
<1>8. CASE Postponed
  BY <1>1, <1>8, MmsAssumption
     DEF Postponed, store, fates, TxnsType, StoreType, WorkerType, FatesType
<1>9. CASE Count
  <2> DEFINE n == attempts[cur] + 1
  <2>1. cur \in Keys /\ n \in Nat \ {0}
    BY <1>9 DEF Count, WorkerType, TxnsType
  <2>2. attempts' \in [Keys -> Nat]
    BY <1>9, <2>1 DEF Count, TxnsType
  <2>3. /\ state' \in [Keys -> {"none", "waiting", "fetching", "terminal"}]
        /\ due' \in [Keys -> Nat] /\ deletes' \subseteq Sms
        /\ wpc' = "scan" /\ cur' = None
    <3>1. CASE n >= MaxRetries
      <4>1. \E delete \in BOOLEAN : Finish(cur, delete)
        <5>1. CASE Expired(cur)
          BY <1>9, <3>1, <5>1 DEF Count, Finish
        <5>2. CASE ~ Expired(cur)
          BY <1>9, <3>1, <5>2 DEF Count, Finish
        <5> QED
          BY <5>1, <5>2
      <4>2. PICK delete \in BOOLEAN : Finish(cur, delete)
        BY <4>1
      <4>3. /\ path[cur] \in Sms /\ state' = [state EXCEPT ![cur] = "terminal"]
            /\ due' \in [Keys -> Nat] /\ deletes' \in {deletes, deletes \cup {path[cur]}}
            /\ wpc' = "scan" /\ cur' = None
        BY <1>9, <4>2, FinishType DEF Count
      <4> QED
        BY <2>1, <4>3 DEF StoreType, TxnsType
    <3>2. CASE ~ (n >= MaxRetries)
      <4>1. Backoff[Lesser(n, Len(Backoff))] \in Nat
        BY <2>1, BackoffType
      <4> QED
        BY <1>9, <2>1, <3>2, <4>1 DEF Count, TxnsType, StoreType
    <3> QED
      BY <3>1, <3>2
  <2> QED
    BY <1>1, <1>9, <2>2, <2>3 DEF Count, fates, TxnsType, StoreType, WorkerType, FatesType
<1>10. CASE Deliver
  <2>1. cur \in Keys
    BY <1>10 DEF Deliver, WorkerType
  <2>2. Lesser(2, delivered[cur] + 1) \in 0 .. 2
    BY <2>1 DEF FatesType, Lesser
  <2> QED
    BY <1>1, <1>10, <2>1, <2>2 DEF Deliver, txns, store, TxnsType, StoreType, WorkerType, FatesType
<1>11. CASE FinishDelivered
  <2>1. /\ state' = [state EXCEPT ![cur] = "terminal"] /\ due' \in [Keys -> Nat]
        /\ deletes' \subseteq Sms /\ wpc' = "scan" /\ cur' = None
    BY <1>11, FinishType DEF FinishDelivered, StoreType
  <2> QED
    BY <1>1, <1>11, <2>1
       DEF FinishDelivered, fates, TxnsType, StoreType, WorkerType, FatesType
<1> QED
  BY <1>2, <1>3, <1>4, <1>5, <1>6, <1>7, <1>8, <1>9, <1>10, <1>11 DEF WorkerNext

\* The serializer, the world and the life of the subsystem do so as well.
OtherNext == \/ \E s \in Sms : Arrive(s) \/ Intake(s)
             \/ Tick \/ CallBegins \/ CallEnds \/ SerialNext
             \/ Shutdown \/ Joined \/ Crash \/ Load

LEMMA OtherStepType == ASSUME TypeOK, OtherNext PROVE TypeOK'
<1> DEFINE AllTypes == /\ TxnsType /\ StoreType /\ WorkerType /\ SerialType
                       /\ ModuleType /\ FatesType
<1> SUFFICES AllTypes'
  BY DEF TypeOK, TxnsType, StoreType, WorkerType, SerialType, ModuleType, FatesType
<1>0. AllTypes
  BY TypeParts
<1> USE <1>0 DEF txns, store, worker, serial, voice, module, fates,
                 StoreType, SerialType, ModuleType
<1>1. ASSUME NEW s \in Sms, Arrive(s) PROVE AllTypes'
  BY <1>1 DEF Arrive, TxnsType, WorkerType, FatesType
<1>2. ASSUME NEW s \in Sms, Intake(s) PROVE AllTypes'
  <2>1. KeyOf[s] \in Keys /\ Lifetime + Grace \in 0 .. Lifetime + Grace
    BY MmsAssumption
  <2>2. TxnsType'
    BY <1>2, <2>1 DEF Intake, TxnsType
  <2> QED
    BY <1>2, <2>2 DEF Intake, WorkerType, FatesType
<1>3. CASE Tick
  <2>1. \A m \in Nat : Down(m) \in Nat /\ Down(m) <= m
    BY DEF Down
  <2>2. due' \in [Keys -> Nat]
    BY <1>3, <2>1 DEF Tick, TxnsType
  <2>3. left' \in [Keys -> 0 .. Lifetime + Grace]
    <3>1. ASSUME NEW k \in Keys PROVE Down(left[k]) \in 0 .. Lifetime + Grace
      BY MmsAssumption DEF Down, TxnsType
    <3> QED
      BY <1>3, <3>1 DEF Tick
  <2>4. WorkerType'
    BY <1>3, <2>1 DEF Tick, WorkerType
  <2> QED
    BY <1>3, <2>2, <2>3, <2>4 DEF Tick, TxnsType, FatesType
<1>4. CASE CallBegins
  BY <1>4, MmsAssumption DEF CallBegins, TxnsType, WorkerType, FatesType
<1>5. CASE CallEnds
  BY <1>5 DEF CallEnds, TxnsType, WorkerType, FatesType
<1>6. CASE Signal
  <2>1. WorkerType'
    BY <1>6 DEF Signal, WorkerType, WorkerPlaces, Busy
  <2> QED
    BY <1>6, <2>1 DEF Signal, TxnsType, FatesType
<1>7. CASE KickTest
  BY <1>7 DEF KickTest, TxnsType, WorkerType, FatesType
<1>8. CASE KickWrite
  BY <1>8 DEF KickWrite, TxnsType, WorkerType, FatesType
<1>9. ASSUME NEW s \in Sms, DeleteSms(s) PROVE AllTypes'
  BY <1>9 DEF DeleteSms, TxnsType, WorkerType, FatesType
<1>10. CASE Shutdown
  <2>1. WorkerType'
    BY <1>10 DEF Shutdown, WorkerType, WorkerPlaces, Busy
  <2>2. ModuleType'
    BY <1>10, MmsAssumption DEF Shutdown
  <2> QED
    BY <1>10, <2>1, <2>2 DEF Shutdown, TxnsType, FatesType
<1>11. CASE Joined
  <2>1. TxnsType'
    BY <1>11 DEF Joined, Forget, TxnsType
  <2> QED
    BY <1>11, <2>1 DEF Joined, WorkerType, FatesType
<1>12. CASE Crash
  <2>1. TxnsType'
    BY <1>12 DEF Crash, Forget, TxnsType
  <2>2. WorkerType'
    BY <1>12 DEF Crash, WorkerType, WorkerPlaces, Busy
  <2>3. restarts' \in 0 .. MaxRestarts
    BY <1>12, MmsAssumption DEF Crash
  <2>4. ModuleType'
    BY <1>12, <2>3 DEF Crash
  <2> QED
    BY <1>12, <2>1, <2>2, <2>4 DEF Crash, FatesType
<1>13. CASE Load
  <2>1. WorkerType'
    BY <1>13 DEF Load, WorkerType, WorkerPlaces, Busy
  <2> QED
    BY <1>13, <2>1 DEF Load, TxnsType, FatesType
<1> QED
  BY <1>1, <1>2, <1>3, <1>4, <1>5, <1>6, <1>7, <1>8, <1>9, <1>10, <1>11, <1>12,
     <1>13 DEF OtherNext, SerialNext

LEMMA NextSplit == Next <=> WorkerNext \/ OtherNext
BY DEF Next, OtherNext

\* Only an intake begins a transaction; nothing else happens to one that is
\* settled than that it is forgotten.
LEMMA StateStep ==
  ASSUME TypeOK, InHand, [Next]_vars, NEW k \in Keys
  PROVE  \/ state'[k] \in {state[k], "none"}
         \/ state[k] \in {"waiting", "fetching"}
         \/ \E s \in Sms : Intake(s) /\ KeyOf[s] = k
<1> USE DEF TypeOK, InHand, txns
<1>1. ASSUME NEW s \in Sms, Intake(s), k /= KeyOf[s] PROVE state'[k] = state[k]
  <2>1. KeyOf[s] \in Keys
    BY MmsAssumption
  <2> QED
    BY <1>1, <2>1 DEF Intake
<1>2. CASE Joined \/ Crash
  BY <1>2 DEF Joined, Crash, Forget
<1>3. CASE Scan
  <2>1. CASE stop
    BY <1>3, <2>1 DEF Scan
  <2>2. CASE ~ stop
    <3> DEFINE kept == [j \in Keys |-> IF j \in Swept THEN "none" ELSE state[j]]
    <3>1. /\ kept \in [Keys -> {"none", "waiting", "fetching", "terminal"}]
          /\ kept[k] \in {"none", state[k]}
      OBVIOUS
    <3>2. state' = kept \/ \E j \in Waiting : state' = [kept EXCEPT ![j] = "fetching"]
      BY <1>3, <2>2 DEF Scan
    <3>3. k \in Waiting => state[k] = "waiting"
      BY DEF Waiting
    <3> HIDE DEF kept
    <3> QED
      BY <3>1, <3>2, <3>3
  <2> QED
    BY <2>1, <2>2
<1>4. CASE Process \/ Count \/ FinishDelivered \/ Postpone
  <2>1. cur \in Keys /\ state[cur] \in {"waiting", "fetching"}
    BY <1>4, MmsAssumption DEF Process, Count, FinishDelivered, Postpone, Busy
  <2>2. \/ state' = [state EXCEPT ![cur] = "terminal"]
        \/ state' = [state EXCEPT ![cur] = "waiting"]
        \/ UNCHANGED state
    BY <1>4 DEF Process, Count, FinishDelivered, Postpone, Finish
  <2> QED
    BY <2>1, <2>2
<1>5. CASE UNCHANGED state
  BY <1>5
<1> QED
  BY <1>1, <1>2, <1>3, <1>4, <1>5
     DEF Next, WorkerNext, SerialNext, Arrive, Tick, CallBegins, CallEnds, Wait,
         TimedOut, Failed, Postponed, Deliver, Signal, KickTest, KickWrite, DeleteSms,
         Shutdown, Load, vars

LEMMA TrackedStep ==
  ASSUME TypeOK, Tracked, InHand, [Next]_vars PROVE Tracked' /\ InHand'
<1> USE DEF TypeOK, Tracked, InHand, txns, worker
<1>1. Tracked'
  <2> SUFFICES ASSUME NEW k \in Keys, state'[k] /= "none"
               PROVE  path'[k] \in Sms /\ KeyOf[path'[k]] = k
    OBVIOUS
  <2>1. ASSUME NEW s \in Sms, Intake(s) PROVE path'[k] \in Sms /\ KeyOf[path'[k]] = k
    <3>1. KeyOf[s] \in Keys
      BY MmsAssumption
    <3>2. CASE k = KeyOf[s]
      BY <2>1, <3>1, <3>2 DEF Intake
    <3>3. CASE k /= KeyOf[s]
      BY <2>1, <3>1, <3>3 DEF Intake
    <3> QED
      BY <3>2, <3>3
  <2>2. CASE Joined \/ Crash
    BY <2>2 DEF Joined, Crash, Forget
  <2>3. CASE UNCHANGED path /\ state[k] /= "none"
    BY <2>3
  <2>4. UNCHANGED path \/ Joined \/ Crash \/ \E s \in Sms : Intake(s)
    BY DEF Next, WorkerNext, SerialNext, Arrive, Tick, CallBegins, CallEnds, 
           Scan, Wait, TimedOut, Process, Failed, Postpone, Postponed, Count, Deliver,
           FinishDelivered, Signal, KickTest, KickWrite, DeleteSms, Shutdown, Load, vars
  <2> QED
    BY <2>1, <2>2, <2>3, <2>4, StateStep
<1>2. InHand'
  <2>1. CASE Scan
    BY <2>1 DEF Scan, Waiting, Busy
  <2>2. CASE Postpone
    BY <2>2, MmsAssumption DEF Postpone, Busy
  <2>3. ASSUME NEW s \in Sms, Intake(s) PROVE InHand'
    <3>1. KeyOf[s] \in Keys /\ cur /= KeyOf[s]
      BY <2>3, MmsAssumption DEF Intake
    <3> QED
      BY <2>3, <3>1 DEF Intake
  <2>4. CASE Joined
    BY <2>4 DEF Joined, Busy
  <2>5. CASE cur' = None \/ UNCHANGED <<state, cur>>
    BY <2>5
  <2> QED
    BY <2>1, <2>2, <2>3, <2>4, <2>5
       DEF Next, WorkerNext, SerialNext, Arrive, Tick, CallBegins, CallEnds, 
           Wait, TimedOut, Process, Finish, Failed, Postponed, Count, Deliver,
           FinishDelivered, Signal, KickTest, KickWrite, DeleteSms, Shutdown, Crash, Load,
           vars
<1> QED
  BY <1>1, <1>2

LEMMA TypesStep ==
  ASSUME TypeOK, Tracked, InHand, [Next]_vars PROVE (TypeOK /\ Tracked /\ InHand)'
<1>1. TypeOK'
  <2>1. CASE UNCHANGED vars
    BY <2>1 DEF vars, txns, store, worker, serial, voice, module, fates, TypeOK,
                WorkerPlaces, Busy
  <2> QED
    BY <2>1, NextSplit, WorkerStepType, OtherStepType
<1> QED
  BY <1>1, TrackedStep

LEMMA TypeInductive == Init => TypeOK /\ Tracked /\ InHand
<1>1. Init => TypeOK
  <2> SUFFICES ASSUME Init PROVE TypeOK
    OBVIOUS
  <2>1. TxnsType
    BY MmsAssumption DEF Init, TxnsType
  <2>2. WorkerType /\ StoreType /\ SerialType
    BY DEF Init, WorkerType, StoreType, SerialType, WorkerPlaces, Busy
  <2>3. calls \in 0 .. MaxCalls /\ restarts \in 0 .. MaxRestarts /\ FatesType
    BY MmsAssumption DEF Init, FatesType
  <2>4. ModuleType
    BY <2>3 DEF Init, ModuleType
  <2> QED
    BY <2>1, <2>2, <2>3, <2>4, TypeParts
<1> QED
  BY <1>1 DEF Init, Tracked, InHand

\* The three together are inductive.
LEMMA TypesHold == Spec => [](TypeOK /\ Tracked /\ InHand)
<1>1. TypeOK /\ Tracked /\ InHand /\ [Next]_vars => (TypeOK /\ Tracked /\ InHand)'
  BY TypesStep
<1> QED
  BY <1>1, TypeInductive, PTL DEF Spec

\* Every variable of the receive core keeps its type, and the worker has a
\* transaction in its hands exactly where process_txn is running.
THEOREM TypeCorrect == Spec => []TypeOK
BY TypesHold, PTL

-----------------------------------------------------------------------------
(* No notification is destroyed before its message is settled *)

\* An SMS that is gone, or that a delete task will remove, is of a settled message.
GoneSettled == \A s \in deletes \cup (arrived \ stored) : Settled(KeyOf[s])

\* An expiry that runs out is recorded: a relative one while the message is tracked.
SeenToExpire ==
  \A k \in Keys : Expired(k) /\ (state[k] /= "none" \/ k \notin Relative) => k \in lapsed

\* The worker finishes only what mms_deliver had.
FinishDue == wpc = "finish" => delivered[cur] > 0 \/ cur \in refused

IInv == /\ TypeOK /\ Tracked /\ InHand
        /\ GoneSettled /\ SeenToExpire /\ FinishDue /\ PendingOnModem

\* What is settled stays settled.
LEMMA SettledStays ==
  ASSUME TypeOK, [Next]_vars, NEW k \in Keys, Settled(k) PROVE Settled(k)'
<1> USE DEF TypeOK, Settled, fates
<1>1. CASE Tick
  <2>1. UNCHANGED <<delivered, refused, spoilt>> /\ lapsed \subseteq lapsed'
    BY <1>1 DEF Tick
  <2> QED
    BY <2>1
<1>2. CASE Deliver
  <2>1. UNCHANGED <<spoilt, lapsed>> /\ refused \subseteq refused'
    BY <1>2 DEF Deliver
  <2>2. delivered[k] > 0 => delivered'[k] > 0
    BY <1>2 DEF Deliver, Lesser
  <2> QED
    BY <2>1, <2>2
<1>3. CASE Process
  <2>1. UNCHANGED <<delivered, refused, lapsed>> /\ spoilt \subseteq spoilt'
    BY <1>3 DEF Process
  <2> QED
    BY <2>1
<1>4. CASE UNCHANGED fates
  BY <1>4
<1>5. UNCHANGED fates \/ Tick \/ Deliver \/ Process
  BY DEF Next, WorkerNext, SerialNext, Arrive, Intake, CallBegins, CallEnds, 
         Scan, Wait, TimedOut, Failed, Postpone, Postponed, Count, FinishDelivered, Signal,
         KickTest, KickWrite, DeleteSms, Shutdown, Joined, Crash, Load, vars
<1> QED
  BY <1>1, <1>2, <1>3, <1>4, <1>5

\* A delete task is pushed by txn_finish alone, for a message that is settled;
\* an SMS disappears by a delete task alone.
LEMMA DeletesSettled ==
  ASSUME IInv, [Next]_vars
  PROVE  \/ /\ deletes' \subseteq deletes
            /\ (deletes' \cup (arrived' \ stored')) \subseteq deletes \cup (arrived \ stored)
         \/ /\ UNCHANGED <<arrived, stored>>
            /\ \E k \in Keys : /\ Settled(k)' /\ path[k] \in Sms /\ KeyOf[path[k]] = k
                               /\ deletes' = deletes \cup {path[k]}
                               /\ state' = [state EXCEPT ![k] = "terminal"]
<1> USE DEF IInv, TypeOK, Tracked, InHand, store, Busy
<1>1. ASSUME Process \/ Count \/ FinishDelivered
      PROVE  /\ UNCHANGED <<arrived, stored>> /\ cur \in Keys /\ state[cur] /= "none"
             /\ path[cur] \in Sms /\ KeyOf[path[cur]] = cur
             /\ deletes' \in {deletes, deletes \cup {path[cur]}}
  <2>1. UNCHANGED <<arrived, stored>> /\ cur \in Keys /\ state[cur] /= "none"
    BY <1>1, MmsAssumption DEF Process, Count, FinishDelivered
  <2> QED
    BY <1>1, <2>1 DEF Process, Count, FinishDelivered, Finish
<1>2. ASSUME Process \/ Count \/ FinishDelivered, deletes' /= deletes
      PROVE  /\ state' = [state EXCEPT ![cur] = "terminal"]
             /\ Expired(cur) \/ cur \in spoilt' \/ cur \in refused \/ delivered[cur] > 0
  <2>1. CASE Process
    BY <1>2, <2>1 DEF Process, Finish
  <2>2. CASE Count
    BY <1>2, <2>2 DEF Count, Finish
  <2>3. CASE FinishDelivered
    BY <1>2, <2>3 DEF FinishDelivered, Finish, FinishDue
  <2> QED
    BY <1>2, <2>1, <2>2, <2>3
<1>3. ASSUME Process \/ Count \/ FinishDelivered, deletes' /= deletes,
             NEW k \in Keys, k = cur
      PROVE  Settled(k)'
  <2>1. CASE k \in spoilt'
    BY <2>1 DEF Settled
  <2>2. CASE Expired(k) \/ k \in refused \/ delivered[k] > 0
    <3>1. state[k] /= "none"
      BY <1>1, <1>3
    <3>2. Settled(k)
      BY <2>2, <3>1 DEF Settled, SeenToExpire
    <3> QED
      BY <3>2, SettledStays
  <2> QED
    BY <1>2, <1>3, <2>1, <2>2
<1>4. CASE Process \/ Count \/ FinishDelivered
  <2>1. CASE deletes' = deletes
    BY <1>1, <1>4, <2>1
  <2>2. CASE deletes' /= deletes
    <3>1. PICK k \in Keys : k = cur
      BY <1>1, <1>4
    <3>2. Settled(k)'
      BY <1>3, <1>4, <2>2, <3>1
    <3> QED
      BY <1>1, <1>2, <1>4, <2>2, <3>1, <3>2
  <2> QED
    BY <2>1, <2>2
<1>5. ASSUME NEW s \in Sms, DeleteSms(s) \/ Arrive(s)
      PROVE  /\ (deletes' \cup (arrived' \ stored')) \subseteq deletes \cup (arrived \ stored)
             /\ deletes' \subseteq deletes
  BY <1>5 DEF DeleteSms, Arrive
<1>6. CASE UNCHANGED <<arrived, stored>> /\ deletes' \in {deletes, {}}
  BY <1>6
<1>7. \/ UNCHANGED <<arrived, stored>> /\ deletes' \in {deletes, {}}
      \/ \E s \in Sms : DeleteSms(s) \/ Arrive(s)
      \/ Process \/ Count \/ FinishDelivered
  BY DEF Next, WorkerNext, SerialNext, Intake, Tick, CallBegins, CallEnds, Scan,
         Wait, TimedOut, Failed, Postpone, Postponed, Deliver, Signal, KickTest, KickWrite,
         Shutdown, Joined, Crash, Load, vars
<1> QED
  BY <1>4, <1>5, <1>6, <1>7

LEMMA PendingStep ==
  ASSUME IInv, [Next]_vars PROVE PendingOnModem'
<1> USE DEF IInv, TypeOK, Tracked, InHand, PendingOnModem, txns, store
<1> SUFFICES ASSUME NEW k \in Keys, state'[k] \in {"waiting", "fetching"}, ~ Settled(k)'
             PROVE  path'[k] \in stored' \ deletes'
  OBVIOUS
<1>0. ~ Settled(k)
  BY SettledStays
<1>1. ASSUME NEW s \in Sms, Arrive(s) \/ Intake(s) \/ DeleteSms(s)
      PROVE  path'[k] \in stored' \ deletes'
  <2>1. CASE Arrive(s)
    BY <1>0, <2>1 DEF Arrive
  <2>2. CASE Intake(s)
    <3>1. KeyOf[s] \in Keys
      BY MmsAssumption
    <3>2. KeyOf[s] = k => s \notin deletes
      BY <1>0 DEF GoneSettled
    <3> QED
      BY <1>0, <2>2, <3>1, <3>2 DEF Intake
  <2>3. CASE DeleteSms(s)
    BY <1>0, <2>3 DEF DeleteSms
  <2> QED
    BY <1>1, <2>1, <2>2, <2>3
<1>2. CASE Joined \/ Crash
  BY <1>2 DEF Joined, Crash, Forget
<1>3. CASE UNCHANGED <<path, arrived, stored>> /\ ~ \E s \in Sms : Intake(s)
  <2>1. state[k] \in {"waiting", "fetching"}
    BY <1>3, StateStep
  <2>2. path[k] \in stored \ deletes
    BY <1>0, <2>1
  <2>3. CASE deletes' \subseteq deletes
    BY <1>3, <2>2, <2>3
  <2>4. ASSUME NEW j \in Keys, KeyOf[path[j]] = j, deletes' = deletes \cup {path[j]},
               state' = [state EXCEPT ![j] = "terminal"]
        PROVE  path'[k] \in stored' \ deletes'
    <3>1. j /= k
      BY <2>4
    <3>2. KeyOf[path[k]] = k
      BY <2>1
    <3> QED
      BY <1>3, <2>2, <2>4, <3>1, <3>2
  <2> QED
    BY <2>3, <2>4, DeletesSettled
<1> QED
  BY <1>1, <1>2, <1>3
     DEF Next, WorkerNext, SerialNext, Tick, CallBegins, CallEnds, Scan, Wait,
         TimedOut, Process, Failed, Postpone, Postponed, Count, Deliver, FinishDelivered,
         Signal, KickTest, KickWrite, Shutdown, Load, vars

LEMMA ExpirySeen ==
  ASSUME IInv, [Next]_vars PROVE SeenToExpire'
<1> USE MmsAssumption DEF IInv, TypeOK, Tracked, InHand, SeenToExpire, Expired, txns, fates
<1> SUFFICES ASSUME NEW k \in Keys, Expired(k)', state'[k] /= "none" \/ k \notin Relative
             PROVE  k \in lapsed'
  OBVIOUS
<1>1. CASE Tick
  <2>1. left[k] <= Grace + 1 /\ (state[k] /= "none" \/ k \notin Relative)
    BY <1>1 DEF Tick, Down
  <2> QED
    BY <1>1, <2>1 DEF Tick
<1>2. ASSUME NEW s \in Sms, Intake(s) PROVE k \in lapsed'
  <2>1. KeyOf[s] \in Keys /\ Lifetime /= 0
    BY MmsAssumption
  <2>2. CASE k = KeyOf[s]
    <3>1. k \notin Relative
      BY <1>2, <2>1, <2>2 DEF Intake
    <3>2. left[k] <= Grace
      BY <1>2, <2>2, <3>1 DEF Intake
    <3> QED
      BY <1>2, <3>1, <3>2 DEF Intake
  <2>3. CASE k /= KeyOf[s]
    <3>1. state'[k] = state[k] /\ left'[k] = left[k]
      BY <1>2, <2>1, <2>3 DEF Intake
    <3> QED
      BY <1>2, <3>1 DEF Intake
  <2> QED
    BY <2>2, <2>3
<1>3. CASE Joined \/ Crash
  BY <1>3 DEF Joined, Crash, Forget
<1>4. CASE UNCHANGED <<left, lapsed>> /\ ~ \E s \in Sms : Intake(s)
  <2>1. state'[k] /= "none" => state[k] /= "none"
    BY <1>4, StateStep
  <2> QED
    BY <1>4, <2>1
<1> QED
  BY <1>1, <1>2, <1>3, <1>4
     DEF Next, WorkerNext, SerialNext, Arrive, CallBegins, CallEnds, Scan, Wait,
         TimedOut, Process, Failed, Postpone, Postponed, Count, Deliver, FinishDelivered,
         Signal, KickTest, KickWrite, DeleteSms, Shutdown, Load, vars

LEMMA FinishStep ==
  ASSUME IInv, [Next]_vars PROVE FinishDue'
<1> USE DEF IInv, TypeOK, InHand, FinishDue, fates, worker, Busy
<1>1. CASE Deliver
  <2>1. cur \in Keys /\ delivered[cur] \in 0 .. 2
    BY <1>1 DEF Deliver
  <2>2. delivered'[cur] > 0 \/ cur \in refused'
    BY <1>1, <2>1 DEF Deliver, Lesser
  <2>3. cur' = cur
    BY <1>1 DEF Deliver
  <2> QED
    BY <2>2, <2>3
<1>2. CASE wpc' /= "finish"
  BY <1>2
<1>3. CASE UNCHANGED <<wpc, cur, delivered, refused>>
  BY <1>3
<1> QED
  BY <1>1, <1>2, <1>3
     DEF Next, WorkerNext, SerialNext, Arrive, Intake, Tick, CallBegins, CallEnds,
         Scan, Wait, TimedOut, Process, Failed, Postpone, Postponed, Count,
         Finish, FinishDelivered, Signal, KickTest, KickWrite, DeleteSms, Shutdown, Joined,
         Crash, Load, vars

LEMMA GoneStep ==
  ASSUME IInv, [Next]_vars PROVE GoneSettled'
<1> USE DEF IInv
<1> SUFFICES ASSUME NEW s \in deletes' \cup (arrived' \ stored')
             PROVE  Settled(KeyOf[s])'
  BY DEF GoneSettled
<1>1. CASE s \in deletes \cup (arrived \ stored)
  <2>1. s \in Sms
    BY <1>1 DEF TypeOK
  <2>2. PICK k \in Keys : k = KeyOf[s]
    BY <2>1, MmsAssumption
  <2>3. Settled(k)
    BY <1>1, <2>2 DEF GoneSettled
  <2>4. Settled(k)'
    BY <2>3, SettledStays
  <2> QED
    BY <2>2, <2>4
<1>2. CASE s \notin deletes \cup (arrived \ stored)
  <2>1. PICK k \in Keys : /\ Settled(k)' /\ path[k] \in Sms /\ KeyOf[path[k]] = k
                          /\ deletes' = deletes \cup {path[k]}
                          /\ UNCHANGED <<arrived, stored>>
    BY <1>2, DeletesSettled
  <2>2. s = path[k]
    BY <1>2, <2>1
  <2>3. KeyOf[s] = k
    BY <2>1, <2>2
  <2> QED
    BY <2>1, <2>3
<1> QED
  BY <1>1, <1>2

LEMMA Inductive == Spec => []IInv
<1>1. Init => IInv
  <2> SUFFICES ASSUME Init PROVE IInv
    OBVIOUS
  <2>1. SeenToExpire
    BY MmsAssumption DEF Init, SeenToExpire, Expired
  <2> QED
    BY <2>1, TypeInductive DEF Init, IInv, GoneSettled, FinishDue, PendingOnModem
<1>2. IInv /\ [Next]_vars => IInv'
  <2> SUFFICES ASSUME IInv, [Next]_vars PROVE IInv'
    OBVIOUS
  <2>1. (TypeOK /\ Tracked /\ InHand)'
    BY TypesStep DEF IInv
  <2> QED
    BY <2>1, GoneStep, ExpirySeen, FinishStep, PendingStep DEF IInv
<1> QED
  BY <1>1, <1>2, PTL DEF Spec

\* A notification SMS is gone only if its message was delivered or refused, expired,
\* or was fetched in vain twice: for any number of messages, copies, retries, calls,
\* reloads and restarts, crashes at any point included.
THEOREM MessagesNeverLost == Spec => []NeverLost
<1>1. IInv => NeverLost
  BY DEF IInv, GoneSettled, NeverLost
<1> QED
  BY <1>1, Inductive, PTL

\* What a restart has to find again, a pending message that is not settled, is there
\* to be found.  That a task may take in an SMS whose deletion is queued does no harm:
\* only settled messages have one.
THEOREM PendingStaysOnModem == Spec => []PendingOnModem
<1>1. IInv => PendingOnModem
  BY DEF IInv
<1> QED
  BY <1>1, Inductive, PTL

\* mms.h: "a restart re-discovers pending notifications".  Both together: until its
\* message is settled a notification can be found again.
THEOREM NoticesAreKept == Spec => []NoticesKept
<1>1. NeverLost /\ PendingOnModem => NoticesKept
  BY DEF NoticesKept
<1> QED
  BY <1>1, MessagesNeverLost, PendingStaysOnModem, PTL

-----------------------------------------------------------------------------
(* While nothing disturbs the subsystem the tombstone absorbs every copy *)

\* No call so far, hence no kick, and no restart.
Undisturbed == calls = 0 /\ restarts = 0

Quiet == spc /= "kick" /\ hit = None /\ ~ call /\ life = "up"

\* A message that was delivered is being finished, or its tombstone outlasts the
\* expiry, or it has expired: a copy may begin a transaction again then, and
\* process_txn ends it before it fetches.
DoneWith(k) ==
  /\ delivered[k] = 1 /\ ~ (cur = k /\ wpc = "deliver")
  /\ \/ state[k] = "terminal" /\ due[k] >= left[k]
     \/ cur = k /\ wpc = "finish"
     \/ Expired(k)

Once == \A k \in Keys \ Relative : delivered[k] > 0 => DoneWith(k)

\* The bounds of the calls and the restarts count them.
LEMMA DisturbedStays == ASSUME TypeOK, [Next]_vars, Undisturbed' PROVE Undisturbed
<1> USE DEF Undisturbed, TypeOK, voice, module
<1>1. CASE WorkerNext
  BY <1>1 DEF WorkerNext, Scan, Wait, TimedOut, Process, Failed, Postpone, Postponed, Count,
              Deliver, FinishDelivered
<1>2. CASE SerialNext
  BY <1>2 DEF SerialNext, Signal, KickTest, KickWrite, DeleteSms
<1>3. CASE (\E s \in Sms : Arrive(s) \/ Intake(s)) \/ Tick \/ CallBegins \/ CallEnds
  BY <1>3 DEF Arrive, Intake, Tick, CallBegins, CallEnds
<1>4. CASE Shutdown \/ Joined \/ Crash \/ Load
  BY <1>4 DEF Shutdown, Joined, Crash, Load
<1>5. CASE UNCHANGED vars
  BY <1>5 DEF vars
<1> QED
  BY <1>1, <1>2, <1>3, <1>4, <1>5 DEF Next

LEMMA QuietStep ==
  ASSUME TypeOK, Undisturbed, Undisturbed', Quiet, [Next]_vars PROVE Quiet'
<1> USE DEF Quiet, serial, voice, module
<1>1. ~ CallBegins /\ ~ Shutdown /\ ~ Crash
  BY DEF CallBegins, Shutdown, Crash, TypeOK, Undisturbed
<1>2. ~ CallEnds /\ ~ KickTest /\ ~ KickWrite /\ ~ Joined /\ ~ Load
  BY DEF CallEnds, KickTest, KickWrite, Joined, Load
<1>3. CASE WorkerNext \/ Tick \/ \E s \in Sms : DeleteSms(s) \/ Arrive(s)
  <2>1. UNCHANGED <<serial, voice, module>>
    BY <1>3 DEF WorkerNext, Scan, Wait, TimedOut, Process, Failed, Postpone, Postponed,
                Count, Deliver, FinishDelivered, Tick, DeleteSms, Arrive
  <2> QED
    BY <2>1
<1>4. ASSUME NEW s \in Sms, Intake(s) PROVE Quiet'
  BY <1>4 DEF Intake
<1>5. CASE Signal
  BY <1>5 DEF Signal
<1>6. CASE UNCHANGED vars
  BY <1>6 DEF vars
<1> QED
  BY <1>1, <1>2, <1>3, <1>4, <1>5, <1>6 DEF Next, SerialNext

LEMMA OnceStep ==
  ASSUME TypeOK, Tracked, InHand, Undisturbed, Undisturbed', Quiet, Once, [Next]_vars
  PROVE  Once'
<1> USE DEF TypeOK, InHand, Once, DoneWith, Expired, txns, worker, fates
<1> SUFFICES ASSUME NEW k \in Keys \ Relative, delivered'[k] > 0 PROVE DoneWith(k)'
  OBVIOUS
<1>1. CASE Tick
  <2>1. delivered[k] > 0 /\ DoneWith(k) /\ UNCHANGED <<delivered, cur, wpc, state>>
    BY <1>1 DEF Tick
  <2>2. due'[k] = Down(due[k]) /\ left'[k] = Down(left[k])
    BY <1>1 DEF Tick
  <2>3. left[k] <= Grace => left'[k] <= Grace
    BY <2>2, MmsAssumption DEF Down
  <2>4. due[k] \in Nat /\ left[k] \in Nat /\ (due[k] >= left[k] => due'[k] >= left'[k])
    BY <2>2 DEF Down
  <2> QED
    BY <2>1, <2>3, <2>4
<1>2. ASSUME NEW s \in Sms, Intake(s) PROVE DoneWith(k)'
  <2>1. KeyOf[s] \in Keys
    BY MmsAssumption
  <2>2. delivered[k] > 0 /\ DoneWith(k) /\ UNCHANGED <<delivered, cur, wpc>>
    BY <1>2 DEF Intake
  <2>5. left'[k] = left[k]
    BY <1>2, <2>1 DEF Intake
  <2>3. state[k] = "terminal" => k /= KeyOf[s]
    BY <1>2 DEF Intake
  <2>4. k /= KeyOf[s] => state'[k] = state[k] /\ due'[k] = due[k]
    BY <1>2, <2>1 DEF Intake
  <2> QED
    BY <2>2, <2>3, <2>4, <2>5
<1>3. CASE Scan
  <2>1. /\ delivered[k] > 0 /\ DoneWith(k) /\ UNCHANGED <<delivered, left, due>>
        /\ wpc' /= "deliver" /\ cur = None
    BY <1>3 DEF Scan, Busy
  <2>2. state[k] = "terminal" => state'[k] = "terminal" \/ due[k] = 0
    <3>1. CASE stop
      BY <1>3, <3>1 DEF Scan
    <3>2. CASE ~ stop /\ state[k] = "terminal" /\ due[k] /= 0
      <4> DEFINE kept == [j \in Keys |-> IF j \in Swept THEN "none" ELSE state[j]]
      <4>1. /\ kept \in [Keys -> {"none", "waiting", "fetching", "terminal"}]
            /\ kept[k] = "terminal" /\ k \notin Waiting
        BY <3>2 DEF Swept, Waiting
      <4>2. state' = kept \/ \E j \in Waiting : state' = [kept EXCEPT ![j] = "fetching"]
        BY <1>3, <3>2 DEF Scan
      <4> HIDE DEF kept
      <4> QED
        BY <4>1, <4>2
    <3> QED
      BY <3>1, <3>2
  <2>3. due[k] = 0 /\ due[k] >= left[k] => left[k] <= Grace
    BY MmsAssumption
  <2>4. cur /= k
    BY <2>1, MmsAssumption
  <2> QED
    BY <2>1, <2>2, <2>3, <2>4
<1>4. CASE Deliver
  <2>1. cur \in Keys /\ wpc = "deliver" /\ wpc' = "finish" /\ UNCHANGED <<cur, txns>>
    BY <1>4, MmsAssumption DEF Deliver, Busy
  <2>2. CASE k = cur
    <3>1. delivered[k] = 0
      BY <2>1, <2>2
    <3>2. delivered'[k] = 1
      BY <1>4, <2>1, <2>2, <3>1 DEF Deliver, Lesser
    <3> QED
      BY <2>1, <2>2, <3>2
  <2>3. CASE k /= cur
    <3>1. delivered'[k] = delivered[k]
      BY <1>4, <2>1, <2>3 DEF Deliver
    <3> QED
      BY <2>1, <2>3, <3>1
  <2> QED
    BY <2>2, <2>3
<1>5. CASE Process \/ Count \/ FinishDelivered \/ Failed \/ Postpone \/ Postponed
  <2>1. /\ cur \in Keys /\ UNCHANGED <<delivered, left>> /\ delivered[k] > 0 /\ DoneWith(k)
        /\ state[cur] \in {"waiting", "fetching"}
    BY <1>5, MmsAssumption
       DEF Process, Count, FinishDelivered, Failed, Postpone, Postponed, Busy
  <2>2. CASE k /= cur
    <3>1. state'[k] = state[k] /\ due'[k] = due[k]
      BY <1>5, <2>1, <2>2
         DEF Process, Count, FinishDelivered, Finish, Failed, Postpone, Postponed
    <3>2. cur' \in {cur, None} /\ cur' /= k
      BY <1>5, <2>2, MmsAssumption
         DEF Process, Count, FinishDelivered, Finish, Failed, Postpone, Postponed
    <3> QED
      BY <2>1, <2>2, <3>1, <3>2
  <2>3. CASE k = cur /\ FinishDelivered
    <3>1. state'[k] = "terminal" /\ due'[k] = left[k] /\ cur' = None
      BY <2>1, <2>3 DEF FinishDelivered, Finish
    <3>2. due'[k] >= left'[k]
      BY <2>1, <3>1, MmsAssumption
    <3>3. cur' /= k
      BY <3>1, MmsAssumption
    <3> QED
      BY <2>1, <3>1, <3>2, <3>3
  <2>4. CASE k = cur /\ ~ FinishDelivered
    <3>1. wpc /= "finish" /\ Expired(k)
      BY <1>5, <2>1, <2>4 DEF Process, Count, Failed, Postpone, Postponed
    <3>2. Expired(k)' /\ ~ (cur' = k /\ wpc' = "deliver")
      BY <1>5, <2>1, <2>4, <3>1, MmsAssumption
         DEF Process, Finish, Count, Failed, Postpone, Postponed
    <3> QED
      BY <2>1, <3>2
  <2> QED
    BY <2>2, <2>3, <2>4
<1>6. CASE KickTest \/ KickWrite \/ Joined \/ Crash \/ Load \/ Shutdown
  <2>1. ~ KickTest /\ ~ KickWrite /\ ~ Joined /\ ~ Crash /\ ~ Load /\ ~ Shutdown
    BY DEF Quiet, Undisturbed, KickTest, KickWrite, Joined, Crash, Load, Shutdown
  <2> QED
    BY <1>6, <2>1
<1>7. CASE /\ UNCHANGED <<txns, cur, delivered>>
           /\ wpc' = wpc \/ (wpc \notin Busy /\ wpc' \notin Busy)
  BY <1>7 DEF Busy
<1> QED
  BY <1>1, <1>2, <1>3, <1>4, <1>5, <1>6, <1>7
     DEF Next, WorkerNext, SerialNext, Arrive, CallBegins, CallEnds, Wait,
         TimedOut, Signal, DeleteSms, Busy, vars

\* Until a call or a restart interferes, no message whose expiry is absolute is
\* delivered twice: for any number of copies of a notification, of rescans and of
\* deletions that fail.
THEOREM DeliveredAtMostOnce == Spec => []DeliveredOnce
<1> DEFINE Inv == TypeOK /\ Tracked /\ InHand /\ (Undisturbed => Quiet /\ Once)
<1>1. Init => Inv
  BY TypeInductive DEF Init, Quiet, Once
<1>2. Inv /\ [Next]_vars => Inv'
  <2> SUFFICES ASSUME Inv, [Next]_vars PROVE Inv'
    OBVIOUS
  <2>1. (TypeOK /\ Tracked /\ InHand)'
    BY TypesStep
  <2>2. ASSUME Undisturbed' PROVE (Quiet /\ Once)'
    <3>1. Undisturbed /\ Quiet /\ Once
      BY <2>2, DisturbedStays
    <3> QED
      BY <2>2, <3>1, QuietStep, OnceStep
  <2> QED
    BY <2>1, <2>2
<1>3. Inv => DeliveredOnce
  BY DEF DeliveredOnce, Once, DoneWith, TypeOK, Undisturbed
<1> QED
  BY <1>1, <1>2, <1>3, PTL DEF Spec

-----------------------------------------------------------------------------
(* The receive core implements the inbox *)

SettledKeys == {k \in Keys : Settled(k)}
Places      == [s \in Sms |-> Where(s)]

\* Where an SMS is, which messages are pending and which are settled depends on
\* nothing else.
LEMMA SameInbox ==
  ASSUME UNCHANGED <<state, arrived, stored, fates>> PROVE UNCHANGED Inbox!inbox
BY DEF Inbox!inbox, Where, Pending, Settled, fates

\* The worker ends the transaction in its hands; what it settles is at most that.
LEMMA WorkerConcludes ==
  ASSUME IInv, NEW k \in Keys, k \in Pending, UNCHANGED <<arrived, stored>>,
         Pending' \in {Pending, Pending \ {k}},
         SettledKeys' \in {SettledKeys, SettledKeys \cup {k}}
  PROVE  [Inbox!Next]_(Inbox!inbox)
<1>1. UNCHANGED Places
  BY DEF Places, Where
<1>2. CASE SettledKeys' = SettledKeys
  <2>1. CASE Pending' = Pending
    BY <1>1, <1>2, <2>1 DEF Inbox!inbox, Places, SettledKeys
  <2>2. CASE Pending' = Pending \ {k}
    <3>1. {k} \in SUBSET Keys /\ {k} \subseteq Pending
      OBVIOUS
    <3>2. Inbox!GiveUp({k})
      BY <1>1, <1>2, <2>2, <3>1 DEF Inbox!GiveUp, Places, SettledKeys
    <3> QED
      BY <3>1, <3>2 DEF Inbox!Next
  <2> QED
    BY <2>1, <2>2
<1>3. CASE SettledKeys' = SettledKeys \cup {k}
  <2>1. Inbox!Conclude(k)
    BY <1>1, <1>3 DEF Inbox!Conclude, Places, SettledKeys
  <2> QED
    BY <2>1 DEF Inbox!Next
<1> QED
  BY <1>2, <1>3

LEMMA WorkerInbox ==
  ASSUME IInv, Process \/ Count \/ FinishDelivered \/ Deliver \/ Postpone
  PROVE  [Inbox!Next]_(Inbox!inbox)
<1> USE DEF IInv, TypeOK, InHand, Busy
<1>1. /\ cur \in Keys /\ state[cur] \in {"waiting", "fetching"}
      /\ UNCHANGED <<arrived, stored, lapsed>>
  BY MmsAssumption DEF Process, Count, FinishDelivered, Deliver, Postpone, store, fates
<1>2. PICK k \in Keys : k = cur
  BY <1>1
<1>3. k \in Pending
  BY <1>1, <1>2 DEF Pending
<1>4. state' \in {state, [state EXCEPT ![k] = "terminal"], [state EXCEPT ![k] = "waiting"]}
  BY <1>2 DEF Process, Count, FinishDelivered, Finish, Deliver, Postpone, txns
<1>5. Pending' \in {Pending, Pending \ {k}}
  <2>1. CASE state' = state \/ state' = [state EXCEPT ![k] = "waiting"]
    <3>1. Pending' = Pending
      BY <1>3, <2>1 DEF Pending
    <3> QED
      BY <3>1
  <2>2. CASE state' = [state EXCEPT ![k] = "terminal"]
    <3>1. Pending' = Pending \ {k}
      BY <2>2 DEF Pending
    <3> QED
      BY <3>1
  <2> QED
    BY <1>4, <2>1, <2>2
<1>6. ASSUME NEW j \in Keys, j /= k PROVE Settled(j)' <=> Settled(j)
  <2>1. CASE Deliver
    <3>1. delivered'[j] = delivered[j] /\ (j \in refused' <=> j \in refused)
      BY <1>2, <1>6, <2>1 DEF Deliver
    <3> QED
      BY <1>1, <2>1, <3>1 DEF Deliver, Settled
  <2>2. CASE Process \/ Count \/ FinishDelivered \/ Postpone
    <3>1. UNCHANGED <<delivered, refused>>
      BY <2>2 DEF Process, Count, FinishDelivered, Postpone, fates
    <3>2. spoilt' \in {spoilt, spoilt \cup {k}}
      <4>1. CASE Process
        BY <1>2, <4>1 DEF Process
      <4>2. CASE Count \/ FinishDelivered \/ Postpone
        BY <4>2 DEF Count, FinishDelivered, Postpone, fates
      <4> QED
        BY <2>2, <4>1, <4>2
    <3> QED
      BY <1>1, <1>6, <3>1, <3>2 DEF Settled
  <2> QED
    BY <2>1, <2>2
<1>7. Next
  BY DEF Next, WorkerNext
<1>8. Settled(k) => Settled(k)'
  BY <1>7, SettledStays
<1>9. SettledKeys' \in {SettledKeys, SettledKeys \cup {k}}
  BY <1>6, <1>8 DEF SettledKeys
<1> QED
  BY <1>1, <1>3, <1>5, <1>9, WorkerConcludes

LEMMA InboxStep ==
  ASSUME IInv, [Next]_vars PROVE [Inbox!Next]_(Inbox!inbox)
<1> USE DEF IInv, TypeOK, fates
<1>1. ASSUME NEW s \in Sms, Arrive(s) PROVE Inbox!Arrive(s)
  <2>1. Where(s) = "network" /\ UNCHANGED <<Pending, SettledKeys>>
    BY <1>1 DEF Arrive, Where, Pending, SettledKeys, Settled, txns
  <2>2. \A r \in Sms : Where(r)' = IF r = s THEN "modem" ELSE Where(r)
    BY <1>1 DEF Arrive, Where
  <2>3. Places' = [Places EXCEPT ![s] = "modem"]
    BY <2>2 DEF Places
  <2> QED
    BY <2>1, <2>3 DEF Inbox!Arrive, Places, SettledKeys
<1>2. ASSUME NEW s \in Sms, Intake(s) PROVE Inbox!TakeIn(KeyOf[s])
  <2>1. KeyOf[s] \in Keys
    BY MmsAssumption
  <2>2. KeyOf[s] \notin Pending /\ s \in stored /\ UNCHANGED <<Places, SettledKeys>>
    BY <1>2 DEF Intake, Pending, Places, Where, SettledKeys, Settled, store
  <2>3. Pending' = Pending \cup {KeyOf[s]}
    BY <1>2, <2>1 DEF Intake, Pending
  <2>4. Inbox!Announced(KeyOf[s])
    BY <2>2 DEF Inbox!Announced, Where
  <2> QED
    BY <2>2, <2>3, <2>4 DEF Inbox!TakeIn, Places, SettledKeys
<1>3. ASSUME NEW s \in Sms, DeleteSms(s), stored' /= stored PROVE Inbox!Delete(s)
  <2>1. /\ s \in deletes /\ s \in stored /\ stored' = stored \ {s}
        /\ UNCHANGED <<arrived, Pending, SettledKeys>>
    BY <1>3 DEF DeleteSms, Pending, SettledKeys, Settled, txns
  <2>2. KeyOf[s] \in SettledKeys
    BY <2>1, MmsAssumption DEF GoneSettled, SettledKeys
  <2>3. \A r \in Sms : Where(r)' = IF r = s THEN "gone" ELSE Where(r)
    BY <2>1 DEF Where
  <2>4. Places' = [Places EXCEPT ![s] = "gone"]
    BY <2>3 DEF Places
  <2>6. Where(s) = "modem"
    BY <2>1 DEF Where
  <2> QED
    BY <2>1, <2>2, <2>4, <2>6 DEF Inbox!Delete, Places, SettledKeys
<1>4. CASE Tick
  <2>1. UNCHANGED <<Places, Pending>>
    BY <1>4 DEF Tick, Places, Where, Pending, store
  <2>2. \A k \in Keys : Settled(k) => Settled(k)'
    BY <1>4, SettledStays DEF Next
  <2>3. SettledKeys' = SettledKeys \cup SettledKeys' /\ SettledKeys' \in SUBSET Keys
    BY <2>2 DEF SettledKeys
  <2>4. Inbox!Expire(SettledKeys')
    BY <2>1, <2>3 DEF Inbox!Expire, Places, SettledKeys
  <2> QED
    BY <2>3, <2>4 DEF Inbox!Next
<1>5. CASE Joined \/ Crash
  <2>1. Pending \in SUBSET Keys /\ Pending' = {} /\ UNCHANGED <<Places, SettledKeys>>
    BY <1>5 DEF Joined, Crash, Forget, Pending, Places, Where, SettledKeys, Settled, store
  <2>2. Inbox!GiveUp(Pending)
    BY <2>1 DEF Inbox!GiveUp, Places, SettledKeys
  <2> QED
    BY <2>1, <2>2 DEF Inbox!Next
<1>6. CASE Scan
  <2>1. UNCHANGED <<arrived, stored, fates>>
    BY <1>6 DEF Scan, store
  <2>2. Pending' = Pending
    <3>1. CASE stop
      BY <1>6, <3>1 DEF Scan, Pending
    <3>2. CASE ~ stop
      <4> DEFINE kept == [k \in Keys |-> IF k \in Swept THEN "none" ELSE state[k]]
      <4>1. state' = kept \/ \E j \in Waiting : state' = [kept EXCEPT ![j] = "fetching"]
        BY <1>6, <3>2 DEF Scan
      <4>2. /\ \A k \in Keys : kept[k] = IF k \in Swept THEN "none" ELSE state[k]
            /\ kept = [k \in Keys |-> kept[k]]
        OBVIOUS
      <4> HIDE DEF kept
      <4>3. ASSUME NEW k \in Keys PROVE state'[k] \in {"waiting", "fetching"}
                                        <=> state[k] \in {"waiting", "fetching"}
        BY <4>1, <4>2 DEF Swept, Waiting
      <4> QED
        BY <4>3 DEF Pending
    <3> QED
      BY <3>1, <3>2
  <2> QED
    BY <2>1, <2>2 DEF Inbox!inbox, Where, Settled
<1>7. CASE UNCHANGED <<state, arrived, stored, fates>>
  BY <1>7, SameInbox
<1>8. CASE Process \/ Count \/ FinishDelivered \/ Deliver \/ Postpone
  BY <1>8, WorkerInbox
<1>9. ASSUME NEW s \in Sms, DeleteSms(s), stored' = stored
      PROVE  UNCHANGED <<state, arrived, stored, fates>>
  BY <1>9 DEF DeleteSms, txns
<1>10. \/ \E s \in Sms : Arrive(s) \/ Intake(s) \/ DeleteSms(s)
       \/ Tick \/ Joined \/ Crash \/ Scan
       \/ Process \/ Count \/ FinishDelivered \/ Deliver \/ Postpone
       \/ UNCHANGED <<state, arrived, stored, fates>>
  BY DEF Next, WorkerNext, SerialNext, CallBegins, CallEnds, Wait, TimedOut,
         Failed, Postponed, Signal, KickTest, KickWrite, Shutdown, Load, vars, txns, store
<1>11. ASSUME NEW s \in Sms, Arrive(s) \/ Intake(s) \/ DeleteSms(s)
       PROVE  [Inbox!Next]_(Inbox!inbox)
  <2>1. KeyOf[s] \in Keys
    BY MmsAssumption
  <2> QED
    BY <1>1, <1>2, <1>3, <1>7, <1>9, <1>11, <2>1 DEF Inbox!Next
<1> QED
  BY <1>4, <1>5, <1>6, <1>7, <1>8, <1>10, <1>11

\* The receive core keeps the promise of the inbox for any number of messages and
\* copies: every step of the worker, the serializer, a kick, an unload or a crash is
\* a step of the inbox or none that it sees.
THEOREM WorkerImplementsInbox == Spec => ImplementsInbox
<1>1. Init => Inbox!Init
  BY MmsAssumption DEF Init, Inbox!Init, Where, Pending, Settled
<1>2. IInv /\ [Next]_vars => [Inbox!Next]_(Inbox!inbox)
  BY InboxStep
<1> QED
  BY <1>1, <1>2, Inductive, PTL DEF Spec, ImplementsInbox, Inbox!Spec

=============================================================================
