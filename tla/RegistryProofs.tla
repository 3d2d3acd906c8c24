--------------------------- MODULE RegistryProofs ---------------------------
(***************************************************************************)
(* Proofs about Registry: whatever is configured, reloaded, plugged in and *)
(* called, init commands run at most once for each appearance, the modem   *)
(* of a call stays, and what listens on a modem object is a pvt of the     *)
(* container that the SIM leads back to.  They hold for any number of      *)
(* modems, SIMs, loads and appearances.                                    *)
(***************************************************************************)
EXTENDS Registry, FiniteSetTheorems, TLAPS

Task == [op : {"added", "removed"}, path : 1 .. Len(objs)]

\* The modem pvts that are attached to an object.  They are finitely many, which
\* makes what the handlers count a number.
Attachments == {p \in ModemPvts : device[p] /= None}

\* A load that is under way has been counted.
Counted == phase /= "idle" => loads > 0

Base == TypeOK /\ IsFiniteSet(Attachments) /\ Counted

\* The parts of the type invariant.
WorldType ==
  /\ objs \in Seq([modem : Devices, sim : Cards]) /\ Len(objs) <= MaxPaths
  /\ bus \subseteq 1 .. Len(objs) /\ ready \subseteq 1 .. Len(objs) /\ enabled \subseteq ready
  /\ queue \in Seq(Task)
LoadType ==
  /\ life \in {"down", "loading", "up"} /\ phase \in {"idle", "sims", "prune", "walk"}
  /\ todo \subseteq IF phase = "prune" THEN marked ELSE 1 .. Len(objs)
  /\ conf \subseteq Cards /\ loads \in 0 .. MaxLoads
  /\ modems \subseteq ModemPvts /\ sims \subseteq SimPvts /\ marked \subseteq ModemPvts
PvtsType ==
  /\ device \in [ModemPvts -> [path : 1 .. Len(objs), sim : SimPvts, done : BOOLEAN] \cup {None}]
  /\ owner \in [ModemPvts -> BOOLEAN] /\ channels \subseteq SimPvts
  /\ asking \in [SimPvts -> ModemPvts \cup {None}] /\ overtaken \subseteq ModemPvts
  /\ assigned \in [SimPvts -> ModemPvts \cup {None}] /\ commands \in [ModemPvts -> Nat]
  /\ unspent \in [Paths -> Int] /\ raced \in BOOLEAN /\ moved \in BOOLEAN
Resolved(r) ==
  /\ r.path \in 1 .. Len(objs)
  /\ r.modem \in IF r.pc = "find" THEN {None} ELSE ModemPvts
  /\ r.sim \in IF r.pc \in {"find", "sim"} THEN {None} ELSE SimPvts
AtType ==
  /\ at \in [Threads -> {Idle} \cup Resolutions]
  /\ \A t \in Threads : at[t] /= Idle => Resolved(at[t])

AllTypes == WorldType /\ LoadType /\ PvtsType /\ AtType

\* The type invariant is its parts, before and after a step.
LEMMA TypeParts == (TypeOK <=> AllTypes) /\ (TypeOK' <=> AllTypes')
BY DEF TypeOK, AllTypes, WorldType, LoadType, PvtsType, AtType, Resolved, Task

\* A step that leaves what a part is about alone keeps the part.
LEMMA Untouched ==
  /\ WorldType /\ UNCHANGED <<world, queue>> => WorldType'
  /\ LoadType /\ UNCHANGED <<objs, load, links>> => LoadType'
  /\ PvtsType /\ UNCHANGED <<objs, pvts, commands, unspent, past>> => PvtsType'
  /\ AtType /\ UNCHANGED <<objs, at>> => AtType'
<1> USE DEF world, load, links, pvts, line, past
<1>1. WorldType /\ UNCHANGED <<world, queue>> => WorldType'
  BY DEF WorldType, Task
<1>2. LoadType /\ UNCHANGED <<objs, load, links>> => LoadType'
  BY DEF LoadType
<1>3. PvtsType /\ UNCHANGED <<objs, pvts, commands, unspent, past>> => PvtsType'
  BY DEF PvtsType
<1>4. AtType /\ UNCHANGED <<objs, at>> => AtType'
  BY DEF AtType, Resolved
<1> QED
  BY <1>1, <1>2, <1>3, <1>4

\* An object keeps its path when others are put on the bus after it.
LEMMA Grows ==
  ASSUME WorldType, NEW d \in Devices, NEW c \in Cards, Appears(d, c)
  PROVE  /\ objs' = Append(objs, [modem |-> d, sim |-> c]) /\ Len(objs') = Len(objs) + 1
         /\ objs' \in Seq([modem : Devices, sim : Cards]) /\ Len(objs) < MaxPaths
         /\ 1 .. Len(objs) \subseteq 1 .. Len(objs') /\ Len(objs') \in 1 .. Len(objs')
         /\ \A e \in 1 .. Len(objs) : objs'[e] = objs[e]
         /\ objs'[Len(objs')] = [modem |-> d, sim |-> c]
BY DEF Appears, WorldType

\* The queue is extended by a task for a path, or left alone.
LEMMA Pushed ==
  ASSUME WorldType, NEW task, Push(task), task \in Task', Task \subseteq Task'
  PROVE  queue' \in Seq(Task')
<1> DEFINE New == Task'
<1> HIDE DEF New
<1>1. queue \in Seq(New)
  BY DEF WorldType, New
<1>2. Append(queue, task) \in Seq(New)
  BY <1>1 DEF New
<1> QED
  BY <1>1, <1>2 DEF Push, New

\* Types: ModemManager and the handlers of the loop thread.
LEMMA WorldStep ==
  ASSUME Base,
         \/ \E d \in Devices, c \in Cards : Appears(d, c)
         \/ \E e \in bus : Disappears(e) \/ Identified(e) \/ Rises(e)
  PROVE  Base'
<1>0. WorldType /\ LoadType /\ PvtsType /\ AtType
  BY TypeParts DEF Base, AllTypes
<1> USE <1>0 DEF world, load, links, pvts, line, past
<1>1. ASSUME NEW d \in Devices, NEW c \in Cards, Appears(d, c) PROVE AllTypes'
  <2> USE <1>1
  <2>1. WorldType'
    <3>1. [op |-> "added", path |-> Len(objs')] \in Task' /\ Task \subseteq Task'
      BY Grows DEF Task
    <3>2. queue' \in Seq(Task')
      BY <3>1, Pushed DEF Appears
    <3>3. /\ bus' \subseteq 1 .. Len(objs') /\ ready' \subseteq 1 .. Len(objs')
          /\ enabled' \subseteq ready'
      BY Grows DEF Appears, WorldType
    <3>4. objs' \in Seq([modem : Devices, sim : Cards]) /\ Len(objs') <= MaxPaths
      <4>1. Len(objs) \in Nat /\ Len(objs) < MaxPaths
        BY DEF Appears, WorldType
      <4>2. objs' \in Seq([modem : Devices, sim : Cards]) /\ Len(objs') = Len(objs) + 1
        BY DEF Appears, WorldType
      <4> QED
        BY <4>1, <4>2, RegistryAssumption
    <3> QED
      BY <3>2, <3>3, <3>4 DEF WorldType
  <2>2. LoadType'
    BY Grows DEF Appears, LoadType
  <2>3. PvtsType'
    BY Grows DEF Appears, Push, PvtsType
  <2>4. AtType'
    BY Grows DEF Appears, AtType, Resolved
  <2> QED
    BY <2>1, <2>2, <2>3, <2>4 DEF AllTypes
<1>2. ASSUME NEW e \in bus, Disappears(e) PROVE AllTypes'
  <2>1. [op |-> "removed", path |-> e] \in Task' /\ Task' = Task
    BY <1>2 DEF Task, Disappears, WorldType
  <2>2. queue' \in Seq(Task')
    BY <1>2, <2>1, Pushed DEF Disappears
  <2>3. WorldType'
    BY <1>2, <2>2 DEF Disappears, WorldType
  <2>4. PvtsType'
    BY <1>2 DEF Disappears, Push, PvtsType
  <2> QED
    BY <1>2, <2>3, <2>4 DEF Disappears, AllTypes, LoadType, AtType, Resolved
<1>3. ASSUME NEW e \in bus, Identified(e) PROVE AllTypes'
  <2>1. WorldType'
    BY <1>3 DEF Identified, WorldType, Task
  <2> QED
    BY <1>3, <2>1 DEF Identified, AllTypes, LoadType, PvtsType, AtType, Resolved
<1>4. ASSUME NEW e \in bus, Rises(e) PROVE AllTypes'
  <2>1. ASSUME NEW q \in ModemPvts
        PROVE  Cardinality({p \in Handlers(e) : assigned[device[p].sim] = q}) \in Nat
    <3>1. {p \in Handlers(e) : assigned[device[p].sim] = q} \subseteq Attachments
      BY DEF Handlers, Attachments
    <3> QED
      BY <3>1, FS_Subset, FS_CardinalityType DEF Base
  <2>2. commands' \in [ModemPvts -> Nat]
    <3> DEFINE heard(q) == Cardinality({p \in Handlers(e) : assigned[device[p].sim] = q})
    <3>1. \A q \in ModemPvts : heard(q) \in Nat
      BY <2>1
    <3>2. commands' = [q \in ModemPvts |->
                         IF Kickable(q) THEN commands[q] + heard(q) ELSE commands[q]]
      BY <1>4 DEF Rises
    <3> HIDE DEF heard
    <3> QED
      BY <3>1, <3>2 DEF PvtsType
  <2>3. WorldType'
    BY <1>4 DEF Rises, WorldType, Task
  <2> QED
    BY <1>4, <2>2, <2>3 DEF Rises, AllTypes, LoadType, PvtsType, AtType, Resolved
<1>5. IsFiniteSet(Attachments)' /\ Counted'
  <2>1. UNCHANGED <<device, phase, loads>>
    BY DEF Appears, Disappears, Identified, Rises
  <2> QED
    BY <2>1 DEF Base, Attachments, Counted
<1> QED
  BY <1>1, <1>2, <1>3, <1>4, <1>5, TypeParts DEF Base

\* What is attached stays finite when a step attaches one at most.
LEMMA StaysFinite ==
  ASSUME IsFiniteSet(Attachments), NEW p, Attachments' \subseteq Attachments \cup {p}
  PROVE  IsFiniteSet(Attachments)'
BY FS_AddElement, FS_Subset

\* Types: load_config.
LEMMA LoadStep ==
  ASSUME Base, LoadNext \/ \E read \in Confs : Begin(read)
  PROVE  Base'
<1>0. WorldType /\ LoadType /\ PvtsType /\ AtType
  BY TypeParts DEF Base, AllTypes
<1> USE <1>0, RegistryAssumption DEF world, load, links, pvts, line, past
<1>1. ASSUME NEW read \in Confs, Begin(read) PROVE AllTypes'
  <2>1. loads' \in 1 .. MaxLoads /\ read.modems \subseteq Devices /\ read.sims \subseteq Cards
    BY <1>1 DEF Begin, LoadType, Confs
  <2>2. modems' \subseteq ModemPvts /\ marked' \subseteq ModemPvts
    BY <1>1, <2>1 DEF Begin, LoadType, ModemPvts
  <2>3. LoadType'
    BY <1>1, <2>1, <2>2 DEF Begin, LoadType, WorldType
  <2>4. PvtsType'
    BY <1>1 DEF Begin, PvtsType
  <2> QED
    BY <1>1, <2>3, <2>4, Untouched DEF Begin, AllTypes
<1>2. ASSUME BuildSims PROVE AllTypes'
  <2>1. loads \in 1 .. MaxLoads
    BY <1>2 DEF BuildSims, LoadType, Base, Counted
  <2>2. sims' \subseteq SimPvts
    BY <1>2, <2>1 DEF BuildSims, LoadType, SimPvts
  <2>3. LoadType'
    BY <1>2, <2>2 DEF BuildSims, LoadType
  <2> QED
    BY <1>2, <2>3, Untouched DEF BuildSims, AllTypes
<1>3. ASSUME NEW p \in marked, Prune(p) PROVE AllTypes'
  <2>1. LoadType'
    BY <1>3 DEF Prune, LoadType
  <2>2. PvtsType'
    BY <1>3 DEF Prune, Detached, PvtsType
  <2> QED
    BY <1>3, <2>1, <2>2, Untouched DEF Prune, AllTypes
<1>4. ASSUME PruneSims PROVE AllTypes'
  <2>1. LoadType'
    BY <1>4 DEF PruneSims, LoadType, WorldType
  <2> QED
    BY <1>4, <2>1, Untouched DEF PruneSims, AllTypes
<1>5. ASSUME NEW e \in todo, Walk(e) PROVE AllTypes'
  <2>1. e \in 1 .. Len(objs) /\ e \in Paths
    <3>1. phase = "walk"
      BY <1>5 DEF Walk
    <3>2. e \in 1 .. Len(objs)
      BY <3>1 DEF LoadType
    <3> QED
      BY <3>2 DEF WorldType, Paths
  <2>2. Resolving(e) \in Resolutions /\ Resolved(Resolving(e))
    BY <2>1 DEF Resolving, Resolutions, Resolved
  <2>3. AtType'
    BY <1>5, <2>2 DEF Walk, AtType, Resolved
  <2>4. LoadType'
    BY <1>5 DEF Walk, LoadType
  <2> QED
    BY <1>5, <2>3, <2>4, Untouched DEF Walk, AllTypes
<1>6. ASSUME EndLoad PROVE AllTypes'
  <2>1. PvtsType'
    BY <1>6 DEF EndLoad, PvtsType
  <2>2. LoadType'
    BY <1>6 DEF EndLoad, LoadType
  <2> QED
    BY <1>6, <2>1, <2>2, Untouched DEF EndLoad, AllTypes
<1>7. Counted'
  BY DEF LoadNext, Begin, BuildSims, Prune, PruneSims, Walk, EndLoad, Base, Counted, LoadType
<1>8. Attachments' \subseteq Attachments
  <2>1. \A p \in ModemPvts : device'[p] \in {device[p], None}
    BY DEF LoadNext, Begin, BuildSims, Prune, Detached, PruneSims, Walk, EndLoad, PvtsType
  <2> QED
    BY <2>1 DEF Attachments
<1>9. IsFiniteSet(Attachments)'
  BY <1>8, FS_Subset DEF Base
<1> QED
  BY <1>1, <1>2, <1>3, <1>4, <1>5, <1>6, <1>7, <1>9, TypeParts DEF LoadNext, Base

\* Types: the serializer of the hotplug.
LEMMA HotplugStep ==
  ASSUME Base, TakeAdded \/ TakeRemoved
  PROVE  Base'
<1>0. WorldType /\ LoadType /\ PvtsType /\ AtType
  BY TypeParts DEF Base, AllTypes
<1> USE <1>0, RegistryAssumption DEF world, load, links, pvts, line, past
<1>1. queue /= <<>> /\ Head(queue) \in Task /\ Tail(queue) \in Seq(Task)
  BY DEF TakeAdded, TakeRemoved, WorldType
<1>2. WorldType'
  BY <1>1 DEF TakeAdded, TakeRemoved, WorldType, Task
<1>3. LoadType' /\ Counted'
  BY DEF TakeAdded, TakeRemoved, LoadType, Base, Counted
<1>4. AtType'
  <2>1. Head(queue).path \in 1 .. Len(objs) /\ Head(queue).path \in Paths
    BY <1>1 DEF Task, WorldType, Paths
  <2>2. Resolving(Head(queue).path) \in Resolutions /\ Resolved(Resolving(Head(queue).path))
    BY <2>1 DEF Resolving, Resolutions, Resolved
  <2> QED
    BY <2>2 DEF TakeAdded, TakeRemoved, Next1, AtType, Resolved
<1>5. PvtsType'
  BY DEF TakeAdded, TakeRemoved, PvtsType
<1>6. Attachments' \subseteq Attachments
  BY DEF TakeAdded, TakeRemoved, Attachments, PvtsType
<1>7. IsFiniteSet(Attachments)'
  BY <1>6, FS_Subset DEF Base
<1> QED
  BY <1>2, <1>3, <1>4, <1>5, <1>7, TypeParts DEF Base, AllTypes

\* Types: resolve_object.
LEMMA ResolveStep ==
  ASSUME Base, NEW t \in Threads, ResolveNext(t)
  PROVE  Base'
<1>0. WorldType /\ LoadType /\ PvtsType /\ AtType
  BY TypeParts DEF Base, AllTypes
<1> USE <1>0, RegistryAssumption DEF world, load, links, pvts, line, past
<1>1. at[t] \in Resolutions /\ Resolved(at[t])
  BY DEF ResolveNext, FindModem, FindSim, Attach, Assign, Kick, AtType, Idle
<1>2. WorldType' /\ LoadType' /\ Counted'
  BY DEF ResolveNext, FindModem, FindSim, Attach, Assign, Kick, WorldType, LoadType, Base,
         Counted, Task
<1>3. \E r \in {Idle} \cup Resolutions :
        at' = [at EXCEPT ![t] = r] /\ (r /= Idle => Resolved(r))
  <2>1. CASE FindModem(t)
    BY <1>1, <2>1 DEF FindModem, Done, Resolutions, Resolved, AtType, LoadType
  <2>2. CASE FindSim(t)
    BY <1>1, <2>2 DEF FindSim, Done, Resolutions, Resolved, AtType, LoadType
  <2>3. CASE Attach(t)
    <3> DEFINE r == [at[t] EXCEPT !.pc = "assign"]
    <3>1. r \in Resolutions /\ Resolved(r)
      BY <1>1, <2>3 DEF Attach, Resolutions, Resolved
    <3>2. at' = [at EXCEPT ![t] = r]
      BY <2>3 DEF Attach
    <3> QED
      BY <3>1, <3>2
  <2>4. CASE Assign(t)
    <3> DEFINE r == [at[t] EXCEPT !.pc = "kick"]
    <3>1. r \in Resolutions /\ Resolved(r)
      BY <1>1, <2>4 DEF Assign, Resolutions, Resolved
    <3>2. at' = [at EXCEPT ![t] = r]
      BY <2>4 DEF Assign
    <3> QED
      BY <3>1, <3>2
  <2>5. CASE Kick(t)
    BY <2>5 DEF Kick, Done
  <2> QED
    BY <2>1, <2>2, <2>3, <2>4, <2>5 DEF ResolveNext
<1>4. AtType'
  BY <1>2, <1>3 DEF AtType, Resolved, ResolveNext, FindModem, FindSim, Attach, Assign, Kick
<1>5. PvtsType'
  <2>1. CASE FindModem(t) \/ FindSim(t)
    BY <2>1 DEF FindModem, FindSim, PvtsType
  <2>2. CASE Attach(t)
    BY <1>1, <2>2 DEF Attach, Resolved, Resolutions, PvtsType
  <2>3. CASE Assign(t)
    BY <1>1, <2>3 DEF Assign, Resolved, PvtsType
  <2>4. CASE Kick(t)
    <3>1. at[t].modem \in ModemPvts
      BY <1>1, <2>4 DEF Kick, Resolved
    <3>2. commands' \in [ModemPvts -> Nat]
      BY <2>4, <3>1 DEF Kick, PvtsType
    <3> QED
      BY <2>4, <3>2 DEF Kick, PvtsType
  <2> QED
    BY <2>1, <2>2, <2>3, <2>4 DEF ResolveNext
<1>6. Attachments' \subseteq Attachments \cup {at[t].modem}
  BY DEF ResolveNext, FindModem, FindSim, Attach, Assign, Kick, Attachments, PvtsType
<1>7. IsFiniteSet(Attachments)'
  BY <1>6, StaysFinite DEF Base
<1> QED
  BY <1>2, <1>4, <1>5, <1>7, TypeParts DEF Base, AllTypes

\* Types: the serializers of the modems, and the channels.
LEMMA CallStep ==
  ASSUME Base,
         \/ \E p \in ModemPvts : RunCommands(p)
         \/ \E s \in SimPvts : CallNext(s)
  PROVE  Base'
<1>0. WorldType /\ LoadType /\ PvtsType /\ AtType
  BY TypeParts DEF Base, AllTypes
<1> USE <1>0 DEF world, load, links, pvts, line, past
<1>1. WorldType' /\ LoadType' /\ AtType' /\ Counted'
  BY DEF RunCommands, CallNext, CallAsks, CallTakes, CallFails, CallEnds, WorldType, LoadType, AtType, Resolved, Task, Base,
         Counted
<1>2. ASSUME NEW p \in ModemPvts, RunCommands(p)
      PROVE  PvtsType' /\ Attachments' \subseteq Attachments
  <2>1. commands' \in [ModemPvts -> Nat]
    BY <1>2 DEF RunCommands, PvtsType
  <2>2. CASE Kickable(p)
    <3>1. device[p] \in [path : 1 .. Len(objs), sim : SimPvts, done : BOOLEAN]
      BY <2>2 DEF Kickable, PvtsType
    <3>2. device' \in
            [ModemPvts -> [path : 1 .. Len(objs), sim : SimPvts, done : BOOLEAN] \cup {None}]
      <4>1. [device[p] EXCEPT !.done = TRUE]
              \in [path : 1 .. Len(objs), sim : SimPvts, done : BOOLEAN]
        BY <3>1
      <4>2. device' = [device EXCEPT ![p] = [device[p] EXCEPT !.done = TRUE]]
        BY <1>2, <2>2 DEF RunCommands
      <4> HIDE DEF Kickable
      <4> QED
        BY <4>1, <4>2 DEF PvtsType
    <3>3. unspent' \in [Paths -> Int]
      BY <1>2, <2>2 DEF RunCommands, PvtsType
    <3> QED
      BY <1>2, <2>1, <2>2, <3>2, <3>3 DEF RunCommands, PvtsType, Attachments, Kickable
  <2> QED
    BY <1>2, <2>1, <2>2 DEF RunCommands, PvtsType, Attachments
<1>3. ASSUME NEW s \in SimPvts, CallNext(s)
      PROVE  PvtsType' /\ Attachments' \subseteq Attachments
  <2>1. owner' \in [ModemPvts -> BOOLEAN]
    BY <1>3 DEF CallNext, CallAsks, CallTakes, CallFails, CallEnds, PvtsType
  <2>2. channels' \subseteq SimPvts
    BY <1>3 DEF CallNext, CallAsks, CallTakes, CallFails, CallEnds, PvtsType
  <2>3. UNCHANGED <<objs, device, assigned, commands, unspent, raced, moved>>
    BY <1>3 DEF CallNext, CallAsks, CallTakes, CallFails, CallEnds
  <2>4. asking' \in [SimPvts -> ModemPvts \cup {None}] /\ overtaken' \subseteq ModemPvts
    <3>1. /\ \E m \in ModemPvts \cup {None} : asking' \in {asking, [asking EXCEPT ![s] = m]}
          /\ \A q \in overtaken' : q \in overtaken \/ (q = asking[s] /\ q /= None)
      BY <1>3 DEF CallNext, CallAsks, CallTakes, CallFails, CallEnds, PvtsType
    <3> QED
      BY <3>1 DEF PvtsType
  <2> QED
    BY <2>1, <2>2, <2>3, <2>4 DEF PvtsType, Attachments
<1>4. PvtsType' /\ IsFiniteSet(Attachments)'
  BY <1>2, <1>3, FS_Subset DEF Base
<1> QED
  BY <1>1, <1>4, TypeParts DEF Base, AllTypes

\* Before the module is loaded nothing is attached.
LEMMA BaseInit == Init => Base
<1> SUFFICES ASSUME Init PROVE Base
  OBVIOUS
<1> USE RegistryAssumption DEF Init
<1>1. WorldType /\ LoadType
  BY DEF WorldType, LoadType
<1>2. PvtsType /\ AtType
  <2>1. /\ device \in [ModemPvts -> {None}] /\ assigned \in [SimPvts -> {None}]
        /\ asking \in [SimPvts -> {None}] /\ overtaken = {}
    OBVIOUS
  <2>2. owner \in [ModemPvts -> BOOLEAN] /\ commands \in [ModemPvts -> Nat]
    OBVIOUS
  <2>3. unspent \in [Paths -> Int] /\ channels = {} /\ raced = FALSE /\ moved = FALSE
    BY DEF Paths
  <2>4. AtType
    BY DEF AtType
  <2> HIDE DEF Init
  <2> QED
    BY <2>1, <2>2, <2>3, <2>4 DEF PvtsType
<1>3. Attachments = {}
  BY DEF Attachments
<1> QED
  BY <1>1, <1>2, <1>3, TypeParts, FS_EmptySet DEF Base, AllTypes, Counted

\* Every step keeps the types.
LEMMA BaseNext == Base /\ [Next]_vars => Base'
<1> SUFFICES ASSUME Base, [Next]_vars PROVE Base'
  OBVIOUS
<1>1. CASE UNCHANGED vars
  BY <1>1 DEF vars, world, load, links, pvts, line, past, Base, TypeOK, Attachments, Counted
<1> QED
  BY <1>1, WorldStep, LoadStep, HotplugStep, ResolveStep, CallStep DEF Next

LEMMA BaseHolds == Spec => []Base
BY BaseInit, BaseNext, PTL DEF Spec

\* Every reachable state of the registry is type correct.
THEOREM TypeCorrect == Spec => []TypeOK
<1>1. Base => TypeOK
  BY DEF Base
<1> QED
  BY <1>1, BaseHolds, PTL

-----------------------------------------------------------------------------
(* The init commands *)

\* The attached modems whose init commands have not run, at a path.
Undone(e) == {p \in ModemPvts : device[p] /= None /\ device[p].path = e /\ ~ device[p].done}

\* Every modem that waits for its init commands has an appearance of its own to spend.
Spendable == \A e \in Paths : unspent[e] >= Cardinality(Undone(e))

LEMMA UndoneFinite ==
  ASSUME IsFiniteSet(Attachments), NEW e
  PROVE  IsFiniteSet(Undone(e)) /\ Cardinality(Undone(e)) \in Nat
BY FS_Subset, FS_CardinalityType DEF Undone, Attachments

\* But for attaching and for the init commands themselves, a step leaves what is
\* attached as it is, or detaches it.
LEMMA Loosens ==
  ASSUME Base, Next,
         ~ \E t \in Threads : Attach(t), ~ \E p \in ModemPvts : RunCommands(p)
  PROVE  unspent' = unspent /\ \A p \in ModemPvts : device'[p] \in {device[p], None}
<1>0. device \in [ModemPvts -> [path : 1 .. Len(objs), sim : SimPvts, done : BOOLEAN]
                                 \cup {None}]
  BY DEF Base, TypeOK
<1> USE <1>0 DEF world, load, links, pvts, line, past
<1>1. CASE \/ \E d \in Devices, c \in Cards : Appears(d, c)
           \/ \E e \in bus : Disappears(e) \/ Identified(e) \/ Rises(e)
           \/ \E read \in Confs : Begin(read)
           \/ \E s \in SimPvts : CallNext(s)
  BY <1>1 DEF Appears, Disappears, Identified, Rises, Begin, CallNext, CallAsks, CallTakes, CallFails, CallEnds
<1>2. CASE LoadNext
  BY <1>2 DEF LoadNext, BuildSims, PruneSims, EndLoad, Prune, Detached, Walk
<1>3. CASE TakeAdded \/ TakeRemoved
  BY <1>3 DEF TakeAdded, TakeRemoved
<1>4. ASSUME NEW t \in Threads, ResolveNext(t)
      PROVE  UNCHANGED <<unspent, device>>
  BY <1>4 DEF ResolveNext, FindModem, FindSim, Assign, Kick
<1> QED
  BY <1>1, <1>2, <1>3, <1>4 DEF Next

LEMMA SpendableNext == Base /\ Base' /\ Spendable /\ [Next]_vars => Spendable'
<1> SUFFICES ASSUME Base, Base', Spendable, [Next]_vars, NEW e \in Paths
             PROVE  unspent'[e] >= Cardinality(Undone(e)')
  BY DEF Spendable
<1>0. /\ device \in [ModemPvts -> [path : 1 .. Len(objs), sim : SimPvts, done : BOOLEAN]
                                    \cup {None}]
      /\ unspent \in [Paths -> Int] /\ unspent[e] >= Cardinality(Undone(e))
      /\ at \in [Threads -> {Idle} \cup Resolutions]
  BY DEF Base, TypeOK, Spendable
<1>f. /\ IsFiniteSet(Undone(e)) /\ Cardinality(Undone(e)) \in Nat
      /\ IsFiniteSet(Undone(e)') /\ Cardinality(Undone(e)') \in Nat
  <2>1. IsFiniteSet(Attachments') => IsFiniteSet(Undone(e)')
    BY FS_Subset DEF Undone, Attachments
  <2> QED
    BY <2>1, UndoneFinite, FS_CardinalityType DEF Base
<1>1. ASSUME unspent' = unspent, Undone(e)' \subseteq Undone(e)
      PROVE  unspent'[e] >= Cardinality(Undone(e)')
  <2>1. Cardinality(Undone(e)') <= Cardinality(Undone(e))
    BY <1>1, <1>f, FS_Subset
  <2> QED
    BY <1>0, <1>f, <1>1, <2>1
<1>2. CASE UNCHANGED vars
  BY <1>1, <1>2 DEF vars, pvts, Undone
<1>3. ASSUME Next, ~ \E t \in Threads : Attach(t), ~ \E p \in ModemPvts : RunCommands(p)
      PROVE  unspent'[e] >= Cardinality(Undone(e)')
  <2>1. unspent' = unspent /\ \A p \in ModemPvts : device'[p] \in {device[p], None}
    BY <1>3, Loosens
  <2> QED
    BY <1>1, <2>1 DEF Undone
<1>4. ASSUME NEW t \in Threads, Attach(t)
      PROVE  unspent'[e] >= Cardinality(Undone(e)')
  <2> DEFINE m == at[t].modem
  <2>1. /\ \A p \in ModemPvts : p /= m => device'[p] = device[p]
        /\ m \in ModemPvts => device'[m].path = at[t].path
        /\ unspent' = [unspent EXCEPT ![at[t].path] = @ + 1]
    BY <1>0, <1>4 DEF Attach
  <2>2. CASE e = at[t].path
    <3>1. Undone(e)' \subseteq Undone(e) \cup {m}
      BY <2>1 DEF Undone
    <3>2. /\ IsFiniteSet(Undone(e) \cup {m})
          /\ Cardinality(Undone(e) \cup {m}) <= Cardinality(Undone(e)) + 1
      <4>1. /\ IsFiniteSet(Undone(e) \cup {m})
            /\ \/ Cardinality(Undone(e) \cup {m}) = Cardinality(Undone(e))
               \/ Cardinality(Undone(e) \cup {m}) = Cardinality(Undone(e)) + 1
        BY <1>f, FS_AddElement, Zenon
      <4> QED
        BY <1>f, <4>1
    <3>3. Cardinality(Undone(e)') <= Cardinality(Undone(e) \cup {m})
      BY <3>1, <3>2, FS_Subset
    <3>4. Cardinality(Undone(e) \cup {m}) \in Nat
      BY <3>2, FS_CardinalityType
    <3>5. unspent'[e] = unspent[e] + 1
      BY <1>0, <2>1, <2>2
    <3> QED
      BY <1>0, <1>f, <3>2, <3>3, <3>4, <3>5
  <2>3. CASE e /= at[t].path
    <3>1. Undone(e)' \subseteq Undone(e)
      BY <2>1, <2>3 DEF Undone
    <3>2. unspent'[e] = unspent[e]
      BY <1>0, <2>1, <2>3
    <3>3. Cardinality(Undone(e)') <= Cardinality(Undone(e))
      BY <3>1, <1>f, FS_Subset
    <3> QED
      BY <1>0, <1>f, <3>2, <3>3
  <2> QED
    BY <2>2, <2>3
<1>5. ASSUME NEW p \in ModemPvts, RunCommands(p)
      PROVE  unspent'[e] >= Cardinality(Undone(e)')
  <2>1. CASE ~ Kickable(p)
    BY <1>1, <1>5, <2>1 DEF RunCommands, Undone
  <2>2. CASE Kickable(p)
    <3>1. /\ device' = [device EXCEPT ![p].done = TRUE]
          /\ unspent' = [unspent EXCEPT ![device[p].path] = @ - 1]
      BY <1>5, <2>2 DEF RunCommands
    <3>2. device[p] \in [path : 1 .. Len(objs), sim : SimPvts, done : BOOLEAN]
      BY <1>0, <2>2 DEF Kickable
    <3>3. /\ \A q \in ModemPvts : q /= p => device'[q] = device[q]
          /\ device'[p].done
      BY <1>0, <3>1, <3>2
    <3>4. CASE e = device[p].path
      <4>1. p \in Undone(e)
        BY <2>2, <3>4 DEF Kickable, Undone
      <4>2. Undone(e)' \subseteq Undone(e) \ {p}
        BY <3>3 DEF Undone
      <4>3. /\ IsFiniteSet(Undone(e) \ {p})
            /\ Cardinality(Undone(e) \ {p}) = Cardinality(Undone(e)) - 1
        BY <1>f, <4>1, FS_RemoveElement
      <4>4. Cardinality(Undone(e)') <= Cardinality(Undone(e) \ {p})
        BY <4>2, <4>3, FS_Subset
      <4>5. unspent'[e] = unspent[e] - 1
        BY <1>0, <3>1, <3>4
      <4> QED
        BY <1>0, <1>f, <4>3, <4>4, <4>5
    <3>5. CASE e /= device[p].path
      <4>1. Undone(e)' \subseteq Undone(e)
        BY <3>3 DEF Undone
      <4>2. unspent'[e] = unspent[e]
        BY <1>0, <3>1, <3>5
      <4>3. Cardinality(Undone(e)') <= Cardinality(Undone(e))
        BY <4>1, <1>f, FS_Subset
      <4> QED
        BY <1>0, <1>f, <4>2, <4>3
    <3> QED
      BY <3>4, <3>5
  <2> QED
    BY <2>1, <2>2
<1> QED
  BY <1>2, <1>3, <1>4, <1>5

\* atinit_task, "once per appearance": however many kicks race with the task, the
\* init commands run at most once for each time an object was attached.
THEOREM CommandsAtMostOnce == Spec => []CommandsOnce
<1>1. Init => Spendable
  <2> SUFFICES ASSUME Init, NEW e \in Paths PROVE unspent[e] >= Cardinality(Undone(e))
    BY DEF Spendable
  <2>1. Undone(e) = {} /\ unspent[e] = 0
    BY DEF Init, Undone, Paths
  <2> QED
    BY <2>1, FS_EmptySet
<1>2. Base /\ Spendable => CommandsOnce
  <2> SUFFICES ASSUME Base, Spendable, NEW e \in Paths PROVE unspent[e] >= 0
    BY DEF CommandsOnce
  <2> QED
    BY UndoneFinite DEF Base, TypeOK, Spendable
<1> QED
  BY <1>1, <1>2, SpendableNext, BaseHolds, PTL DEF Spec

-----------------------------------------------------------------------------
(* What leads from an object to its pvts and back *)

Active(t) == at[t] /= Idle

\* A removal of the object waits for the serializer of the hotplug.
Pending(e) == \E i \in 1 .. Len(queue) : queue[i].op = "removed" /\ queue[i].path = e

\* A pvt and what is on the bus go by the identifiers of one object.
Matching ==
  /\ \A p \in ModemPvts : device[p] /= None =>
       /\ objs[device[p].path].modem = p[1] /\ objs[device[p].path].sim = device[p].sim[1]
  /\ \A t \in Threads : Active(t) =>
       /\ at[t].pc /= "find" => objs[at[t].path].modem = at[t].modem[1]
       /\ at[t].pc \notin {"find", "sim"} => objs[at[t].path].sim = at[t].sim[1]

\* The names in a container, and the modems and SIMs on the bus, are all different.
Distinct ==
  /\ \A p, q \in modems : p[1] = q[1] => p = q
  /\ \A e, f \in bus : objs[e].modem = objs[f].modem \/ objs[e].sim = objs[f].sim => e = f

\* The thread that loads resolves in its walk only.
Walking == Active("reload") => phase = "walk"

\* The two threads take turns, and what happens on the bus is noticed from the load on.
Separate ==
  /\ phase /= "idle" => ~ Active("resolver") /\ life /= "down"
  /\ life = "loading" => phase /= "idle"
  /\ life /= "up" => ~ Active("resolver") /\ queue = <<>>
  /\ life = "down" => \A p \in ModemPvts : device[p] = None

\* What is attached, or about to be, is in the container.
Contained ==
  /\ \A p \in ModemPvts : device[p] /= None => p \in modems
  /\ \A t \in Threads : Active(t) /\ at[t].pc /= "find" => at[t].modem \in modems

\* An object that left the bus is still attached only until its removal is taken.
Noticed ==
  /\ \A p \in ModemPvts : device[p] /= None =>
       device[p].path \in bus \/ Pending(device[p].path)
  /\ \A t \in Threads : at[t].pc = "attach" => at[t].path \in bus \/ Pending(at[t].path)

\* The SIM of an attached modem leads back to it, or is about to, or the object is gone.
LeadsBack == \A p \in ModemPvts : device[p] /= None =>
  \/ assigned[device[p].sim] = p
  \/ \E t \in Threads : at[t].pc = "assign" /\ at[t].modem = p /\ at[t].sim = device[p].sim
  \/ Pending(device[p].path)

\* The SIM being attached is in no other modem that is still on the bus.
Freed == \A t \in Threads, p \in ModemPvts :
  /\ at[t].pc \in {"attach", "assign"} /\ device[p] /= None
  /\ device[p].sim = at[t].sim /\ device[p].path /= at[t].path
  => device[p].path \notin bus

Watched == Separate /\ Contained /\ Noticed /\ LeadsBack /\ Freed

Linked == Matching /\ Distinct /\ Walking /\ (~ raced => Watched)

\* Channels own modems of their own, unless they took one that was not theirs any more;
\* the SIM of a call that begins leads to the modem that was tested.
Owned == ~ raced /\ ~ moved =>
  /\ \A s \in channels : assigned[s] \notin overtaken =>
       assigned[s] \in modems /\ owner[assigned[s]]
  /\ \A s, r \in channels : assigned[s] = assigned[r] /\ assigned[s] \notin overtaken => s = r
  /\ \A s \in SimPvts : asking[s] /= None => asking[s] = assigned[s]

\* The parts of the invariant that a step keeps are shown from what it does to one
\* variable at a time.

\* What a container or a channel holds is alive, and so is what that refers to.
LEMMA RootedAlive ==
  ASSUME NEW x \in Pvts, x \in Rooted
  PROVE  x \in Alive
<1>1. Kept({x}, Rooted) /\ {x} \in SUBSET Pvts
  BY DEF Kept
<1> QED
  BY <1>1 DEF Alive

LEMMA ReferredAlive ==
  ASSUME NEW y \in Alive, NEW x \in Pvts, Refers(y, x)
  PROVE  x \in Alive
<1>1. PICK S \in SUBSET Pvts : Kept(S, Rooted) /\ y \in S
  BY DEF Alive
<1>2. Kept(S \cup {x}, Rooted) /\ S \cup {x} \in SUBSET Pvts
  BY <1>1 DEF Kept
<1> QED
  BY <1>2 DEF Alive

\* An object keeps its identifiers; one that leaves the bus after the load was
\* noticed leaves a removal behind.
LEMMA ObjsStep ==
  ASSUME Base, [Next]_vars, NEW e \in 1 .. Len(objs)
  PROVE  /\ e \in 1 .. Len(objs') /\ objs'[e] = objs[e]
         /\ e \in bus' => e \in bus
         /\ e \in bus /\ life /= "down" /\ ~ raced' => e \in bus' \/ Pending(e)'
<1>0. WorldType /\ LoadType /\ PvtsType /\ AtType
  BY TypeParts DEF Base, AllTypes
<1> USE <1>0 DEF world, load, links, pvts, line, past
<1>1. ASSUME NEW d \in Devices, NEW c \in Cards, Appears(d, c)
      PROVE  /\ e \in 1 .. Len(objs') /\ objs'[e] = objs[e]
             /\ bus' = bus \cup {Len(objs) + 1} /\ e /= Len(objs) + 1
  <2>1. bus' = bus \cup {Len(objs')} /\ Len(objs') = Len(objs) + 1
    BY <1>1, Grows DEF Appears
  <2>2. e \in 1 .. Len(objs') /\ objs'[e] = objs[e]
    BY <1>1, Grows
  <2>3. e /= Len(objs) + 1
    BY DEF WorldType
  <2> QED
    BY <2>1, <2>2, <2>3
<1>2. ASSUME NEW f \in bus, Disappears(f)
      PROVE  /\ objs' = objs /\ bus' \subseteq bus
             /\ e \in bus /\ life /= "down" /\ ~ raced' => e \in bus' \/ Pending(e)'
  <2>1. objs' = objs /\ bus' = bus \ {f}
    BY <1>2 DEF Disappears
  <2>2. ASSUME life /= "down", ~ raced' PROVE Pending(f)'
    <3> DEFINE task == [op |-> "removed", path |-> f]
    <3>1. life = "up" /\ queue' = Append(queue, task)
      BY <1>2, <2>2 DEF Disappears, Push, LoadType
    <3>2. /\ Len(queue') = Len(queue) + 1 /\ queue'[Len(queue')] = task
          /\ Len(queue') \in 1 .. Len(queue')
      <4> HIDE DEF task
      <4> QED
        BY <3>1 DEF WorldType
    <3> QED
      BY <3>2 DEF Pending
  <2> QED
    BY <2>1, <2>2
<1>3. ASSUME [Next]_vars, ~ \E d \in Devices, c \in Cards : Appears(d, c),
             ~ \E f \in bus : Disappears(f)
      PROVE  objs' = objs /\ bus' = bus
  <2>1. CASE \/ UNCHANGED vars \/ \E f \in bus : Identified(f) \/ Rises(f)
             \/ \E read \in Confs : Begin(read)
             \/ \E s \in SimPvts : CallNext(s)
             \/ \E p \in ModemPvts : RunCommands(p)
    BY <2>1 DEF vars, Identified, Rises, Begin, CallNext, CallAsks, CallTakes, CallFails, CallEnds, RunCommands
  <2>2. CASE LoadNext
    BY <2>2 DEF LoadNext, BuildSims, PruneSims, EndLoad, Prune, Walk
  <2>3. CASE TakeAdded \/ TakeRemoved \/ \E t \in Threads : ResolveNext(t)
    BY <2>3 DEF TakeAdded, TakeRemoved, ResolveNext, FindModem, FindSim, Attach, Assign, Kick
  <2> QED
    BY <1>3, <2>1, <2>2, <2>3 DEF Next
<1> QED
  BY <1>1, <1>2, <1>3

\* A removal stays in the queue until the serializer takes it.
LEMMA PendingStep ==
  ASSUME Base, [Next]_vars, NEW e, Pending(e)
  PROVE  Pending(e)' \/ (TakeRemoved /\ e = Next1.path)
<1>0. WorldType /\ LoadType /\ PvtsType /\ AtType
  BY TypeParts DEF Base, AllTypes
<1> USE <1>0 DEF world, load, links, pvts, line, past
<1>1. PICK i \in 1 .. Len(queue) : queue[i].op = "removed" /\ queue[i].path = e
  BY DEF Pending
<1>2. ASSUME NEW task, queue' = Append(queue, task) PROVE Pending(e)'
  <2>1. i \in 1 .. Len(queue') /\ queue'[i] = queue[i]
    BY <1>1, <1>2 DEF WorldType
  <2> QED
    BY <1>1, <2>1 DEF Pending
<1>3. CASE queue' = queue
  BY <1>3 DEF Pending
<1>4. ASSUME queue' = Tail(queue), queue /= <<>>, i /= 1 PROVE Pending(e)'
  <2>1. i - 1 \in 1 .. Len(queue') /\ queue'[i - 1] = queue[i]
    BY <1>1, <1>4 DEF WorldType
  <2> QED
    BY <1>1, <2>1 DEF Pending
<1>5. CASE TakeAdded
  <2>1. queue[1].op = "added" /\ queue /= <<>> /\ queue' = Tail(queue)
    BY <1>5 DEF TakeAdded, Next1, WorldType
  <2> QED
    BY <1>1, <1>4, <2>1
<1>6. CASE TakeRemoved
  <2>1. Next1 = queue[1] /\ queue /= <<>> /\ queue' = Tail(queue)
    BY <1>6 DEF TakeRemoved, Next1, WorldType
  <2> QED
    BY <1>1, <1>4, <1>6, <2>1
<1>7. CASE \/ \E d \in Devices, c \in Cards : Appears(d, c)
           \/ \E f \in bus : Disappears(f)
  BY <1>2, <1>3, <1>7 DEF Appears, Disappears, Push
<1>8. CASE \/ UNCHANGED vars \/ \E f \in bus : Identified(f) \/ Rises(f)
           \/ \E read \in Confs : Begin(read)
           \/ \E s \in SimPvts : CallNext(s)
           \/ \E p \in ModemPvts : RunCommands(p)
  BY <1>3, <1>8 DEF vars, Identified, Rises, Begin, CallNext, CallAsks, CallTakes, CallFails, CallEnds, RunCommands
<1>9. CASE LoadNext
  BY <1>3, <1>9 DEF LoadNext, BuildSims, PruneSims, EndLoad, Prune, Walk
<1>10. CASE \E t \in Threads : ResolveNext(t)
  BY <1>3, <1>10 DEF ResolveNext, FindModem, FindSim, Attach, Assign, Kick
<1> QED
  BY <1>5, <1>6, <1>7, <1>8, <1>9, <1>10 DEF Next

\* What is attached was attached before, or is by this step.
LEMMA DeviceStep ==
  ASSUME Base, [Next]_vars, NEW p \in ModemPvts, device'[p] /= None
  PROVE  \/ /\ device[p] /= None
            /\ device'[p].path = device[p].path /\ device'[p].sim = device[p].sim
         \/ \E t \in Threads : /\ Attach(t) /\ at[t].modem = p
                               /\ device'[p].path = at[t].path /\ device'[p].sim = at[t].sim
<1>0. WorldType /\ LoadType /\ PvtsType /\ AtType
  BY TypeParts DEF Base, AllTypes
<1>1. CASE UNCHANGED vars
  BY <1>1 DEF vars, pvts
<1>2. ASSUME Next, ~ \E t \in Threads : Attach(t), ~ \E q \in ModemPvts : RunCommands(q)
      PROVE  device[p] /= None /\ device'[p] = device[p]
  BY <1>2, Loosens
<1>3. ASSUME NEW t \in Threads, Attach(t)
      PROVE  \/ device'[p] = device[p]
             \/ at[t].modem = p /\ device'[p].path = at[t].path /\ device'[p].sim = at[t].sim
  BY <1>0, <1>3 DEF Attach, PvtsType
<1>4. ASSUME NEW q \in ModemPvts, RunCommands(q)
      PROVE  /\ device[p] /= None
             /\ device'[p].path = device[p].path /\ device'[p].sim = device[p].sim
  <2>1. CASE Kickable(q)
    <3>1. device' = [device EXCEPT ![q].done = TRUE] /\ device[q] /= None
      BY <1>4, <2>1 DEF RunCommands, Kickable
    <3>2. device[q] \in [path : 1 .. Len(objs), sim : SimPvts, done : BOOLEAN]
      BY <1>0, <3>1 DEF PvtsType
    <3> QED
      BY <1>0, <3>1, <3>2 DEF PvtsType
  <2>2. CASE ~ Kickable(q)
    BY <1>4, <2>2 DEF RunCommands
  <2> QED
    BY <2>1, <2>2
<1> QED
  BY <1>1, <1>2, <1>3, <1>4

\* How far a resolution gets in a step.
LEMMA AtStep ==
  ASSUME Base, [Next]_vars, NEW t \in Threads
  PROVE  \/ at'[t] = at[t]
         \/ at'[t] = Idle /\ at[t].pc \in {"find", "sim", "kick"}
         \/ at'[t].pc = "find" /\ (TakeAdded \/ \E e \in todo : Walk(e))
         \/ /\ FindModem(t) /\ at[t].pc = "find" /\ at'[t].pc = "sim"
            /\ at'[t].path = at[t].path
            /\ at'[t].modem \in modems /\ at'[t].modem[1] = objs[at[t].path].modem
         \/ /\ FindSim(t) /\ at[t].pc = "sim" /\ at'[t].pc = "attach"
            /\ at'[t].path = at[t].path /\ at'[t].modem = at[t].modem
            /\ at[t].path \in bus /\ at'[t].sim[1] = objs[at[t].path].sim
         \/ /\ \/ Attach(t) /\ at[t].pc = "attach" /\ at'[t].pc = "assign"
               \/ Assign(t) /\ at[t].pc = "assign" /\ at'[t].pc = "kick"
            /\ at'[t].path = at[t].path /\ at'[t].modem = at[t].modem
            /\ at'[t].sim = at[t].sim
<1>0. WorldType /\ LoadType /\ PvtsType /\ AtType
  BY TypeParts DEF Base, AllTypes
<1> USE DEF world, load, links, pvts, line, past
<1>1. CASE \/ UNCHANGED vars
           \/ \E d \in Devices, c \in Cards : Appears(d, c)
           \/ \E f \in bus : Disappears(f) \/ Identified(f) \/ Rises(f)
           \/ \E read \in Confs : Begin(read)
           \/ \E s \in SimPvts : CallNext(s)
           \/ \E p \in ModemPvts : RunCommands(p)
           \/ TakeRemoved
  BY <1>1 DEF vars, Appears, Disappears, Identified, Rises, Begin, CallNext, CallAsks, CallTakes, CallFails, CallEnds,
              RunCommands, TakeRemoved
<1>2. CASE TakeAdded
  BY <1>0, <1>2 DEF TakeAdded, Resolving, AtType, Threads
<1>3. ASSUME NEW e \in todo, Walk(e)
      PROVE  at'[t] = at[t] \/ at'[t].pc = "find"
  BY <1>0, <1>3 DEF Walk, Resolving, AtType, Threads
<1>4. CASE BuildSims \/ PruneSims \/ EndLoad \/ \E p \in marked : Prune(p)
  BY <1>4 DEF BuildSims, PruneSims, EndLoad, Prune
<1>5. ASSUME NEW u \in Threads, ResolveNext(u), u /= t
      PROVE  at'[t] = at[t]
  BY <1>0, <1>5 DEF ResolveNext, FindModem, FindSim, Attach, Assign, Kick, Done, AtType
<1>6. CASE ResolveNext(t)
  <2>1. at[t] \in Resolutions
    BY <1>0, <1>6 DEF ResolveNext, FindModem, FindSim, Attach, Assign, Kick, AtType, Idle
  <2>2. CASE FindModem(t)
    BY <1>0, <2>1, <2>2 DEF FindModem, Done, AtType, Resolutions
  <2>3. CASE FindSim(t)
    BY <1>0, <2>1, <2>3 DEF FindSim, Done, AtType, Resolutions
  <2>4. CASE Attach(t)
    BY <1>0, <2>1, <2>4 DEF Attach, AtType, Resolutions
  <2>5. CASE Assign(t)
    BY <1>0, <2>1, <2>5 DEF Assign, AtType, Resolutions
  <2>6. CASE Kick(t)
    BY <1>0, <2>1, <2>6 DEF Kick, Done, AtType
  <2> QED
    BY <1>6, <2>2, <2>3, <2>4, <2>5, <2>6 DEF ResolveNext
<1> QED
  BY <1>1, <1>2, <1>3, <1>4, <1>5, <1>6 DEF Next, LoadNext

\* A modem leaves the container in a prune, which detaches it.
LEMMA ModemsStep ==
  ASSUME Base, [Next]_vars, NEW p \in modems, p \notin modems'
  PROVE  phase = "prune" /\ ~ owner[p] /\ device'[p] = None
<1>0. WorldType /\ LoadType /\ PvtsType /\ AtType
  BY TypeParts DEF Base, AllTypes
<1> USE DEF world, load, links, pvts, line, past
<1>1. CASE \/ UNCHANGED vars
           \/ \E d \in Devices, c \in Cards : Appears(d, c)
           \/ \E f \in bus : Disappears(f) \/ Identified(f) \/ Rises(f)
           \/ \E read \in Confs : Begin(read)
           \/ \E s \in SimPvts : CallNext(s)
           \/ \E q \in ModemPvts : RunCommands(q)
           \/ TakeAdded \/ TakeRemoved
  BY <1>1 DEF vars, Appears, Disappears, Identified, Rises, Begin, CallNext, CallAsks, CallTakes, CallFails, CallEnds,
              RunCommands, TakeAdded, TakeRemoved
<1>2. CASE BuildSims \/ PruneSims \/ EndLoad \/ \E e \in todo : Walk(e)
  BY <1>2 DEF BuildSims, PruneSims, EndLoad, Walk
<1>3. ASSUME NEW t \in Threads, ResolveNext(t) PROVE modems' = modems
  BY <1>3 DEF ResolveNext, FindModem, FindSim, Attach, Assign, Kick
<1>4. ASSUME NEW q \in marked, Prune(q)
      PROVE  phase = "prune" /\ ~ owner[p] /\ device'[p] = None
  BY <1>0, <1>4 DEF Prune, Detached, LoadType, PvtsType
<1> QED
  BY <1>1, <1>2, <1>3, <1>4 DEF Next, LoadNext

\* Which modem a SIM leads to changes when it is assigned, and when it dies.
LEMMA AssignedStep ==
  ASSUME Base, [Next]_vars, NEW s \in SimPvts, assigned'[s] /= assigned[s]
  PROVE  \/ EndLoad /\ s \notin Alive
         \/ \E t \in Threads : Assign(t) /\ s = at[t].sim /\ assigned'[s] = at[t].modem
<1>0. WorldType /\ LoadType /\ PvtsType /\ AtType
  BY TypeParts DEF Base, AllTypes
<1> USE DEF world, load, links, pvts, line, past
<1>1. CASE \/ UNCHANGED vars
           \/ \E d \in Devices, c \in Cards : Appears(d, c)
           \/ \E f \in bus : Disappears(f) \/ Identified(f) \/ Rises(f)
           \/ \E read \in Confs : Begin(read)
           \/ \E r \in SimPvts : CallNext(r)
           \/ \E q \in ModemPvts : RunCommands(q)
           \/ TakeAdded \/ TakeRemoved
  BY <1>1 DEF vars, Appears, Disappears, Identified, Rises, Begin, CallNext, CallAsks, CallTakes, CallFails, CallEnds,
              RunCommands, TakeAdded, TakeRemoved
<1>2. CASE BuildSims \/ PruneSims \/ (\E e \in todo : Walk(e)) \/ \E p \in marked : Prune(p)
  BY <1>2 DEF BuildSims, PruneSims, Walk, Prune
<1>3. CASE EndLoad
  BY <1>3 DEF EndLoad
<1>4. ASSUME NEW t \in Threads, ResolveNext(t)
      PROVE  Assign(t) /\ s = at[t].sim /\ assigned'[s] = at[t].modem
  BY <1>0, <1>4 DEF ResolveNext, FindModem, FindSim, Attach, Assign, Kick, PvtsType
<1> QED
  BY <1>1, <1>2, <1>3, <1>4 DEF Next, LoadNext

\* What was raced, or moved, remains so.
LEMMA PastStays ==
  ASSUME Base, [Next]_vars
  PROVE  (raced => raced') /\ (moved => moved')
<1>0. raced \in BOOLEAN /\ moved \in BOOLEAN
  BY DEF Base, TypeOK
<1> USE DEF world, load, links, pvts, line, past
<1>1. CASE \/ UNCHANGED vars
           \/ \E f \in bus : Identified(f) \/ Rises(f)
           \/ \E r \in SimPvts : CallNext(r)
           \/ \E q \in ModemPvts : RunCommands(q)
  BY <1>1 DEF vars, Identified, Rises, CallNext, CallAsks, CallTakes, CallFails, CallEnds, RunCommands
<1>2. CASE \/ \E d \in Devices, c \in Cards : Appears(d, c)
           \/ \E f \in bus : Disappears(f)
  BY <1>0, <1>2 DEF Appears, Disappears, Push
<1>3. CASE TakeAdded \/ TakeRemoved \/ \E read \in Confs : Begin(read)
  BY <1>0, <1>3 DEF Begin, TakeAdded, TakeRemoved
<1>4. CASE LoadNext
  BY <1>4 DEF LoadNext, BuildSims, PruneSims, EndLoad, Prune, Walk
<1>5. ASSUME NEW t \in Threads, ResolveNext(t) PROVE (raced => raced') /\ (moved => moved')
  <2>1. CASE Assign(t)
    BY <1>0, <2>1 DEF Assign
  <2> QED
    BY <1>5, <2>1 DEF ResolveNext, FindModem, FindSim, Attach, Kick
<1> QED
  BY <1>1, <1>2, <1>3, <1>4, <1>5 DEF Next

\* The identifiers in a container are its own; so are those on the bus.
LEMMA DistinctNext ==
  ASSUME Base, Distinct, [Next]_vars
  PROVE  Distinct'
<1>0. WorldType /\ LoadType /\ PvtsType /\ AtType
  BY TypeParts DEF Base, AllTypes
<1>1. ASSUME NEW p \in modems', NEW q \in modems', p[1] = q[1] PROVE p = q
  <2>1. CASE \E read \in Confs : Begin(read)
    <3>1. PICK read \in Confs : Begin(read)
      BY <2>1
    <3>2. modems' = modems \cup {<<d, loads'>> : d \in read.modems \ Names(modems)}
      BY <3>1 DEF Begin
    <3> QED
      BY <1>1, <3>2 DEF Distinct, Names
  <2>2. CASE ~ \E read \in Confs : Begin(read)
    <3>1. modems' \subseteq modems
      <4> USE DEF world, load, links, pvts, line, past
      <4>1. CASE \/ UNCHANGED vars
                 \/ \E d \in Devices, c \in Cards : Appears(d, c)
                 \/ \E f \in bus : Disappears(f) \/ Identified(f) \/ Rises(f)
                 \/ \E r \in SimPvts : CallNext(r)
                 \/ \E r \in ModemPvts : RunCommands(r)
                 \/ TakeAdded \/ TakeRemoved
        BY <4>1 DEF vars, Appears, Disappears, Identified, Rises, CallNext, CallAsks, CallTakes, CallFails, CallEnds,
                    RunCommands, TakeAdded, TakeRemoved
      <4>2. CASE LoadNext
        BY <4>2 DEF LoadNext, BuildSims, PruneSims, EndLoad, Prune, Walk
      <4>3. ASSUME NEW t \in Threads, ResolveNext(t) PROVE modems' = modems
        BY <4>3 DEF ResolveNext, FindModem, FindSim, Attach, Assign, Kick
      <4> QED
        BY <2>2, <4>1, <4>2, <4>3 DEF Next
    <3> QED
      BY <1>1, <3>1 DEF Distinct
  <2> QED
    BY <2>1, <2>2
<1>2. ASSUME NEW e \in bus', NEW f \in bus',
             objs'[e].modem = objs'[f].modem \/ objs'[e].sim = objs'[f].sim
      PROVE  e = f
  <2>1. ASSUME NEW d \in Devices, NEW c \in Cards, Appears(d, c) PROVE e = f
    <3> DEFINE new == Len(objs')
    <3>1. /\ bus' = bus \cup {new} /\ objs'[new] = [modem |-> d, sim |-> c]
          /\ \A g \in bus : objs'[g] = objs[g] /\ objs[g].modem /= d /\ objs[g].sim /= c
      BY <1>0, <2>1, Grows DEF Appears, WorldType
    <3> HIDE DEF new
    <3> QED
      BY <1>2, <3>1 DEF Distinct
  <2>2. CASE ~ \E d \in Devices, c \in Cards : Appears(d, c)
    <3>1. bus' \subseteq bus /\ bus \subseteq 1 .. Len(objs)
      <4> USE DEF world, load, links, pvts, line, past
      <4>1. CASE \/ UNCHANGED vars
                 \/ \E g \in bus : Disappears(g) \/ Identified(g) \/ Rises(g)
                 \/ \E read \in Confs : Begin(read)
                 \/ \E r \in SimPvts : CallNext(r)
                 \/ \E r \in ModemPvts : RunCommands(r)
                 \/ TakeAdded \/ TakeRemoved
        BY <1>0, <4>1 DEF vars, Disappears, Identified, Rises, Begin, CallNext, CallAsks, CallTakes, CallFails, CallEnds,
                    RunCommands, TakeAdded, TakeRemoved, WorldType
      <4>2. CASE LoadNext
        BY <1>0, <4>2 DEF LoadNext, BuildSims, PruneSims, EndLoad, Prune, Walk, WorldType
      <4>3. ASSUME NEW t \in Threads, ResolveNext(t) PROVE bus' = bus
        BY <4>3 DEF ResolveNext, FindModem, FindSim, Attach, Assign, Kick
      <4> QED
        BY <1>0, <2>2, <4>1, <4>2, <4>3 DEF Next, WorldType
    <3>2. objs'[e] = objs[e] /\ objs'[f] = objs[f] /\ e \in bus /\ f \in bus
      BY <3>1, ObjsStep
    <3> QED
      BY <1>2, <3>2 DEF Distinct
  <2> QED
    BY <2>1, <2>2
<1> QED
  BY <1>1, <1>2 DEF Distinct

\* What a resolution found stays right: identifiers do not change.
LEMMA MatchingNext ==
  ASSUME Base, Matching, [Next]_vars
  PROVE  Matching'
<1>0. WorldType /\ LoadType /\ PvtsType /\ AtType
  BY TypeParts DEF Base, AllTypes
<1>1. ASSUME NEW p \in ModemPvts, device'[p] /= None
      PROVE  /\ objs'[device'[p].path].modem = p[1]
             /\ objs'[device'[p].path].sim = device'[p].sim[1]
  <2>1. CASE /\ device[p] /= None
             /\ device'[p].path = device[p].path /\ device'[p].sim = device[p].sim
    <3>1. device[p].path \in 1 .. Len(objs)
      BY <1>0, <2>1 DEF PvtsType
    <3> QED
      BY <2>1, <3>1, ObjsStep DEF Matching
  <2>2. ASSUME NEW t \in Threads, Attach(t), at[t].modem = p,
               device'[p].path = at[t].path, device'[p].sim = at[t].sim
        PROVE  /\ objs'[device'[p].path].modem = p[1]
               /\ objs'[device'[p].path].sim = device'[p].sim[1]
    <3>1. at[t] /= Idle /\ at[t].pc = "attach"
      BY <2>2 DEF Attach, Idle
    <3>2. at[t].path \in 1 .. Len(objs)
      BY <1>0, <3>1 DEF AtType, Resolved
    <3> QED
      BY <2>2, <3>1, <3>2, ObjsStep DEF Matching, Active
  <2> QED
    BY <1>1, <2>1, <2>2, DeviceStep
<1>2. ASSUME NEW t \in Threads, at'[t] /= Idle
      PROVE  /\ at'[t].pc /= "find" => objs'[at'[t].path].modem = at'[t].modem[1]
             /\ at'[t].pc \notin {"find", "sim"} => objs'[at'[t].path].sim = at'[t].sim[1]
  <2>1. CASE at'[t].pc = "find"
    BY <2>1
  <2>2. CASE at'[t].pc /= "find"
    <3>1. /\ at[t] /= Idle /\ at'[t].path = at[t].path
          /\ at'[t].modem[1] = objs[at[t].path].modem
          /\ at'[t].pc /= "sim" => at'[t].sim[1] = objs[at[t].path].sim
      BY <1>2, <2>2, AtStep DEF Matching, Active, Idle
    <3>2. at[t].path \in 1 .. Len(objs)
      BY <1>0, <3>1 DEF AtType, Resolved
    <3>3. objs'[at[t].path] = objs[at[t].path]
      BY <3>2, ObjsStep
    <3> QED
      BY <3>1, <3>3
  <2> QED
    BY <2>1, <2>2
<1> QED
  BY <1>1, <1>2 DEF Matching, Active

\* One thread resolves at a time, after a load has begun and not while it prunes.
LEMMA Turns ==
  ASSUME Base, Walking, Separate, NEW t \in Threads, Active(t)
  PROVE  life /= "down" /\ phase \in {"idle", "walk"} /\ \A u \in Threads : Active(u) => u = t
BY DEF Base, TypeOK, Walking, Separate, Threads

\* The walk of a load ends when its last resolution has.
LEMMA WalkingNext ==
  ASSUME Base, Walking, [Next]_vars
  PROVE  Walking'
<1>0. at \in [Threads -> {Idle} \cup Resolutions]
  BY DEF Base, TypeOK
<1> USE DEF world, load, links, pvts, line, past
<1>1. CASE \/ UNCHANGED vars
           \/ \E d \in Devices, c \in Cards : Appears(d, c)
           \/ \E f \in bus : Disappears(f) \/ Identified(f) \/ Rises(f)
           \/ \E r \in SimPvts : CallNext(r)
           \/ \E q \in ModemPvts : RunCommands(q)
           \/ TakeRemoved
  BY <1>1 DEF vars, Appears, Disappears, Identified, Rises, CallNext, CallAsks, CallTakes, CallFails, CallEnds,
              RunCommands, TakeRemoved, Walking, Active
<1>2. CASE (\E read \in Confs : Begin(read)) \/ TakeAdded
  BY <1>0, <1>2 DEF Begin, TakeAdded, Walking, Active, Threads
<1>3. CASE LoadNext
  BY <1>3 DEF LoadNext, BuildSims, PruneSims, EndLoad, Prune, Walk, Walking, Active
<1>4. ASSUME NEW t \in Threads, ResolveNext(t) PROVE Walking'
  <2>1. phase' = phase
    BY <1>4 DEF ResolveNext, FindModem, FindSim, Attach, Assign, Kick
  <2>2. at[t] /= Idle /\ \A u \in Threads : u /= t => at'[u] = at[u]
    BY <1>0, <1>4 DEF ResolveNext, FindModem, FindSim, Attach, Assign, Kick, Done, Idle
  <2> QED
    BY <2>1, <2>2 DEF Walking, Active, Threads
<1> QED
  BY <1>1, <1>2, <1>3, <1>4 DEF Next

\* The two threads keep taking turns, unless they race.
LEMMA SeparateNext ==
  ASSUME Base, Walking, Separate, [Next]_vars, ~ raced'
  PROVE  Separate'
<1>0. WorldType /\ LoadType /\ PvtsType /\ AtType
  BY TypeParts DEF Base, AllTypes
<1>1. /\ phase' /= "idle" => ~ Active("resolver")' /\ life' /= "down"
      /\ life' = "loading" => phase' /= "idle"
      /\ life' /= "up" => ~ Active("resolver")' /\ queue' = <<>>
      /\ life' = "down" => life = "down"
  <2> USE DEF world, load, links, pvts, line, past
  <2>1. CASE \/ UNCHANGED vars
             \/ \E f \in bus : Identified(f) \/ Rises(f)
             \/ \E r \in SimPvts : CallNext(r)
             \/ \E q \in ModemPvts : RunCommands(q)
    BY <2>1 DEF vars, Identified, Rises, CallNext, CallAsks, CallTakes, CallFails, CallEnds, RunCommands, Separate, Active
  <2>7. CASE \/ \E d \in Devices, c \in Cards : Appears(d, c)
             \/ \E f \in bus : Disappears(f)
    BY <2>7 DEF Appears, Disappears, Push, Separate, Active
  <2>8. CASE TakeRemoved
    BY <2>8 DEF TakeRemoved, Separate, Active
  <2>2. ASSUME NEW read \in Confs, Begin(read)
        PROVE  /\ phase' = "sims" /\ life' \in {"loading", "up"} /\ ~ Active("resolver")'
               /\ life' /= "up" => life /= "up" /\ queue' = queue
    <3>1. at["resolver"] = Idle
      BY <1>0, <2>2 DEF Begin, AtType, PvtsType, Threads, Idle, Resolutions
    <3> QED
      BY <2>2, <3>1 DEF Begin, Active
  <2>3. CASE TakeAdded
    <3>1. queue /= <<>> /\ phase = "idle" /\ UNCHANGED <<phase, life>>
      BY <1>0, <2>3 DEF TakeAdded, PvtsType
    <3>2. life = "up"
      BY <3>1 DEF Separate
    <3> QED
      BY <3>1, <3>2
  <2>4. CASE BuildSims \/ PruneSims \/ EndLoad \/ \E p \in marked : Prune(p)
    BY <2>4 DEF BuildSims, PruneSims, EndLoad, Prune, Separate, Active
  <2>5. CASE \E e \in todo : Walk(e)
    BY <1>0, <2>5 DEF Walk, Separate, Active, AtType, Threads
  <2>6. ASSUME NEW t \in Threads, ResolveNext(t)
        PROVE  UNCHANGED <<phase, life, queue>> /\ (Active("resolver")' => Active("resolver"))
    <3>1. UNCHANGED <<phase, life, queue>> /\ Active(t)
      BY <2>6 DEF ResolveNext, FindModem, FindSim, Attach, Assign, Kick, Active, Idle
    <3>2. \A u \in Threads : u /= t => at'[u] = at[u]
      BY <1>0, <2>6 DEF ResolveNext, FindModem, FindSim, Attach, Assign, Kick, Done, AtType
    <3> QED
      BY <3>1, <3>2 DEF Active, Threads
  <2> QED
    BY <2>1, <2>2, <2>3, <2>4, <2>5, <2>6, <2>7, <2>8 DEF Next, LoadNext, Separate
<1>2. ASSUME life = "down", NEW p \in ModemPvts, device'[p] /= None PROVE FALSE
  <2>1. device[p] = None
    BY <1>2 DEF Separate
  <2>2. PICK t \in Threads : Attach(t)
    BY <1>2, <2>1, DeviceStep
  <2>3. Active(t)
    BY <2>2 DEF Attach, Active, Idle
  <2> QED
    BY <1>2, <2>3, Turns
<1> QED
  BY <1>1, <1>2 DEF Separate

\* A modem that is pruned is detached, and nothing resolves during a prune.
LEMMA ContainedNext ==
  ASSUME Base, Walking, Separate, Contained, [Next]_vars
  PROVE  Contained'
<1>1. ASSUME NEW p \in ModemPvts, device'[p] /= None PROVE p \in modems'
  <2>1. p \in modems
    <3>1. ASSUME NEW t \in Threads, Attach(t), at[t].modem = p PROVE p \in modems
      BY <3>1 DEF Attach, Contained, Active, Idle
    <3> QED
      BY <1>1, <3>1, DeviceStep DEF Contained
  <2> QED
    BY <1>1, <2>1, ModemsStep
<1>2. ASSUME NEW t \in Threads, at'[t] /= Idle, at'[t].pc /= "find"
      PROVE  at'[t].modem \in modems'
  <2>1. Active(t) /\ at'[t].modem \in modems
    BY <1>2, AtStep DEF Contained, Active, Idle
  <2>2. phase /= "prune"
    BY <2>1, Turns
  <2> QED
    BY <2>1, <2>2, ModemsStep
<1> QED
  BY <1>1, <1>2 DEF Contained, Active

\* The serializer takes a removal while nothing resolves, and detaches every modem that
\* is attached to the object.
LEMMA TakesRemoved ==
  ASSUME Base, Walking, Separate, Contained, TakeRemoved, ~ raced'
  PROVE  /\ \A t \in Threads : ~ Active(t)
         /\ \A p \in ModemPvts : device'[p] /= None => device[p].path /= Next1.path
<1>1. phase = "idle" /\ at["resolver"] = Idle
  BY DEF TakeRemoved, Base, TypeOK
<1>2. \A t \in Threads : ~ Active(t)
  BY <1>1 DEF Walking, Active, Threads
<1>3. ASSUME NEW p \in ModemPvts, device'[p] /= None, device[p].path = Next1.path
      PROVE  FALSE
  <2>1. device[p] /= None /\ ~ (p \in modems /\ p \in Handlers(Next1.path))
    BY <1>3 DEF TakeRemoved
  <2>2. p \in modems /\ p \in Alive
    BY <2>1, RootedAlive DEF Contained, Rooted, Pvts
  <2> QED
    BY <1>3, <2>1, <2>2 DEF Handlers
<1> QED
  BY <1>2, <1>3

\* A removal that waits still waits, or what was attached no longer is.
LEMMA StillPending ==
  ASSUME Base, Walking, Separate, Contained, [Next]_vars, ~ raced',
         NEW p \in ModemPvts, device'[p] /= None, NEW e, device[p].path = e, Pending(e)
  PROVE  Pending(e)'
BY PendingStep, TakesRemoved

\* What leaves the bus is taken away from the modems in time.
LEMMA NoticedNext ==
  ASSUME Base, Walking, Separate, Contained, Noticed, [Next]_vars, ~ raced'
  PROVE  Noticed'
<1>0. WorldType /\ LoadType /\ PvtsType /\ AtType
  BY TypeParts DEF Base, AllTypes
<1>1. ASSUME NEW p \in ModemPvts, device'[p] /= None, NEW e, e = device'[p].path
      PROVE  e \in bus' \/ Pending(e)'
  <2>1. CASE device[p] /= None /\ e = device[p].path
    <3>1. life /= "down" /\ e \in 1 .. Len(objs)
      BY <1>0, <2>1 DEF Separate, PvtsType
    <3>2. e \in bus \/ Pending(e)
      BY <2>1 DEF Noticed
    <3> QED
      BY <1>1, <2>1, <3>1, <3>2, ObjsStep, StillPending
  <2>2. ASSUME NEW t \in Threads, Attach(t), e = at[t].path
        PROVE  e \in bus' \/ Pending(e)'
    <3>1. UNCHANGED <<bus, queue>> /\ at[t].pc = "attach"
      BY <2>2 DEF Attach, world
    <3>2. e \in bus \/ Pending(e)
      BY <2>2, <3>1 DEF Noticed
    <3> QED
      BY <3>1, <3>2 DEF Pending
  <2> QED
    BY <1>1, <2>1, <2>2, DeviceStep
<1>2. ASSUME NEW t \in Threads, at'[t].pc = "attach", NEW e, e = at'[t].path
      PROVE  e \in bus' \/ Pending(e)'
  <2>1. CASE at'[t] = at[t]
    <3>1. Active(t) /\ life /= "down" /\ e \in 1 .. Len(objs)
      BY <1>0, <1>2, <2>1, Turns DEF Active, Idle, AtType, Resolved
    <3>2. e \in bus \/ Pending(e)
      BY <1>2, <2>1 DEF Noticed
    <3> QED
      BY <3>1, <3>2, ObjsStep, PendingStep, TakesRemoved
  <2>2. CASE at'[t] /= at[t]
    <3>1. FindSim(t) /\ at'[t].path = at[t].path /\ at[t].path \in bus
      BY <1>2, <2>2, AtStep DEF Idle
    <3> QED
      BY <1>2, <3>1 DEF FindSim, world
  <2> QED
    BY <2>1, <2>2
<1> QED
  BY <1>1, <1>2 DEF Noticed, Pending

\* The SIM is asked for on the bus, where no two modems have the same.
LEMMA FreedNext ==
  ASSUME Base, Matching, Distinct, Walking, Separate, Freed, [Next]_vars
  PROVE  Freed'
<1>0. WorldType /\ LoadType /\ PvtsType /\ AtType
  BY TypeParts DEF Base, AllTypes
<1> SUFFICES ASSUME NEW t \in Threads, NEW p \in ModemPvts,
                    at'[t].pc \in {"attach", "assign"}, device'[p] /= None,
                    device'[p].sim = at'[t].sim, device'[p].path /= at'[t].path
             PROVE  device'[p].path \notin bus'
  BY DEF Freed
<1>1. Active(t)
  BY AtStep DEF Active, Idle
<1>2. CASE /\ device[p] /= None
           /\ device'[p].path = device[p].path /\ device'[p].sim = device[p].sim
  <2>1. device[p].path \in 1 .. Len(objs)
    BY <1>0, <1>2 DEF PvtsType
  <2>2. CASE at[t].pc \in {"attach", "assign"}
    <3>1. at'[t].sim = at[t].sim /\ at'[t].path = at[t].path
      BY <2>2, AtStep DEF Idle
    <3> QED
      BY <1>2, <2>1, <2>2, <3>1, ObjsStep DEF Freed
  <2>3. CASE at[t].pc \notin {"attach", "assign"}
    <3>1. /\ FindSim(t) /\ at[t].path \in bus /\ at'[t].path = at[t].path
          /\ at'[t].sim[1] = objs[at[t].path].sim
      BY <2>3, AtStep DEF Idle
    <3>2. objs[device[p].path].sim = objs[at[t].path].sim
      BY <1>2, <3>1 DEF Matching
    <3>3. device[p].path \notin bus
      BY <1>2, <3>1, <3>2 DEF Distinct
    <3> QED
      BY <1>2, <2>1, <3>3, ObjsStep
  <2> QED
    BY <2>2, <2>3
<1>3. ASSUME NEW u \in Threads, Attach(u), device'[p].path = at[u].path
      PROVE  FALSE
  <2>1. u = t
    <3>1. Active(u)
      BY <1>3 DEF Attach, Active, Idle
    <3> QED
      BY <1>1, <3>1, Turns
  <2>2. at'[t].path = at[t].path
    BY <1>0, <1>3, <2>1 DEF Attach, AtType
  <2> QED
    BY <1>3, <2>1, <2>2
<1> QED
  BY <1>2, <1>3, DeviceStep

\* A SIM that is assigned to another modem was in an object that is gone.
LEMMA LeadsBackNext ==
  ASSUME Base, Matching, Distinct, Walking, Watched, [Next]_vars, ~ raced'
  PROVE  LeadsBack'
<1>0. WorldType /\ LoadType /\ PvtsType /\ AtType
  BY TypeParts DEF Base, AllTypes
<1> USE DEF Watched
<1> SUFFICES ASSUME NEW p \in ModemPvts, device'[p] /= None, NEW e, e = device'[p].path,
                    NEW s, s = device'[p].sim
             PROVE  \/ assigned'[s] = p \/ Pending(e)'
                    \/ \E t \in Threads : at'[t].pc = "assign" /\ at'[t].modem = p /\ at'[t].sim = s
  BY DEF LeadsBack, Pending
<1>1. CASE device[p] /= None /\ e = device[p].path /\ s = device[p].sim
  <2>1. s \in SimPvts /\ p \in modems
    BY <1>0, <1>1 DEF PvtsType, Contained
  <2>2. CASE Pending(e)
    BY <1>1, <2>2, StillPending
  <2>3. ASSUME NEW t \in Threads, at[t].pc = "assign", at[t].modem = p, at[t].sim = s
        PROVE  \/ assigned'[s] = p
               \/ at'[t].pc = "assign" /\ at'[t].modem = p /\ at'[t].sim = s
    <3>1. CASE at'[t] = at[t]
      BY <2>3, <3>1
    <3>2. CASE at'[t] /= at[t]
      <4>1. Assign(t) \/ TakeAdded \/ \E f \in todo : Walk(f)
        BY <2>3, <3>2, AtStep
      <4>2. CASE Assign(t)
        BY <1>0, <2>1, <2>3, <4>2 DEF Assign, PvtsType
      <4>3. CASE TakeAdded \/ \E f \in todo : Walk(f)
        BY <1>0, <2>3, <3>2, <4>3 DEF TakeAdded, Walk, AtType, Threads, Idle
      <4> QED
        BY <4>1, <4>2, <4>3
    <3> QED
      BY <3>1, <3>2
  <2>4. CASE assigned[s] = p /\ assigned'[s] /= p
    <3>1. CASE EndLoad /\ s \notin Alive
      <4>1. p \in Alive
        BY <2>1, RootedAlive DEF Rooted, Pvts
      <4>2. Refers(p, s)
        BY <1>1 DEF Refers
      <4> QED
        BY <2>1, <3>1, <4>1, <4>2, ReferredAlive DEF Pvts
    <3>2. ASSUME NEW t \in Threads, Assign(t), s = at[t].sim, assigned'[s] = at[t].modem
          PROVE  Pending(e)'
      <4>1. at[t].pc = "assign" /\ UNCHANGED queue /\ Active(t)
        BY <3>2 DEF Assign, Active, Idle
      <4>2. at[t].modem \in modems /\ at[t].modem /= p
        BY <2>4, <3>2, <4>1 DEF Contained
      <4>3. e /= at[t].path
        <5>1. objs[at[t].path].modem = at[t].modem[1] /\ objs[e].modem = p[1]
          BY <1>1, <4>1 DEF Matching
        <5> QED
          BY <2>1, <4>2, <5>1 DEF Distinct
      <4>4. e \notin bus
        BY <1>1, <3>2, <4>1, <4>3 DEF Freed
      <4>5. Pending(e)
        BY <1>1, <4>4 DEF Noticed
      <4> QED
        BY <4>1, <4>5 DEF Pending
    <3> QED
      BY <2>1, <2>4, <3>1, <3>2, AssignedStep
  <2> QED
    BY <1>1, <2>2, <2>3, <2>4 DEF LeadsBack
<1>2. ASSUME NEW t \in Threads, Attach(t), at[t].modem = p, s = at[t].sim
      PROVE  at'[t].pc = "assign" /\ at'[t].modem = p /\ at'[t].sim = s
  BY <1>0, <1>2, AtStep DEF Attach, AtType, Idle, Resolutions
<1> QED
  BY <1>1, <1>2, DeviceStep

\* Modems, SIMs and objects stay linked.
LEMMA LinkedNext == Base /\ Linked /\ [Next]_vars => Linked'
<1> SUFFICES ASSUME Base, Linked, [Next]_vars PROVE Linked'
  OBVIOUS
<1>1. Matching' /\ Distinct' /\ Walking'
  BY MatchingNext, DistinctNext, WalkingNext DEF Linked
<1>2. ASSUME ~ raced' PROVE Watched'
  <2>1. Watched
    BY <1>2, PastStays DEF Linked
  <2> QED
    BY <1>2, <2>1, SeparateNext, ContainedNext, NoticedNext, LeadsBackNext, FreedNext
       DEF Linked, Watched
<1> QED
  BY <1>1, <1>2 DEF Linked

LEMMA LinkedHolds == Spec => []Linked
<1>1. Init => Linked
  BY DEF Init, Linked, Matching, Distinct, Walking, Watched, Separate, Contained, Noticed,
         LeadsBack, Freed, Active, Idle, Threads
<1> QED
  BY <1>1, LinkedNext, BaseHolds, PTL DEF Spec

\* resolve_object "cannot double-connect", and a call or a message that comes in finds
\* its modem: as long as a reload and the hotplug take turns, what listens on a modem
\* object is a modem of the container, and when no thread is at work the object is on
\* the bus and the SIM in it leads back to that modem.
THEOREM HandlersStayPaired == Spec => []HandlersPaired
<1>1. Base /\ Linked => HandlersPaired
  <2> SUFFICES ASSUME Base, Linked, ~ raced, NEW p \in ModemPvts, device[p] /= None
               PROVE  /\ p \in modems
                      /\ Quiet => /\ device[p].path \in bus
                                  /\ objs[device[p].path].modem = p[1]
                                  /\ assigned[device[p].sim] = p
    BY DEF HandlersPaired, PrunedDetached, HandlersReachModem, Attached, Base, TypeOK
  <2>1. p \in modems
    BY DEF Linked, Watched, Contained
  <2>2. ASSUME Quiet
        PROVE  /\ device[p].path \in bus /\ objs[device[p].path].modem = p[1]
               /\ assigned[device[p].sim] = p
    <3>1. \A e : ~ Pending(e)
      BY <2>2 DEF Quiet, Pending
    <3>2. \A t \in Threads : at[t] = Idle
      BY <2>2 DEF Quiet, Linked, Walking, Active, Threads
    <3> QED
      BY <3>1, <3>2 DEF Linked, Watched, Matching, Noticed, LeadsBack, Idle
  <2> QED
    BY <2>1, <2>2
<1> QED
  BY <1>1, BaseHolds, LinkedHolds, PTL

-----------------------------------------------------------------------------
(* Calls *)

LEMMA OwnedNext == Base /\ Linked /\ Linked' /\ Owned /\ [Next]_vars => Owned'
<1> SUFFICES ASSUME Base, Linked, Owned, [Next]_vars, ~ raced', ~ moved' PROVE Owned'
  BY DEF Owned
<1>0. WorldType /\ LoadType /\ PvtsType /\ AtType
  BY TypeParts DEF Base, AllTypes
<1>1. /\ Watched /\ Walking /\ ~ raced /\ ~ moved
      /\ \A s \in channels : assigned[s] \notin overtaken =>
           assigned[s] \in modems /\ owner[assigned[s]]
      /\ \A s, r \in channels :
           assigned[s] = assigned[r] /\ assigned[s] \notin overtaken => s = r
      /\ \A s \in SimPvts : asking[s] /= None => asking[s] = assigned[s]
  BY PastStays DEF Linked, Owned
<1>2. ASSUME NEW s \in SimPvts, s \in channels \/ asking[s] /= None
      PROVE  assigned'[s] = assigned[s]
  <2>1. ~ (EndLoad /\ s \notin Alive)
    BY <1>2, RootedAlive DEF Rooted, Held, Pvts
  <2>2. ASSUME NEW t \in Threads, Assign(t), s = at[t].sim, assigned'[s] = at[t].modem
        PROVE  assigned'[s] = assigned[s]
    BY <1>2, <2>2 DEF Assign
  <2> QED
    BY <1>0, <2>1, <2>2, AssignedStep DEF PvtsType
<1>3. ASSUME NEW s \in channels, assigned[s] \notin overtaken PROVE assigned[s] \in modems'
  BY <1>1, <1>3, ModemsStep
<1>4. ASSUME NEW s \in SimPvts, CallTakes(s) PROVE Owned'
  <2> DEFINE p == asking[s]
  <2>1. /\ p /= None /\ p = assigned[s] /\ p \in ModemPvts
        /\ channels' = channels \cup {s} /\ owner' = [owner EXCEPT ![p] = TRUE]
        /\ asking' = [asking EXCEPT ![s] = None] /\ UNCHANGED <<assigned, modems>>
    BY <1>0, <1>1, <1>4 DEF CallTakes, links, PvtsType
  <2>2. /\ overtaken \subseteq overtaken' /\ (p \notin overtaken' => p \in modems /\ ~ owner[p])
    BY <1>4 DEF CallTakes
  <2> HIDE DEF p
  <2>3. /\ owner' \in [ModemPvts -> BOOLEAN] /\ owner'[p]
        /\ \A q : owner[q] /\ q \in ModemPvts => owner'[q]
    BY <1>0, <2>1 DEF PvtsType
  <2>4. ASSUME NEW r \in channels, assigned[r] \notin overtaken'
        PROVE  assigned[r] \in modems /\ owner'[assigned[r]] /\ assigned[r] /= p
    BY <1>0, <1>1, <2>1, <2>2, <2>3, <2>4 DEF LoadType
  <2>5. \A r \in channels' : assigned[r] \notin overtaken' =>
          assigned[r] \in modems /\ owner'[assigned[r]]
    BY <2>1, <2>2, <2>3, <2>4
  <2>6. \A r, q \in channels' : assigned[r] = assigned[q] /\ assigned[r] \notin overtaken' => r = q
    BY <1>1, <2>1, <2>2, <2>4
  <2>7. \A r \in SimPvts : asking'[r] /= None => asking'[r] = assigned[r]
    BY <1>0, <1>1, <2>1 DEF PvtsType
  <2> QED
    BY <2>1, <2>5, <2>6, <2>7 DEF Owned
<1>5. ASSUME NEW s \in SimPvts, CallEnds(s) PROVE Owned'
  <2>1. /\ s \in channels /\ channels' = channels \ {s}
        /\ UNCHANGED <<assigned, modems, asking, overtaken>>
        /\ owner' = [p \in ModemPvts |-> owner[p] /\ p /= assigned[s]]
    BY <1>5 DEF CallEnds, links
  <2>2. \A r \in channels' : assigned[r] \notin overtaken => owner'[assigned[r]]
    BY <1>0, <1>1, <2>1 DEF LoadType
  <2> QED
    BY <1>1, <2>1, <2>2 DEF Owned
<1>6. ASSUME NEW s \in SimPvts, CallAsks(s) \/ CallFails(s) PROVE Owned'
  <2>1. /\ UNCHANGED <<assigned, modems, channels, owner, overtaken>>
        /\ asking' \in {[asking EXCEPT ![s] = assigned[s]], [asking EXCEPT ![s] = None]}
    BY <1>6 DEF CallAsks, CallFails, links
  <2>2. \A r \in SimPvts : asking'[r] /= None => asking'[r] = assigned[r]
    BY <1>0, <1>1, <2>1 DEF PvtsType
  <2> QED
    BY <1>1, <2>1, <2>2 DEF Owned
<1>7. CASE ~ \E s \in SimPvts : CallNext(s)
  <2>1. UNCHANGED line
    <3> USE DEF world, load, links, pvts, past
    <3>1. CASE \/ UNCHANGED vars
               \/ \E d \in Devices, c \in Cards : Appears(d, c)
               \/ \E f \in bus : Disappears(f) \/ Identified(f) \/ Rises(f)
               \/ \E read \in Confs : Begin(read)
               \/ \E q \in ModemPvts : RunCommands(q)
               \/ TakeAdded \/ TakeRemoved
      BY <3>1 DEF vars, Appears, Disappears, Identified, Rises, Begin, RunCommands, TakeAdded,
                  TakeRemoved
    <3>2. CASE LoadNext
      BY <3>2 DEF LoadNext, BuildSims, PruneSims, EndLoad, Prune, Walk
    <3>3. ASSUME NEW t \in Threads, ResolveNext(t) PROVE UNCHANGED line
      BY <3>3 DEF ResolveNext, FindModem, FindSim, Attach, Assign, Kick
    <3> QED
      BY <1>7, <3>1, <3>2, <3>3 DEF Next
  <2>2. UNCHANGED <<channels, owner, asking, overtaken>>
    BY <2>1 DEF line
  <2>3. \A s \in channels : s \in SimPvts
    BY <1>0 DEF PvtsType
  <2> QED
    BY <1>1, <1>2, <1>3, <2>2, <2>3 DEF Owned
<1> QED
  BY <1>4, <1>5, <1>6, <1>7 DEF CallNext

\* prune_cb, "Active call: keep until it ends": as long as a reload and the hotplug take
\* turns and the SIM of a call turns up in no other modem, the modem that a call took
\* while it was free and in the container stays there, and taken, until the channel
\* hangs up.
THEOREM CallsKeepTheirModem == Spec => []CallsKeepModem
<1>1. Init => Owned
  BY DEF Init, Owned
<1>2. Owned => CallsKeepModem
  BY DEF Owned, CallsKeepModem
<1> QED
  BY <1>1, <1>2, OwnedNext, BaseHolds, LinkedHolds, PTL DEF Spec
=============================================================================
