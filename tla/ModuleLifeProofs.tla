-------------------------- MODULE ModuleLifeProofs --------------------------
(***************************************************************************)
(* Proofs about ModuleLife: wherever a load fails, and however an unload   *)
(* cuts into hotplug, nothing is left behind and no thread uses what is    *)
(* gone.  They hold for any set of objects and any number of loads.        *)
(***************************************************************************)
EXTENDS ModuleLife, TLAPS

\* The shared parts without which no task of the pool and no handler runs.
Bus == Containers \cup BusParts \cup {"pool"}

\* What may have been made when a step of a load begins ...
MadeSoFar ==
  /\ life = "out" => parts = {}
  /\ At("load", "containers") => parts = {}
  /\ At("load", "bus") => parts = Containers
  /\ life = "load" /\ step \in {"config", "resolve", "mms"} => parts \subseteq Bus
  /\ At("load", "watch") => parts \subseteq Bus \cup {"txns"}
  /\ At("load", "register") => parts \subseteq Parts \ Techs

\* ... and what may still be there when a step that releases something begins: every
\* part has a step behind it, wherever the sequence was entered.
StillThere ==
  /\ At("undo", "unwatch") => parts \subseteq Parts \ Techs
  /\ At("undo", "unref") => parts \subseteq Bus \cup {"txns", "resolve"}
  /\ At("undo", "mms") => parts \subseteq Bus \cup {"txns"}
  /\ life = "undo" /\ step \in {"detach", "quit", "join", "drop"} => parts \subseteq Bus
  /\ At("undo", "pool") => parts \subseteq Containers \cup {"pool"}
  /\ At("undo", "containers") => parts \subseteq Containers

\* The loop thread is there only between mm_bus_start and the join in mm_bus_stop.
NoLoop ==
  \/ life = "out"
  \/ life = "load" /\ step \in {"containers", "bus"}
  \/ life = "undo" /\ step \in {"drop", "pool", "containers"}

LoopThread ==
  /\ NoLoop => lpc = "none"
  /\ lpc /= "none" => Bus \subseteq parts
  /\ handler /= None => lpc = "running"
  /\ tested => handler /= None

\* Tasks are there only between mm_bus_start and the shutdown of the pool.
Tasks ==
  /\ queue /= <<>> => Containers \cup {"pool"} \subseteq parts
  /\ resolving /= None => Containers \cup {"pool"} \subseteq parts

\* The containers hold what is attached.
Attachments == life = "out" \/ At("load", "containers") => attached = {}

LifeInv == TypeOK /\ MadeSoFar /\ StillThere /\ LoopThread /\ Tasks /\ Attachments

-----------------------------------------------------------------------------
\* Before the module is loaded there is nothing.
LEMMA LifeInit == Init => LifeInv
<1> SUFFICES ASSUME Init PROVE LifeInv
  OBVIOUS
<1> USE LifeAssumption DEF Init
<1>1. TypeOK
  <2>1. queue \in Seq(Objects)
    OBVIOUS
  <2>2. tested \in BOOLEAN /\ running \in BOOLEAN /\ quitEarly \in BOOLEAN
    OBVIOUS
  <2>3. loads \in 0 .. MaxLoads /\ reloads \in 0 .. MaxReloads
    OBVIOUS
  <2> QED
    BY <2>1, <2>2, <2>3 DEF TypeOK, LoadSteps
<1> QED
  BY <1>1 DEF LifeInv, MadeSoFar, StillThere, LoopThread, Tasks, Attachments, NoLoop, At

\* Types, which only the bounds and the queue make more than a look at each action.
LEMMA TypeStep == TypeOK /\ [Next]_vars => TypeOK'
<1> SUFFICES ASSUME TypeOK, [Next]_vars PROVE TypeOK'
  OBVIOUS
<1> USE LifeAssumption DEF TypeOK, LoadSteps, UndoSteps, At, Loads, Undoes
<1> USE DEF thread, loop, pool, objects, counts
<1>1. ASSUME NEW o \in Objects, Appears(o) PROVE TypeOK'
  BY <1>1 DEF Appears
<1>2. CASE LoadBegins \/ ReloadBegins \/ UnloadBegins
  BY <1>2 DEF LoadBegins, ReloadBegins, UnloadBegins
<1>3. CASE MakeContainers
  BY <1>3 DEF MakeContainers, Parts, Containers
<1>4. CASE BusStart
  BY <1>4 DEF BusStart, Parts, BusParts
<1>5. CASE Config
  BY <1>5 DEF Config
<1>6. CASE ResolveAll
  BY <1>6 DEF ResolveAll
<1>7. CASE MmsInit
  BY <1>7 DEF MmsInit, Parts
<1>8. CASE WatchManager
  BY <1>8 DEF WatchManager, Parts
<1>9. CASE Register
  BY <1>9 DEF Register, Parts, Techs
<1>10. CASE Unregister \/ Unwatch \/ UnrefResolve \/ MmsShutdown
  BY <1>10 DEF Unregister, Unwatch, UnrefResolve, MmsShutdown, Release
<1>11. CASE DetachAll
  BY <1>11 DEF DetachAll
<1>12. CASE Quit
  BY <1>12 DEF Quit
<1>13. CASE Join
  BY <1>13 DEF Join
<1>14. CASE Drop
  BY <1>14 DEF Drop
<1>15. CASE PoolShutdown
  BY <1>15 DEF PoolShutdown
<1>16. CASE DestroyContainers
  BY <1>16 DEF DestroyContainers
<1>17. CASE LoopRuns \/ LoopEnds \/ HandlerTests
  <2>1. CASE LoopRuns
    BY <2>1 DEF LoopRuns
  <2>2. CASE LoopEnds
    BY <2>2 DEF LoopEnds
  <2>3. CASE HandlerTests
    BY <2>3 DEF HandlerTests
  <2> QED
    BY <1>17, <2>1, <2>2, <2>3
<1>18. ASSUME NEW o \in Objects, Dispatch(o) PROVE TypeOK'
  BY <1>18 DEF Dispatch
<1>19. CASE HandlerPushes
  <2>1. handler \in Objects /\ queue' \in Seq(Objects)
    BY <1>19 DEF HandlerPushes
  <2> QED
    BY <1>19, <2>1 DEF HandlerPushes
<1>20. CASE TaskBegins \/ TaskEnds
  <2>1. CASE TaskBegins
    <3>1. Head(queue) \in Objects /\ Tail(queue) \in Seq(Objects)
      BY <2>1 DEF TaskBegins
    <3> QED
      BY <2>1, <3>1 DEF TaskBegins
  <2> QED
    BY <1>20, <2>1 DEF TaskEnds
<1>21. CASE UNCHANGED vars
  BY <1>21 DEF vars
<1> QED
  BY <1>1, <1>2, <1>3, <1>4, <1>5, <1>6, <1>7, <1>8, <1>9, <1>10, <1>11, <1>12, <1>13,
     <1>14, <1>15, <1>16, <1>17, <1>18, <1>19, <1>20, <1>21
     DEF Next, ModuleNext, LoopNext

-----------------------------------------------------------------------------
(* The steps of the three threads *)

Safe == MadeSoFar /\ StillThere /\ LoopThread /\ Tasks /\ Attachments

\* A load makes one thing after another; what fails enters the sequence of releases
\* behind the steps for what was not made.
LEMMA LoadStep ==
  ASSUME LifeInv,
         LoadBegins \/ MakeContainers \/ BusStart \/ Config \/ ResolveAll \/ MmsInit
           \/ WatchManager \/ Register \/ ReloadBegins \/ UnloadBegins
  PROVE  Safe'
<1> USE DEF LifeInv, Safe, MadeSoFar, StillThere, LoopThread, Tasks, Attachments, NoLoop
<1> USE DEF At, Loads, Undoes, thread, loop, pool, objects, counts
<1>1. CASE LoadBegins
  BY <1>1 DEF LoadBegins, Bus
<1>2. CASE MakeContainers
  BY <1>2 DEF MakeContainers, Bus, Containers, BusParts, Techs, Parts
<1>3. CASE BusStart
  BY <1>3 DEF BusStart, Bus, Containers, BusParts, Techs, Parts
<1>4. CASE Config
  BY <1>4 DEF Config, Bus
<1>5. CASE ResolveAll
  BY <1>5 DEF ResolveAll, Bus
<1>6. CASE MmsInit
  BY <1>6 DEF MmsInit, Bus, Containers, BusParts, Techs, Parts
<1>7. CASE WatchManager
  BY <1>7 DEF WatchManager, Bus, Containers, BusParts, Techs, Parts
<1>8. CASE Register
  BY <1>8 DEF Register, Bus, Containers, BusParts, Techs, Parts
<1>9. CASE ReloadBegins
  BY <1>9 DEF ReloadBegins, Bus
<1>10. CASE UnloadBegins
  BY <1>10 DEF UnloadBegins, Bus, Containers, BusParts, Techs, Parts
<1> QED
  BY <1>1, <1>2, <1>3, <1>4, <1>5, <1>6, <1>7, <1>8, <1>9, <1>10

\* Each step releases its part; the loop thread is gone before the manager goes, and
\* the pool lets its task end before the containers go.
LEMMA UndoStep ==
  ASSUME LifeInv,
         Unregister \/ Unwatch \/ UnrefResolve \/ MmsShutdown \/ DetachAll \/ Quit \/ Join
           \/ Drop \/ PoolShutdown \/ DestroyContainers
  PROVE  Safe'
<1> USE DEF LifeInv, Safe, MadeSoFar, StillThere, LoopThread, Tasks, Attachments, NoLoop
<1> USE DEF At, Undoes, Release, thread, loop, pool, objects, counts
<1>1. CASE Unregister
  <2>1. At("undo", "register") /\ parts' = parts \ Techs /\ At("undo", "unwatch")'
    BY <1>1 DEF Unregister
  <2>2. parts \subseteq Parts /\ Bus \cap Techs = {}
    BY DEF TypeOK, Bus, Containers, BusParts, Techs
  <2>3. MadeSoFar' /\ StillThere'
    BY <2>1, <2>2 DEF Techs
  <2>4. LoopThread' /\ Tasks'
    BY <1>1, <2>1, <2>2 DEF Unregister, Bus
  <2> QED
    BY <1>1, <2>1, <2>3, <2>4 DEF Unregister
<1>2. CASE Unwatch
  BY <1>2 DEF Unwatch, Bus, Containers, BusParts, Techs, Parts
<1>3. CASE UnrefResolve
  BY <1>3 DEF UnrefResolve, Bus, Containers, BusParts, Techs, Parts
<1>4. CASE MmsShutdown
  BY <1>4 DEF MmsShutdown, Bus, Containers, BusParts, Techs, Parts
<1>5. CASE DetachAll
  BY <1>5 DEF DetachAll, Bus, Containers, BusParts, Techs, Parts
<1>6. CASE Quit
  BY <1>6 DEF Quit, Bus, Containers, BusParts, Techs, Parts
<1>7. CASE Join
  BY <1>7 DEF Join, Bus, Containers, BusParts, Techs, Parts
<1>8. CASE Drop
  BY <1>8 DEF Drop, Bus, Containers, BusParts, Techs, Parts
<1>9. CASE PoolShutdown
  BY <1>9 DEF PoolShutdown, Bus, Containers, BusParts, Techs, Parts
<1>10. CASE DestroyContainers
  BY <1>10 DEF DestroyContainers, Bus, Containers, BusParts, Techs, Parts
<1> QED
  BY <1>1, <1>2, <1>3, <1>4, <1>5, <1>6, <1>7, <1>8, <1>9, <1>10

\* The loop thread and the pool make nothing and release nothing.
LEMMA OtherStep ==
  ASSUME LifeInv,
         \/ LoopRuns \/ LoopEnds \/ HandlerTests \/ HandlerPushes \/ TaskBegins \/ TaskEnds
         \/ \E o \in Objects : Dispatch(o) \/ Appears(o)
         \/ UNCHANGED vars
  PROVE  Safe'
<1> USE DEF LifeInv, Safe, MadeSoFar, StillThere, LoopThread, Tasks, Attachments, NoLoop
<1> USE DEF At, thread, loop, pool, objects, counts
<1>1. CASE LoopRuns
  BY <1>1 DEF LoopRuns, Bus
<1>2. CASE LoopEnds
  BY <1>2 DEF LoopEnds, Bus
<1>3. CASE HandlerTests
  BY <1>3 DEF HandlerTests, Bus
<1>4. CASE HandlerPushes
  BY <1>4 DEF HandlerPushes, Bus
<1>5. CASE TaskBegins
  BY <1>5 DEF TaskBegins, Bus
<1>6. CASE TaskEnds
  BY <1>6 DEF TaskEnds, Bus
<1>7. ASSUME NEW o \in Objects, Dispatch(o) PROVE Safe'
  BY <1>7 DEF Dispatch
<1>8. ASSUME NEW o \in Objects, Appears(o) PROVE Safe'
  BY <1>8 DEF Appears
<1>9. CASE UNCHANGED vars
  BY <1>9 DEF vars
<1> QED
  BY <1>1, <1>2, <1>3, <1>4, <1>5, <1>6, <1>7, <1>8, <1>9

\* Every step of every thread keeps the invariant.
LEMMA LifeStep == LifeInv /\ [Next]_vars => LifeInv'
<1> SUFFICES ASSUME LifeInv, [Next]_vars PROVE LifeInv'
  OBVIOUS
<1>1. TypeOK'
  BY TypeStep DEF LifeInv
<1>2. Safe'
  BY LoadStep, UndoStep, OtherStep DEF Next, ModuleNext, LoopNext
<1> QED
  BY <1>1, <1>2 DEF LifeInv, Safe

-----------------------------------------------------------------------------
\* The invariant holds in every reachable state.
LEMMA LifeHolds == Spec => []LifeInv
BY LifeInit, LifeStep, PTL DEF Spec

\* Every reachable state of the module's life is type correct.
THEOREM TypeCorrect == Spec => []TypeOK
<1>1. LifeInv => TypeOK
  BY DEF LifeInv
<1> QED
  BY <1>1, LifeHolds, PTL

\* chan_modemmanager.c: the labels of load_module and the body of unload_module undo
\* exactly what was done, wherever a load fails and whatever hotplug does meanwhile.
THEOREM NothingIsLeft == Spec => []NothingLeft
<1>1. LifeInv => NothingLeft
  BY DEF LifeInv, MadeSoFar, LoopThread, Tasks, Attachments, NoLoop, NothingLeft, Containers
<1> QED
  BY <1>1, LifeHolds, PTL

\* mm_bus_stop: the loop thread is joined before the manager goes and the pool is shut
\* down before the containers go, so neither thread uses what is gone.
THEOREM ThreadsAreSafe == Spec => []ThreadsUseLive
<1>1. LifeInv => ThreadsUseLive
  BY DEF LifeInv, LoopThread, Tasks, ThreadsUseLive, Bus
<1> QED
  BY <1>1, LifeHolds, PTL
=============================================================================
