---------------------------- MODULE ModuleLife ----------------------------
(***************************************************************************)
(* Loading and unloading the module: load_module and unload_module of      *)
(* src/src/chan_modemmanager.c with mm_bus_start and mm_bus_stop of        *)
(* src/src/mm_bus.c and the hotplug watch of src/src/modem.c.              *)
(*                                                                         *)
(* Three threads: the one that loads, reloads and unloads the module, the  *)
(* GMainLoop thread that mm_bus_start makes, and a thread of the pool that *)
(* runs the tasks of the "mm/resolve" serializer.  Every initialisation    *)
(* may fail; the labels of load_module and the body of unload_module are   *)
(* one sequence of steps that is entered at different places.              *)
(***************************************************************************)
EXTENDS Naturals, Sequences

CONSTANTS
  Objects,     \* modem objects ModemManager may export
  None,        \* NULL
  MaxLoads,    \* bound: loads of the module
  MaxReloads   \* bound: reloads

ASSUME LifeAssumption ==
  None \notin Objects /\ MaxLoads \in Nat /\ MaxReloads \in Nat

VARIABLES
  life, step,     \* what the module thread does, and which step of it is next
  parts,          \* what has been made and not released
  todo,           \* the objects modem_resolve_all has listed
  lpc, running,   \* the GMainLoop thread; loop->is_running
  handler, tested,     \* the object on_object_added runs for; it saw resolve_tps
  queue, resolving,    \* tasks of the serializer; the object the running one is for
  bus, signals, known, \* objects on the bus, announced to us, known to MMManager
  attached,       \* objects resolve_object has been run for: their modem is attached
  missed,         \* history: objects nobody was told of
  quitEarly,      \* history: the loop was told to quit before it ran
  loads, reloads

thread  == <<life, step, parts, todo>>
loop    == <<lpc, running, handler, tested>>
pool    == <<queue, resolving>>
objects == <<bus, signals, known, attached, missed>>
counts  == <<quitEarly, loads, reloads>>
vars    == <<thread, loop, pool, objects, counts>>

Containers == {"modems", "sims"}
BusParts   == {"loop", "manager"}
Techs      == {"channel", "message", "cli"}
Parts == Containers \cup BusParts \cup Techs \cup {"pool", "txns", "resolve", "watch"}

\* The steps of a load, and those of an unload or of a load that failed.
LoadSteps == {"containers", "bus", "config", "resolve", "mms", "watch", "register"}
UndoSteps == {"register", "unwatch", "unref", "mms", "detach", "quit", "join", "drop",
              "pool", "containers"}

Init ==
  /\ life = "out" /\ step = "containers" /\ parts = {} /\ todo = {}
  /\ lpc = "none" /\ running = FALSE /\ handler = None /\ tested = FALSE
  /\ queue = <<>> /\ resolving = None
  /\ bus \in SUBSET Objects /\ signals = {} /\ known = {} /\ attached = {} /\ missed = {}
  /\ quitEarly = FALSE /\ loads = 0 /\ reloads = 0

\* ModemManager exports an object; MMManager hears of it on the GMainLoop thread.
Appears(o) ==
  /\ o \in Objects \ bus /\ bus' = bus \cup {o}
  /\ signals' = IF "manager" \in parts THEN signals \cup {o} ELSE signals
  /\ UNCHANGED <<thread, loop, pool, known, attached, missed, counts>>

-----------------------------------------------------------------------------
(* load_module *)

At(what, where) == life = what /\ step = where

Loads(where) == life' = "load" /\ step' = where
Undoes(where) == life' = "undo" /\ step' = where

LoadBegins ==
  /\ life = "out" /\ loads < MaxLoads /\ loads' = loads + 1
  /\ Loads("containers")
  /\ UNCHANGED <<parts, todo, loop, pool, objects, quitEarly, reloads>>

MakeContainers ==
  /\ At("load", "containers")
  /\ \/ Loads("bus") /\ parts' = parts \cup Containers
     \/ Undoes("containers") /\ parts' \in {parts, parts \cup {"modems"}}
  /\ UNCHANGED <<todo, loop, pool, objects, counts>>

\* mm_bus_start: the pool, the loop, the manager, which lists the objects, and the
\* thread.  When one of the last two cannot be had it calls mm_bus_stop.
BusStart ==
  /\ At("load", "bus")
  /\ \/ /\ Loads("config") /\ parts' = parts \cup BusParts \cup {"pool"}
        /\ lpc' = "created" /\ known' = bus
     \/ /\ Undoes("containers") /\ UNCHANGED <<parts, lpc, known>>
     \/ /\ Undoes("quit") /\ UNCHANGED lpc
        /\ \/ parts' = parts \cup {"pool", "loop"} /\ UNCHANGED known
           \/ parts' = parts \cup BusParts \cup {"pool"} /\ known' = bus
  /\ UNCHANGED <<todo, running, handler, tested, pool, bus, signals, attached, missed, counts>>

\* Mutant: a load leaves the modems that are there to the hotplug.
ConfigUnresolved ==
  /\ step = "config" /\ life \in {"load", "reload"}
  /\ \/ life = "load" /\ Loads("mms") /\ UNCHANGED <<todo, missed>>
     \/ life = "reload" /\ step' = "resolve" /\ todo' = known /\ missed' = {} /\ UNCHANGED life
     \/ life = "load" /\ Undoes("detach") /\ UNCHANGED <<todo, missed>>
     \/ life = "reload" /\ life' = "up" /\ UNCHANGED <<step, todo, missed>>
  /\ UNCHANGED <<parts, loop, pool, bus, signals, known, attached, counts>>

\* load_config: the file may be missing or bad; modem_resolve_all lists the objects ...
Config ==
  /\ step = "config" /\ life \in {"load", "reload"}
  /\ \/ step' = "resolve" /\ todo' = known /\ missed' = {} /\ UNCHANGED life
     \/ life = "load" /\ Undoes("detach") /\ UNCHANGED <<todo, missed>>
     \/ life = "reload" /\ life' = "up" /\ UNCHANGED <<step, todo, missed>>
  /\ UNCHANGED <<parts, loop, pool, bus, signals, known, attached, counts>>

\* ... and resolves them one after another.
ResolveAll ==
  /\ step = "resolve" /\ life \in {"load", "reload"}
  /\ attached' = attached \cup todo /\ todo' = {}
  /\ IF life = "load" THEN Loads("mms") ELSE life' = "up" /\ UNCHANGED step
  /\ UNCHANGED <<parts, loop, pool, bus, signals, known, missed, counts>>

\* Mutant: a failure of mms_init is taken for one of modem_container_init.
MmsInitLeaks ==
  /\ At("load", "mms")
  /\ \/ Loads("watch") /\ parts' = parts \cup {"txns"}
     \/ Undoes("containers") /\ UNCHANGED parts
  /\ UNCHANGED <<todo, loop, pool, objects, counts>>

MmsInit ==
  /\ At("load", "mms")
  /\ \/ Loads("watch") /\ parts' = parts \cup {"txns"}
     \/ Undoes("detach") /\ UNCHANGED parts
  /\ UNCHANGED <<todo, loop, pool, objects, counts>>

\* modem_watch_manager: first the serializer, then the handlers.
WatchManager ==
  /\ At("load", "watch")
  /\ \/ Loads("register") /\ parts' = parts \cup {"resolve", "watch"}
     \/ Undoes("mms") /\ UNCHANGED parts
  /\ UNCHANGED <<todo, loop, pool, objects, counts>>

\* The channel, the message and the CLI type; those that were registered are
\* unregistered when the next one fails.
Register ==
  /\ At("load", "register")
  /\ \/ parts' = parts \cup Techs /\ life' = "up" /\ UNCHANGED step
     \/ /\ parts' \in {parts, parts \cup {"channel"}, parts \cup {"channel", "message"}}
        /\ Undoes("register")
  /\ UNCHANGED <<todo, loop, pool, objects, counts>>

ReloadBegins ==
  /\ life = "up" /\ reloads < MaxReloads /\ reloads' = reloads + 1
  /\ life' = "reload" /\ step' = "config"
  /\ UNCHANGED <<parts, todo, loop, pool, objects, quitEarly, loads>>

-----------------------------------------------------------------------------
(* unload_module, and the labels of load_module *)

\* Asterisk unloads the module when no channel uses it.
UnloadBegins ==
  /\ life = "up" /\ Undoes("register")
  /\ UNCHANGED <<parts, todo, loop, pool, objects, counts>>

\* A step that only releases something.
Release(where, what, next) ==
  /\ At("undo", where) /\ parts' = parts \ what /\ Undoes(next)
  /\ UNCHANGED <<todo, loop, pool, objects, counts>>

Unregister  == Release("register", Techs, "unwatch")

\* modem_unwatch_manager disconnects the handlers, one of which may be running, ...
Unwatch     == Release("unwatch", {"watch"}, "unref")

\* ... and gives resolve_tps up; tasks it still has keep it alive.
UnrefResolve == Release("unref", {"resolve"}, "mms")

MmsShutdown == Release("mms", {"txns"}, "detach")

\* modem_detach_all and sim_detach_all.
DetachAll ==
  /\ At("undo", "detach") /\ attached' = {} /\ Undoes("quit")
  /\ UNCHANGED <<parts, todo, loop, pool, bus, signals, known, missed, counts>>

\* Mutant: the loop is not told to quit.
QuitNot ==
  /\ At("undo", "quit") /\ Undoes("join")
  /\ UNCHANGED <<parts, todo, loop, pool, objects, counts>>

\* mm_bus_stop: g_main_loop_quit clears is_running, ...
Quit ==
  /\ At("undo", "quit") /\ Undoes("join")
  /\ running' = FALSE /\ quitEarly' = (quitEarly \/ lpc = "created")
  /\ UNCHANGED <<parts, todo, lpc, handler, tested, pool, objects, loads, reloads>>

\* ... pthread_join waits for the thread, if there is one, ...
Join ==
  /\ At("undo", "join") /\ lpc \in {"none", "over"} /\ Undoes("drop")
  /\ lpc' = "none"
  /\ UNCHANGED <<parts, todo, running, handler, tested, pool, objects, counts>>

\* ... the manager, the connection and the loop go, ...
Drop ==
  /\ At("undo", "drop") /\ Undoes("pool")
  /\ parts' = parts \ BusParts /\ known' = {} /\ signals' = {}
  /\ UNCHANGED <<todo, loop, pool, bus, attached, missed, counts>>

\* Mutant: the pool is given up with a task still running.
PoolShutdownAtOnce ==
  /\ At("undo", "pool") /\ Undoes("containers")
  /\ parts' = parts \ {"pool"} /\ queue' = <<>>
  /\ UNCHANGED <<todo, loop, resolving, objects, counts>>

\* ... and last the pool, which lets a running task end; queued ones never run.
PoolShutdown ==
  /\ At("undo", "pool") /\ resolving = None /\ Undoes("containers")
  /\ parts' = parts \ {"pool"} /\ queue' = <<>>
  /\ UNCHANGED <<todo, loop, resolving, objects, counts>>

\* The containers, and with them the pvts and what they are attached to.
DestroyContainers ==
  /\ At("undo", "containers") /\ life' = "out" /\ UNCHANGED step
  /\ parts' = parts \ Containers /\ attached' = {} /\ missed' = {}
  /\ UNCHANGED <<todo, loop, pool, bus, signals, known, counts>>

-----------------------------------------------------------------------------
(* The GMainLoop thread and the serializer *)

\* bus_thread_fn; g_main_loop_run sets is_running itself.
LoopRuns ==
  /\ lpc = "created" /\ lpc' = "running" /\ running' = TRUE
  /\ UNCHANGED <<thread, handler, tested, pool, objects, counts>>

LoopEnds ==
  /\ lpc = "running" /\ ~ running /\ handler = None /\ lpc' = "over"
  /\ UNCHANGED <<thread, running, handler, tested, pool, objects, counts>>

\* MMManager takes an announced object in and emits object-added.
Dispatch(o) ==
  /\ lpc = "running" /\ running /\ handler = None /\ o \in signals
  /\ signals' = signals \ {o} /\ known' = known \cup {o}
  /\ IF "watch" \in parts THEN handler' = o /\ UNCHANGED missed
                          ELSE missed' = missed \cup {o} /\ UNCHANGED handler
  /\ UNCHANGED <<thread, lpc, running, tested, pool, bus, attached, counts>>

\* on_object_added tests resolve_tps ...
HandlerTests ==
  /\ handler /= None /\ ~ tested
  /\ IF "resolve" \in parts THEN tested' = TRUE /\ UNCHANGED handler
                            ELSE handler' = None /\ UNCHANGED tested
  /\ UNCHANGED <<thread, lpc, running, pool, objects, counts>>

\* ... and pushes to it, for better or worse: a serializer given up in between is
\* alive only while it has tasks.
HandlerPushes ==
  /\ tested /\ tested' = FALSE /\ handler' = None
  /\ queue' \in {Append(queue, handler)} \cup (IF "resolve" \in parts THEN {} ELSE {queue})
  /\ UNCHANGED <<thread, lpc, running, resolving, objects, counts>>

TaskBegins ==
  /\ resolving = None /\ queue /= <<>> /\ "pool" \in parts
  /\ resolving' = Head(queue) /\ queue' = Tail(queue)
  /\ UNCHANGED <<thread, loop, objects, counts>>

\* task_resolve_object attaches the modem of the object, unload or not.
TaskEnds ==
  /\ resolving /= None /\ resolving' = None
  /\ attached' = attached \cup {resolving}
  /\ UNCHANGED <<thread, loop, queue, bus, signals, known, missed, counts>>

-----------------------------------------------------------------------------
ModuleNext == \/ MakeContainers \/ BusStart \/ Config \/ ResolveAll \/ MmsInit
              \/ WatchManager \/ Register \/ Unregister \/ Unwatch \/ UnrefResolve
              \/ MmsShutdown \/ DetachAll \/ Quit \/ Join \/ Drop \/ PoolShutdown
              \/ DestroyContainers

LoopNext == LoopRuns \/ LoopEnds \/ HandlerTests \/ HandlerPushes \/ \E o \in Objects : Dispatch(o)

Next == \/ LoadBegins \/ ReloadBegins \/ UnloadBegins \/ ModuleNext \/ LoopNext
        \/ TaskBegins \/ TaskEnds \/ \E o \in Objects : Appears(o)

Spec == Init /\ [][Next]_vars

\* Every thread keeps running; nothing makes the module load or unload.
FairSpec == Spec /\ WF_vars(ModuleNext) /\ WF_vars(LoopNext) /\ WF_vars(TaskBegins \/ TaskEnds)

-----------------------------------------------------------------------------
(* Properties *)

\* Type correctness.
TypeOK ==
  /\ life \in {"out", "load", "up", "reload", "undo"} /\ step \in LoadSteps \cup UndoSteps
  /\ parts \subseteq Parts /\ todo \subseteq Objects
  /\ lpc \in {"none", "created", "running", "over"} /\ running \in BOOLEAN
  /\ handler \in Objects \cup {None} /\ tested \in BOOLEAN /\ (tested => handler /= None)
  /\ queue \in Seq(Objects) /\ resolving \in Objects \cup {None}
  /\ bus \subseteq Objects /\ signals \subseteq Objects /\ known \subseteq Objects
  /\ attached \subseteq Objects /\ missed \subseteq Objects
  /\ quitEarly \in BOOLEAN /\ loads \in 0 .. MaxLoads /\ reloads \in 0 .. MaxReloads

\* Wherever a load fails, and after an unload, nothing is left behind: no part, no
\* thread, no task and no modem that still listens to its object.
NothingLeft ==
  life = "out" => /\ parts = {} /\ lpc = "none" /\ handler = None
                  /\ resolving = None /\ queue = <<>> /\ attached = {}

\* However an unload cuts into hotplug, a handler runs only while the manager
\* exists, and a task only while the containers it searches exist.
ThreadsUseLive ==
  /\ lpc /= "none" => BusParts \cup Containers \subseteq parts
  /\ handler /= None => lpc = "running"
  /\ resolving /= None => {"pool"} \cup Containers \subseteq parts

\* A load, successful or not, and an unload come to an end, provided the loop was
\* running when it was told to quit.
LifeSettles == life \notin {"out", "up"} ~> life \in {"out", "up"} \/ quitEarly

\* An object that is there when the module is loaded, or is announced later, gets
\* attached while the module stays up, unless it was announced after the objects
\* were listed and before the handlers were connected.
ObjectsAttached ==
  \A o \in Objects : life = "up" /\ o \in known \cup signals ~>
                       o \in attached \cup missed \/ life /= "up"

\* mm_bus.h: "Quit and join the loop thread".  mm_bus_stop gets the thread joined.
LoopJoined == At("undo", "join") ~> ~ At("undo", "join")
=============================================================================
