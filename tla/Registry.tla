------------------------------ MODULE Registry ------------------------------
(***************************************************************************)
(* Modems and SIMs: src/src/modem.c and sim.c, filled by config.c, with    *)
(* the init commands of atinit.c.                                          *)
(*                                                                         *)
(* The configuration names modems and SIMs; each becomes a pvt, a counted  *)
(* object in a container.  ModemManager puts objects on the bus and takes  *)
(* them away.  resolve_object attaches an object to the two pvts it        *)
(* belongs to; two threads run it: load_config, for every object, and the  *)
(* serializer of the hotplug, for one that was added.  Properties that the *)
(* overlap of the two breaks are stated for histories without one.         *)
(***************************************************************************)
EXTENDS Integers, FiniteSets, Sequences

CONSTANTS
  Devices,   \* device identifiers of modems
  Cards,     \* identifiers of SIMs
  MaxLoads,  \* bound: the load and the reloads
  MaxPaths,  \* bound: objects ModemManager ever puts on the bus
  Failures,  \* TRUE: ModemManager may fail to tell the SIM of a modem
  None

ASSUME RegistryAssumption ==
  /\ MaxLoads \in Nat /\ MaxPaths \in Nat /\ Failures \in BOOLEAN
  /\ None \notin Devices \X (1 .. MaxLoads)

\* A pvt is known by its identifier and the load that built it.
ModemPvts == Devices \X (1 .. MaxLoads)
SimPvts   == Cards \X (1 .. MaxLoads)
Pvts      == ModemPvts \cup SimPvts
Threads   == {"reload", "resolver"}

VARIABLES
  objs,       \* the objects put on the bus so far, by path: modem and SIM in it
  bus, ready, enabled, \* paths on the bus; with identifiers; of modems that are enabled
  life,       \* "down", "loading", "up": object-added and -removed are watched
  phase, todo, conf, loads,   \* load_config: how far, what is left, the SIMs it read
  modems, sims,       \* the containers
  marked,     \* modem pvts with the destroy bit
  device,     \* by modem pvt: the attached object, the SIM of its handlers, atinit_done
  owner,      \* by modem pvt: a channel owns it
  channels,   \* SIM pvts whose channel is alive
  asking,     \* by SIM pvt: the modem a call that begins has tested, and refers to
  assigned,   \* sim->modem
  commands,   \* by modem pvt: atinit_tasks pushed
  queue,      \* tasks of the hotplug serializer
  at,         \* by thread: how far its resolve_object is
  unspent,    \* history, by path: how often attached, less the runs of its commands
  raced,      \* history: load_config met the hotplug, or the bus changed unwatched
  moved,      \* history: the SIM of a channel was found in another modem
  overtaken   \* history: modems pruned, or taken, between the test and the assignment
              \* of an owner that took them all the same

world  == <<objs, bus, ready, enabled>>
load   == <<life, phase, todo, conf, loads>>
links  == <<modems, sims, marked>>
line   == <<owner, channels, asking, overtaken>>
pvts   == <<device, line, assigned>>
past   == <<raced, moved>>
vars   == <<world, load, links, pvts, commands, queue, at, unspent, past>>

Idle == [pc |-> "idle"]

Init ==
  /\ objs = <<>> /\ bus = {} /\ ready = {} /\ enabled = {}
  /\ life = "down" /\ phase = "idle" /\ todo = {} /\ loads = 0
  /\ conf = {}
  /\ modems = {} /\ sims = {} /\ marked = {}
  /\ device = [p \in ModemPvts |-> None]
  /\ owner = [p \in ModemPvts |-> FALSE] /\ channels = {}
  /\ asking = [s \in SimPvts |-> None] /\ overtaken = {}
  /\ assigned = [s \in SimPvts |-> None]
  /\ commands = [p \in ModemPvts |-> 0] /\ queue = <<>>
  /\ at = [t \in Threads |-> Idle]
  /\ unspent = [e \in 1 .. MaxPaths |-> 0]
  /\ raced = FALSE /\ moved = FALSE

-----------------------------------------------------------------------------
(* References: a pvt dies with the last one, and its handlers with it *)

Held(x) == \/ \E t \in Threads : at[t].pc /= "idle" /\ x \in {at[t].modem, at[t].sim}
           \/ \E s \in SimPvts : asking[s] /= None /\ x \in {asking[s], s}

\* By sim->modem, or by the closures of a modem's handlers.
Refers(y, x) == \/ y \in SimPvts /\ assigned[y] = x
                \/ y \in ModemPvts /\ device[y] /= None /\ device[y].sim = x

\* What nothing refers to dies, and then what only that referred to: what is left is
\* the largest set whose members are all rooted or referred to from it.  Two pvts that
\* only refer to each other stay.
Rooted == modems \cup sims \cup channels \cup {x \in Pvts : Held(x)}
            \cup {p \in ModemPvts : commands[p] > 0}

Kept(S, roots) == \A x \in S : x \in roots \/ \E y \in S : Refers(y, x)

Alive == LET roots == Rooted IN UNION {S \in SUBSET Pvts : Kept(S, roots)}

Handlers(e) == {p \in ModemPvts : device[p] /= None /\ device[p].path = e /\ p \in Alive}

-----------------------------------------------------------------------------
(* ModemManager, and the handlers of the GMainLoop thread *)

\* on_object_added, on_object_removed; before they are connected, nothing.
Push(task) == /\ queue' = IF life = "up" THEN Append(queue, task) ELSE queue
              /\ raced' = (raced \/ life = "loading")

\* A modem with a SIM in it appears; its identifiers may come later.
Appears(d, c) ==
  /\ Len(objs) < MaxPaths /\ \A e \in bus : objs[e].modem /= d /\ objs[e].sim /= c
  /\ objs' = Append(objs, [modem |-> d, sim |-> c])
  /\ bus' = bus \cup {Len(objs')}
  /\ ready' \in {ready, ready \cup {Len(objs')}}
  /\ Push([op |-> "added", path |-> Len(objs')])
  /\ UNCHANGED <<enabled, load, links, pvts, commands, at, unspent, moved>>

Disappears(e) ==
  /\ e \in bus /\ bus' = bus \ {e} /\ Push([op |-> "removed", path |-> e])
  /\ UNCHANGED <<objs, ready, enabled, load, links, pvts, commands, at, unspent, moved>>

Identified(e) ==
  /\ e \in bus \ ready /\ ready' = ready \cup {e}
  /\ UNCHANGED <<objs, bus, enabled, load, links, pvts, commands, queue, at, unspent, past>>

\* atinit_kick
Kickable(p) == device[p] /= None /\ ~ device[p].done

\* Mutant: the state-changed handler kicks nothing.
RisesUnheard(e) ==
  /\ e \in (bus \cap ready) \ enabled /\ enabled' = enabled \cup {e}
  /\ UNCHANGED <<objs, bus, ready, load, links, pvts, commands, queue, at, unspent, past>>

\* on_modem_state_changed kicks the modem of the SIM in its closure.
Rises(e) ==
  /\ e \in (bus \cap ready) \ enabled /\ enabled' = enabled \cup {e}
  /\ commands' = [q \in ModemPvts |->
       IF Kickable(q)
         THEN commands[q] + Cardinality({p \in Handlers(e) : assigned[device[p].sim] = q})
         ELSE commands[q]]
  /\ UNCHANGED <<objs, bus, ready, load, links, pvts, queue, at, unspent, past>>

-----------------------------------------------------------------------------
(* load_config *)

Names(pvtSet) == {x[1] : x \in pvtSet}

\* The file is read; modems are marked, then built or unmarked.
Begin(read) ==
  /\ phase = "idle" /\ life \in {"down", "up"} /\ loads < MaxLoads /\ loads' = loads + 1
  /\ life' = IF life = "down" THEN "loading" ELSE life
  /\ conf' = read.sims /\ phase' = "sims"
  /\ modems' = modems \cup {<<d, loads'>> : d \in read.modems \ Names(modems)}
  /\ marked' = {p \in modems : p[1] \notin read.modems}
  /\ raced' = (raced \/ at["resolver"].pc /= "idle")
  /\ UNCHANGED <<world, todo, sims, pvts, commands, queue, at, unspent, moved>>

BuildSims ==
  /\ phase = "sims"
  /\ sims' = sims \cup {<<c, loads>> : c \in conf \ Names(sims)}
  /\ phase' = "prune" /\ todo' = marked
  /\ UNCHANGED <<world, life, conf, loads, modems, marked, pvts, commands, queue, at, unspent,
                 past>>

Detached(p) == device' = [device EXCEPT ![p] = None]

\* Mutant: a modem with an active call is pruned too.
PruneBusy(p) ==
  /\ phase = "prune" /\ p \in todo /\ todo' = todo \ {p}
  /\ modems' = modems \ {p} /\ marked' = marked \ {p} /\ Detached(p)
  /\ UNCHANGED <<world, life, phase, conf, loads, sims, line, assigned, commands, queue, at,
                 unspent, past>>

\* prune_cb of modem.c: one with an active call is kept.
Prune(p) ==
  /\ phase = "prune" /\ p \in todo /\ todo' = todo \ {p}
  /\ IF owner[p] THEN UNCHANGED <<modems, marked, device>>
                 ELSE /\ modems' = modems \ {p} /\ marked' = marked \ {p}
                      /\ Detached(p)
  /\ UNCHANGED <<world, life, phase, conf, loads, sims, line, assigned, commands, queue, at,
                 unspent, past>>

\* sim_prune_destroyed; then modem_resolve_all lists the objects.
PruneSims ==
  /\ phase = "prune" /\ todo = {}
  /\ sims' = {s \in sims : s[1] \in conf} /\ conf' = {}
  /\ phase' = "walk" /\ todo' = bus
  /\ UNCHANGED <<world, life, loads, modems, marked, pvts, commands, queue, at, unspent, past>>

Resolving(e) == [pc |-> "find", path |-> e, modem |-> None, sim |-> None]

Walk(e) ==
  /\ phase = "walk" /\ at["reload"] = Idle /\ e \in todo
  /\ todo' = todo \ {e} /\ at' = [at EXCEPT !["reload"] = Resolving(e)]
  /\ UNCHANGED <<world, life, phase, conf, loads, links, pvts, commands, queue, unspent, past>>

\* After the load, load_module connects object-added and -removed.  The pvts
\* that died are forgotten.
EndLoad ==
  /\ phase = "walk" /\ at["reload"] = Idle /\ todo = {}
  /\ phase' = "idle" /\ life' = "up"
  /\ LET alive == Alive IN
       /\ device' = [p \in ModemPvts |-> IF p \in alive THEN device[p] ELSE None]
       /\ assigned' = [s \in SimPvts |-> IF s \in alive THEN assigned[s] ELSE None]
  /\ UNCHANGED <<world, todo, conf, loads, links, line, commands, queue, at, unspent, past>>

-----------------------------------------------------------------------------
(* The serializer of the hotplug *)

Next1 == Head(queue)

\* Mutant: while load_config runs it is left to it.
TakeAddedIfIdle ==
  /\ at["resolver"] = Idle /\ queue /= <<>> /\ Next1.op = "added" /\ queue' = Tail(queue)
  /\ at' = IF phase = "idle" THEN [at EXCEPT !["resolver"] = Resolving(Next1.path)] ELSE at
  /\ raced' = (raced \/ phase /= "idle")
  /\ UNCHANGED <<world, load, links, pvts, commands, unspent, moved>>

TakeAdded ==
  /\ at["resolver"] = Idle /\ queue /= <<>> /\ Next1.op = "added"
  /\ queue' = Tail(queue) /\ at' = [at EXCEPT !["resolver"] = Resolving(Next1.path)]
  /\ raced' = (raced \/ phase /= "idle")
  /\ UNCHANGED <<world, load, links, pvts, commands, unspent, moved>>

\* Mutant: the modem is left attached.
TakeRemovedIgnored ==
  /\ at["resolver"] = Idle /\ queue /= <<>> /\ Next1.op = "removed"
  /\ queue' = Tail(queue)
  /\ raced' = (raced \/ phase /= "idle")
  /\ UNCHANGED <<world, load, links, pvts, commands, at, unspent, moved>>

\* detach_by_path_cb, over the container.
TakeRemoved ==
  /\ at["resolver"] = Idle /\ queue /= <<>> /\ Next1.op = "removed"
  /\ queue' = Tail(queue)
  /\ device' = [p \in ModemPvts |->
       IF p \in modems /\ p \in Handlers(Next1.path) THEN None ELSE device[p]]
  /\ raced' = (raced \/ phase /= "idle")
  /\ UNCHANGED <<world, load, links, line, assigned, commands, at, unspent, moved>>

-----------------------------------------------------------------------------
(* resolve_object, in either thread *)

Done(t) == at' = [at EXCEPT ![t] = Idle]

\* find_modem, with the identifier if there is one.
FindModem(t) ==
  /\ at[t].pc = "find"
  /\ LET found == {p \in modems : at[t].path \in ready /\ p[1] = objs[at[t].path].modem} IN
       \/ found = {} /\ Done(t)
       \/ \E p \in found : at' = [at EXCEPT ![t].pc = "sim", ![t].modem = p]
  /\ UNCHANGED <<world, load, links, pvts, commands, queue, unspent, past>>

\* Mutant: a SIM that is not configured is not noticed.
FindSimUnchecked(t) ==
  /\ at[t].pc = "sim"
  /\ LET found == {s \in sims : at[t].path \in bus /\ s[1] = objs[at[t].path].sim} IN
       \E s \in found \cup {None} : at' = [at EXCEPT ![t].pc = "attach", ![t].sim = s]
  /\ UNCHANGED <<world, load, links, pvts, commands, queue, unspent, past>>

\* mm_modem_get_sim_sync asks an object that may be gone; then find_sim.
FindSim(t) ==
  /\ at[t].pc = "sim"
  /\ LET found == {s \in sims : at[t].path \in bus /\ s[1] = objs[at[t].path].sim} IN
       \/ (found = {} \/ Failures) /\ Done(t)
       \/ \E s \in found : at' = [at EXCEPT ![t].pc = "attach", ![t].sim = s]
  /\ UNCHANGED <<world, load, links, pvts, commands, queue, unspent, past>>

\* The section under the lock of the modem: detach, connect, a new appearance.
Attach(t) ==
  /\ at[t].pc = "attach" /\ at' = [at EXCEPT ![t].pc = "assign"]
  /\ LET p == at[t].modem IN
       device' = [device EXCEPT ![p] =
                    [path |-> at[t].path, sim |-> at[t].sim, done |-> FALSE]]
  /\ unspent' = [unspent EXCEPT ![at[t].path] = @ + 1]
  /\ UNCHANGED <<world, load, links, line, assigned, commands, queue, past>>

\* The section under the lock of the SIM.
Assign(t) ==
  /\ at[t].pc = "assign" /\ at' = [at EXCEPT ![t].pc = "kick"]
  /\ assigned' = [assigned EXCEPT ![at[t].sim] = at[t].modem]
  /\ moved' = (moved \/ (/\ at[t].sim \in channels \/ asking[at[t].sim] /= None
                        /\ assigned[at[t].sim] /= at[t].modem))
  /\ UNCHANGED <<world, load, links, device, line, commands, queue, unspent, raced>>

\* A modem that is enabled already is kicked here.
Kick(t) ==
  /\ at[t].pc = "kick" /\ Done(t)
  /\ commands' = IF at[t].path \in enabled /\ Kickable(at[t].modem)
                   THEN [commands EXCEPT ![at[t].modem] = @ + 1] ELSE commands
  /\ UNCHANGED <<world, load, links, pvts, queue, unspent, past>>

-----------------------------------------------------------------------------
(* The serializer of a modem; the channels *)

\* Mutant: the task trusts the test of atinit_kick.
RunCommandsUntested(p) ==
  /\ commands[p] > 0 /\ commands' = [commands EXCEPT ![p] = @ - 1]
  /\ IF device[p] /= None
       THEN /\ device' = [device EXCEPT ![p].done = TRUE]
            /\ unspent' = [unspent EXCEPT ![device[p].path] = @ - 1]
       ELSE UNCHANGED <<device, unspent>>
  /\ UNCHANGED <<world, load, links, line, assigned, queue, at, past>>

\* atinit_task
RunCommands(p) ==
  /\ commands[p] > 0 /\ commands' = [commands EXCEPT ![p] = @ - 1]
  /\ IF Kickable(p)
       THEN /\ device' = [device EXCEPT ![p].done = TRUE]
            /\ unspent' = [unspent EXCEPT ![device[p].path] = @ - 1]
       ELSE UNCHANGED <<device, unspent>>
  /\ UNCHANGED <<world, load, links, line, assigned, queue, at, past>>

\* modemmanager_request, through the SIM, tests the owner and lets the modem go,
\* to open the devices and to create the call.  A call that comes in gets its modem
\* in the same way.
CallAsks(s) ==
  /\ s \in sims \ channels /\ asking[s] = None /\ assigned[s] /= None
  /\ device[assigned[s]] /= None /\ ~ owner[assigned[s]]
  /\ asking' = [asking EXCEPT ![s] = assigned[s]]
  /\ UNCHANGED <<world, load, links, device, owner, channels, overtaken, assigned, commands, queue,
                 at, unspent, past>>

\* The owner is set; a call that is dialled does not look again.
CallTakes(s) ==
  /\ asking[s] /= None /\ asking' = [asking EXCEPT ![s] = None]
  /\ owner' = [owner EXCEPT ![asking[s]] = TRUE] /\ channels' = channels \cup {s}
  /\ overtaken' = IF asking[s] \in modems /\ ~ owner[asking[s]]
                    THEN overtaken ELSE overtaken \cup {asking[s]}
  /\ UNCHANGED <<world, load, links, device, assigned, commands, queue, at, unspent, past>>

\* No audio, no call, no channel; a call that comes in finds an owner.
CallFails(s) ==
  /\ asking[s] /= None /\ asking' = [asking EXCEPT ![s] = None]
  /\ UNCHANGED <<world, load, links, device, owner, channels, overtaken, assigned, commands, queue,
                 at, unspent, past>>

\* modemmanager_hangup asks the SIM for its modem again.
CallEnds(s) ==
  /\ s \in channels /\ channels' = channels \ {s}
  /\ owner' = [p \in ModemPvts |-> owner[p] /\ p /= assigned[s]]
  /\ UNCHANGED <<world, load, links, device, asking, overtaken, assigned, commands, queue, at,
                 unspent, past>>

-----------------------------------------------------------------------------
ResolveNext(t) == FindModem(t) \/ FindSim(t) \/ Attach(t) \/ Assign(t) \/ Kick(t)

LoadNext == \/ BuildSims \/ PruneSims \/ EndLoad \/ \E p \in marked : Prune(p)
            \/ \E e \in todo : Walk(e)

CallNext(s) == CallAsks(s) \/ CallTakes(s) \/ CallFails(s) \/ CallEnds(s)

Confs == [modems : SUBSET Devices, sims : SUBSET Cards]

Next == \/ \E d \in Devices, c \in Cards : Appears(d, c)
        \/ \E e \in bus : Disappears(e) \/ Identified(e) \/ Rises(e)
        \/ \E read \in Confs : Begin(read)
        \/ LoadNext \/ TakeAdded \/ TakeRemoved
        \/ \E t \in Threads : ResolveNext(t)
        \/ \E p \in ModemPvts : RunCommands(p)
        \/ \E s \in SimPvts : CallNext(s)

Spec == Init /\ [][Next]_vars

\* The thread that loads, the serializer of the hotplug and the pool keep running.
FairSpec == /\ Spec /\ WF_vars(LoadNext \/ ResolveNext("reload"))
            /\ WF_vars(TakeAdded \/ TakeRemoved \/ ResolveNext("resolver"))
            /\ WF_vars(\E p \in ModemPvts : RunCommands(p))

-----------------------------------------------------------------------------
(* Properties *)

Paths == 1 .. MaxPaths

Resolutions == [pc : {"find", "sim", "attach", "assign", "kick"}, path : Paths,
                modem : ModemPvts \cup {None}, sim : SimPvts \cup {None}]

\* Type correctness.
TypeOK ==
  /\ objs \in Seq([modem : Devices, sim : Cards]) /\ Len(objs) <= MaxPaths
  /\ bus \subseteq 1 .. Len(objs) /\ ready \subseteq 1 .. Len(objs) /\ enabled \subseteq ready
  /\ life \in {"down", "loading", "up"} /\ phase \in {"idle", "sims", "prune", "walk"}
  /\ todo \subseteq IF phase = "prune" THEN marked ELSE 1 .. Len(objs)
  /\ conf \subseteq Cards /\ loads \in 0 .. MaxLoads
  /\ modems \subseteq ModemPvts /\ sims \subseteq SimPvts /\ marked \subseteq ModemPvts
  /\ device \in [ModemPvts -> [path : 1 .. Len(objs), sim : SimPvts, done : BOOLEAN] \cup {None}]
  /\ owner \in [ModemPvts -> BOOLEAN] /\ channels \subseteq SimPvts
  /\ asking \in [SimPvts -> ModemPvts \cup {None}] /\ overtaken \subseteq ModemPvts
  /\ assigned \in [SimPvts -> ModemPvts \cup {None}] /\ commands \in [ModemPvts -> Nat]
  /\ queue \in Seq([op : {"added", "removed"}, path : 1 .. Len(objs)])
  /\ at \in [Threads -> {Idle} \cup Resolutions]
  /\ \A t \in Threads : at[t] /= Idle =>
       /\ at[t].path \in 1 .. Len(objs)
       /\ at[t].modem \in IF at[t].pc = "find" THEN {None} ELSE ModemPvts
       /\ at[t].sim \in IF at[t].pc \in {"find", "sim"} THEN {None} ELSE SimPvts
  /\ unspent \in [Paths -> Int] /\ raced \in BOOLEAN /\ moved \in BOOLEAN

Attached(p) == device[p] /= None /\ p \in Alive

\* resolve_object "cannot double-connect": a modem pvt that left the container
\* has no handler on any object, whoever still refers to it, so what takes its
\* place is the only one to hear of a call or a message.
PrunedDetached == ~ raced =>
  \A p \in ModemPvts : Attached(p) => p \in modems

\* prune_cb: "Active call: keep until it ends".  The modem of a channel stays in
\* the container, taken, until the channel is hung up, whatever is reloaded, unless
\* its SIM turns up in another modem: modemmanager_hangup then asks that one.  The
\* promise begins with the owner, not with the test: a modem that was pruned, or
\* taken, while the call that tested it was being created is excepted by name.
CallsKeepModem == ~ raced /\ ~ moved =>
  \A s \in channels :
    \/ assigned[s] \in modems /\ owner[assigned[s]]
    \/ assigned[s] \in overtaken

Quiet == phase = "idle" /\ queue = <<>> /\ at["resolver"] = Idle

\* When no thread is at work, what is attached is there, and the SIM that its
\* handlers have leads back to it: a call or a message that comes in finds its
\* modem.
HandlersReachModem == Quiet /\ ~ raced =>
  \A p \in modems : Attached(p) =>
    /\ device[p].path \in bus /\ objs[device[p].path].modem = p[1]
    /\ assigned[device[p].sim] = p

\* What listens on a modem object belongs to a pvt of the container, and leads to it.
HandlersPaired == PrunedDetached /\ HandlersReachModem

\* "Once per appearance": the init commands run at most once for each time
\* an object was attached, though several kicks race with the task.
CommandsOnce == \A e \in Paths : unspent[e] >= 0

Holds(p, e) == p \in modems /\ device[p] /= None /\ device[p].path = e

\* A modem that is enabled, before or after it is attached, gets its init
\* commands: the kick at the end of resolve_object and that of the state-changed
\* handler leave no gap, so none is due for ever.
CommandsRun == \A e \in Paths :
  LET Due == e \in enabled /\ \E p \in ModemPvts : Holds(p, e) /\ ~ device[p].done IN
  []<> ~ Due

Wanted(e) == /\ e \in bus /\ objs[e].modem \in Names(modems) /\ objs[e].sim \in Names(sims)

\* A modem that is announced with its identifiers gets attached.
HotplugAttaches == \A e \in Paths :
  (\E i \in 1 .. Len(queue) : queue[i] = [op |-> "added", path |-> e]) /\ e \in ready /\ Wanted(e)
    ~> ~ Wanted(e) \/ \E p \in ModemPvts : Holds(p, e)
=============================================================================
