------------------------------ MODULE CallLine ------------------------------
(***************************************************************************)
(* The voice line of one modem: src/src/call.c and src/src/channel.c, with *)
(* the parts of src/src/modem.c that attach the modem to its D-Bus object  *)
(* and detach it.  One action is one section of code that no other thread  *)
(* can split: a section under the lock of the modem pvt, or one blocking   *)
(* D-Bus call.  Four kinds of thread take them:                            *)
(*   - the GMainLoop thread, which dispatches loopQ in order;              *)
(*   - the serializer of the modem, which runs the tasks of serQ in order; *)
(*   - one Asterisk core thread per channel (request, answer, hangup);     *)
(*   - the thread that reloads the configuration or resolves a hot-plugged *)
(*     modem.                                                              *)
(* ModemManager and the network are the environment.                       *)
(*                                                                         *)
(* A call and the channel created for it carry the same name: dial d makes *)
(* MM call d and channel d, an incoming call r gets channel r.             *)
(***************************************************************************)
EXTENDS Naturals, Sequences, FiniteSets

CONSTANTS
  Dials,          \* calls that Dial() may place through modemmanager_request
  Rings,          \* calls that may come in from the network
  None,           \* the NULL pointer
  MaxResolves,    \* bound: reloads and re-plugs of the modem
  MaxUnplugs,     \* bound: times the modem disappears from the bus
  Failures,       \* TRUE: D-Bus calls, ALSA opens, channels and pushes to the
                  \*       serializer may fail
  ProxyDelivers   \* TRUE: the MMCall proxy delivers call signals as well

Calls == Dials \cup Rings

ASSUME CallsAssumption ==
  /\ Dials \cap Rings = {}
  /\ None \notin Calls
  /\ MaxResolves \in Nat /\ MaxUnplugs \in Nat
  /\ Failures \in BOOLEAN /\ ProxyDelivers \in BOOLEAN

VARIABLES
  mm,        \* the state of each call inside ModemManager
  voice,     \* the modem pvt holds a voice proxy (modem->voice)
  call,      \* modem->call
  last,      \* modem->last_call_state
  owner,     \* modem->owner, a channel pointer that holds no reference
  sub,       \* modem->sub_call_state: the call its subscription is for
  subs,      \* the calls with a live raw StateChanged subscription
  loopQ,     \* sources and signals waiting for the GMainLoop thread
  loop,      \* what the GMainLoop thread is in the middle of
  serQ,      \* tasks waiting for the serializer
  ser,       \* what the serializer is in the middle of
  pc,        \* where the core thread of each channel is
  snap,      \* modem->call as answer or hangup of the channel read it
  heard,     \* control frames queued to each channel, with their call
  unplugged, \* the modem is off the bus
  stranded,  \* calls whose task was lost, or which MM failed to list or to hang up
  resolves, unplugs    \* how often the bounded actions happened

daemon == <<mm>>
line   == <<voice, call, last, owner>>
watch  == <<sub, subs>>
loopv  == <<loopQ, loop>>
serv   == <<serQ, ser>>
chans  == <<pc, snap, heard>>
world  == <<unplugged, stranded, resolves, unplugs>>
vars   == <<daemon, line, watch, loopv, serv, chans, world>>

-----------------------------------------------------------------------------
\* MMCallState; "absent" before the call exists, "deleted" once MM forgot it.
States  == {"absent", "unknown", "dialing", "ringing_out", "ringing_in",
            "active", "terminated", "deleted"}
LiveStates == {"unknown", "dialing", "ringing_out", "ringing_in", "active"}

\* The order in which ModemManager takes a call through its states.
Rank(s) == CASE s = "absent" -> 0  [] s = "unknown" -> 1  [] s = "dialing" -> 2
             [] s = "ringing_out" -> 3 [] s = "ringing_in" -> 3
             [] s = "active" -> 4 [] s = "terminated" -> 5 [] s = "deleted" -> 6

LoopItems == [k : {"subscribe", "state", "added"}, c : Calls, s : States]
LoopSteps == [k : {"idle", "subscribing", "handling"}, c : Calls \cup {None}, s : States]
SerTasks  == [k : {"added", "start", "terminated"}, c : Calls \cup {None}]
SerSteps  == [k : {"idle", "attach", "reject", "pbx", "wait", "delete"},
              c : Calls \cup {None}, s : States]
Places    == {"idle", "create", "attach", "start", "new", "ringing", "answering",
              "up", "drop", "hanging", "ended", "failed"}
Frames    == [ctl : {"PROCEEDING", "RINGING", "ANSWER", "HANGUP"},
              call : Calls \cup {None}]

\* Places at which the channel exists and modemmanager_hangup has not begun.
Held == {"start", "new", "ringing", "answering", "up", "drop"}

LoopIdle == [k |-> "idle", c |-> None, s |-> "absent"]
SerIdle  == [k |-> "idle", c |-> None, s |-> "absent"]

Present(c) == mm[c] \in LiveStates \cup {"terminated"}

-----------------------------------------------------------------------------
\* ModemManager changes the state of call c: every live subscription for its
\* path and, where proxies deliver, the signals of the attached proxy queue
\* one item each for the GMainLoop thread.
StateItems(c, s) ==
  LET item == [k |-> "state", c |-> c, s |-> s]
  IN  (IF c \in subs THEN <<item>> ELSE <<>>)
        \o (IF ProxyDelivers /\ call = c THEN <<item>> ELSE <<>>)

MmMoves(c, s) ==
  /\ mm' = [mm EXCEPT ![c] = s]
  /\ loopQ' = loopQ \o StateItems(c, s)

\* What call_detach does to the subscription: nothing without a call.
ReleaseWatch ==
  IF call = None THEN UNCHANGED watch
                 ELSE sub' = None /\ subs' = subs \ {sub}

CallDetach == call' = None /\ ReleaseWatch

\* Mutant: the last state of the previous call is not reset.
AttachKeepsLast(c, seen, made) ==
  /\ call' = IF made THEN c ELSE None
  /\ owner' = IF made THEN c ELSE owner
  /\ ReleaseWatch
  /\ loopQ' = Append(loopQ, [k |-> "subscribe", c |-> c, s |-> seen])
  /\ UNCHANGED last

\* call_attach, which detaches the previous call, takes c with the state its
\* proxy shows and sends do_call_subscribe to the GMainLoop thread; then
\* modemmanager_new, after whose failure the caller detaches c again.
AttachAndMake(c, seen, made) ==
  /\ call' = IF made THEN c ELSE None
  /\ owner' = IF made THEN c ELSE owner
  /\ last' = seen
  /\ ReleaseWatch
  /\ loopQ' = Append(loopQ, [k |-> "subscribe", c |-> c, s |-> seen])

Goto(c, place) == pc' = [pc EXCEPT ![c] = place]

QueueFrame(ch, ctl, c) ==
  heard' = IF ch = None THEN heard
           ELSE [heard EXCEPT ![ch] = @ \cup {[ctl |-> ctl, call |-> c]}]

\* A push to the serializer is lost when the SIM has no modem, the modem has no
\* serializer, or the allocation or the push itself fails; nobody is told.
Push(task, c) == \/ serQ' = Append(serQ, [k |-> task, c |-> c])
                 \/ Failures /\ UNCHANGED serQ

\* What becomes of call c when the step has lost its task.
StrandedIfLost(c) == stranded' = IF serQ' = serQ THEN stranded \cup {c} ELSE stranded

Told(c) == \E f \in heard[c] : f.ctl = "HANGUP"

Init ==
  /\ mm = [c \in Calls |-> "absent"]
  /\ voice = TRUE /\ call = None /\ last = "unknown" /\ owner = None
  /\ sub = None /\ subs = {}
  /\ loopQ = <<>> /\ loop = LoopIdle
  /\ serQ = <<>> /\ ser = SerIdle
  /\ pc = [c \in Calls |-> "idle"]
  /\ snap = [c \in Calls |-> None]
  /\ heard = [c \in Calls |-> {}]
  /\ unplugged = FALSE /\ stranded = {} /\ resolves = 0 /\ unplugs = 0

-----------------------------------------------------------------------------
(* ModemManager and the network *)

\* A call comes in; call-added reaches whoever is connected to the voice proxy.
NetworkRings(r) ==
  /\ r \in Rings /\ mm[r] = "absent" /\ ~unplugged
  /\ mm' = [mm EXCEPT ![r] = "ringing_in"]
  /\ loopQ' = IF voice THEN Append(loopQ, [k |-> "added", c |-> r, s |-> "ringing_in"])
                       ELSE loopQ
  /\ UNCHANGED <<line, watch, loop, serv, chans, world>>

\* An outgoing call makes progress, or the far end hangs up.
NetworkMoves(c, s) ==
  /\ \/ mm[c] = "dialing" /\ s \in {"ringing_out", "active", "terminated"}
     \/ mm[c] = "ringing_out" /\ s \in {"active", "terminated"}
     \/ mm[c] \in {"ringing_in", "active"} /\ s = "terminated"
  /\ MmMoves(c, s)
  /\ UNCHANGED <<line, watch, loop, serv, chans, world>>

\* The modem leaves the bus with all its calls.
ModemUnplugged ==
  /\ unplugs < MaxUnplugs /\ ~unplugged
  /\ unplugs' = unplugs + 1 /\ unplugged' = TRUE
  /\ mm' = [c \in Calls |-> IF mm[c] = "absent" THEN "absent" ELSE "deleted"]
  /\ UNCHANGED <<line, watch, loopv, serv, chans, stranded, resolves>>

-----------------------------------------------------------------------------
(* modemmanager_request, on the core thread of the dialling channel *)

\* The line must be resolved, idle and registered.
RequestCheck(d) ==
  /\ d \in Dials /\ pc[d] = "idle"
  /\ \/ voice /\ owner = None /\ Goto(d, "create")
     \/ (~voice \/ owner /= None \/ Failures) /\ Goto(d, "failed")
  /\ UNCHANGED <<daemon, line, watch, loopv, serv, snap, heard, world>>

\* open_stream and mm_modem_voice_create_call_sync, with no lock held.
RequestCreate(d) ==
  /\ pc[d] = "create"
  /\ \/ /\ ~unplugged /\ mm[d] = "absent"
        /\ mm' = [mm EXCEPT ![d] = "unknown"]
        /\ loopQ' = IF voice THEN Append(loopQ, [k |-> "added", c |-> d, s |-> "unknown"])
                             ELSE loopQ
        /\ Goto(d, "attach")
     \/ /\ Failures \/ unplugged
        /\ Goto(d, "failed")
        /\ UNCHANGED <<mm, loopQ>>
  /\ UNCHANGED <<line, watch, loop, serv, snap, heard, world>>

\* The second locked section, which looks at neither owner nor call again.
RequestAttach(d) ==
  /\ pc[d] = "attach"
  /\ \/ AttachAndMake(d, "unknown", TRUE) /\ Goto(d, "start")
     \/ Failures /\ AttachAndMake(d, "unknown", FALSE) /\ Goto(d, "failed")
  /\ UNCHANGED <<daemon, voice, loop, serv, snap, heard, world>>

\* mm_call_start_sync; on error the new channel is hung up.
RequestStart(d) ==
  /\ pc[d] = "start"
  /\ \/ mm[d] = "unknown" /\ MmMoves(d, "dialing") /\ Goto(d, "up")
     \/ Failures /\ mm[d] = "unknown" /\ MmMoves(d, "terminated") /\ Goto(d, "drop")
     \/ (Failures \/ mm[d] /= "unknown") /\ Goto(d, "drop") /\ UNCHANGED <<mm, loopQ>>
  /\ UNCHANGED <<line, watch, loop, serv, snap, heard, world>>

-----------------------------------------------------------------------------
(* modemmanager_answer and modemmanager_hangup *)

\* The core answers a channel that rings and has not been told to hang up.
AnswerBegin(r) ==
  /\ pc[r] = "ringing" /\ ~Told(r) /\ call /= None
  /\ snap' = [snap EXCEPT ![r] = call]
  /\ Goto(r, "answering")
  /\ UNCHANGED <<daemon, line, watch, loopv, serv, heard, world>>

\* mm_call_accept_sync on the call that was read; an error asks for a hangup.
AnswerAccept(r) ==
  /\ pc[r] = "answering"
  /\ \/ /\ mm[snap[r]] = "ringing_in" /\ MmMoves(snap[r], "active")
        /\ Goto(r, "up") /\ UNCHANGED heard
     \/ /\ Failures \/ mm[snap[r]] /= "ringing_in"
        /\ Goto(r, "ringing")
        /\ QueueFrame(r, "HANGUP", snap[r])
        /\ UNCHANGED <<mm, loopQ>>
  /\ UNCHANGED <<line, watch, loop, serv, snap, world>>

\* Mutant: the channel pointer stays behind.
HangupKeepsOwner(c) ==
  /\ pc[c] \in {"ringing", "up", "drop"}
  /\ snap' = [snap EXCEPT ![c] = call]
  /\ Goto(c, "hanging")
  /\ UNCHANGED <<daemon, line, watch, loopv, serv, heard, world>>

\* The core hangs a channel up, because it was told to or at any other time.
\* modem->owner is cleared whoever owns the line.
HangupBegin(c) ==
  /\ pc[c] \in {"ringing", "up", "drop"}
  /\ owner' = None
  /\ snap' = [snap EXCEPT ![c] = call]
  /\ Goto(c, "hanging")
  /\ UNCHANGED <<daemon, voice, call, last, watch, loopv, serv, heard, world>>

\* mm_call_hangup_sync on the call that was read; its error is only logged.
HangupCall(c) ==
  /\ pc[c] = "hanging" /\ Goto(c, "ended")
  /\ \/ /\ snap[c] /= None /\ mm[snap[c]] \in LiveStates
        /\ MmMoves(snap[c], "terminated")
     \/ /\ snap[c] /= None /\ ~Failures => mm[snap[c]] \notin LiveStates \ {"unknown"}
        /\ UNCHANGED <<mm, loopQ>>
  /\ UNCHANGED <<line, watch, loop, serv, snap, heard, world>>

-----------------------------------------------------------------------------
(* The GMainLoop thread *)

LoopTakes(kind) == loop = LoopIdle /\ loopQ /= <<>> /\ Head(loopQ).k = kind

\* do_call_subscribe, before the lock: the subscription goes live.
LoopSubscribe ==
  /\ LoopTakes("subscribe")
  /\ loopQ' = Tail(loopQ)
  /\ subs' = subs \cup {Head(loopQ).c}
  /\ loop' = [k |-> "subscribing", c |-> Head(loopQ).c, s |-> "absent"]
  /\ UNCHANGED <<daemon, line, sub, serv, chans, world>>

\* Mutant: the subscription is recorded without looking at the call.
LoopRecordsAny ==
  /\ loop.k = "subscribing" /\ sub' = loop.c
  /\ loop' = LoopIdle
  /\ UNCHANGED <<daemon, line, subs, loopQ, serv, chans, world>>

\* do_call_subscribe, under the lock: the modem keeps the subscription of the
\* call it still has; any other is cancelled.
LoopRecord ==
  /\ loop.k = "subscribing"
  /\ IF call = loop.c THEN sub' = loop.c /\ UNCHANGED subs
                      ELSE subs' = subs \ {loop.c} /\ UNCHANGED sub
  /\ loop' = LoopIdle
  /\ UNCHANGED <<daemon, line, loopQ, serv, chans, world>>

\* on_raw_call_state_changed passes on only what comes from the path of the
\* attached call; the proxy handlers are connected to that call alone.
ForAttachedCall(m) == call = m.c

\* The locked section of handle_call_state: only a new state of the attached
\* call is acted upon.
LoopSignal ==
  /\ LoopTakes("state")
  /\ loopQ' = Tail(loopQ)
  /\ LET m == Head(loopQ)
     IN  IF ForAttachedCall(m) /\ last /= m.s
           THEN /\ last' = m.s
                /\ loop' = [k |-> "handling", c |-> m.c, s |-> m.s]
           ELSE UNCHANGED <<last, loop>>
  /\ UNCHANGED <<daemon, voice, call, owner, watch, serv, chans, world>>

\* The switch of handle_call_state, which reads the owner anew and pushes the
\* blocking work to the serializer.
LoopAct ==
  /\ loop.k = "handling"
  /\ loop' = LoopIdle
  /\ CASE loop.s = "dialing" ->
            QueueFrame(owner, "PROCEEDING", loop.c) /\ UNCHANGED <<serQ, stranded>>
       [] loop.s = "ringing_out" ->
            QueueFrame(owner, "RINGING", loop.c) /\ Push("start", None) /\ UNCHANGED stranded
       [] loop.s = "active" ->
            QueueFrame(owner, "ANSWER", loop.c) /\ UNCHANGED <<serQ, stranded>>
       [] loop.s = "terminated" ->
            /\ QueueFrame(owner, "HANGUP", loop.c)
            /\ Push("terminated", None) /\ StrandedIfLost(loop.c)
       [] OTHER -> UNCHANGED <<heard, serQ, stranded>>
  /\ UNCHANGED <<daemon, line, watch, loopQ, ser, pc, snap, unplugged, resolves, unplugs>>

\* Mutant: a call that comes in while the line is taken is ignored.
LoopCallAddedIfFree ==
  /\ LoopTakes("added")
  /\ loopQ' = Tail(loopQ)
  /\ IF owner = None THEN Push("added", Head(loopQ).c) /\ StrandedIfLost(Head(loopQ).c)
                     ELSE UNCHANGED <<serQ, stranded>>
  /\ UNCHANGED <<daemon, line, watch, loop, ser, chans, unplugged, resolves, unplugs>>

\* on_voice_call_added hands the path to the serializer; a call whose task is lost
\* gets no channel and is not rejected either.
LoopCallAdded ==
  /\ LoopTakes("added")
  /\ loopQ' = Tail(loopQ)
  /\ Push("added", Head(loopQ).c) /\ StrandedIfLost(Head(loopQ).c)
  /\ UNCHANGED <<daemon, line, watch, loop, ser, chans, unplugged, resolves, unplugs>>

-----------------------------------------------------------------------------
(* The serializer of the modem *)

SerTakes(task) == ser = SerIdle /\ serQ /= <<>> /\ Head(serQ).k = task

SerMove(step, c, s) == ser' = [k |-> step, c |-> c, s |-> s]

\* task_call_added up to open_stream: the call must be in the list MM returns
\* and be incoming.  The proxy of the list shows the state of that moment.
SerAdded ==
  /\ SerTakes("added")
  /\ serQ' = Tail(serQ)
  /\ LET c == Head(serQ).c
     IN  \/ /\ voice /\ Present(c) /\ c \in Rings
            /\ \/ SerMove("attach", c, mm[c])
               \/ Failures /\ SerMove("reject", c, "absent")
            /\ UNCHANGED stranded
         \/ /\ ~(voice /\ Present(c) /\ c \in Rings)
            /\ UNCHANGED <<ser, stranded>>
         \/ Failures /\ c \in Rings /\ stranded' = stranded \cup {c} /\ UNCHANGED ser
  /\ UNCHANGED <<daemon, line, watch, loopv, chans, unplugged, resolves, unplugs>>

\* The part of SerAttach after the test, and the part when the test fails.
SerRefuses ==
  /\ SerMove("reject", ser.c, "absent")
  /\ UNCHANGED <<line, watch, loopQ, pc>>

SerTakesCall ==
  /\ \/ /\ AttachAndMake(ser.c, ser.s, TRUE)
        /\ Goto(ser.c, "new") /\ SerMove("pbx", ser.c, "absent")
     \/ /\ Failures /\ AttachAndMake(ser.c, ser.s, FALSE)
        /\ SerMove("reject", ser.c, "absent") /\ UNCHANGED pc
  /\ UNCHANGED voice

\* Mutants: one of the two tests is missing; a call still attached is kept.
SerAttachIfNoCall ==
  /\ ser.k = "attach"
  /\ IF call /= None THEN SerRefuses ELSE SerTakesCall
  /\ UNCHANGED <<daemon, loop, serQ, snap, heard, world>>

SerAttachIfNoOwner ==
  /\ ser.k = "attach"
  /\ IF owner /= None THEN SerRefuses ELSE SerTakesCall
  /\ UNCHANGED <<daemon, loop, serQ, snap, heard, world>>

\* The locked section of task_call_added.
SerAttach ==
  /\ ser.k = "attach"
  /\ IF owner /= None \/ call /= None THEN SerRefuses ELSE SerTakesCall
  /\ UNCHANGED <<daemon, loop, serQ, snap, heard, world>>

\* mm_call_hangup_sync on a call that gets no channel.
SerReject ==
  /\ ser.k = "reject" /\ ser' = SerIdle
  /\ \/ mm[ser.c] \in LiveStates /\ MmMoves(ser.c, "terminated") /\ UNCHANGED stranded
     \/ mm[ser.c] \notin LiveStates /\ UNCHANGED <<mm, loopQ, stranded>>
     \/ Failures /\ stranded' = stranded \cup {ser.c} /\ UNCHANGED <<mm, loopQ>>
  /\ UNCHANGED <<line, watch, loop, serQ, chans, unplugged, resolves, unplugs>>

\* ast_pbx_start; when it fails the serializer itself hangs the channel up.
SerPbx ==
  /\ ser.k = "pbx"
  /\ \/ Goto(ser.c, "ringing") /\ ser' = SerIdle
     \/ Failures /\ Goto(ser.c, "drop") /\ SerMove("wait", ser.c, "absent")
  /\ UNCHANGED <<daemon, line, watch, loopv, serQ, snap, heard, world>>

SerWaited ==
  /\ ser.k = "wait" /\ pc[ser.c] = "ended"
  /\ ser' = SerIdle
  /\ UNCHANGED <<daemon, line, watch, loopv, serQ, chans, world>>

\* task_start_stream; the streams are the subject of module AudioStream.
SerStart ==
  /\ SerTakes("start")
  /\ serQ' = Tail(serQ)
  /\ UNCHANGED <<daemon, line, watch, loopv, ser, chans, world>>

\* Mutants: the task does not test for a call; it does not detach it.
SerTerminatedUntested ==
  /\ SerTakes("terminated")
  /\ serQ' = Tail(serQ)
  /\ CallDetach
  /\ IF voice THEN SerMove("delete", call, "absent") ELSE UNCHANGED ser
  /\ UNCHANGED <<daemon, voice, last, owner, loopv, chans, world>>

SerTerminatedKeepsCall ==
  /\ SerTakes("terminated")
  /\ serQ' = Tail(serQ)
  /\ IF call /= None /\ voice THEN SerMove("delete", call, "absent")
                              ELSE UNCHANGED ser
  /\ UNCHANGED <<daemon, line, watch, loopv, chans, world>>

\* The locked section of task_call_terminated: the call to delete is the one
\* the modem has now.
SerTerminated ==
  /\ SerTakes("terminated")
  /\ serQ' = Tail(serQ)
  /\ CallDetach
  /\ IF call /= None /\ voice THEN SerMove("delete", call, "absent")
                              ELSE UNCHANGED ser
  /\ UNCHANGED <<daemon, voice, last, owner, loopv, chans, world>>

\* mm_modem_voice_delete_call_sync; MM hangs up a call it deletes.
SerDelete ==
  /\ ser.k = "delete" /\ ser' = SerIdle
  /\ \/ Present(ser.c) /\ mm' = [mm EXCEPT ![ser.c] = "deleted"]
     \/ (Failures \/ ~Present(ser.c)) /\ UNCHANGED mm
  /\ UNCHANGED <<line, watch, loopv, serQ, chans, world>>

-----------------------------------------------------------------------------
(* Reload, hot-unplug and hot-world *)

\* resolve_object, from a reload or because the modem came back: detach, then
\* attach to the object that is on the bus.
Resolve ==
  /\ resolves < MaxResolves /\ resolves' = resolves + 1
  /\ unplugged => ~voice
  /\ unplugged' = FALSE /\ voice' = TRUE
  /\ CallDetach
  /\ UNCHANGED <<daemon, last, owner, loopv, serv, chans, stranded, unplugs>>

\* Mutant: the owner is not told.
DetachRemovedSilently ==
  /\ unplugged /\ voice
  /\ voice' = FALSE
  /\ CallDetach
  /\ UNCHANGED <<daemon, last, owner, loopv, serv, chans, world>>

\* detach_by_path_cb: detach under the lock and tell the owner to hang up.
DetachRemoved ==
  /\ unplugged /\ voice
  /\ voice' = FALSE
  /\ CallDetach
  /\ QueueFrame(owner, "HANGUP", None)
  /\ UNCHANGED <<daemon, last, owner, loopv, serv, pc, snap, world>>

-----------------------------------------------------------------------------
LoopNext == LoopSubscribe \/ LoopRecord \/ LoopSignal \/ LoopAct \/ LoopCallAdded

SerNext == \/ SerAdded \/ SerAttach \/ SerReject \/ SerPbx \/ SerWaited
           \/ SerStart \/ SerTerminated \/ SerDelete

ChannelNext(c) == \/ RequestCheck(c) \/ RequestCreate(c) \/ RequestAttach(c)
                  \/ RequestStart(c) \/ AnswerBegin(c) \/ AnswerAccept(c)
                  \/ HangupBegin(c) \/ HangupCall(c)

Next ==
  \/ LoopNext \/ SerNext
  \/ \E c \in Calls : ChannelNext(c) \/ NetworkRings(c)
  \/ \E c \in Calls, s \in States : NetworkMoves(c, s)
  \/ ModemUnplugged \/ Resolve \/ DetachRemoved

Spec == Init /\ [][Next]_vars

\* The GMainLoop thread and the serializer never stop, a core thread finishes
\* the operation it is in, a channel told to hang up is hung up, and the
\* resolver runs its task.  Nothing is assumed of the network, of the dialplan
\* or of reloads.
Fairness ==
  /\ WF_vars(LoopNext) /\ WF_vars(SerNext) /\ WF_vars(DetachRemoved)
  /\ \A c \in Calls :
       /\ WF_vars(RequestCreate(c) \/ RequestAttach(c) \/ RequestStart(c))
       /\ WF_vars(AnswerAccept(c)) /\ WF_vars(HangupCall(c))
       /\ WF_vars((Told(c) \/ pc[c] = "drop") /\ HangupBegin(c))

FairSpec == Spec /\ Fairness

-----------------------------------------------------------------------------
(* What holds however calls, reloads and unplugs interleave *)

\* Type correctness of the modem pvt, the queues and the channels.
TypeOK ==
  /\ mm \in [Calls -> States]
  /\ voice \in BOOLEAN /\ unplugged \in BOOLEAN
  /\ call \in Calls \cup {None} /\ owner \in Calls \cup {None}
  /\ last \in States
  /\ sub \in Calls \cup {None} /\ subs \subseteq Calls
  /\ loopQ \in Seq(LoopItems) /\ loop \in LoopSteps
  /\ serQ \in Seq(SerTasks) /\ ser \in SerSteps
  /\ loop.k /= "idle" => loop.c \in Calls
  /\ ser.k /= "idle" => ser.c \in Calls
  /\ pc \in [Calls -> Places]
  /\ snap \in [Calls -> Calls \cup {None}]
  /\ \A c \in Calls : pc[c] = "answering" => snap[c] \in Calls
  /\ heard \in [Calls -> SUBSET Frames]
  /\ stranded \subseteq Calls
  /\ resolves \in 0 .. MaxResolves /\ unplugs \in 0 .. MaxUnplugs

\* modem->owner is a bare pointer: it must never outlive modemmanager_hangup of
\* the channel, because modem_grab_owner takes a reference through it.
OwnerAlive == owner /= None => pc[owner] \in Held

\* Every raw StateChanged subscription is the one modem->sub_call_state will
\* cancel or is still in the hands of do_call_subscribe, and the recorded one
\* is for the attached call: no subscription leaks, none is cancelled early.
SubscriptionsAccounted ==
  /\ subs = ({sub} \ {None}) \cup (IF loop.k = "subscribing" THEN {loop.c} ELSE {})
  /\ sub \in {None, call}

\* While one call stays attached, the states acted upon only move forward: no
\* signal is applied late, after a newer one or after the state read at attach.
StatesAdvance ==
  [][call /= None /\ call' = call => Rank(last') >= Rank(last)]_vars

-----------------------------------------------------------------------------
(* What holds until a dial attaches its call to a line that is taken *)

\* A channel that has not been hung up is the one modem->owner points to, so
\* there is one at a time and each receives the frames of its own call.
ChannelsOwnLine == \A c \in Calls : pc[c] \in Held => owner = c

\* The attached call is the call of the owner.
CallMatchesOwner == owner /= None => call \in {None, owner}

\* answer and hangup act on the call of their own channel.
ActsOnOwnCall == \A c \in Calls : snap[c] \in {None, c}

\* Calls, one ending while the next comes, are kept apart: the line is
\* its channel's alone, and what is attached and acted on is that channel's call.
LineKeptApart == ChannelsOwnLine /\ CallMatchesOwner /\ ActsOnOwnCall

\* Control frames queued to a channel come from its own call, until a reload or the
\* loss of the modem: the resolver then detaches a call while the GMainLoop thread is
\* between its decision and the owner it reads.
FramesFromOwnCall == resolves = 0 /\ unplugs = 0 =>
  \A c \in Calls : \A f \in heard[c] : f.call \in {None, c}

\* task_call_terminated deletes only a call that has terminated, until a reload takes
\* the call away from the task.
DeletesOnlyTerminated == [][resolves = 0 =>
  \A c \in Calls : mm[c] \in LiveStates /\ mm'[c] = "deleted" => unplugs' > unplugs]_vars

-----------------------------------------------------------------------------
(* What eventually happens *)

\* An incoming call gets a channel, is rejected, or goes away by itself, also when no
\* audio opens, the line is taken meanwhile or the channel cannot be made.  The code
\* gives up a call only where its task is lost (call.c:458-478: it rings on) or
\* ModemManager fails to list it or to hang it up.
RingsDisposed ==
  \A r \in Rings : mm[r] = "ringing_in" ~>
                    (pc[r] /= "idle" \/ mm[r] /= "ringing_in" \/ r \in stranded)

\* Once the GMainLoop thread acts on the end of a call, the line is freed of it, unless
\* the push of task_call_terminated is lost (call.c:250-253): the call then stays
\* attached, and the next incoming one finds the line busy.
TerminationFreesLine ==
  \A c \in Calls : (loop.k = "handling" /\ loop.c = c /\ loop.s = "terminated")
                    ~> (call /= c \/ c \in stranded)

\* A channel that owns the line when the modem disappears is hung up.
UnpluggedChannelEnds ==
  \A c \in Calls : (unplugged /\ voice /\ owner = c) ~> pc[c] = "ended"

=============================================================================
