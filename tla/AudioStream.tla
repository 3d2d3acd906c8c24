---------------------------- MODULE AudioStream ----------------------------
(***************************************************************************)
(* The ALSA stream of one modem: src/src/audio_alsa.c, driven by the       *)
(* channels of src/src/channel.c and src/src/call.c and by the             *)
(* task_start_stream of the modem serializer.                              *)
(*                                                                         *)
(* An actor is the core thread of a channel or the serializer.  One action *)
(* is one section under the pvt lock or under pcm_lock, one join, or one   *)
(* blocking open; a capture thread runs between its tests of stream_stop   *)
(* with no lock at all.  capture_pcm and playback_pcm are opened, set and  *)
(* closed together, so one handle stands for both.                         *)
(***************************************************************************)
EXTENDS Naturals, FiniteSets

CONSTANTS
  Dials, Rings,   \* outgoing and incoming calls, each with its channel
  Ser,        \* the serializer of the modem
  Handles,    \* names for PCM handles; a closed one nobody holds is used again
  Threads,    \* names for capture threads; a joined one is used again
  None,       \* NULL
  MaxStarts   \* bound: task_start_stream tasks pushed

Channels == Dials \cup Rings
Actors == Channels \cup {Ser}

ASSUME StreamAssumption ==
  /\ Dials \cap Rings = {} /\ Ser \notin Channels
  /\ None \notin Channels \cup Handles \cup Threads
  /\ Handles \subseteq Nat /\ Threads \subseteq Nat /\ MaxStarts \in Nat

VARIABLES
  owner,        \* modem->owner
  streamstate,  \* modem->streamstate
  stream_stop,  \* modem->stream_stop
  thread,       \* modem->thread
  pcm,          \* modem->capture_pcm and modem->playback_pcm
  rated,        \* modem->rate and modem->format have been set
  open,         \* the PCM handles ALSA has open
  pc, goal,     \* where each actor is, and the operation it is in
  held,         \* the handle an actor opened and has not installed
  joining,      \* the thread an actor waits for in pthread_join
  cap, using,   \* where each capture thread is, and the handle it reads from
  queued, pushed,  \* start tasks waiting; how many were pushed
  odd         \* history: "overlap" once a call began before the one before it had
              \* ended, "refusal" once a call found an ended one still attached

modem == <<owner, streamstate, stream_stop, thread>>
pcms  == <<pcm, rated, open>>
acts  == <<pc, goal, held, joining>>
caps  == <<cap, using>>
tasks == <<queued, pushed, odd>>
vars  == <<modem, pcms, acts, caps, tasks>>

\* "made": the channel exists and its core thread is in no stream operation.
Places == {"idle", "open", "opening", "rating", "opened", "made",
           "stop", "join", "close", "ended"}
Goals  == {"make", "start", "stop", "undo"}

Fresh(h) == h \notin open /\ \A t \in Threads : using[t] /= h

\* The least of the names that are free.
NewHandle(h) == Fresh(h) /\ \A g \in Handles : Fresh(g) => h <= g
NewThread(t) == cap[t] = "none" /\ \A u \in Threads : cap[u] = "none" => t <= u

Goto(a, place) == pc' = [pc EXCEPT ![a] = place]

\* Where start_stream returns to.
Resting(a) == IF a = Ser THEN "idle" ELSE "made"

Init ==
  /\ owner = None /\ streamstate = FALSE /\ stream_stop = FALSE /\ thread = None
  /\ pcm = None /\ rated = FALSE /\ open = {}
  /\ pc = [a \in Actors |-> "idle"] /\ goal = [a \in Actors |-> "make"]
  /\ held = [a \in Actors |-> None] /\ joining = [a \in Actors |-> None]
  /\ cap = [t \in Threads |-> "none"] /\ using = [t \in Threads |-> None]
  /\ queued = 0 /\ pushed = 0 /\ odd = {}

-----------------------------------------------------------------------------
(* open_stream *)

\* The test under pcm_lock; then, with no lock, the blocking opens.  Without a
\* device open_stream fails: nothing is made, and nothing starts.
OpenDevices(a) ==
  /\ pc[a] = "open"
  /\ \/ /\ pcm /= None
        /\ Goto(a, "opened") /\ UNCHANGED <<held, open>>
     \/ /\ pcm = None
        /\ \E h \in Handles :
             /\ NewHandle(h)
             /\ open' = open \cup {h} /\ held' = [held EXCEPT ![a] = h]
        /\ Goto(a, "opening")
     \/ /\ pcm = None
        /\ Goto(a, IF goal[a] = "start" THEN Resting(a) ELSE "ended")
        /\ UNCHANGED <<held, open>>
  /\ UNCHANGED <<modem, pcm, rated, goal, joining, caps, tasks>>

\* Mutant: an opener that lost the race installs its handles all the same.
InstallOver(a) ==
  /\ pc[a] = "opening" /\ pcm' = held[a]
  /\ held' = [held EXCEPT ![a] = None]
  /\ Goto(a, "rating")
  /\ UNCHANGED <<modem, rated, open, goal, joining, caps, tasks>>

\* The second test under pcm_lock: another opener may have been faster.
Install(a) ==
  /\ pc[a] = "opening"
  /\ held' = [held EXCEPT ![a] = None]
  /\ IF pcm /= None
       THEN open' = open \ {held[a]} /\ Goto(a, "opened") /\ UNCHANGED pcm
       ELSE pcm' = held[a] /\ Goto(a, "rating") /\ UNCHANGED open
  /\ UNCHANGED <<modem, rated, goal, joining, caps, tasks>>

\* The rate and the format follow in a section of their own.
SetRate(a) ==
  /\ pc[a] = "rating"
  /\ rated' = TRUE
  /\ Goto(a, "opened")
  /\ UNCHANGED <<modem, pcm, open, goal, held, joining, caps, tasks>>

-----------------------------------------------------------------------------
(* The life of a channel, as far as the stream sees it *)

\* task_call_added makes the channel of an incoming call, or undoes it, on the
\* serializer; modemmanager_request runs on a thread of the core.
SerFree ==
  /\ pc[Ser] = "idle"
  /\ \A r \in Rings : goal[r] \in {"make", "undo"} => pc[r] \in {"idle", "made", "ended"}

\* Both begin with open_stream; modemmanager_request refuses a busy line first,
\* task_call_added after it.  A call-added task waits behind the start tasks
\* that were pushed before it.
CallBegins(c) ==
  /\ c \in Channels /\ pc[c] = "idle"
  /\ IF c \in Rings THEN SerFree ELSE owner = None
  /\ odd' = IF /\ \A d \in Channels : pc[d] \in {"idle", "ended"}
               /\ c \in Rings => queued = 0
              THEN odd ELSE odd \cup {"overlap"}
  /\ Goto(c, "open")
  /\ UNCHANGED <<modem, pcms, goal, held, joining, caps, queued, pushed>>

\* Mutant: modemmanager_new does not insist on a format.
MakeUnrated(c) ==
  /\ pc[c] = "opened" /\ goal[c] = "make"
  /\ owner' = c /\ Goto(c, "made")
  /\ UNCHANGED <<streamstate, stream_stop, thread, pcms, goal, held, joining, caps, tasks>>

\* modemmanager_new, which needs the format open_stream fixed, makes the
\* channel the owner; when the call or the channel cannot be made the stream is
\* stopped again.  An incoming call that finds the line busy leaves the stream
\* as it is; a call that is still attached keeps the line busy without an owner.
Make(c) ==
  /\ pc[c] = "opened" /\ goal[c] = "make"
  /\ \/ /\ c \in Rings => owner = None
        /\ \/ /\ rated
              /\ owner' = c /\ Goto(c, "made") /\ UNCHANGED goal
           \/ /\ Goto(c, "stop") /\ goal' = [goal EXCEPT ![c] = "undo"]
              /\ UNCHANGED owner
        /\ UNCHANGED odd
     \/ /\ c \in Rings
        /\ odd' = IF owner = None THEN odd \cup {"refusal"} ELSE odd
        /\ Goto(c, "ended") /\ UNCHANGED <<owner, goal>>
  /\ UNCHANGED <<streamstate, stream_stop, thread, pcms, held, joining, caps,
                 queued, pushed>>

\* modemmanager_answer calls start_stream.  The core answers a ringing channel
\* once; a call it cannot accept starts nothing.
Answer(c) ==
  /\ c \in Rings /\ pc[c] = "made" /\ goal[c] = "make"
  /\ Goto(c, "open") /\ goal' = [goal EXCEPT ![c] = "start"]
  /\ UNCHANGED <<modem, pcms, held, joining, caps, tasks>>

\* modemmanager_hangup clears the owner and calls stop_stream.
Hangup(c) ==
  /\ c \in Channels /\ pc[c] = "made"
  /\ owner' = None
  /\ Goto(c, "stop") /\ goal' = [goal EXCEPT ![c] = "stop"]
  /\ UNCHANGED <<streamstate, stream_stop, thread, pcms, held, joining, caps, tasks>>

\* An outgoing call rings: task_start_stream is pushed, and runs when the
\* serializer gets to it.
PushStart ==
  /\ pushed < MaxStarts /\ \E d \in Dials : pc[d] = "made"
  /\ queued' = queued + 1 /\ pushed' = pushed + 1
  /\ UNCHANGED <<modem, pcms, acts, caps, odd>>

RunStart ==
  /\ SerFree /\ queued > 0
  /\ queued' = queued - 1
  /\ Goto(Ser, "open") /\ goal' = [goal EXCEPT ![Ser] = "start"]
  /\ UNCHANGED <<modem, pcms, held, joining, caps, pushed, odd>>

-----------------------------------------------------------------------------
(* start_stream, stop_stream, close_stream *)

\* The locked section of start_stream.  It starts the capture PCM and a capture
\* thread; when either fails the PCMs are closed, and a thread that could not be
\* created has had stream_stop cleared for it.
StartLocked(a) ==
  /\ pc[a] = "opened" /\ goal[a] = "start"
  /\ IF streamstate \/ owner = None
       THEN Goto(a, Resting(a)) /\ UNCHANGED <<streamstate, stream_stop, thread, cap>>
       ELSE \/ /\ pcm /= None
               /\ \E t \in Threads : /\ NewThread(t) /\ thread' = t
                                     /\ cap' = [cap EXCEPT ![t] = "check"]
               /\ streamstate' = TRUE /\ stream_stop' = FALSE
               /\ Goto(a, Resting(a))
            \/ /\ Goto(a, "close") /\ stream_stop' \in {stream_stop, FALSE}
               /\ UNCHANGED <<streamstate, thread, cap>>
  /\ UNCHANGED <<owner, pcms, goal, held, joining, using, tasks>>

\* Mutant: the thread is not told to stop.
StopUnsignalled(a) ==
  /\ pc[a] = "stop"
  /\ IF streamstate
       THEN /\ streamstate' = FALSE /\ thread' = None
            /\ joining' = [joining EXCEPT ![a] = thread]
            /\ Goto(a, "join")
       ELSE Goto(a, "close") /\ UNCHANGED <<streamstate, thread, joining>>
  /\ UNCHANGED <<owner, stream_stop, pcms, goal, held, caps, tasks>>

\* Mutant: a stream that never ran is not closed.
StopIfStarted(a) ==
  /\ pc[a] = "stop"
  /\ IF streamstate
       THEN /\ streamstate' = FALSE /\ stream_stop' = TRUE /\ thread' = None
            /\ joining' = [joining EXCEPT ![a] = thread]
            /\ Goto(a, "join")
       ELSE Goto(a, "ended") /\ UNCHANGED <<streamstate, stream_stop, thread, joining>>
  /\ UNCHANGED <<owner, pcms, goal, held, caps, tasks>>

\* The locked section of stop_stream takes the thread away from the modem.
StopLocked(a) ==
  /\ pc[a] = "stop"
  /\ IF streamstate
       THEN /\ streamstate' = FALSE /\ stream_stop' = TRUE /\ thread' = None
            /\ joining' = [joining EXCEPT ![a] = thread]
            /\ Goto(a, "join")
       ELSE Goto(a, "close") /\ UNCHANGED <<streamstate, stream_stop, thread, joining>>
  /\ UNCHANGED <<owner, pcms, goal, held, caps, tasks>>

\* Mutant: the thread is not joined.
JoinNot(a) ==
  /\ pc[a] = "join"
  /\ joining' = [joining EXCEPT ![a] = None]
  /\ Goto(a, "close")
  /\ UNCHANGED <<modem, pcms, goal, held, caps, tasks>>

\* pthread_join, with no lock held.
Join(a) ==
  /\ pc[a] = "join" /\ cap[joining[a]] = "exit"
  /\ cap' = [cap EXCEPT ![joining[a]] = "none"]
  /\ joining' = [joining EXCEPT ![a] = None]
  /\ Goto(a, "close")
  /\ UNCHANGED <<modem, pcms, goal, held, using, tasks>>

\* close_stream ends stop_stream, or a start_stream that failed.
Close(a) ==
  /\ pc[a] = "close"
  /\ open' = open \ {pcm} /\ pcm' = None
  /\ Goto(a, IF goal[a] = "start" THEN Resting(a) ELSE "ended")
  /\ UNCHANGED <<modem, rated, goal, held, joining, caps, tasks>>

-----------------------------------------------------------------------------
(* capture_thread_fn *)

\* The loop condition; capture_pcm is read without a lock for snd_pcm_wait.
CaptureCheck(t) ==
  /\ cap[t] = "check"
  /\ IF stream_stop
       THEN cap' = [cap EXCEPT ![t] = "exit"] /\ UNCHANGED using
       ELSE cap' = [cap EXCEPT ![t] = "wait"] /\ using' = [using EXCEPT ![t] = pcm]
  /\ UNCHANGED <<modem, pcms, acts, tasks>>

\* snd_pcm_wait returns; stream_stop is tested again, and capture_pcm is read
\* again for snd_pcm_readi.  A PCM that cannot be recovered ends the thread.
CaptureWake(t) ==
  /\ cap[t] = "wait"
  /\ IF stream_stop
       THEN cap' = [cap EXCEPT ![t] = "exit"] /\ using' = [using EXCEPT ![t] = None]
       ELSE \/ cap' = [cap EXCEPT ![t] = "check"] /\ using' = [using EXCEPT ![t] = None]
            \/ cap' = [cap EXCEPT ![t] = "read"] /\ using' = [using EXCEPT ![t] = pcm]
            \/ cap' = [cap EXCEPT ![t] = "exit"] /\ using' = [using EXCEPT ![t] = None]
  /\ UNCHANGED <<modem, pcms, acts, tasks>>

\* snd_pcm_readi returns; a full period is queued to the owner.
CaptureRead(t) ==
  /\ cap[t] = "read"
  /\ cap' \in {[cap EXCEPT ![t] = "check"], [cap EXCEPT ![t] = "exit"]}
  /\ using' = [using EXCEPT ![t] = None]
  /\ UNCHANGED <<modem, pcms, acts, tasks>>

-----------------------------------------------------------------------------
ActorNext(a) == \/ OpenDevices(a) \/ Install(a) \/ SetRate(a) \/ StartLocked(a)
                \/ StopLocked(a) \/ Join(a) \/ Close(a)

ChannelNext(c) == CallBegins(c) \/ Make(c) \/ Answer(c) \/ Hangup(c)

CaptureNext(t) == CaptureCheck(t) \/ CaptureWake(t) \/ CaptureRead(t)

Next == \/ \E a \in Actors : ActorNext(a)
        \/ \E c \in Channels : ChannelNext(c)
        \/ \E t \in Threads : CaptureNext(t)
        \/ PushStart \/ RunStart

Spec == Init /\ [][Next]_vars

\* Every thread finishes the stream operation it is in, the serializer runs its
\* tasks and snd_pcm_wait times out; nothing makes a call begin or end.
FairSpec == /\ Spec
            /\ \A a \in Actors : WF_vars(ActorNext(a))
            /\ \A t \in Threads : WF_vars(CaptureNext(t))
            /\ WF_vars(RunStart)

-----------------------------------------------------------------------------
(* What holds for overlapping calls, late tasks and failures of every kind *)

\* Type correctness.
TypeOK ==
  /\ owner \in Channels \cup {None}
  /\ streamstate \in BOOLEAN /\ stream_stop \in BOOLEAN /\ rated \in BOOLEAN
  /\ thread \in Threads \cup {None}
  /\ pcm \in Handles \cup {None} /\ open \subseteq Handles
  /\ pc \in [Actors -> Places] /\ goal \in [Actors -> Goals]
  /\ held \in [Actors -> Handles \cup {None}]
  /\ joining \in [Actors -> Threads \cup {None}]
  /\ cap \in [Threads -> {"none", "check", "wait", "read", "exit"}]
  /\ using \in [Threads -> Handles \cup {None}]
  /\ pushed \in 0 .. MaxStarts /\ queued \in 0 .. pushed
  /\ odd \subseteq {"overlap", "refusal"}

\* Every open PCM is the modem's or in the hands of one opener, and the modem's
\* is open: none leaks in the race of two openers, none is closed twice, and
\* alsa_write_frame, which runs under pcm_lock, never writes to a closed one.
HandlesAccounted ==
  /\ open = ({pcm} \cup {held[a] : a \in Actors}) \ {None}
  /\ \A a \in Actors : held[a] /= None <=> pc[a] = "opening"
  /\ \A a \in Actors : held[a] /= None => held[a] /= pcm
  /\ \A a, b \in Actors : a /= b /\ held[a] = held[b] => held[a] = None

\* Every capture thread that was created and not joined is the modem's or is
\* waited for by exactly one stop_stream, and streamstate says which.
ThreadsAccounted ==
  /\ {t \in Threads : cap[t] /= "none"}
       = ({thread} \cup {joining[a] : a \in Actors}) \ {None}
  /\ streamstate <=> thread /= None
  /\ \A a \in Actors : joining[a] /= None <=> pc[a] = "join"
  /\ \A a \in Actors : joining[a] /= None => joining[a] /= thread
  /\ \A a, b \in Actors : a /= b /\ joining[a] = joining[b] => joining[a] = None

\* However calls, failed starts and start tasks overlap, no PCM and no capture thread
\* leaks, and none is closed or joined twice.
NothingLeaks == HandlesAccounted /\ ThreadsAccounted

\* A capture thread knows the rate: it reads whole periods, not empty ones.
CapturesRated == (\E t \in Threads : cap[t] /= "none") => rated

-----------------------------------------------------------------------------
(* What holds while calls do not overlap *)

\* mm_glue.h: "stop_stream() joins the thread before the handles are closed".
\* A capture thread only ever waits for and reads from an open PCM.
CaptureHandleOpen ==
  "overlap" \notin odd =>
    \A t \in Threads : cap[t] \in {"wait", "read"} => using[t] \in open

\* stop_stream, and with it the hangup of a channel, comes to an end.
HangupCompletes ==
  \A c \in Channels : pc[c] = "stop" ~> pc[c] = "ended" \/ "overlap" \in odd

-----------------------------------------------------------------------------
(* What holds while no start task can be late *)

\* audio_alsa.c: "PCMs are opened at channel creation, before the stream
\* starts, so close them even when the capture thread never ran."  With no
\* channel left the modem's PCMs are closed, unless a start task came late, which
\* opens them again, finds no owner and leaves them open, or an incoming call
\* found the one before it still attached.
IdleMeansClosed ==
  /\ pushed = 0 /\ "refusal" \notin odd
  /\ \A c \in Channels : pc[c] \in {"idle", "ended"}
  => pcm = None

-----------------------------------------------------------------------------
(* What the source says of itself and the code does not keep *)

\* audio_alsa.c: the capture thread "notices stream_stop on its own": whoever
\* waits for one gets it.
StopNoticed == \A c \in Channels : pc[c] = "join" ~> pc[c] /= "join"

=============================================================================
