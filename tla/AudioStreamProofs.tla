------------------------- MODULE AudioStreamProofs -------------------------
(***************************************************************************)
(* Proofs about AudioStream for any number of calls, PCM handles, capture  *)
(* threads and start tasks, with calls that overlap and without.           *)
(***************************************************************************)
EXTENDS AudioStream, TLAPS

-----------------------------------------------------------------------------
(* Type correctness *)

\* An actor that goes to a place leaves pc well formed.
LEMMA GotoType ==
  ASSUME TypeOK, NEW a \in Actors, NEW place \in Places, Goto(a, place)
  PROVE  pc' \in [Actors -> Places]
BY DEF TypeOK, Goto

\* start_stream returns to a place.
LEMMA RestingType == ASSUME NEW a PROVE Resting(a) \in Places
BY DEF Resting, Places

\* Every action keeps the variables in their types.
LEMMA TypeInductive == ASSUME TypeOK, [Next]_vars PROVE TypeOK'
<1> USE StreamAssumption
<1>1. ASSUME NEW a \in Actors, ActorNext(a) PROVE TypeOK'
  <2> USE GotoType, RestingType DEF Places
  <2>1. CASE OpenDevices(a)
    <3>1. pc' \in [Actors -> Places]
      BY <2>1, GotoType, RestingType DEF OpenDevices
    <3>2. open' \subseteq Handles /\ held' \in [Actors -> Handles \cup {None}]
      <4>1. CASE UNCHANGED <<held, open>>
        BY <4>1 DEF TypeOK
      <4>2. CASE ~ UNCHANGED <<held, open>>
        <5>1. PICK h \in Handles : open' = open \cup {h} /\ held' = [held EXCEPT ![a] = h]
          BY <2>1, <4>2 DEF OpenDevices
        <5> QED
          BY <5>1 DEF TypeOK
      <4> QED
        BY <4>1, <4>2
    <3> QED
      BY <2>1, <3>1, <3>2 DEF OpenDevices, TypeOK, modem, caps, tasks
  <2>2. CASE Install(a)
    BY <2>2 DEF Install, TypeOK, modem, caps, tasks
  <2>3. CASE SetRate(a)
    BY <2>3 DEF SetRate, TypeOK, modem, caps, tasks
  <2>4. CASE StartLocked(a)
    <3>1. pc' \in [Actors -> Places]
      BY <2>4, RestingType DEF StartLocked
    <3>2. /\ thread' \in Threads \cup {None}
          /\ cap' \in [Threads -> {"none", "check", "wait", "read", "exit"}]
      BY <2>4 DEF StartLocked, TypeOK
    <3>3. streamstate' \in BOOLEAN /\ stream_stop' \in BOOLEAN
      <4>1. CASE UNCHANGED streamstate /\ stream_stop' \in {stream_stop, FALSE}
        BY <4>1 DEF TypeOK
      <4>2. CASE streamstate' = TRUE /\ stream_stop' = FALSE
        BY <4>2
      <4> QED
        BY <2>4, <4>1, <4>2 DEF StartLocked
    <3> QED
      BY <2>4, <3>1, <3>2, <3>3 DEF StartLocked, TypeOK, pcms, tasks
  <2>5. CASE StopLocked(a)
    BY <2>5 DEF StopLocked, TypeOK, pcms, caps, tasks
  <2>6. CASE Join(a)
    BY <2>6 DEF Join, TypeOK, modem, pcms, tasks
  <2>7. CASE Close(a)
    BY <2>7 DEF Close, TypeOK, modem, caps, tasks
  <2> QED
    BY <1>1, <2>1, <2>2, <2>3, <2>4, <2>5, <2>6, <2>7 DEF ActorNext
<1>2. ASSUME NEW c \in Channels, ChannelNext(c) PROVE TypeOK'
  <2> USE GotoType DEF Places, Goals, Actors
  <2>1. CASE CallBegins(c)
    BY <2>1 DEF CallBegins, TypeOK, modem, pcms, caps, tasks
  <2>2. CASE Make(c)
    BY <2>2 DEF Make, TypeOK, pcms, caps, tasks
  <2>3. CASE Answer(c)
    BY <2>3 DEF Answer, TypeOK, modem, pcms, caps, tasks
  <2>4. CASE Hangup(c)
    BY <2>4 DEF Hangup, TypeOK, pcms, caps, tasks
  <2> QED
    BY <1>2, <2>1, <2>2, <2>3, <2>4 DEF ChannelNext
<1>3. ASSUME NEW t \in Threads, CaptureNext(t) PROVE TypeOK'
  <2>1. CASE CaptureCheck(t)
    BY <2>1 DEF CaptureCheck, TypeOK, modem, pcms, acts, tasks
  <2>2. CASE CaptureWake(t)
    BY <2>2 DEF CaptureWake, TypeOK, modem, pcms, acts, tasks
  <2>3. CASE CaptureRead(t)
    BY <2>3 DEF CaptureRead, TypeOK, modem, pcms, acts, tasks
  <2> QED
    BY <1>3, <2>1, <2>2, <2>3 DEF CaptureNext
<1>4. CASE PushStart
  BY <1>4 DEF PushStart, TypeOK, modem, pcms, acts, caps
<1>5. CASE RunStart
  <2>1. pc' \in [Actors -> Places]
    BY <1>5, GotoType DEF RunStart, Actors, Places
  <2>2. queued' \in 0 .. pushed' /\ pushed' \in 0 .. MaxStarts
    BY <1>5 DEF RunStart, TypeOK
  <2>3. goal' \in [Actors -> Goals]
    BY <1>5 DEF RunStart, TypeOK, Goals
  <2> QED
    BY <1>5, <2>1, <2>2, <2>3 DEF RunStart, TypeOK, modem, pcms, caps
<1>6. CASE UNCHANGED vars
  BY <1>6 DEF vars, modem, pcms, acts, caps, tasks, TypeOK
<1> QED
  BY <1>1, <1>2, <1>3, <1>4, <1>5, <1>6 DEF Next

\* Type correctness: every variable of the stream keeps its type for any number
\* of channels, handles, threads and start tasks.
THEOREM TypeCorrect == Spec => []TypeOK
<1>1. Init => TypeOK
  <2> SUFFICES ASSUME Init PROVE TypeOK
    OBVIOUS
  <2>1. pushed \in 0 .. MaxStarts /\ queued \in 0 .. pushed
    BY StreamAssumption DEF Init
  <2>2. pc \in [Actors -> Places] /\ goal \in [Actors -> Goals]
    BY DEF Init, Places, Goals
  <2> QED
    BY <2>1, <2>2 DEF Init, TypeOK
<1>2. TypeOK /\ [Next]_vars => TypeOK'
  BY TypeInductive
<1> QED
  BY <1>1, <1>2, PTL DEF Spec

-----------------------------------------------------------------------------
(* PCM handles *)

\* Every action keeps the open PCMs accounted for.
LEMMA HandlesInductive ==
  ASSUME TypeOK, HandlesAccounted, [Next]_vars PROVE HandlesAccounted'
<1> USE StreamAssumption DEF Goto
<1>1. ASSUME NEW a \in Actors, OpenDevices(a) PROVE HandlesAccounted'
  <2>1. held[a] = None /\ pc[a] = "open"
    BY <1>1 DEF OpenDevices, HandlesAccounted
  <2>2. CASE pc'[a] = "opening"
    <3>1. PICK h \in Handles : Fresh(h) /\ open' = open \cup {h}
                               /\ held' = [held EXCEPT ![a] = h]
      BY <1>1, <2>2, RestingType DEF OpenDevices, NewHandle, Resting, TypeOK
    <3>2. h \notin open /\ pcm' = pcm /\ pc' = [pc EXCEPT ![a] = "opening"]
      BY <1>1, <2>2, <3>1 DEF OpenDevices, Fresh, TypeOK, Resting
    <3> QED
      BY <2>1, <3>1, <3>2 DEF HandlesAccounted, TypeOK
  <2>3. CASE pc'[a] /= "opening"
    <3>1. open' = open /\ held' = held /\ pcm' = pcm
      BY <1>1, <2>3 DEF OpenDevices, TypeOK
    <3>2. \A b \in Actors : pc'[b] = "opening" <=> pc[b] = "opening"
      BY <1>1, <2>1, <2>3 DEF OpenDevices, TypeOK
    <3> QED
      BY <3>1, <3>2 DEF HandlesAccounted
  <2> QED
    BY <2>2, <2>3
<1>2. ASSUME NEW a \in Actors, Install(a) PROVE HandlesAccounted'
  <2>1. /\ held[a] /= None /\ held[a] /= pcm
        /\ \A b \in Actors \ {a} : held[b] /= held[a]
    BY <1>2 DEF Install, HandlesAccounted
  <2>2. held' = [held EXCEPT ![a] = None]
    BY <1>2 DEF Install
  <2>3. \A b \in Actors : held'[b] /= None <=> pc'[b] = "opening"
    BY <1>2, <2>2 DEF Install, HandlesAccounted, TypeOK
  <2>4. CASE pcm /= None
    BY <1>2, <2>1, <2>2, <2>3, <2>4 DEF Install, HandlesAccounted, TypeOK
  <2>5. CASE pcm = None
    BY <1>2, <2>1, <2>2, <2>3, <2>5 DEF Install, HandlesAccounted, TypeOK
  <2> QED
    BY <2>4, <2>5
<1>3. ASSUME NEW a \in Actors, Close(a) PROVE HandlesAccounted'
  <2>1. \A b \in Actors : pc'[b] = "opening" <=> pc[b] = "opening"
    BY <1>3 DEF Close, Resting, TypeOK
  <2> QED
    BY <1>3, <2>1 DEF Close, HandlesAccounted, TypeOK
<1>4. ASSUME UNCHANGED <<pcm, open, held>>, NEW a \in Actors, NEW place,
             pc' = [pc EXCEPT ![a] = place],
             pc[a] /= "opening", place /= "opening"
      PROVE  HandlesAccounted'
  BY <1>4 DEF HandlesAccounted, TypeOK
<1>5. ASSUME UNCHANGED <<pcm, open, held, pc>> PROVE HandlesAccounted'
  BY <1>5 DEF HandlesAccounted
<1>6. ASSUME NEW a \in Actors, ActorNext(a) PROVE HandlesAccounted'
  <2>1. CASE SetRate(a)
    BY <2>1, <1>4 DEF SetRate
  <2>2. CASE StartLocked(a)
    BY <2>2, <1>4 DEF StartLocked, pcms, Resting
  <2>3. CASE StopLocked(a)
    BY <2>3, <1>4 DEF StopLocked, pcms
  <2>4. CASE Join(a)
    BY <2>4, <1>4 DEF Join, pcms
  <2> QED
    BY <1>1, <1>2, <1>3, <1>6, <2>1, <2>2, <2>3, <2>4 DEF ActorNext
<1>7. ASSUME NEW c \in Channels, ChannelNext(c) PROVE HandlesAccounted'
  BY <1>4, <1>7 DEF ChannelNext, CallBegins, Make, Answer, Hangup, Actors, pcms
<1>8. ASSUME NEW t \in Threads, CaptureNext(t) PROVE HandlesAccounted'
  BY <1>5, <1>8 DEF CaptureNext, CaptureCheck, CaptureWake, CaptureRead, pcms, acts
<1>9. CASE PushStart
  BY <1>5, <1>9 DEF PushStart, pcms, acts
<1>10. CASE RunStart
  BY <1>4, <1>10 DEF RunStart, SerFree, Actors, pcms
<1>11. CASE UNCHANGED vars
  BY <1>5, <1>11 DEF vars, pcms, acts
<1> QED
  BY <1>6, <1>7, <1>8, <1>9, <1>10, <1>11 DEF Next

\* However openers, stops and failed starts race, an open PCM is the modem's or
\* in the hands of exactly one opener: none leaks and none is closed twice.
THEOREM HandlesNeverLeak == Spec => []HandlesAccounted
<1>1. Init => HandlesAccounted
  BY DEF Init, HandlesAccounted
<1>2. TypeOK /\ HandlesAccounted /\ [Next]_vars => HandlesAccounted'
  BY HandlesInductive
<1> QED
  BY <1>1, <1>2, TypeCorrect, PTL DEF Spec

-----------------------------------------------------------------------------
(* Capture threads *)

\* Every action keeps the capture threads accounted for.
LEMMA ThreadsInductive ==
  ASSUME TypeOK, ThreadsAccounted, [Next]_vars PROVE ThreadsAccounted'
<1> USE StreamAssumption DEF Goto
<1>1. ASSUME NEW a \in Actors, StartLocked(a) PROVE ThreadsAccounted'
  <2>1. \A b \in Actors : pc'[b] = "join" <=> pc[b] = "join"
    BY <1>1 DEF StartLocked, Resting, TypeOK
  <2>2. CASE UNCHANGED <<streamstate, thread, cap>>
    BY <1>1, <2>1, <2>2 DEF StartLocked, ThreadsAccounted
  <2>3. CASE ~ UNCHANGED <<streamstate, thread, cap>>
    <3>1. ~ streamstate /\ streamstate' = TRUE
      BY <1>1, <2>3 DEF StartLocked
    <3>2. thread = None
      BY <3>1 DEF ThreadsAccounted
    <3>3. PICK t \in Threads : /\ cap[t] = "none" /\ thread' = t
                               /\ cap' = [cap EXCEPT ![t] = "check"]
      BY <1>1, <2>3 DEF StartLocked, NewThread
    <3>4. \A b \in Actors : joining[b] /= t
      BY <3>3 DEF ThreadsAccounted
    <3>5. joining' = joining
      BY <1>1 DEF StartLocked
    <3>6. {u \in Threads : cap'[u] /= "none"}
            = ({thread'} \cup {joining'[b] : b \in Actors}) \ {None}
      BY <3>2, <3>3, <3>5 DEF ThreadsAccounted, TypeOK
    <3>7. streamstate' <=> thread' /= None
      BY <3>1, <3>3
    <3>8. \A b \in Actors : joining'[b] /= None => joining'[b] /= thread'
      BY <3>3, <3>4, <3>5
    <3> QED
      BY <2>1, <3>5, <3>6, <3>7, <3>8 DEF ThreadsAccounted
  <2> QED
    BY <2>2, <2>3
<1>2. ASSUME NEW a \in Actors, StopLocked(a) PROVE ThreadsAccounted'
  <2>1. pc[a] = "stop" /\ cap' = cap
    BY <1>2 DEF StopLocked, caps
  <2>2. joining[a] = None
    BY <2>1 DEF ThreadsAccounted
  <2>3. CASE streamstate
    <3>1. /\ streamstate' = FALSE /\ thread' = None
          /\ joining' = [joining EXCEPT ![a] = thread]
          /\ pc' = [pc EXCEPT ![a] = "join"]
      BY <1>2, <2>3 DEF StopLocked
    <3>2. thread /= None /\ \A b \in Actors : joining[b] /= thread
      BY <2>3 DEF ThreadsAccounted
    <3>3. streamstate' <=> thread' /= None
      BY <3>1
    <3>4. \A b \in Actors : joining'[b] /= None <=> pc'[b] = "join"
      BY <3>1, <3>2 DEF ThreadsAccounted, TypeOK
    <3>5. {u \in Threads : cap'[u] /= "none"}
            = ({thread'} \cup {joining'[b] : b \in Actors}) \ {None}
      BY <2>1, <2>2, <3>1 DEF ThreadsAccounted, TypeOK
    <3> QED
      BY <2>2, <3>1, <3>2, <3>3, <3>4, <3>5 DEF ThreadsAccounted, TypeOK
  <2>4. CASE ~ streamstate
    BY <1>2, <2>1, <2>4 DEF StopLocked, ThreadsAccounted, TypeOK
  <2> QED
    BY <2>3, <2>4
<1>3. ASSUME NEW a \in Actors, Join(a) PROVE ThreadsAccounted'
  <2> DEFINE t == joining[a]
  <2>1. /\ pc' = [pc EXCEPT ![a] = "close"] /\ joining' = [joining EXCEPT ![a] = None]
        /\ cap' = [cap EXCEPT ![t] = "none"] /\ UNCHANGED <<streamstate, thread>>
    BY <1>3 DEF Join, modem
  <2>2. /\ t \in Threads /\ t /= thread
        /\ \A b \in Actors \ {a} : joining[b] /= t
    BY <1>3 DEF Join, ThreadsAccounted, TypeOK
  <2>3. {u \in Threads : cap'[u] /= "none"} = {u \in Threads : cap[u] /= "none"} \ {t}
    BY <2>1, <2>2 DEF TypeOK
  <2>4. {joining'[b] : b \in Actors} \ {None} = ({joining[b] : b \in Actors} \ {None}) \ {t}
    BY <2>1, <2>2 DEF TypeOK
  <2>5. {u \in Threads : cap'[u] /= "none"}
          = ({thread'} \cup {joining'[b] : b \in Actors}) \ {None}
    BY <2>1, <2>2, <2>3, <2>4 DEF ThreadsAccounted
  <2>6. \A b \in Actors : joining'[b] /= None <=> pc'[b] = "join"
    BY <2>1 DEF ThreadsAccounted, TypeOK
  <2> QED
    BY <2>1, <2>2, <2>5, <2>6 DEF ThreadsAccounted, TypeOK
<1>4. ASSUME UNCHANGED <<streamstate, thread, joining, cap>>, NEW a \in Actors, NEW place,
             pc' = [pc EXCEPT ![a] = place],
             pc[a] /= "join", place /= "join"
      PROVE  ThreadsAccounted'
  BY <1>4 DEF ThreadsAccounted, TypeOK
<1>5. ASSUME UNCHANGED <<streamstate, thread, joining, pc>>,
             \A t \in Threads : cap'[t] /= "none" <=> cap[t] /= "none"
      PROVE  ThreadsAccounted'
  BY <1>5 DEF ThreadsAccounted
<1>6. ASSUME NEW a \in Actors, ActorNext(a) PROVE ThreadsAccounted'
  <2> USE DEF modem, caps, Resting
  <2>1. CASE OpenDevices(a)
    BY <2>1, <1>4 DEF OpenDevices
  <2>2. CASE Install(a)
    BY <2>2, <1>4 DEF Install
  <2>3. CASE SetRate(a)
    BY <2>3, <1>4 DEF SetRate
  <2>4. CASE Close(a)
    BY <2>4, <1>4 DEF Close
  <2> QED
    BY <1>1, <1>2, <1>3, <1>6, <2>1, <2>2, <2>3, <2>4 DEF ActorNext
<1>7. ASSUME NEW c \in Channels, ChannelNext(c) PROVE ThreadsAccounted'
  BY <1>4, <1>7 DEF ChannelNext, CallBegins, Make, Answer, Hangup, Actors, modem, caps
<1>8. ASSUME NEW t \in Threads, CaptureNext(t) PROVE ThreadsAccounted'
  <2>1. cap[t] /= "none" /\ \E w \in {"check", "wait", "read", "exit"} :
                               cap' = [cap EXCEPT ![t] = w]
    BY <1>8 DEF CaptureNext, CaptureCheck, CaptureWake, CaptureRead
  <2>2. \A u \in Threads : cap'[u] /= "none" <=> cap[u] /= "none"
    BY <2>1 DEF TypeOK
  <2> QED
    BY <1>5, <1>8, <2>2 DEF CaptureNext, CaptureCheck, CaptureWake, CaptureRead, modem, acts
<1>9. CASE PushStart
  BY <1>5, <1>9 DEF PushStart, modem, acts, caps
<1>10. CASE RunStart
  BY <1>4, <1>10 DEF RunStart, SerFree, Actors, modem, caps
<1>11. CASE UNCHANGED vars
  BY <1>5, <1>11 DEF vars, modem, acts, caps
<1> QED
  BY <1>6, <1>7, <1>8, <1>9, <1>10, <1>11 DEF Next

\* However starts, stops and hangups race, a capture thread that runs is the
\* modem's or is joined by exactly one stop_stream: none is lost, none is
\* joined twice, and streamstate is the truth.
THEOREM ThreadsNeverLeak == Spec => []ThreadsAccounted
<1>1. Init => ThreadsAccounted
  BY DEF Init, ThreadsAccounted
<1>2. TypeOK /\ ThreadsAccounted /\ [Next]_vars => ThreadsAccounted'
  BY ThreadsInductive
<1> QED
  BY <1>1, <1>2, TypeCorrect, PTL DEF Spec

\* Neither handles nor threads leak, for any number of callers that overlap in
\* open_stream, start_stream and stop_stream.
THEOREM StreamNeverLeaks == Spec => []NothingLeaks
<1>1. HandlesAccounted /\ ThreadsAccounted => NothingLeaks
  BY DEF NothingLeaks
<1> QED
  BY <1>1, HandlesNeverLeak, ThreadsNeverLeak, PTL

-----------------------------------------------------------------------------
(* The sample rate *)

\* A channel that owns the modem was made with a rate, which is never unset.
OwnersRated == owner /= None => rated

\* No capture thread starts before open_stream has set the rate it computes its
\* period from, although the PCMs are installed one critical section earlier.
THEOREM CapturesHaveRate == Spec => []CapturesRated
<1> DEFINE Inv == OwnersRated /\ CapturesRated
<1>1. Init => Inv
  BY DEF Init, OwnersRated, CapturesRated
<1>2. ASSUME Inv, TypeOK, [Next]_vars PROVE Inv'
  <2> USE StreamAssumption DEF OwnersRated, CapturesRated
  <2>1. ASSUME NEW a \in Actors, ActorNext(a) PROVE Inv'
    <3>1. CASE OpenDevices(a)
      BY <1>2, <3>1 DEF OpenDevices, modem, caps
    <3>2. CASE Install(a)
      BY <1>2, <3>2 DEF Install, modem, caps
    <3>3. CASE SetRate(a)
      BY <1>2, <3>3 DEF SetRate
    <3>4. CASE StartLocked(a)
      BY <1>2, <3>4 DEF StartLocked, pcms
    <3>5. CASE StopLocked(a)
      BY <1>2, <3>5 DEF StopLocked, pcms, caps
    <3>6. CASE Join(a)
      BY <1>2, <3>6 DEF Join, pcms, modem, TypeOK
    <3>7. CASE Close(a)
      BY <1>2, <3>7 DEF Close, modem, caps
    <3> QED
      BY <2>1, <3>1, <3>2, <3>3, <3>4, <3>5, <3>6, <3>7 DEF ActorNext
  <2>2. ASSUME NEW c \in Channels, ChannelNext(c) PROVE Inv'
    BY <1>2, <2>2 DEF ChannelNext, CallBegins, Make, Answer, Hangup, modem, pcms, caps
  <2>3. ASSUME NEW t \in Threads, CaptureNext(t) PROVE Inv'
    <3>1. cap[t] /= "none" /\ UNCHANGED <<owner, rated>>
      BY <2>3 DEF CaptureNext, CaptureCheck, CaptureWake, CaptureRead, modem, pcms
    <3> QED
      BY <1>2, <3>1
  <2>4. CASE PushStart
    BY <1>2, <2>4 DEF PushStart, modem, pcms, caps
  <2>5. CASE RunStart
    BY <1>2, <2>5 DEF RunStart, modem, pcms, caps
  <2>6. CASE UNCHANGED vars
    BY <1>2, <2>6 DEF vars, modem, pcms, caps
  <2> QED
    BY <1>2, <2>1, <2>2, <2>3, <2>4, <2>5, <2>6 DEF Next
<1>3. Inv => CapturesRated
  OBVIOUS
<1> QED
  BY <1>1, <1>2, <1>3, TypeCorrect, PTL DEF Spec

-----------------------------------------------------------------------------
(* Who is at work on the stream *)

\* modem->owner is a channel that was made and has not begun to hang up.
OwnerBusy == owner /= None =>
  \/ pc[owner] = "made"
  \/ goal[owner] = "start" /\ pc[owner] \in {"open", "opening", "rating", "opened", "close"}

\* The serializer only starts streams, a dial never does.
OwnGoals ==
  /\ pc[Ser] \in {"idle", "open", "opening", "rating", "opened", "close"}
  /\ pc[Ser] /= "idle" => goal[Ser] = "start" /\ pushed > 0
  /\ \A d \in Dials : goal[d] /= "start"

Active(c) == pc[c] \notin {"idle", "ended"}

\* What is open is somebody's to close, the stream's owner or whoever opened it.
OpenIsWanted ==
  pushed = 0 /\ "refusal" \notin odd /\ pcm /= None => \E c \in Channels : Active(c)

\* While calls do not overlap there is one channel, and no start task runs with an
\* incoming one.
OneAtATime ==
  /\ \A c, d \in Channels : Active(c) /\ Active(d) => c = d
  /\ \A r \in Rings : Active(r) => pc[Ser] = "idle" /\ queued = 0

\* Then a capture thread runs only with the PCMs it reads, which nobody is about to
\* close, and the modem has none that another waits for.
CaptureSafe ==
  /\ \A t \in Threads : cap[t] /= "none" => pcm /= None /\ \A a \in Actors : pc[a] /= "close"
  /\ \A t \in Threads : cap[t] \in {"wait", "read"} => using[t] = pcm
  /\ \A a \in Actors : pc[a] = "join" => ~ streamstate

CaptureInv == "overlap" \notin odd => OneAtATime /\ CaptureSafe

LEMMA OwnGoalsNext == ASSUME TypeOK, OwnGoals, [Next]_vars PROVE OwnGoals'
<1> USE StreamAssumption DEF Goto
<1>0. /\ pc \in [Actors -> Places] /\ goal \in [Actors -> Goals] /\ pushed \in Nat /\ queued \in 0 .. pushed
      /\ Ser \in Actors /\ Dials \subseteq Actors
  BY DEF TypeOK, Actors, Channels
<1>1. ASSUME NEW a \in Actors, ActorNext(a) PROVE OwnGoals'
  <2>1. goal' = goal /\ pushed' = pushed
    BY <1>1 DEF ActorNext, OpenDevices, Install, SetRate, StartLocked, StopLocked, Join, Close, acts, tasks
  <2>2. ASSUME a = Ser
        PROVE  pc'[Ser] \in {"idle", "open", "opening", "rating", "opened", "close"}
               /\ pc[Ser] /= "idle"
    <3>1. goal[Ser] = "start" /\ pc[Ser] /= "idle"
      BY <1>1, <2>2 DEF ActorNext, OpenDevices, Install, SetRate, StartLocked, StopLocked, Join, Close, OwnGoals
    <3> QED
      BY <1>0, <1>1, <2>2, <3>1
      DEF ActorNext, OpenDevices, Install, SetRate, StartLocked, StopLocked, Join, Close, OwnGoals, Resting
  <2>3. a /= Ser => pc'[Ser] = pc[Ser]
    BY <1>0, <1>1 DEF ActorNext, OpenDevices, Install, SetRate, StartLocked, StopLocked, Join, Close
  <2> QED
    BY <2>1, <2>2, <2>3 DEF OwnGoals
<1>2. ASSUME NEW c \in Channels, ChannelNext(c) PROVE OwnGoals'
  <2>1. pc'[Ser] = pc[Ser] /\ goal'[Ser] = goal[Ser] /\ pushed' = pushed
    BY <1>0, <1>2 DEF ChannelNext, CallBegins, Make, Answer, Hangup, Actors, tasks
  <2>2. \A d \in Dials : goal'[d] /= "start"
    BY <1>0, <1>2 DEF ChannelNext, CallBegins, Make, Answer, Hangup, OwnGoals
  <2> QED
    BY <2>1, <2>2 DEF OwnGoals
<1>3. ASSUME NEW t \in Threads, CaptureNext(t) PROVE OwnGoals'
  BY <1>3 DEF CaptureNext, CaptureCheck, CaptureWake, CaptureRead, acts, tasks, OwnGoals
<1>4. CASE PushStart
  BY <1>0, <1>4 DEF PushStart, acts, OwnGoals
<1>5. CASE RunStart
  <2>1. pc'[Ser] = "open" /\ goal'[Ser] = "start" /\ pushed' = pushed /\ pushed > 0
    BY <1>0, <1>5 DEF RunStart
  <2>2. \A d \in Dials : goal'[d] = goal[d]
    BY <1>0, <1>5 DEF RunStart, Channels
  <2> QED
    BY <2>1, <2>2 DEF OwnGoals
<1>6. CASE UNCHANGED vars
  BY <1>6 DEF vars, acts, tasks, OwnGoals
<1> QED
  BY <1>1, <1>2, <1>3, <1>4, <1>5, <1>6 DEF Next

LEMMA OwnerBusyNext == ASSUME TypeOK, OwnerBusy, [Next]_vars PROVE OwnerBusy'
<1> USE StreamAssumption DEF Goto
<1>0. /\ pc \in [Actors -> Places] /\ goal \in [Actors -> Goals]
      /\ owner \in Channels \cup {None} /\ Channels \subseteq Actors /\ Ser \notin Channels
  BY DEF TypeOK, Actors
<1>1. ASSUME NEW a \in Actors, ActorNext(a) PROVE OwnerBusy'
  <2>1. goal' = goal /\ owner' = owner /\ \A b \in Actors \ {a} : pc'[b] = pc[b]
    BY <1>0, <1>1 DEF ActorNext, OpenDevices, Install, SetRate, StartLocked, StopLocked, Join, Close, acts, modem
  <2>2. ASSUME owner = a, a \in Channels
        PROVE  \/ pc'[a] = "made"
               \/ goal[a] = "start" /\ pc'[a] \in {"open", "opening", "rating", "opened", "close"}
    <3>1. goal[a] = "start" /\ pc[a] \in {"open", "opening", "rating", "opened", "close"}
      BY <1>0, <1>1, <2>2 DEF OwnerBusy, ActorNext, OpenDevices, Install, SetRate, StartLocked, StopLocked, Join, Close
    <3>2. Resting(a) = "made"
      BY <1>0, <2>2 DEF Resting
    <3> QED
      BY <1>0, <1>1, <3>1, <3>2
      DEF ActorNext, OpenDevices, Install, SetRate, StartLocked, StopLocked, Join, Close
  <2> QED
    BY <1>0, <2>1, <2>2 DEF OwnerBusy
<1>2. ASSUME NEW c \in Channels, ChannelNext(c) PROVE OwnerBusy'
  <2>1. \A b \in Actors \ {c} : pc'[b] = pc[b] /\ goal'[b] = goal[b]
    BY <1>0, <1>2 DEF ChannelNext, CallBegins, Make, Answer, Hangup
  <2>2. CASE CallBegins(c) \/ Hangup(c)
    BY <1>0, <2>1, <2>2 DEF CallBegins, Hangup, modem, OwnerBusy
  <2>3. CASE Answer(c)
    <3>1. goal'[c] = "start" /\ pc'[c] = "open" /\ owner' = owner
      BY <1>0, <2>3 DEF Answer, modem
    <3> QED
      BY <1>0, <2>1, <3>1 DEF OwnerBusy
  <2>4. CASE Make(c)
    <3>1. owner /= c
      BY <1>0, <2>4 DEF Make, OwnerBusy
    <3>2. (owner' = c /\ pc'[c] = "made") \/ owner' = owner
      BY <1>0, <2>4 DEF Make
    <3> QED
      BY <1>0, <2>1, <3>1, <3>2 DEF OwnerBusy
  <2> QED
    BY <1>2, <2>2, <2>3, <2>4 DEF ChannelNext
<1>3. ASSUME NEW t \in Threads, CaptureNext(t) PROVE OwnerBusy'
  BY <1>3 DEF CaptureNext, CaptureCheck, CaptureWake, CaptureRead, acts, modem, OwnerBusy
<1>4. CASE PushStart
  BY <1>4 DEF PushStart, acts, modem, OwnerBusy
<1>5. CASE RunStart
  <2>1. owner' = owner /\ \A c \in Channels : pc'[c] = pc[c] /\ goal'[c] = goal[c]
    BY <1>0, <1>5 DEF RunStart, modem
  <2> QED
    BY <1>0, <2>1 DEF OwnerBusy
<1>6. CASE UNCHANGED vars
  BY <1>6 DEF vars, acts, modem, OwnerBusy
<1> QED
  BY <1>1, <1>2, <1>3, <1>4, <1>5, <1>6 DEF Next

LEMMA OpenIsWantedNext ==
  ASSUME TypeOK, OwnerBusy, OwnGoals, OpenIsWanted, [Next]_vars PROVE OpenIsWanted'
<1> USE StreamAssumption DEF Goto
<1>0. /\ pc \in [Actors -> Places] /\ owner \in Channels \cup {None} /\ Channels \subseteq Actors
      /\ pushed \in Nat /\ queued \in 0 .. pushed /\ Actors = Channels \cup {Ser} /\ Ser \notin Channels
  BY DEF TypeOK, Actors
<1>1. owner /= None => Active(owner)
  BY DEF OwnerBusy, Active
<1>2. ASSUME UNCHANGED <<pushed, odd>>, pcm' \in {None, pcm},
             \A c \in Channels : Active(c) => Active(c)'
      PROVE  OpenIsWanted'
  BY <1>2 DEF OpenIsWanted
<1>3. ASSUME NEW a \in Actors, ActorNext(a), pushed' = 0 PROVE OpenIsWanted'
  <2>1. a \in Channels /\ UNCHANGED <<pushed, odd>>
    <3>1. UNCHANGED <<pushed, odd>> /\ pc[a] /= "idle"
      BY <1>3 DEF ActorNext, OpenDevices, Install, SetRate, StartLocked, StopLocked, Join, Close, tasks
    <3>2. pc[Ser] = "idle"
      BY <1>0, <1>3, <3>1 DEF OwnGoals
    <3> QED
      BY <1>0, <3>1, <3>2
  <2>2. \A c \in Channels \ {a} : pc'[c] = pc[c]
    BY <1>0, <1>3 DEF ActorNext, OpenDevices, Install, SetRate, StartLocked, StopLocked, Join, Close
  <2>3. pcm' = None \/ Active(a)'
    BY <1>0, <1>3, <2>1
    DEF ActorNext, OpenDevices, Install, SetRate, StartLocked, StopLocked, Join, Close, Active, Resting, modem
  <2> QED
    BY <2>1, <2>3 DEF OpenIsWanted
<1>4. ASSUME NEW c \in Channels, ChannelNext(c) PROVE OpenIsWanted'
  <2>1. /\ pcm' = pcm /\ pushed' = pushed /\ odd \subseteq odd'
        /\ \A d \in Channels \ {c} : pc'[d] = pc[d]
    BY <1>0, <1>4 DEF ChannelNext, CallBegins, Make, Answer, Hangup, pcms, tasks
  <2>2. CASE pc'[c] /= "ended"
    <3>1. Active(c)'
      BY <1>0, <1>4, <2>2 DEF ChannelNext, CallBegins, Make, Answer, Hangup, Active
    <3> QED
      BY <3>1 DEF OpenIsWanted
  <2>3. CASE pc'[c] = "ended"
    <3>1. /\ pc[c] = "opened" /\ goal[c] = "make" /\ owner' = owner
          /\ odd' = IF owner = None THEN odd \cup {"refusal"} ELSE odd
      BY <1>0, <1>4, <2>3 DEF ChannelNext, CallBegins, Make, Answer, Hangup
    <3>2. CASE owner /= None
      <4>1. owner /= c
        BY <3>1, <3>2 DEF OwnerBusy
      <4> QED
        BY <1>0, <1>1, <2>1, <3>2, <4>1 DEF OpenIsWanted, Active
    <3>3. CASE owner = None
      BY <3>1, <3>3 DEF OpenIsWanted
    <3> QED
      BY <3>2, <3>3
  <2> QED
    BY <2>2, <2>3
<1>5. ASSUME NEW t \in Threads, CaptureNext(t) PROVE OpenIsWanted'
  BY <1>2, <1>5 DEF CaptureNext, CaptureCheck, CaptureWake, CaptureRead, acts, pcms, tasks, Active
<1>6. CASE PushStart \/ RunStart
  <2>1. pushed' /= 0
    BY <1>0, <1>6 DEF PushStart, RunStart
  <2> QED
    BY <2>1 DEF OpenIsWanted
<1>7. CASE UNCHANGED vars
  BY <1>2, <1>7 DEF vars, acts, pcms, tasks, Active
<1>8. pushed' /= 0 => OpenIsWanted'
  BY DEF OpenIsWanted
<1> QED
  BY <1>3, <1>4, <1>5, <1>6, <1>7, <1>8 DEF Next

\* When every channel has ended the PCMs are closed, whichever openings and calls
\* failed: who opened them, or the owner, was still at work until then.
THEOREM IdleClosed == Spec => []IdleMeansClosed
<1> DEFINE Inv == OwnerBusy /\ OwnGoals /\ OpenIsWanted
<1>1. Init => Inv
  BY StreamAssumption DEF Init, OwnerBusy, OwnGoals, OpenIsWanted, Actors, Channels
<1>2. TypeOK /\ Inv /\ [Next]_vars => Inv'
  BY OwnerBusyNext, OwnGoalsNext, OpenIsWantedNext
<1>3. Inv => IdleMeansClosed
  BY DEF OpenIsWanted, IdleMeansClosed, Active
<1> QED
  BY <1>1, <1>2, <1>3, TypeCorrect, PTL DEF Spec

-----------------------------------------------------------------------------
(* Calls that do not overlap *)

LEMMA OneAtATimeNext ==
  ASSUME TypeOK, OwnGoals, OneAtATime, [Next]_vars, "overlap" \notin odd'
  PROVE  OneAtATime'
<1> USE StreamAssumption DEF Goto
<1>0. /\ pc \in [Actors -> Places] /\ Channels \subseteq Actors /\ Ser \notin Channels
      /\ pushed \in Nat /\ queued \in 0 .. pushed /\ Actors = Channels \cup {Ser}
      /\ Dials \subseteq Channels /\ Rings \subseteq Channels /\ Dials \cap Rings = {}
  BY DEF TypeOK, Actors, Channels
<1>1. ASSUME \A c \in Channels : Active(c)' => Active(c), pc'[Ser] = pc[Ser] \/ pc[Ser] /= "idle",
             queued' = queued
      PROVE  OneAtATime'
  BY <1>0, <1>1 DEF OneAtATime
<1>2. ASSUME NEW a \in Actors, ActorNext(a) PROVE OneAtATime'
  <2>1. pc[a] \notin {"idle", "ended"} /\ queued' = queued /\ \A b \in Actors \ {a} : pc'[b] = pc[b]
    BY <1>0, <1>2 DEF ActorNext, OpenDevices, Install, SetRate, StartLocked, StopLocked, Join, Close, tasks
  <2> QED
    BY <1>0, <1>1, <2>1 DEF Active
<1>3. ASSUME NEW c \in Channels, ChannelNext(c) PROVE OneAtATime'
  <2>1. /\ \A b \in Actors \ {c} : pc'[b] = pc[b]
        /\ queued' = queued
    BY <1>0, <1>3 DEF ChannelNext, CallBegins, Make, Answer, Hangup, tasks
  <2>2. CASE Active(c)
    BY <1>0, <1>1, <2>1, <2>2 DEF Active
  <2>3. CASE ~ Active(c)
    <3>1. CallBegins(c)
      BY <1>3, <2>3 DEF ChannelNext, Make, Answer, Hangup, Active
    <3>2. /\ \A d \in Channels : ~ Active(d)
          /\ c \in Rings => queued = 0 /\ pc[Ser] = "idle"
      BY <3>1 DEF CallBegins, SerFree, Active
    <3> QED
      BY <1>0, <2>1, <3>2 DEF OneAtATime, Active
  <2> QED
    BY <2>2, <2>3
<1>4. ASSUME NEW t \in Threads, CaptureNext(t) PROVE OneAtATime'
  BY <1>1, <1>4 DEF CaptureNext, CaptureCheck, CaptureWake, CaptureRead, acts, tasks, Active
<1>5. CASE PushStart
  <2>1. PICK d \in Dials : Active(d)
    BY <1>5 DEF PushStart, Active
  <2>2. \A r \in Rings : ~ Active(r)
    BY <1>0, <2>1 DEF OneAtATime
  <2> QED
    BY <1>5, <2>2 DEF PushStart, acts, OneAtATime, Active
<1>6. CASE RunStart
  <2>1. \A r \in Rings : ~ Active(r)
    BY <1>0, <1>6 DEF RunStart, OneAtATime
  <2>2. \A c \in Channels : pc'[c] = pc[c]
    BY <1>0, <1>6 DEF RunStart
  <2> QED
    BY <1>0, <2>1, <2>2 DEF OneAtATime, Active
<1>7. CASE UNCHANGED vars
  BY <1>1, <1>7 DEF vars, acts, tasks, Active
<1> QED
  BY <1>2, <1>3, <1>4, <1>5, <1>6, <1>7 DEF Next

\* The channel that owns the modem is the only one, so nobody stops the stream while
\* a capture thread is started, and no incoming call starts one beside the serializer.
LEMMA StarterAlone ==
  ASSUME TypeOK, OwnerBusy, OwnGoals, OneAtATime, NEW a \in Actors, StartLocked(a), owner /= None
  PROVE  \A b \in Actors : b /= a => pc[b] \notin {"join", "close"}
<1>0. /\ owner \in Channels /\ Active(owner) /\ Ser \notin Channels /\ Actors = Channels \cup {Ser}
      /\ Channels = Dials \cup Rings /\ Dials \cap Rings = {}
  BY StreamAssumption DEF TypeOK, OwnerBusy, Active, Actors, Channels
<1>1. pc[a] = "opened" /\ goal[a] = "start"
  BY DEF StartLocked
<1> SUFFICES ASSUME NEW b \in Actors, b /= a, pc[b] \in {"join", "close"} PROVE FALSE
  OBVIOUS
<1>2. CASE a \in Channels
  <2>1. a \in Rings /\ Active(a)
    BY <1>0, <1>1, <1>2 DEF OwnGoals, Active
  <2>2. b \in Channels /\ Active(b)
    BY <1>0, <2>1 DEF OneAtATime, Active
  <2> QED
    BY <1>0, <2>1, <2>2 DEF OneAtATime
<1>3. CASE a = Ser
  <2>1. b \in Channels /\ Active(b)
    BY <1>0, <1>3 DEF Active
  <2>2. b = owner
    BY <1>0, <2>1 DEF OneAtATime
  <2>3. owner \in Rings
    BY <1>0, <2>2 DEF OwnerBusy, OwnGoals
  <2> QED
    BY <1>0, <1>1, <1>3, <2>3 DEF OneAtATime
<1> QED
  BY <1>0, <1>2, <1>3

LEMMA CaptureSafeNext ==
  ASSUME TypeOK, ThreadsAccounted, OwnerBusy, OwnGoals, OneAtATime, CaptureSafe, [Next]_vars
  PROVE  CaptureSafe'
<1> USE StreamAssumption DEF Goto
<1>0. /\ pc \in [Actors -> Places] /\ cap \in [Threads -> {"none", "check", "wait", "read", "exit"}]
      /\ using \in [Threads -> Handles \cup {None}] /\ pcm \in Handles \cup {None}
      /\ joining \in [Actors -> Threads \cup {None}]
      /\ Channels \subseteq Actors /\ Ser \notin Channels /\ Actors = Channels \cup {Ser}
      /\ streamstate \in BOOLEAN /\ thread \in Threads \cup {None} /\ None \notin Threads
  BY DEF TypeOK, Actors
<1>1. /\ \A t \in Threads : cap[t] /= "none" => pcm /= None /\ \A a \in Actors : pc[a] /= "close"
      /\ \A t \in Threads : cap[t] \in {"wait", "read"} => using[t] = pcm
      /\ \A a \in Actors : pc[a] = "join" => ~ streamstate
  BY DEF CaptureSafe
\* A thread that runs is the modem's or somebody joins it.
<1>2. ASSUME NEW t \in Threads, cap[t] /= "none", ~ streamstate
      PROVE  \E b \in Actors : pc[b] = "join" /\ joining[b] = t
  BY <1>0, <1>2 DEF ThreadsAccounted
\* What neither closes, nor joins, nor starts or moves a thread.
<1>3. ASSUME UNCHANGED <<cap, using, streamstate>>, pcm' = pcm \/ pcm = None,
             \A a \in Actors : pc'[a] \in {"close", "join"} => pc[a] = pc'[a]
      PROVE  CaptureSafe'
  BY <1>0, <1>1, <1>3 DEF CaptureSafe
<1>4. ASSUME NEW a \in Actors, OpenDevices(a) \/ Install(a) \/ SetRate(a) PROVE CaptureSafe'
  <2>1. \A b \in Actors : pc'[b] \in {"close", "join"} => pc[b] = pc'[b]
    BY <1>0, <1>4 DEF OpenDevices, Install, SetRate, Resting
  <2> QED
    BY <1>3, <1>4, <2>1 DEF OpenDevices, Install, SetRate, modem, caps
<1>5. ASSUME NEW a \in Actors, StartLocked(a) PROVE CaptureSafe'
  <2>1. UNCHANGED <<pcm, using>>
    BY <1>5 DEF StartLocked, pcms
  <2>2. CASE streamstate \/ owner = None
    <3>1. UNCHANGED <<streamstate, cap>> /\ pc' = [pc EXCEPT ![a] = Resting(a)]
      BY <1>5, <2>2 DEF StartLocked
    <3> QED
      BY <1>0, <1>3, <2>1, <3>1 DEF Resting
  <2>3. CASE ~ streamstate /\ owner /= None
    <3>1. \A b \in Actors \ {a} : pc[b] \notin {"join", "close"}
      BY <1>5, <2>3, StarterAlone
    <3>2. \A t \in Threads : cap[t] = "none"
      <4>1. pc[a] = "opened"
        BY <1>5 DEF StartLocked
      <4> QED
        BY <1>2, <2>3, <3>1, <4>1
    <3>3. CASE pcm /= None /\ pc' = [pc EXCEPT ![a] = Resting(a)]
      <4>1. \E t \in Threads : cap' = [cap EXCEPT ![t] = "check"]
        BY <1>0, <1>5, <2>3, <3>3 DEF StartLocked, Resting
      <4>2. \A b \in Actors : pc'[b] \notin {"join", "close"}
        BY <1>0, <3>1, <3>3 DEF Resting
      <4>3. \A t \in Threads : cap'[t] \notin {"wait", "read"}
        BY <1>0, <3>2, <4>1
      <4> QED
        BY <2>1, <3>3, <4>2, <4>3 DEF CaptureSafe
    <3>4. CASE pc' = [pc EXCEPT ![a] = "close"] /\ cap' = cap /\ streamstate' = streamstate
      BY <1>0, <2>3, <3>2, <3>4 DEF CaptureSafe
    <3> QED
      BY <1>5, <2>3, <3>3, <3>4 DEF StartLocked
  <2> QED
    BY <1>0, <2>2, <2>3
<1>6. ASSUME NEW a \in Actors, StopLocked(a) PROVE CaptureSafe'
  <2>1. UNCHANGED <<pcm, cap, using>> /\ pc[a] = "stop" /\ a \in Channels
    BY <1>0, <1>6 DEF StopLocked, pcms, caps, OwnGoals
  <2>2. CASE streamstate
    <3>1. streamstate' = FALSE /\ pc' = [pc EXCEPT ![a] = "join"]
      BY <1>6, <2>2 DEF StopLocked
    <3> QED
      BY <1>0, <1>1, <2>1, <3>1 DEF CaptureSafe
  <2>3. CASE ~ streamstate
    <3>1. streamstate' = streamstate /\ pc' = [pc EXCEPT ![a] = "close"]
      BY <1>6, <2>3 DEF StopLocked
    <3>2. \A b \in Channels \ {a} : pc[b] /= "join"
      BY <2>1 DEF OneAtATime, Active
    <3>3. pc[Ser] /= "join"
      BY DEF OwnGoals
    <3>4. \A t \in Threads : cap[t] = "none"
      BY <1>0, <1>2, <2>1, <2>3, <3>2, <3>3
    <3> QED
      BY <1>0, <1>1, <2>1, <2>3, <3>1, <3>4 DEF CaptureSafe
  <2> QED
    BY <2>2, <2>3
<1>7. ASSUME NEW a \in Actors, Join(a) PROVE CaptureSafe'
  <2>1. /\ UNCHANGED <<pcm, using, streamstate>> /\ pc[a] = "join" /\ a \in Channels
        /\ cap' = [cap EXCEPT ![joining[a]] = "none"] /\ pc' = [pc EXCEPT ![a] = "close"]
    BY <1>0, <1>7 DEF Join, pcms, modem, OwnGoals
  <2>2. \A b \in Actors \ {a} : pc[b] /= "join"
    BY <1>0, <2>1 DEF OneAtATime, Active, OwnGoals
  <2>3. \A t \in Threads : cap[t] /= "none" => t = joining[a]
    BY <1>1, <1>2, <2>1, <2>2
  <2>4. \A t \in Threads : cap'[t] = "none"
    BY <1>0, <2>1, <2>3
  <2> QED
    BY <1>0, <1>1, <2>1, <2>4 DEF CaptureSafe
<1>8. ASSUME NEW a \in Actors, Close(a) PROVE CaptureSafe'
  <2>1. \A t \in Threads : cap[t] = "none"
    BY <1>1, <1>8 DEF Close
  <2>2. UNCHANGED <<cap, using, streamstate>> /\ \A b \in Actors : pc'[b] = "join" => pc[b] = "join"
    BY <1>0, <1>8 DEF Close, modem, caps, Resting
  <2> QED
    BY <1>1, <2>1, <2>2 DEF CaptureSafe
<1>9. ASSUME NEW c \in Channels, ChannelNext(c) PROVE CaptureSafe'
  <2>1. \A b \in Actors : pc'[b] \in {"close", "join"} => pc[b] = pc'[b]
    BY <1>0, <1>9 DEF ChannelNext, CallBegins, Make, Answer, Hangup
  <2> QED
    BY <1>3, <1>9, <2>1 DEF ChannelNext, CallBegins, Make, Answer, Hangup, modem, pcms, caps
<1>10. ASSUME NEW t \in Threads, CaptureNext(t) PROVE CaptureSafe'
  <2>1. UNCHANGED <<pcm, pc, streamstate>> /\ cap[t] /= "none"
    BY <1>10 DEF CaptureNext, CaptureCheck, CaptureWake, CaptureRead, modem, pcms, acts
  <2>2. \A u \in Threads \ {t} : cap'[u] = cap[u] /\ using'[u] = using[u]
    BY <1>0, <1>10 DEF CaptureNext, CaptureCheck, CaptureWake, CaptureRead
  <2>3. cap'[t] \in {"wait", "read"} => using'[t] = pcm
    BY <1>0, <1>10 DEF CaptureNext, CaptureCheck, CaptureWake, CaptureRead
  <2> QED
    BY <1>1, <2>1, <2>2, <2>3 DEF CaptureSafe
<1>11. CASE PushStart
  BY <1>3, <1>11 DEF PushStart, modem, pcms, acts, caps
<1>12. CASE RunStart
  <2>1. \A b \in Actors : pc'[b] \in {"close", "join"} => pc[b] = pc'[b]
    BY <1>0, <1>12 DEF RunStart
  <2> QED
    BY <1>3, <1>12, <2>1 DEF RunStart, modem, pcms, caps
<1>13. CASE UNCHANGED vars
  BY <1>3, <1>13 DEF vars, modem, pcms, acts, caps
<1> QED
  BY <1>4, <1>5, <1>6, <1>7, <1>8, <1>9, <1>10, <1>11, <1>12, <1>13 DEF Next, ActorNext

\* What overlapped stays overlapped.
LEMMA OddGrows == ASSUME [Next]_vars PROVE odd \subseteq odd'
BY DEF Next, ActorNext, OpenDevices, Install, SetRate, StartLocked, StopLocked, Join, Close,
   ChannelNext, CallBegins, Make, Answer, Hangup, CaptureNext, CaptureCheck, CaptureWake,
   CaptureRead, PushStart, RunStart, tasks, vars

\* While calls do not overlap a capture thread only ever waits for and reads from an
\* open PCM: stop_stream has joined it before it closes them, and start_stream closes
\* them only where no thread runs, late start tasks included.
THEOREM CapturesReadOpen == Spec => []CaptureHandleOpen
<1> DEFINE Inv == OwnerBusy /\ OwnGoals /\ CaptureInv
<1>1. Init => Inv
  BY StreamAssumption
  DEF Init, OwnerBusy, OwnGoals, CaptureInv, OneAtATime, CaptureSafe, Active, Actors, Channels
<1>2. TypeOK /\ ThreadsAccounted /\ Inv /\ [Next]_vars => Inv'
  <2> SUFFICES ASSUME TypeOK, ThreadsAccounted, Inv, [Next]_vars PROVE Inv'
    OBVIOUS
  <2>1. OwnerBusy' /\ OwnGoals'
    BY OwnerBusyNext, OwnGoalsNext
  <2>2. ASSUME "overlap" \notin odd' PROVE OneAtATime' /\ CaptureSafe'
    <3>1. OneAtATime /\ CaptureSafe
      BY <2>2, OddGrows DEF CaptureInv
    <3> QED
      BY <2>2, <3>1, OneAtATimeNext, CaptureSafeNext
  <2> QED
    BY <2>1, <2>2 DEF CaptureInv
<1>3. HandlesAccounted /\ TypeOK /\ Inv => CaptureHandleOpen
  <2> SUFFICES ASSUME HandlesAccounted, CaptureInv, "overlap" \notin odd, NEW t \in Threads,
                      cap[t] \in {"wait", "read"}
               PROVE  using[t] \in open
    BY DEF CaptureHandleOpen
  <2>1. using[t] = pcm /\ pcm /= None
    BY DEF CaptureInv, CaptureSafe
  <2> QED
    BY <2>1 DEF HandlesAccounted
<1> QED
  BY <1>1, <1>2, <1>3, TypeCorrect, HandlesNeverLeak, ThreadsNeverLeak, PTL DEF Spec

=============================================================================
