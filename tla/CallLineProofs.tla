-------------------------- MODULE CallLineProofs --------------------------
(***************************************************************************)
(* Proofs about CallLine for any number of calls, reloads and unplugs.     *)
(***************************************************************************)
EXTENDS CallLine, SequenceTheorems, TLAPS

-----------------------------------------------------------------------------
(* Type correctness *)

\* The items a state change queues for the GMainLoop thread are well formed.
LEMMA StateItemsType ==
  ASSUME NEW c \in Calls, NEW s \in States
  PROVE  StateItems(c, s) \in Seq(LoopItems)
<1> DEFINE item == [k |-> "state", c |-> c, s |-> s]
           left == IF c \in subs THEN <<item>> ELSE <<>>
           right == IF ProxyDelivers /\ call = c THEN <<item>> ELSE <<>>
<1>1. item \in LoopItems
  BY DEF LoopItems
<1>2. left \in Seq(LoopItems) /\ right \in Seq(LoopItems)
  BY <1>1
<1>3. StateItems(c, s) = left \o right
  BY DEF StateItems
<1> HIDE DEF left, right
<1> QED
  BY <1>2, <1>3, ConcatProperties

\* A state change inside ModemManager keeps mm and loopQ well formed.
LEMMA MmMovesType ==
  ASSUME TypeOK, NEW c \in Calls, NEW s \in States, MmMoves(c, s)
  PROVE  mm' \in [Calls -> States] /\ loopQ' \in Seq(LoopItems)
BY StateItemsType, ConcatProperties DEF TypeOK, MmMoves

\* The subscription stays well formed when it is released.
LEMMA ReleaseWatchType ==
  ASSUME TypeOK, ReleaseWatch
  PROVE  sub' \in Calls \cup {None} /\ subs' \subseteq Calls
BY DEF TypeOK, ReleaseWatch, watch

\* So do all the variables that attaching a call changes.
LEMMA AttachType ==
  ASSUME TypeOK, NEW c \in Calls, NEW seen \in States, NEW made \in BOOLEAN,
         AttachAndMake(c, seen, made)
  PROVE  /\ call' \in Calls \cup {None} /\ owner' \in Calls \cup {None}
         /\ last' \in States
         /\ sub' \in Calls \cup {None} /\ subs' \subseteq Calls
         /\ loopQ' \in Seq(LoopItems)
<1>1. [k |-> "subscribe", c |-> c, s |-> seen] \in LoopItems
  BY DEF LoopItems
<1>2. loopQ' \in Seq(LoopItems)
  BY <1>1 DEF AttachAndMake, TypeOK
<1> QED
  BY <1>2, ReleaseWatchType DEF AttachAndMake, TypeOK

\* Queueing a control frame keeps heard well formed.
LEMMA QueueFrameType ==
  ASSUME TypeOK, NEW ch \in Calls \cup {None},
         NEW ctl \in {"PROCEEDING", "RINGING", "ANSWER", "HANGUP"},
         NEW c \in Calls \cup {None}, QueueFrame(ch, ctl, c)
  PROVE  heard' \in [Calls -> SUBSET Frames]
<1>1. [ctl |-> ctl, call |-> c] \in Frames
  BY DEF Frames
<1>2. \A d \in Calls : heard[d] \cup {[ctl |-> ctl, call |-> c]} \in SUBSET Frames
  BY <1>1 DEF TypeOK
<1> QED
  BY <1>2 DEF QueueFrame, TypeOK

LEMMA PushType ==
  ASSUME TypeOK, NEW task \in {"added", "start", "terminated"},
         NEW c \in Calls \cup {None}, Push(task, c)
  PROVE  serQ' \in Seq(SerTasks)
<1>1. [k |-> task, c |-> c] \in SerTasks /\ serQ \in Seq(SerTasks)
  BY DEF SerTasks, TypeOK
<1>2. CASE serQ' = Append(serQ, [k |-> task, c |-> c])
  BY <1>1, <1>2
<1> QED
  BY <1>1, <1>2 DEF Push

LEMMA SerMoveType ==
  ASSUME NEW step \in {"idle", "attach", "reject", "pbx", "wait", "delete"},
         NEW c \in Calls, NEW s \in States, SerMove(step, c, s)
  PROVE  ser' \in SerSteps /\ ser'.c \in Calls /\ ser'.k = step
BY DEF SerMove, SerSteps

\* The initial state and every step keep TypeOK.
LEMMA TypeInit == Init => TypeOK
<1> SUFFICES ASSUME Init PROVE TypeOK
  OBVIOUS
<1>1. /\ mm \in [Calls -> States] /\ last \in States
      /\ loop \in LoopSteps /\ loop.k = "idle"
      /\ ser \in SerSteps /\ ser.k = "idle"
  BY DEF Init, States, LoopSteps, LoopIdle, SerSteps, SerIdle
<1>2. /\ pc \in [Calls -> Places] /\ \A c \in Calls : pc[c] /= "answering"
      /\ snap \in [Calls -> Calls \cup {None}] /\ heard \in [Calls -> SUBSET Frames]
  BY DEF Init, Places
<1>3. loopQ \in Seq(LoopItems) /\ serQ \in Seq(SerTasks)
  BY DEF Init
<1>4. resolves \in 0 .. MaxResolves /\ unplugs \in 0 .. MaxUnplugs
  BY CallsAssumption DEF Init
<1>5. voice \in BOOLEAN /\ unplugged \in BOOLEAN
  BY DEF Init
<1> QED
  BY <1>1, <1>2, <1>3, <1>4, <1>5 DEF Init, TypeOK

LEMMA TypeNext == TypeOK /\ [Next]_vars => TypeOK'
<1> SUFFICES ASSUME TypeOK, [Next]_vars PROVE TypeOK'
  OBVIOUS
<1> USE CallsAssumption
<1>1. CASE LoopSubscribe
  <2>1. loopQ' \in Seq(LoopItems) /\ Head(loopQ) \in LoopItems
    BY <1>1, HeadTailProperties DEF LoopSubscribe, LoopTakes, TypeOK
  <2>2. loop' \in LoopSteps /\ loop'.c \in Calls
    BY <1>1, <2>1 DEF LoopSubscribe, LoopSteps, LoopItems, States
  <2> QED
    BY <1>1, <2>1, <2>2 DEF LoopSubscribe, TypeOK, LoopItems,
         daemon, line, watch, loopv, serv, chans, world
<1>2. CASE LoopRecord
  BY <1>2 DEF LoopRecord, TypeOK, LoopSteps, LoopIdle, States,
       daemon, line, serv, chans, world
<1>3. CASE LoopSignal
  <2>1. loopQ' \in Seq(LoopItems) /\ Head(loopQ) \in LoopItems
    BY <1>3, HeadTailProperties DEF LoopSignal, LoopTakes, TypeOK
  <2>2. last' \in States /\ loop' \in LoopSteps /\ (loop'.k /= "idle" => loop'.c \in Calls)
    BY <1>3, <2>1 DEF LoopSignal, ForAttachedCall, LoopSteps, LoopItems, TypeOK
  <2> QED
    BY <1>3, <2>1, <2>2 DEF LoopSignal, TypeOK,
         daemon, line, watch, loopv, serv, chans, world
<1>4. CASE LoopAct
  <2>1. loop.c \in Calls
    BY <1>4 DEF LoopAct, TypeOK
  <2>3. stranded' \subseteq Calls
    BY <1>4, <2>1 DEF LoopAct, StrandedIfLost, TypeOK
  <2>2. heard' \in [Calls -> SUBSET Frames] /\ serQ' \in Seq(SerTasks)
    <3>1. CASE loop.s = "dialing"
      BY <1>4, <2>1, <3>1, QueueFrameType DEF LoopAct, TypeOK
    <3>2. CASE loop.s = "ringing_out"
      BY <1>4, <2>1, <3>2, QueueFrameType, PushType DEF LoopAct, TypeOK
    <3>3. CASE loop.s = "active"
      BY <1>4, <2>1, <3>3, QueueFrameType DEF LoopAct, TypeOK
    <3>4. CASE loop.s = "terminated"
      BY <1>4, <2>1, <3>4, QueueFrameType, PushType DEF LoopAct, TypeOK
    <3>5. CASE loop.s \notin {"dialing", "ringing_out", "active", "terminated"}
      BY <1>4, <3>5 DEF LoopAct, TypeOK
    <3> QED
      BY <3>1, <3>2, <3>3, <3>4, <3>5
  <2> QED
    BY <1>4, <2>2, <2>3 DEF LoopAct, TypeOK, LoopSteps, LoopIdle, States,
         daemon, line, watch, loopv, serv, chans
<1>5. CASE LoopCallAdded
  <2>1. loopQ' \in Seq(LoopItems) /\ Head(loopQ) \in LoopItems
    BY <1>5, HeadTailProperties DEF LoopCallAdded, LoopTakes, TypeOK
  <2>2. serQ' \in Seq(SerTasks)
    BY <1>5, <2>1, PushType DEF LoopCallAdded, LoopItems
  <2>3. stranded' \subseteq Calls
    BY <1>5, <2>1 DEF LoopCallAdded, StrandedIfLost, LoopItems, TypeOK
  <2> QED
    BY <1>5, <2>1, <2>2, <2>3 DEF LoopCallAdded, TypeOK,
         daemon, line, watch, loopv, serv, chans
<1>6. CASE SerAdded
  <2>1. serQ' \in Seq(SerTasks) /\ Head(serQ) \in SerTasks
    BY <1>6, HeadTailProperties DEF SerAdded, SerTakes, TypeOK
  <2>2. ser' \in SerSteps /\ (ser'.k /= "idle" => ser'.c \in Calls)
    <3>1. CASE UNCHANGED ser
      BY <3>1 DEF TypeOK
    <3>2. CASE /\ Head(serQ).c \in Rings
               /\ \/ SerMove("attach", Head(serQ).c, mm[Head(serQ).c])
                  \/ SerMove("reject", Head(serQ).c, "absent")
      <4>1. Head(serQ).c \in Calls /\ mm[Head(serQ).c] \in States /\ "absent" \in States
        BY <3>2 DEF Calls, TypeOK, States
      <4> QED
        BY <3>2, <4>1, SerMoveType
    <3> QED
      BY <1>6, <3>1, <3>2 DEF SerAdded
  <2>3. stranded' \subseteq Calls
    BY <1>6 DEF SerAdded, TypeOK, Calls
  <2> QED
    BY <1>6, <2>1, <2>2, <2>3 DEF SerAdded, TypeOK, daemon, line, watch, loopv, serv, chans
<1>7. CASE SerAttach
  <2>1. ser.c \in Calls /\ ser.s \in States /\ "absent" \in States
    BY <1>7 DEF SerAttach, TypeOK, SerSteps, States
  <2>2. CASE SerRefuses
    BY <1>7, <2>1, <2>2, SerMoveType DEF SerAttach, SerRefuses, TypeOK, daemon, line, watch, loopv, serv, chans, world
  <2>3. CASE SerTakesCall
    <3>1. \E made \in BOOLEAN : AttachAndMake(ser.c, ser.s, made)
      BY <2>3 DEF SerTakesCall
    <3>2. ser' \in SerSteps /\ ser'.c \in Calls
      BY <2>1, <2>3, SerMoveType DEF SerTakesCall
    <3>3. pc' \in [Calls -> Places] /\ \A c \in Calls : pc'[c] = "answering" => pc[c] = "answering"
      BY <2>1, <2>3 DEF SerTakesCall, Goto, TypeOK, Places
    <3>4. voice' = voice
      BY <2>3 DEF SerTakesCall
    <3> QED
      BY <1>7, <2>1, <3>1, <3>2, <3>3, <3>4, AttachType
      DEF SerAttach, TypeOK, daemon, line, watch, loopv, serv, chans, world
  <2> QED
    BY <1>7, <2>2, <2>3 DEF SerAttach
<1>8. CASE SerReject
  <2>1. ser.c \in Calls /\ "terminated" \in States
    BY <1>8 DEF SerReject, TypeOK, States
  <2>2. mm' \in [Calls -> States] /\ loopQ' \in Seq(LoopItems)
    BY <1>8, <2>1, MmMovesType DEF SerReject, TypeOK
  <2>3. ser' \in SerSteps /\ ser'.k = "idle"
    BY <1>8 DEF SerReject, SerIdle, SerSteps, States
  <2> QED
    BY <1>8, <2>2, <2>3 DEF SerReject, TypeOK, daemon, line, watch, loopv, serv, chans, world
<1>9. CASE SerPbx
  <2>1. ser.c \in Calls /\ "absent" \in States
    BY <1>9 DEF SerPbx, TypeOK, States
  <2>2. ser' \in SerSteps /\ (ser'.k /= "idle" => ser'.c \in Calls)
    BY <1>9, <2>1, SerMoveType DEF SerPbx, SerIdle, SerSteps, States
  <2>3. pc' \in [Calls -> Places] /\ \A c \in Calls : pc'[c] = "answering" => pc[c] = "answering"
    BY <1>9, <2>1 DEF SerPbx, Goto, TypeOK, Places
  <2> QED
    BY <1>9, <2>2, <2>3 DEF SerPbx, TypeOK, daemon, line, watch, loopv, serv, chans, world
<1>10. CASE SerWaited
  BY <1>10 DEF SerWaited, TypeOK, SerIdle, SerSteps, States, daemon, line, watch, loopv, serv, chans, world
<1>11. CASE SerStart
  <2>1. serQ' \in Seq(SerTasks)
    BY <1>11, HeadTailProperties DEF SerStart, SerTakes, TypeOK
  <2> QED
    BY <1>11, <2>1 DEF SerStart, TypeOK, daemon, line, watch, loopv, serv, chans, world
<1>12. CASE SerTerminated
  <2>1. serQ' \in Seq(SerTasks)
    BY <1>12, HeadTailProperties DEF SerTerminated, SerTakes, TypeOK
  <2>2. ser' \in SerSteps /\ (ser'.k /= "idle" => ser'.c \in Calls)
    <3>1. "absent" \in States
      BY DEF States
    <3> QED
      BY <1>12, <3>1, SerMoveType DEF SerTerminated, TypeOK
  <2>3. call' \in Calls \cup {None} /\ sub' \in Calls \cup {None} /\ subs' \subseteq Calls
    BY <1>12, ReleaseWatchType DEF SerTerminated, CallDetach
  <2> QED
    BY <1>12, <2>1, <2>2, <2>3 DEF SerTerminated, TypeOK, daemon, line, watch, loopv, serv, chans, world
<1>13. CASE SerDelete
  <2>1. ser' \in SerSteps /\ ser'.k = "idle"
    BY <1>13 DEF SerDelete, SerIdle, SerSteps, States
  <2>2. mm' \in [Calls -> States]
    BY <1>13 DEF SerDelete, TypeOK, States
  <2> QED
    BY <1>13, <2>1, <2>2 DEF SerDelete, TypeOK, daemon, line, watch, loopv, serv, chans, world
<1>14. ASSUME NEW c \in Calls, ChannelNext(c) PROVE TypeOK'
  <2>1. CASE RequestCheck(c)
    <3>1. pc' \in [Calls -> Places] /\ \A d \in Calls : pc'[d] = "answering" => pc[d] = "answering"
      BY <2>1 DEF RequestCheck, Goto, TypeOK, Places
    <3> QED
      BY <2>1, <3>1 DEF RequestCheck, TypeOK, daemon, line, watch, loopv, serv, chans, world
  <2>2. CASE RequestCreate(c)
    <3>1. pc' \in [Calls -> Places] /\ \A d \in Calls : pc'[d] = "answering" => pc[d] = "answering"
      BY <2>2 DEF RequestCreate, Goto, TypeOK, Places
    <3>2. [k |-> "added", c |-> c, s |-> "unknown"] \in LoopItems
      BY DEF LoopItems, States
    <3>3. mm' \in [Calls -> States]
      <4>1. "unknown" \in States
        BY DEF States
      <4> QED
        BY <2>2, <4>1 DEF RequestCreate, TypeOK
    <3>4. loopQ' \in Seq(LoopItems)
      <4>1. \/ loopQ' = loopQ
            \/ loopQ' = Append(loopQ, [k |-> "added", c |-> c, s |-> "unknown"])
        BY <2>2 DEF RequestCreate
      <4>2. loopQ \in Seq(LoopItems)
        BY DEF TypeOK
      <4> QED
        BY <3>2, <4>1, <4>2
    <3> QED
      BY <2>2, <3>1, <3>3, <3>4 DEF RequestCreate, TypeOK, daemon, line, watch, loopv, serv, chans, world
  <2>3. CASE RequestAttach(c)
    <3>1. pc' \in [Calls -> Places] /\ \A d \in Calls : pc'[d] = "answering" => pc[d] = "answering"
      BY <2>3 DEF RequestAttach, Goto, TypeOK, Places
    <3>2. /\ \E made \in BOOLEAN : AttachAndMake(c, "unknown", made)
          /\ "unknown" \in States
      BY <2>3 DEF RequestAttach, States
    <3> QED
      BY <2>3, <3>1, <3>2, AttachType DEF RequestAttach, TypeOK, daemon, line, watch, loopv, serv, chans, world
  <2>4. CASE RequestStart(c)
    <3>1. pc' \in [Calls -> Places] /\ \A d \in Calls : pc'[d] = "answering" => pc[d] = "answering"
      BY <2>4 DEF RequestStart, Goto, TypeOK, Places
    <3>2. mm' \in [Calls -> States] /\ loopQ' \in Seq(LoopItems)
      <4>1. "dialing" \in States /\ "terminated" \in States
        BY DEF States
      <4> QED
        BY <2>4, <4>1, MmMovesType DEF RequestStart, TypeOK
    <3> QED
      BY <2>4, <3>1, <3>2 DEF RequestStart, TypeOK, daemon, line, watch, loopv, serv, chans, world
  <2>5. CASE AnswerBegin(c)
    <3>1. /\ pc' \in [Calls -> Places] /\ snap' \in [Calls -> Calls \cup {None}]
          /\ \A d \in Calls : pc'[d] = "answering" => snap'[d] \in Calls
      BY <2>5 DEF AnswerBegin, Goto, TypeOK, Places
    <3> QED
      BY <2>5, <3>1 DEF AnswerBegin, TypeOK, daemon, line, watch, loopv, serv, chans, world
  <2>6. CASE AnswerAccept(c)
    <3>1. pc' \in [Calls -> Places] /\ \A d \in Calls : pc'[d] = "answering" => pc[d] = "answering"
      BY <2>6 DEF AnswerAccept, Goto, TypeOK, Places
    <3>2. snap[c] \in Calls /\ "active" \in States
      BY <2>6 DEF AnswerAccept, TypeOK, States
    <3>3. mm' \in [Calls -> States] /\ loopQ' \in Seq(LoopItems)
      BY <2>6, <3>2, MmMovesType DEF AnswerAccept, TypeOK
    <3>4. heard' \in [Calls -> SUBSET Frames]
      BY <2>6, <3>2, QueueFrameType DEF AnswerAccept, TypeOK
    <3> QED
      BY <2>6, <3>1, <3>3, <3>4 DEF AnswerAccept, TypeOK, daemon, line, watch, loopv, serv, chans, world
  <2>7. CASE HangupBegin(c)
    <3>1. /\ pc' \in [Calls -> Places] /\ snap' \in [Calls -> Calls \cup {None}]
          /\ \A d \in Calls : pc'[d] = "answering" => snap'[d] \in Calls
      BY <2>7 DEF HangupBegin, Goto, TypeOK, Places
    <3> QED
      BY <2>7, <3>1 DEF HangupBegin, TypeOK, daemon, line, watch, loopv, serv, chans, world
  <2>8. CASE HangupCall(c)
    <3>1. pc' \in [Calls -> Places] /\ \A d \in Calls : pc'[d] = "answering" => pc[d] = "answering"
      BY <2>8 DEF HangupCall, Goto, TypeOK, Places
    <3>2. mm' \in [Calls -> States] /\ loopQ' \in Seq(LoopItems)
      <4>1. snap[c] /= None => snap[c] \in Calls
        BY DEF TypeOK
      <4>2. "terminated" \in States
        BY DEF States
      <4> QED
        BY <2>8, <4>1, <4>2, MmMovesType DEF HangupCall, TypeOK
    <3> QED
      BY <2>8, <3>1, <3>2 DEF HangupCall, TypeOK, daemon, line, watch, loopv, serv, chans, world
  <2> QED
    BY <1>14, <2>1, <2>2, <2>3, <2>4, <2>5, <2>6, <2>7, <2>8 DEF ChannelNext
<1>15. ASSUME NEW r \in Calls, NetworkRings(r) PROVE TypeOK'
  <2>1. [k |-> "added", c |-> r, s |-> "ringing_in"] \in LoopItems
    BY DEF LoopItems, States
  <2>2. mm' \in [Calls -> States] /\ loopQ' \in Seq(LoopItems)
    BY <1>15, <2>1 DEF NetworkRings, TypeOK, States
  <2> QED
    BY <1>15, <2>2 DEF NetworkRings, TypeOK, daemon, line, watch, loopv, serv, chans, world
<1>16. ASSUME NEW c \in Calls, NEW s \in States, NetworkMoves(c, s) PROVE TypeOK'
  <2>1. mm' \in [Calls -> States] /\ loopQ' \in Seq(LoopItems)
    BY <1>16, MmMovesType DEF NetworkMoves
  <2> QED
    BY <1>16, <2>1 DEF NetworkMoves, TypeOK, daemon, line, watch, loopv, serv, chans, world
<1>17. CASE ModemUnplugged
  <2>1. mm' \in [Calls -> States]
    BY <1>17 DEF ModemUnplugged, States
  <2> QED
    BY <1>17, <2>1 DEF ModemUnplugged, TypeOK, daemon, line, watch, loopv, serv, chans, world
<1>18. CASE Resolve
  <2>1. call' \in Calls \cup {None} /\ sub' \in Calls \cup {None} /\ subs' \subseteq Calls
    BY <1>18, ReleaseWatchType DEF Resolve, CallDetach
  <2>2. resolves' \in 0 .. MaxResolves /\ unplugs' \in 0 .. MaxUnplugs
    BY <1>18 DEF Resolve, TypeOK
  <2>3. voice' \in BOOLEAN /\ unplugged' \in BOOLEAN
    BY <1>18 DEF Resolve
  <2> QED
    BY <1>18, <2>1, <2>2, <2>3 DEF Resolve, TypeOK, daemon, line, watch, loopv, serv, chans, world
<1>19. CASE DetachRemoved
  <2>1. call' \in Calls \cup {None} /\ sub' \in Calls \cup {None} /\ subs' \subseteq Calls
    BY <1>19, ReleaseWatchType DEF DetachRemoved, CallDetach
  <2>2. heard' \in [Calls -> SUBSET Frames]
    BY <1>19, QueueFrameType DEF DetachRemoved, TypeOK
  <2> QED
    BY <1>19, <2>1, <2>2 DEF DetachRemoved, TypeOK, daemon, line, watch, loopv, serv, chans, world
<1>20. CASE UNCHANGED vars
  BY <1>20 DEF vars, TypeOK, daemon, line, watch, loopv, serv, chans, world
<1> QED
  BY <1>1, <1>2, <1>3, <1>4, <1>5, <1>6, <1>7, <1>8, <1>9, <1>10, <1>11, <1>12,
     <1>13, <1>14, <1>15, <1>16, <1>17, <1>18, <1>19, <1>20
  DEF Next, LoopNext, SerNext

\* Every reachable state of CallLine is type correct.
THEOREM TypeCorrect == Spec => []TypeOK
BY TypeInit, TypeNext, PTL DEF Spec

-----------------------------------------------------------------------------
(* The owner pointer *)

\* A step that changes neither the owner nor the place of a channel, attaches no
\* call and leaves no channel to ast_pbx_start.
Quiet == /\ UNCHANGED <<owner, pc, snap>> /\ call' \in {call, None}
         /\ ser' = ser \/ ser'.k /= "pbx"

\* Actions that touch neither the owner pointer nor the place of a channel.
LEMMA QuietSteps ==
  ASSUME \/ LoopNext \/ SerAdded \/ SerReject \/ SerWaited \/ SerStart
         \/ SerTerminated \/ SerDelete
         \/ (\E c \in Calls : NetworkRings(c))
         \/ (\E c \in Calls, s \in States : NetworkMoves(c, s))
         \/ ModemUnplugged \/ Resolve \/ DetachRemoved \/ UNCHANGED vars
  PROVE  Quiet
<1>1. CASE LoopNext
  BY <1>1 DEF Quiet, LoopNext, LoopSubscribe, LoopRecord, LoopSignal, LoopAct, LoopCallAdded,
       line, serv, chans
<1>2. CASE \/ SerAdded \/ SerReject \/ SerWaited \/ SerStart \/ SerTerminated \/ SerDelete
  BY <1>2 DEF SerAdded, SerReject, SerWaited, SerStart, SerTerminated, SerDelete,
       Quiet, CallDetach, SerMove, SerIdle, line, serv, chans
<1>3. CASE \/ (\E c \in Calls : NetworkRings(c))
           \/ (\E c \in Calls, s \in States : NetworkMoves(c, s))
  BY <1>3 DEF Quiet, NetworkRings, NetworkMoves, line, serv, chans
<1>4. CASE ModemUnplugged \/ Resolve \/ DetachRemoved \/ UNCHANGED vars
  BY <1>4 DEF ModemUnplugged, Resolve, DetachRemoved, CallDetach, Quiet, vars, line, serv, chans
<1> QED
  BY <1>1, <1>2, <1>3, <1>4

\* The cases a proof about owner, pc, snap and call has to look at.
LEMMA StepCases ==
  ASSUME [Next]_vars
  PROVE  \/ Quiet
         \/ SerAttach \/ SerPbx
         \/ \E c \in Calls : ChannelNext(c)
BY QuietSteps DEF Next, SerNext

LEMMA OwnerAliveNext == TypeOK /\ OwnerAlive /\ [Next]_vars => OwnerAlive'
<1> SUFFICES ASSUME TypeOK, OwnerAlive, [Next]_vars, owner' /= None
             PROVE  pc'[owner'] \in Held
  BY DEF OwnerAlive
<1> USE DEF Held
<1>1. CASE Quiet
  BY <1>1 DEF Quiet, OwnerAlive
<1>2. CASE SerAttach
  <2>1. ser.c \in Calls
    BY <1>2 DEF SerAttach, TypeOK
  <2> QED
    BY <1>2, <2>1 DEF SerAttach, SerRefuses, SerTakesCall, AttachAndMake, Goto,
         TypeOK, OwnerAlive, line
<1>3. CASE SerPbx
  BY <1>3 DEF SerPbx, Goto, TypeOK, OwnerAlive, line
<1>4. ASSUME NEW c \in Calls, ChannelNext(c) PROVE pc'[owner'] \in Held
  <2>1. CASE RequestCheck(c) \/ RequestCreate(c)
    <3>1. pc[c] \notin Held /\ owner' = owner /\ \A d \in Calls \ {c} : pc'[d] = pc[d]
      BY <2>1 DEF RequestCheck, RequestCreate, Goto, TypeOK, line
    <3> QED
      BY <3>1 DEF OwnerAlive, TypeOK
  <2>2. CASE RequestAttach(c)
    <3>1. pc[c] \notin Held /\ \A d \in Calls \ {c} : pc'[d] = pc[d]
      BY <2>2 DEF RequestAttach, Goto, TypeOK
    <3>2. owner' = owner \/ (owner' = c /\ pc'[c] = "start")
      BY <2>2 DEF RequestAttach, AttachAndMake, Goto, TypeOK
    <3> QED
      BY <3>1, <3>2 DEF OwnerAlive, TypeOK
  <2>3. CASE RequestStart(c) \/ AnswerBegin(c) \/ AnswerAccept(c)
    <3>1. pc'[c] \in Held /\ owner' = owner /\ \A d \in Calls \ {c} : pc'[d] = pc[d]
      BY <2>3 DEF RequestStart, AnswerBegin, AnswerAccept, Goto, TypeOK, line
    <3> QED
      BY <3>1 DEF OwnerAlive, TypeOK
  <2>4. CASE HangupBegin(c)
    BY <2>4 DEF HangupBegin
  <2>5. CASE HangupCall(c)
    <3>1. pc[c] \notin Held /\ owner' = owner /\ \A d \in Calls \ {c} : pc'[d] = pc[d]
      BY <2>5 DEF HangupCall, Goto, TypeOK, line
    <3> QED
      BY <3>1 DEF OwnerAlive, TypeOK
  <2> QED
    BY <1>4, <2>1, <2>2, <2>3, <2>4, <2>5 DEF ChannelNext
<1> QED
  BY <1>1, <1>2, <1>3, <1>4, StepCases

\* modem->owner never points to a channel whose hangup has begun, so the
\* reference modem_grab_owner takes through it is to a live channel.
THEOREM OwnerNeverDangles == Spec => []OwnerAlive
<1>1. Init => OwnerAlive
  BY DEF Init, OwnerAlive
<1> QED
  BY <1>1, TypeCorrect, OwnerAliveNext, PTL DEF Spec

\* Where a call is attached, the channel made for it becomes the owner: whatever dials,
\* incoming calls and reloads interleave, an owner never sees another channel's call.
THEOREM CallIsOwners == Spec => []CallMatchesOwner
<1>1. Init => CallMatchesOwner
  BY DEF Init, CallMatchesOwner
<1>2. CallMatchesOwner /\ [Next]_vars => CallMatchesOwner'
  <2> SUFFICES ASSUME CallMatchesOwner, [Next]_vars PROVE CallMatchesOwner'
    OBVIOUS
  <2>1. CASE Quiet \/ SerPbx
    BY <2>1 DEF Quiet, SerPbx, line, CallMatchesOwner
  <2>2. CASE SerAttach
    BY <2>2 DEF SerAttach, SerRefuses, SerTakesCall, AttachAndMake, line, CallMatchesOwner
  <2>3. ASSUME NEW c \in Calls, ChannelNext(c) PROVE CallMatchesOwner'
    <3>1. CASE RequestAttach(c)
      BY <3>1 DEF RequestAttach, AttachAndMake, CallMatchesOwner
    <3>2. CASE HangupBegin(c)
      BY <3>2 DEF HangupBegin, CallMatchesOwner
    <3>3. CASE \/ RequestCheck(c) \/ RequestCreate(c) \/ RequestStart(c)
               \/ AnswerBegin(c) \/ AnswerAccept(c) \/ HangupCall(c)
      BY <3>3 DEF RequestCheck, RequestCreate, RequestStart, AnswerBegin, AnswerAccept,
           HangupCall, line, CallMatchesOwner
    <3> QED
      BY <2>3, <3>1, <3>2, <3>3 DEF ChannelNext
  <2> QED
    BY <2>1, <2>2, <2>3, StepCases
<1> QED
  BY <1>1, <1>2, PTL DEF Spec

-----------------------------------------------------------------------------
(* Calls kept apart *)

\* A dial attaches its call to a line that still has no owner: what holds of every step
\* when the busy test of modemmanager_request is made again in its second locked section,
\* or when no other call is attached between the two sections.
DialsFindLineFree ==
  \A d \in Dials : pc[d] = "attach" /\ pc'[d] /= "attach" => owner = None

\* The same of both tests that task_call_added makes: no owner, and no call that is
\* still to be deleted.
DialsFindLineIdle ==
  \A d \in Dials : pc[d] = "attach" /\ pc'[d] /= "attach" => owner = None /\ call = None

\* Only a dial is at a step of modemmanager_request.
OnlyDialsRequest == \A c \in Calls : pc[c] \in {"create", "attach", "start"} => c \in Dials

\* The serializer starts the PBX of a channel nothing has happened to yet.
PbxPending == ser.k = "pbx" => pc[ser.c] = "new"

\* The inductive invariant: what a channel or its call can be mistaken for is
\* decided where a call is attached, so the parts are kept together.
ApartInv == /\ TypeOK /\ OnlyDialsRequest /\ PbxPending
            /\ ChannelsOwnLine /\ CallMatchesOwner /\ ActsOnOwnCall

LEMMA ApartInit == Init => ApartInv
<1> SUFFICES ASSUME Init PROVE ApartInv
  OBVIOUS
<1>1. TypeOK
  BY TypeInit
<1>2. \A c \in Calls : pc[c] = "idle" /\ snap[c] = None
  BY DEF Init
<1>3. owner = None /\ ser.k = "idle"
  BY DEF Init, SerIdle
<1> QED
  BY <1>1, <1>2, <1>3
  DEF ApartInv, OnlyDialsRequest, PbxPending, ChannelsOwnLine, CallMatchesOwner, ActsOnOwnCall, Held

LEMMA ApartNext == ApartInv /\ [Next]_vars /\ [DialsFindLineFree]_vars => ApartInv'
<1> SUFFICES ASSUME ApartInv, [Next]_vars, [DialsFindLineFree]_vars PROVE ApartInv'
  OBVIOUS
<1> USE DEF Held
<1>0. TypeOK /\ TypeOK' /\ (ser.k = "pbx" => ser.c \in Calls)
  BY TypeNext DEF ApartInv, TypeOK
<1>1. CASE Quiet
  BY <1>0, <1>1 DEF Quiet, ApartInv, OnlyDialsRequest, PbxPending, ChannelsOwnLine, CallMatchesOwner, ActsOnOwnCall
<1>2. CASE SerAttach
  <2>1. ser.c \in Calls
    BY <1>0, <1>2 DEF SerAttach, TypeOK
  <2>2. CASE SerRefuses
    BY <1>0, <1>2, <2>2 DEF SerAttach, SerRefuses, SerMove, line, ApartInv, OnlyDialsRequest, PbxPending,
         ChannelsOwnLine, CallMatchesOwner, ActsOnOwnCall
  <2>3. CASE SerTakesCall /\ owner = None
    \* No channel held the line, so the new one is the only one that does.
    <3>1. \A c \in Calls : pc[c] \notin Held
      BY <1>0, <2>3, CallsAssumption DEF ApartInv, ChannelsOwnLine, TypeOK
    <3>2. CASE AttachAndMake(ser.c, ser.s, TRUE) /\ Goto(ser.c, "new") /\ SerMove("pbx", ser.c, "absent")
      <4>1. owner' = ser.c /\ call' = ser.c /\ snap' = snap /\ ser'.c = ser.c
        BY <1>2, <3>2 DEF SerAttach, AttachAndMake, SerMove
      <4>2. \A c \in Calls : pc'[c] = IF c = ser.c THEN "new" ELSE pc[c]
        BY <1>0, <3>2 DEF Goto, TypeOK
      <4> QED
        BY <1>0, <2>1, <3>1, <4>1, <4>2 DEF ApartInv, OnlyDialsRequest, PbxPending,
             ChannelsOwnLine, CallMatchesOwner, ActsOnOwnCall
    <3>3. CASE /\ AttachAndMake(ser.c, ser.s, FALSE) /\ UNCHANGED pc
               /\ SerMove("reject", ser.c, "absent")
      <4>1. owner' = None /\ pc' = pc /\ snap' = snap /\ ser'.k = "reject"
        BY <1>2, <2>3, <3>3 DEF SerAttach, AttachAndMake, SerMove
      <4> QED
        BY <1>0, <3>1, <4>1 DEF ApartInv, OnlyDialsRequest, PbxPending,
             ChannelsOwnLine, CallMatchesOwner, ActsOnOwnCall
    <3> QED
      BY <2>3, <3>2, <3>3 DEF SerTakesCall
  <2> QED
    BY <1>2, <2>2, <2>3 DEF SerAttach
<1>3. CASE SerPbx
  <2>1. ser.c \in Calls /\ UNCHANGED <<owner, call, snap>>
    BY <1>0, <1>3 DEF SerPbx, TypeOK, line
  <2>2. pc[ser.c] = "new" /\ ser'.k /= "pbx"
    BY <1>3 DEF SerPbx, SerIdle, SerMove, ApartInv, PbxPending
  <2>3. /\ pc'[ser.c] \in {"ringing", "drop"}
        /\ \A c \in Calls \ {ser.c} : pc'[c] = pc[c]
    <3>1. \/ pc' = [pc EXCEPT ![ser.c] = "ringing"]
          \/ pc' = [pc EXCEPT ![ser.c] = "drop"]
      BY <1>3 DEF SerPbx, Goto
    <3>2. pc \in [Calls -> Places]
      BY <1>0 DEF TypeOK
    <3> QED
      BY <2>1, <3>1, <3>2
  <2>4. OnlyDialsRequest' /\ PbxPending'
    <3>1. \A c \in Calls : pc'[c] \in {"create", "attach", "start"} => pc[c] = pc'[c]
      BY <2>3
    <3> QED
      BY <2>2, <3>1 DEF ApartInv, OnlyDialsRequest, PbxPending
  <2>5. \A c \in Calls : pc'[c] \in Held => pc[c] \in Held
    BY <2>2, <2>3
  <2>6. ChannelsOwnLine' /\ CallMatchesOwner' /\ ActsOnOwnCall'
    BY <2>1, <2>5 DEF ApartInv, ChannelsOwnLine, CallMatchesOwner, ActsOnOwnCall
  <2> QED
    BY <1>0, <2>4, <2>6 DEF ApartInv
<1>4. ASSUME NEW c \in Calls, ChannelNext(c) PROVE ApartInv'
  \* modemmanager_request up to the second locked section: there is no channel yet.
  <2>1. CASE RequestCheck(c) \/ RequestCreate(c)
    <3>1. /\ UNCHANGED <<owner, call, snap, ser>> /\ c \in Dials
          /\ pc[c] \in {"idle", "create"} /\ pc'[c] \in {"create", "attach", "failed"}
          /\ \A d \in Calls \ {c} : pc'[d] = pc[d]
      BY <1>0, <2>1 DEF RequestCheck, RequestCreate, Goto, TypeOK, line, serv, ApartInv,
           OnlyDialsRequest
    <3> QED
      BY <1>0, <3>1 DEF ApartInv, OnlyDialsRequest, PbxPending,
           ChannelsOwnLine, CallMatchesOwner, ActsOnOwnCall
  \* The line is idle, so the new channel is the only one that holds it.
  <2>2. CASE RequestAttach(c)
    <3>1. /\ pc[c] = "attach" /\ c \in Dials /\ UNCHANGED <<snap, ser>>
          /\ pc'[c] \in {"start", "failed"} /\ \A d \in Calls \ {c} : pc'[d] = pc[d]
          /\ IF pc'[c] = "start" THEN owner' = c /\ call' = c
                                 ELSE owner' = owner /\ call' = None
      BY <1>0, <2>2 DEF RequestAttach, AttachAndMake, Goto, TypeOK, serv, ApartInv,
           OnlyDialsRequest
    <3>2. owner = None
      BY <3>1 DEF DialsFindLineFree, vars, chans
    <3>3. \A d \in Calls : pc[d] \notin Held
      BY <3>2, CallsAssumption DEF ApartInv, ChannelsOwnLine
    <3> QED
      BY <1>0, <3>1, <3>2, <3>3 DEF ApartInv, OnlyDialsRequest, PbxPending,
           ChannelsOwnLine, CallMatchesOwner, ActsOnOwnCall
  <2>6. CASE RequestStart(c)
    <3>1. /\ UNCHANGED <<owner, call, snap, ser>>
          /\ pc[c] = "start" /\ pc'[c] \in {"up", "drop"}
          /\ \A d \in Calls \ {c} : pc'[d] = pc[d]
      BY <1>0, <2>6 DEF RequestStart, Goto, TypeOK, line, serv
    <3> QED
      BY <1>0, <3>1 DEF ApartInv, OnlyDialsRequest, PbxPending,
           ChannelsOwnLine, CallMatchesOwner, ActsOnOwnCall
  <2>3. CASE AnswerBegin(c) \/ AnswerAccept(c)
    <3>1. /\ pc[c] \in Held /\ UNCHANGED <<owner, call, ser>>
          /\ pc[c] /= "new" /\ pc'[c] \in {"answering", "up", "ringing"}
          /\ \A d \in Calls \ {c} : pc'[d] = pc[d] /\ snap'[d] = snap[d]
          /\ snap'[c] \in {snap[c], call}
      BY <1>0, <2>3 DEF AnswerBegin, AnswerAccept, Goto, TypeOK, line, serv
    <3>2. owner = c /\ call \in {None, c}
      BY <3>1, CallsAssumption DEF ApartInv, ChannelsOwnLine, CallMatchesOwner
    <3> QED
      BY <1>0, <3>1, <3>2 DEF ApartInv, OnlyDialsRequest, PbxPending,
           ChannelsOwnLine, CallMatchesOwner, ActsOnOwnCall
  <2>4. CASE HangupBegin(c)
    <3>1. /\ pc[c] \in Held \ {"new"} /\ owner' = None /\ pc'[c] = "hanging"
          /\ ser' = ser
          /\ \A d \in Calls \ {c} : pc'[d] = pc[d] /\ snap'[d] = snap[d]
          /\ snap'[c] = call
      BY <1>0, <2>4 DEF HangupBegin, Goto, TypeOK, serv
    <3>2. owner = c /\ call \in {None, c}
      BY <3>1, CallsAssumption DEF ApartInv, ChannelsOwnLine, CallMatchesOwner
    <3> QED
      BY <1>0, <3>1, <3>2 DEF ApartInv, OnlyDialsRequest, PbxPending,
           ChannelsOwnLine, CallMatchesOwner, ActsOnOwnCall
  <2>5. CASE HangupCall(c)
    <3>1. /\ UNCHANGED <<owner, call, snap, ser>>
          /\ pc[c] = "hanging" /\ pc'[c] = "ended"
          /\ \A d \in Calls \ {c} : pc'[d] = pc[d]
      BY <1>0, <2>5 DEF HangupCall, Goto, TypeOK, line, serv
    <3> QED
      BY <1>0, <3>1 DEF ApartInv, OnlyDialsRequest, PbxPending,
           ChannelsOwnLine, CallMatchesOwner, ActsOnOwnCall
  <2> QED
    BY <1>4, <2>1, <2>2, <2>3, <2>4, <2>5, <2>6 DEF ChannelNext
<1> QED
  BY <1>1, <1>2, <1>3, <1>4, StepCases

\* However many calls come in and are placed, and however reloads and unplugs fall
\* between them: as long as a dial finds no owner when it attaches its call, a
\* channel that was not hung up owns the line, the attached call is its own, and it is
\* this call that answer and hangup act on.
THEOREM FreeLineKeepsApart == Spec /\ [][DialsFindLineFree]_vars => []LineKeptApart
<1>1. ApartInv /\ [Next]_vars /\ [DialsFindLineFree]_vars => ApartInv'
  BY ApartNext
<1>2. ApartInv => LineKeptApart
  BY DEF ApartInv, LineKeptApart
<1> QED
  BY <1>1, <1>2, ApartInit, PTL DEF Spec

\* However many calls come in, and however reloads and unplugs fall between
\* them, a channel that was not hung up owns the line, the attached call is
\* its own, and it is this call that answer and hangup act on.
THEOREM IncomingCallsKeepApart ==
  ASSUME Dials = {}
  PROVE  Spec => []LineKeptApart
<1>1. [Next]_vars => [DialsFindLineFree]_vars
  BY DEF DialsFindLineFree
<1> QED
  BY <1>1, FreeLineKeepsApart, PTL DEF Spec

-----------------------------------------------------------------------------
(* Subscriptions and states *)

\* What a queue of the GMainLoop thread holds: an item of a kind for a call; nothing
\* twice of what comes once; the states of a call in their order.
Has(q, kind, c) == \E i \in 1 .. Len(q) : q[i].k = kind /\ q[i].c = c
Once(q, kind, c) == \A i, j \in 1 .. Len(q) :
  q[i].k = kind /\ q[j].k = kind /\ q[i].c = c /\ q[j].c = c => i = j
InOrder(q) == \A i, j \in 1 .. Len(q) :
  i < j /\ q[i].k = "state" /\ q[j].k = "state" /\ q[i].c = q[j].c => Rank(q[i].s) <= Rank(q[j].s)

\* A dial that is not attached yet.
DialAhead(c) == c \in Dials /\ pc[c] \in {"idle", "create", "attach"}

\* An incoming call whose path is on its way to the locked section of task_call_added.
InHand(c) == ser.k = "attach" /\ ser.c = c
RingAhead(c) == c \in Rings /\ (mm[c] = "absent" \/ Has(loopQ, "added", c)
                                 \/ Has(serQ, "added", c) \/ InHand(c))

\* A path is in one place at a time.
OnePlace == \A c \in Rings :
  /\ Once(loopQ, "added", c) /\ Once(serQ, "added", c)
  /\ mm[c] = "absent" => ~ Has(loopQ, "added", c) /\ ~ Has(serQ, "added", c) /\ ~ InHand(c)
  /\ Has(loopQ, "added", c) => ~ Has(serQ, "added", c) /\ ~ InHand(c)
  /\ Has(serQ, "added", c) => ~ InHand(c)

\* Each path of modemmanager_request and task_call_added is for its own kind of call.
OwnKind == /\ \A c \in Calls : pc[c] \in {"create", "attach"} => c \in Dials
           /\ \A c \in Calls : pc[c] = "attach" => mm[c] /= "absent"
           /\ ser.k = "attach" => ser.c \in Rings /\ Rank(ser.s) <= Rank(mm[ser.c])

\* A call is subscribed to once, after it is attached.
SubscribedOnce == \A c \in Calls :
  /\ Once(loopQ, "subscribe", c)
  /\ Has(loopQ, "subscribe", c) => c \notin subs
  /\ loop.k = "subscribing" => sub /= loop.c
  /\ DialAhead(c) \/ RingAhead(c) =>
       /\ ~ Has(loopQ, "subscribe", c) /\ ~ Has(loopQ, "state", c)
       /\ c \notin subs /\ call /= c

\* The states on their way are those ModemManager went through, in its order, and the
\* last one acted upon is behind them.
StatesAhead ==
  /\ InOrder(loopQ)
  /\ \A i \in 1 .. Len(loopQ) : loopQ[i].k = "state" =>
       /\ Rank(loopQ[i].s) <= Rank(mm[loopQ[i].c]) /\ loopQ[i].s /= "deleted"
       /\ loopQ[i].c = call => Rank(last) <= Rank(loopQ[i].s)
  /\ call /= None => Rank(last) <= Rank(mm[call])

LineInv == TypeOK /\ OnePlace /\ OwnKind /\ SubscribedOnce /\ SubscriptionsAccounted /\ StatesAhead

\* Queues: what taking the head and appending items does to Has, Once and InOrder.
LEMMA TailItems ==
  ASSUME NEW S, NEW q \in Seq(S), q /= <<>>
  PROVE  /\ Tail(q) \in Seq(S) /\ Head(q) \in S /\ Head(q) = q[1] /\ 1 \in 1 .. Len(q)
         /\ \A i \in 1 .. Len(Tail(q)) : /\ i + 1 \in 1 .. Len(q) /\ i + 1 /= 1
                                         /\ Tail(q)[i] = q[i + 1]
OBVIOUS

LEMMA AppendItems ==
  ASSUME NEW S, NEW q \in Seq(S), NEW item \in S
  PROVE  /\ Append(q, item) \in Seq(S)
         /\ \A i \in 1 .. Len(Append(q, item)) :
              \/ i \in 1 .. Len(q) /\ Append(q, item)[i] = q[i]
              \/ i = Len(q) + 1 /\ Append(q, item)[i] = item
         /\ \A i \in 1 .. Len(q) : i \in 1 .. Len(Append(q, item)) /\ Append(q, item)[i] = q[i]
         /\ Len(q) + 1 \in 1 .. Len(Append(q, item)) /\ Append(q, item)[Len(q) + 1] = item
OBVIOUS

LEMMA TailHas ==
  ASSUME NEW S, NEW q \in Seq(S), q /= <<>>, NEW kind, NEW c
  PROVE  /\ Has(Tail(q), kind, c) => Has(q, kind, c)
         /\ Once(q, kind, c) => Once(Tail(q), kind, c)
         /\ Once(q, kind, c) /\ Head(q).k = kind /\ Head(q).c = c => ~ Has(Tail(q), kind, c)
         /\ Head(q).k = kind /\ Head(q).c = c => Has(q, kind, c)
<1> DEFINE t == Tail(q)
<1>1. /\ t \in Seq(S) /\ Head(q) = q[1] /\ 1 \in 1 .. Len(q) /\ Len(t) \in Nat
      /\ \A i \in 1 .. Len(t) : i + 1 \in 1 .. Len(q) /\ i + 1 /= 1 /\ t[i] = q[i + 1]
  BY TailItems
<1> HIDE DEF t
<1>2. Has(t, kind, c) => Has(q, kind, c)
  BY <1>1 DEF Has
<1>3. Once(q, kind, c) => Once(t, kind, c)
  <2> SUFFICES ASSUME Once(q, kind, c), NEW i \in 1 .. Len(t), NEW j \in 1 .. Len(t),
                      t[i].k = kind, t[j].k = kind, t[i].c = c, t[j].c = c
               PROVE  i = j
    BY DEF Once
  <2>1. i + 1 = j + 1
    BY <1>1 DEF Once
  <2> QED
    BY <2>1, <1>1
<1>4. Once(q, kind, c) /\ q[1].k = kind /\ q[1].c = c => ~ Has(t, kind, c)
  BY <1>1 DEF Has, Once
<1>5. q[1].k = kind /\ q[1].c = c => Has(q, kind, c)
  BY <1>1 DEF Has
<1> QED
  BY <1>1, <1>2, <1>3, <1>4, <1>5 DEF t

LEMMA AppendHas ==
  ASSUME NEW S, NEW q \in Seq(S), NEW item \in S, NEW kind, NEW c
  PROVE  /\ Has(Append(q, item), kind, c) <=> Has(q, kind, c) \/ (item.k = kind /\ item.c = c)
         /\ Once(q, kind, c) /\ ~ (item.k = kind /\ item.c = c /\ Has(q, kind, c))
              => Once(Append(q, item), kind, c)
BY AppendItems DEF Has, Once

\* What a state change inside ModemManager adds to the queue of the loop.
LEMMA Moved ==
  ASSUME TypeOK, NEW c \in Calls, NEW s \in States, MmMoves(c, s)
  PROVE  /\ loopQ' \in Seq(LoopItems)
         /\ \A i \in 1 .. Len(loopQ) : i \in 1 .. Len(loopQ') /\ loopQ'[i] = loopQ[i]
         /\ \A i \in 1 .. Len(loopQ') :
              \/ i \in 1 .. Len(loopQ) /\ loopQ'[i] = loopQ[i]
              \/ /\ i > Len(loopQ) /\ loopQ'[i] = [k |-> "state", c |-> c, s |-> s]
                 /\ c \in subs \/ call = c
<1> DEFINE item == [k |-> "state", c |-> c, s |-> s]
           new == StateItems(c, s)
<1>1. item \in LoopItems /\ loopQ \in Seq(LoopItems) /\ loopQ' = loopQ \o new
  BY DEF LoopItems, TypeOK, MmMoves
<1>2. new \in Seq(LoopItems) /\ \A i \in 1 .. Len(new) : new[i] = item /\ (c \in subs \/ call = c)
  <2> DEFINE left == IF c \in subs THEN <<item>> ELSE <<>>
             right == IF ProxyDelivers /\ call = c THEN <<item>> ELSE <<>>
  <2>1. new = left \o right
    BY DEF StateItems
  <2>2. left \in Seq(LoopItems) /\ \A i \in 1 .. Len(left) : left[i] = item /\ c \in subs
    BY <1>1
  <2>3. right \in Seq(LoopItems) /\ \A i \in 1 .. Len(right) : right[i] = item /\ call = c
    BY <1>1
  <2> HIDE DEF item, new, left, right
  <2>4. /\ new \in Seq(LoopItems) /\ Len(new) = Len(left) + Len(right)
        /\ \A i \in 1 .. Len(new) : new[i] = IF i <= Len(left) THEN left[i]
                                                             ELSE right[i - Len(left)]
        /\ Len(left) \in Nat /\ Len(right) \in Nat
    BY <2>1, <2>2, <2>3, ConcatProperties
  <2> SUFFICES ASSUME NEW i \in 1 .. Len(new)
               PROVE  new[i] = item /\ (c \in subs \/ call = c)
    BY <2>4
  <2>5. CASE i <= Len(left)
    <3>1. i \in 1 .. Len(left) /\ new[i] = left[i]
      BY <2>4, <2>5
    <3> QED
      BY <2>2, <3>1
  <2>6. CASE i > Len(left)
    <3>1. i - Len(left) \in 1 .. Len(right) /\ new[i] = right[i - Len(left)]
      BY <2>4, <2>6
    <3> QED
      BY <2>3, <3>1
  <2> QED
    BY <2>4, <2>5, <2>6
<1> HIDE DEF new, item
<1>4. /\ loopQ' \in Seq(LoopItems) /\ Len(loopQ') = Len(loopQ) + Len(new)
      /\ \A i \in 1 .. Len(loopQ') :
           loopQ'[i] = IF i <= Len(loopQ) THEN loopQ[i] ELSE new[i - Len(loopQ)]
  BY <1>1, <1>2, ConcatProperties
<1>5. ASSUME NEW i \in 1 .. Len(loopQ), Len(loopQ) \in Nat, Len(new) \in Nat
      PROVE  i \in 1 .. Len(loopQ') /\ loopQ'[i] = loopQ[i]
  BY <1>4, <1>5
<1>6. ASSUME NEW i \in 1 .. Len(loopQ'), Len(loopQ) \in Nat, Len(new) \in Nat
      PROVE  \/ i \in 1 .. Len(loopQ) /\ loopQ'[i] = loopQ[i]
             \/ i > Len(loopQ) /\ loopQ'[i] = item /\ (c \in subs \/ call = c)
  <2>1. CASE i <= Len(loopQ)
    BY <1>4, <1>6, <2>1
  <2>2. CASE i > Len(loopQ)
    <3>1. i - Len(loopQ) \in 1 .. Len(new)
      BY <1>4, <1>6, <2>2
    <3> QED
      BY <1>2, <1>4, <2>2, <3>1
  <2> QED
    BY <1>6, <2>1, <2>2
<1>7. Len(loopQ) \in Nat /\ Len(new) \in Nat
  BY <1>1, <1>2
<1> QED
  BY <1>4, <1>5, <1>6, <1>7 DEF item

LEMMA MovedHas ==
  ASSUME TypeOK, NEW c \in Calls, NEW s \in States, MmMoves(c, s), NEW kind, NEW d
  PROVE  /\ Has(loopQ', kind, d) =>
              Has(loopQ, kind, d) \/ (kind = "state" /\ d = c /\ (c \in subs \/ call = c))
         /\ kind /= "state" /\ Once(loopQ, kind, d) => Once(loopQ', kind, d)
<1>1. ASSUME Has(loopQ', kind, d), ~ Has(loopQ, kind, d)
      PROVE  kind = "state" /\ d = c /\ (c \in subs \/ call = c)
  <2>1. PICK i \in 1 .. Len(loopQ') : loopQ'[i].k = kind /\ loopQ'[i].c = d
    BY <1>1 DEF Has
  <2>2. ~ (i \in 1 .. Len(loopQ) /\ loopQ'[i] = loopQ[i])
    BY <1>1, <2>1 DEF Has
  <2>3. loopQ'[i] = [k |-> "state", c |-> c, s |-> s] /\ (c \in subs \/ call = c)
    BY <2>2, Moved
  <2> QED
    BY <2>1, <2>3
<1>2. ASSUME kind /= "state", Once(loopQ, kind, d) PROVE Once(loopQ', kind, d)
  <2>1. \A i \in 1 .. Len(loopQ') : loopQ'[i].k = kind =>
          i \in 1 .. Len(loopQ) /\ loopQ'[i] = loopQ[i]
    <3> SUFFICES ASSUME NEW i \in 1 .. Len(loopQ'), loopQ'[i].k = kind
                 PROVE  i \in 1 .. Len(loopQ) /\ loopQ'[i] = loopQ[i]
      OBVIOUS
    <3>1. loopQ'[i] /= [k |-> "state", c |-> c, s |-> s]
      BY <1>2
    <3> QED
      BY <3>1, Moved
  <2> QED
    BY <1>2, <2>1 DEF Once
<1> QED
  BY <1>1, <1>2

\* The ranks of the states.
LEMMA Ranks ==
  /\ \A s \in States : Rank(s) \in 0 .. 6 /\ (s /= "deleted" => Rank(s) <= 5)
  /\ Rank("absent") = 0 /\ Rank("unknown") = 1 /\ Rank("dialing") = 2
  /\ Rank("ringing_out") = 3 /\ Rank("ringing_in") = 3 /\ Rank("active") = 4
  /\ Rank("terminated") = 5 /\ Rank("deleted") = 6
  /\ \A s \in States : Rank(s) >= 5 => s \in {"terminated", "deleted"}
BY DEF Rank, States

\* ModemManager takes a call forward, and tells its states to who listens.
Advances == \E c \in Calls, s \in States :
  /\ MmMoves(c, s) /\ Rank(mm[c]) < Rank(s) /\ s /= "deleted" /\ mm[c] /= "absent"
  /\ UNCHANGED <<call, last, sub, subs, loop, serQ>>

\* A call is attached, with the state its proxy shows, or announced.
Attaches(c, seen) ==
  /\ \E made \in BOOLEAN : AttachAndMake(c, seen, made)
  /\ \/ RequestAttach(c) /\ seen = "unknown"
     \/ SerAttach /\ c = ser.c /\ seen = ser.s
  /\ UNCHANGED <<mm, loop, serQ>>
Announces(c, s) ==
  /\ loopQ' = Append(loopQ, [k |-> "added", c |-> c, s |-> s])
  /\ (NetworkRings(c) /\ s = "ringing_in") \/ (RequestCreate(c) /\ s = "unknown")
  /\ UNCHANGED <<call, last, sub, subs, loop, serQ>>
\* The call is detached.
Detaches == CallDetach /\ UNCHANGED <<mm, last, loop, loopQ>>
\* Nothing happens to the call, its subscription and what is on its way to the loop.
Passes == /\ UNCHANGED <<call, last, sub, subs, loopQ>>
          /\ loop' = loop \/ (loop.k = "handling" /\ loop' = LoopIdle)
          /\ \/ mm' = mm \/ SerDelete \/ ModemUnplugged
             \/ \E c \in Calls : NetworkRings(c) \/ RequestCreate(c)

\* What a step can be to the call and its subscription.
LEMMA LineSteps ==
  ASSUME TypeOK, [Next]_vars
  PROVE  \/ LoopSubscribe \/ LoopRecord \/ LoopSignal \/ LoopCallAdded
         \/ (\E c \in Calls, seen \in States : Attaches(c, seen))
         \/ (\E c \in Calls, s \in States : Announces(c, s))
         \/ Advances \/ Detaches \/ Passes
<1> USE DEF daemon, line, watch, loopv, serv, chans, world
<1>1. CASE LoopNext
  <2>1. CASE LoopAct
    BY <2>1 DEF LoopAct, Passes
  <2> QED
    BY <1>1, <2>1 DEF LoopNext
<1>2. CASE SerNext
  <2>1. CASE SerAdded
    BY <2>1 DEF SerAdded, Passes
  <2>2. CASE SerAttach
    <3>1. ser.c \in Calls /\ ser.s \in States
      BY <2>2 DEF SerAttach, TypeOK, SerSteps
    <3>2. CASE SerRefuses
      BY <2>2, <3>2 DEF SerAttach, SerRefuses, Passes
    <3>3. CASE SerTakesCall
      <4>1. \E made \in BOOLEAN : AttachAndMake(ser.c, ser.s, made)
        BY <3>3 DEF SerTakesCall
      <4> QED
        BY <2>2, <3>1, <4>1 DEF Attaches, SerAttach
    <3> QED
      BY <2>2, <3>2, <3>3 DEF SerAttach
  <2>3. CASE SerReject
    <3>1. ser.c \in Calls
      BY <2>3 DEF SerReject, TypeOK
    <3>2. CASE mm[ser.c] \in LiveStates /\ MmMoves(ser.c, "terminated")
      <4>1. "terminated" \in States /\ Rank(mm[ser.c]) < Rank("terminated")
        BY <3>2, Ranks DEF LiveStates, States
      <4> QED
        BY <2>3, <3>1, <3>2, <4>1 DEF SerReject, Advances, LiveStates
    <3> QED
      BY <2>3, <3>2 DEF SerReject, Passes
  <2>4. CASE SerPbx \/ SerWaited \/ SerStart \/ SerDelete
    BY <2>4 DEF SerPbx, SerWaited, SerStart, SerDelete, Passes
  <2>5. CASE SerTerminated
    BY <2>5 DEF SerTerminated, Detaches
  <2> QED
    BY <1>2, <2>1, <2>2, <2>3, <2>4, <2>5 DEF SerNext
<1>3. ASSUME NEW c \in Calls, ChannelNext(c)
      PROVE  \/ \E seen \in States : Attaches(c, seen)
             \/ \E s \in States : Announces(c, s)
             \/ Advances \/ Passes
  <2>0. "unknown" \in States /\ "dialing" \in States /\ "active" \in States /\ "terminated" \in States
    BY DEF States
  <2>1. CASE RequestCheck(c) \/ AnswerBegin(c) \/ HangupBegin(c)
    BY <2>1 DEF RequestCheck, AnswerBegin, HangupBegin, Passes
  <2>2. CASE RequestCreate(c)
    BY <2>0, <2>2 DEF RequestCreate, Announces, Passes
  <2>3. CASE RequestAttach(c)
    <3>1. \E made \in BOOLEAN : AttachAndMake(c, "unknown", made)
      BY <2>3 DEF RequestAttach
    <3> QED
      BY <2>0, <2>3, <3>1 DEF RequestAttach, Attaches
  <2>4. CASE RequestStart(c)
    <3>1. ASSUME NEW s \in {"dialing", "terminated"}, mm[c] = "unknown", MmMoves(c, s)
          PROVE  Advances
      BY <2>0, <2>4, <3>1, Ranks DEF RequestStart, Advances
    <3> QED
      BY <2>4, <3>1 DEF RequestStart, Passes
  <2>5. CASE AnswerAccept(c)
    <3>1. snap[c] \in Calls
      BY <2>5 DEF AnswerAccept, TypeOK
    <3>2. CASE mm[snap[c]] = "ringing_in" /\ MmMoves(snap[c], "active")
      BY <2>0, <2>5, <3>1, <3>2, Ranks DEF AnswerAccept, Advances
    <3> QED
      BY <2>5, <3>2 DEF AnswerAccept, Passes
  <2>6. CASE HangupCall(c)
    <3>1. CASE snap[c] /= None /\ mm[snap[c]] \in LiveStates /\ MmMoves(snap[c], "terminated")
      <4>1. snap[c] \in Calls
        BY <3>1 DEF TypeOK
      <4>2. Rank(mm[snap[c]]) < Rank("terminated") /\ mm[snap[c]] /= "absent"
        BY <3>1, Ranks DEF LiveStates
      <4> QED
        BY <2>0, <2>6, <3>1, <4>1, <4>2 DEF HangupCall, Advances
    <3> QED
      BY <2>6, <3>1 DEF HangupCall, Passes
  <2> QED
    BY <1>3, <2>1, <2>2, <2>3, <2>4, <2>5, <2>6 DEF ChannelNext
<1>4. ASSUME NEW c \in Calls, NetworkRings(c)
      PROVE  (\E s \in States : Announces(c, s)) \/ Passes
  <2>1. "ringing_in" \in States
    BY DEF States
  <2> QED
    BY <1>4, <2>1 DEF NetworkRings, Announces, Passes
<1>5. ASSUME NEW c \in Calls, NEW s \in States, NetworkMoves(c, s) PROVE Advances
  <2>1. Rank(mm[c]) < Rank(s) /\ s /= "deleted" /\ mm[c] /= "absent"
    BY <1>5, Ranks DEF NetworkMoves
  <2> QED
    BY <1>5, <2>1 DEF NetworkMoves, Advances
<1>6. CASE ModemUnplugged \/ UNCHANGED vars
  BY <1>6 DEF ModemUnplugged, vars, Passes
<1>7. CASE Resolve \/ DetachRemoved
  BY <1>7 DEF Resolve, DetachRemoved, Detaches
<1> QED
  BY <1>1, <1>2, <1>3, <1>4, <1>5, <1>6, <1>7 DEF Next

\* A call only goes forward in ModemManager, and without steps when it is new or gone.
LEMMA MmStep ==
  ASSUME TypeOK, [Next]_vars, NEW c \in Calls
  PROVE  /\ Rank(mm[c]) <= Rank(mm'[c])
         /\ mm'[c] = "absent" => mm[c] = "absent"
<1>0. mm \in [Calls -> States] /\ mm[c] \in States /\ mm'[c] \in States
  BY TypeNext DEF TypeOK
<1>1. CASE Advances
  <2>1. PICK d \in Calls, s \in States :
          mm' = [mm EXCEPT ![d] = s] /\ Rank(mm[d]) < Rank(s) /\ mm[d] /= "absent"
    BY <1>1 DEF Advances, MmMoves
  <2>2. CASE c = d
    BY <1>0, <2>1, <2>2, Ranks
  <2>3. CASE c /= d
    BY <1>0, <2>1, <2>3, Ranks
  <2> QED
    BY <2>2, <2>3
<1>2. CASE mm'[c] = mm[c] \/ mm[c] = "absent" \/ mm'[c] = "deleted"
  BY <1>0, <1>2, Ranks
<1>3. CASE Passes
  <2>1. ASSUME NEW d \in Calls, NetworkRings(d) \/ RequestCreate(d)
        PROVE  mm'[c] = mm[c] \/ mm[c] = "absent"
    BY <1>0, <2>1 DEF NetworkRings, RequestCreate
  <2>2. ASSUME ModemUnplugged \/ SerDelete
        PROVE  mm'[c] = mm[c] \/ mm'[c] = "deleted" \/ mm[c] = "absent"
    BY <1>0, <2>2 DEF ModemUnplugged, SerDelete
  <2> QED
    BY <1>2, <1>3, <2>1, <2>2 DEF Passes
<1>4. ASSUME NEW d \in Calls, NEW s \in States, Announces(d, s)
      PROVE  mm'[c] = mm[c] \/ mm[c] = "absent"
  BY <1>0, <1>4 DEF Announces, NetworkRings, RequestCreate
<1>5. CASE LoopSubscribe \/ LoopRecord \/ LoopSignal \/ LoopCallAdded \/ Detaches
  BY <1>2, <1>5 DEF LoopSubscribe, LoopRecord, LoopSignal, LoopCallAdded, Detaches, daemon
<1>6. ASSUME NEW d \in Calls, NEW s \in States, Attaches(d, s)
      PROVE  mm' = mm
  BY <1>6 DEF Attaches
<1> QED
  BY <1>1, <1>2, <1>3, <1>4, <1>5, <1>6, LineSteps

\* A dial goes from idle to create to attach and never back.
LEMMA PlaceStep ==
  ASSUME TypeOK, [Next]_vars, NEW c \in Calls
  PROVE  \/ pc'[c] = pc[c] \/ pc'[c] \notin {"idle", "create", "attach"}
         \/ pc'[c] = "create" /\ pc[c] = "idle" /\ c \in Dials
         \/ pc'[c] = "attach" /\ pc[c] = "create" /\ mm'[c] = "unknown"
<1>0. pc \in [Calls -> Places] /\ mm \in [Calls -> States]
  BY DEF TypeOK
<1>1. CASE Quiet
  BY <1>1 DEF Quiet
<1>2. CASE SerAttach
  BY <1>0, <1>2 DEF SerAttach, SerRefuses, SerTakesCall, Goto
<1>3. CASE SerPbx
  BY <1>0, <1>3 DEF SerPbx, Goto
<1>4. ASSUME NEW d \in Calls, ChannelNext(d), c /= d
      PROVE  pc'[c] = pc[c]
  BY <1>0, <1>4 DEF ChannelNext, RequestCheck, RequestCreate, RequestAttach, RequestStart,
       AnswerBegin, AnswerAccept, HangupBegin, HangupCall, Goto
<1>5. CASE ChannelNext(c)
  BY <1>0, <1>5 DEF ChannelNext, RequestCheck, RequestCreate, RequestAttach, RequestStart,
       AnswerBegin, AnswerAccept, HangupBegin, HangupCall, Goto
<1> QED
  BY <1>1, <1>2, <1>3, <1>4, <1>5, StepCases

\* The queue of the serializer loses its head to a task or gains an item at its end.
LEMMA TasksStep ==
  ASSUME TypeOK, [Next]_vars
  PROVE  \/ serQ' = serQ
         \/ /\ serQ /= <<>> /\ serQ' = Tail(serQ)
            /\ SerAdded \/ SerStart \/ SerTerminated
         \/ LoopCallAdded /\ serQ' = Append(serQ, [k |-> "added", c |-> Head(loopQ).c])
         \/ /\ LoopAct /\ loop.s = "ringing_out"
            /\ serQ' = Append(serQ, [k |-> "start", c |-> None])
         \/ /\ LoopAct /\ loop.s = "terminated"
            /\ serQ' = Append(serQ, [k |-> "terminated", c |-> None])
<1> USE DEF serv
<1>1. CASE LoopNext
  <2>1. CASE LoopAct
    BY <2>1 DEF LoopAct, Push
  <2> QED
    BY <1>1, <2>1 DEF LoopNext, LoopSubscribe, LoopRecord, LoopSignal, LoopCallAdded, Push
<1>2. CASE SerNext
  BY <1>2 DEF SerNext, SerAdded, SerAttach, SerReject, SerPbx, SerWaited, SerStart,
       SerTerminated, SerDelete, SerTakes
<1>3. ASSUME NEW c \in Calls, ChannelNext(c) \/ NetworkRings(c) PROVE serQ' = serQ
  BY <1>3 DEF ChannelNext, RequestCheck, RequestCreate, RequestAttach, RequestStart,
       AnswerBegin, AnswerAccept, HangupBegin, HangupCall, NetworkRings
<1>4. ASSUME NEW c \in Calls, NEW s \in States, NetworkMoves(c, s) PROVE serQ' = serQ
  BY <1>4 DEF NetworkMoves
<1>5. CASE ModemUnplugged \/ Resolve \/ DetachRemoved \/ UNCHANGED vars
  BY <1>5 DEF ModemUnplugged, Resolve, DetachRemoved, vars
<1> QED
  BY <1>1, <1>2, <1>3, <1>4, <1>5 DEF Next

\* Only task_call_added takes a call to the step that attaches it.
LEMMA InHandStep ==
  ASSUME TypeOK, [Next]_vars
  PROVE  \/ ser' = ser \/ ser'.k /= "attach"
         \/ /\ SerAdded /\ Head(serQ).c \in Rings
            /\ ser'.c = Head(serQ).c /\ ser'.s = mm[Head(serQ).c]
            /\ mm[Head(serQ).c] /= "absent"
<1> USE DEF serv
<1>1. CASE LoopNext
  BY <1>1 DEF LoopNext, LoopSubscribe, LoopRecord, LoopSignal, LoopAct, LoopCallAdded
<1>2. CASE SerNext
  <2>1. CASE SerAdded
    BY <2>1 DEF SerAdded, SerMove, Present, LiveStates
  <2>2. CASE SerAttach
    <3>1. SerMove("reject", ser.c, "absent") \/ SerMove("pbx", ser.c, "absent")
      BY <2>2 DEF SerAttach, SerRefuses, SerTakesCall
    <3> QED
      BY <3>1 DEF SerMove
  <2> QED
    BY <1>2, <2>1, <2>2 DEF SerNext, SerReject, SerPbx, SerWaited, SerStart,
         SerTerminated, SerDelete, SerMove, SerIdle
<1>3. ASSUME NEW c \in Calls, ChannelNext(c) \/ NetworkRings(c) PROVE ser' = ser
  BY <1>3 DEF ChannelNext, RequestCheck, RequestCreate, RequestAttach, RequestStart,
       AnswerBegin, AnswerAccept, HangupBegin, HangupCall, NetworkRings
<1>4. ASSUME NEW c \in Calls, NEW s \in States, NetworkMoves(c, s) PROVE ser' = ser
  BY <1>4 DEF NetworkMoves
<1>5. CASE ModemUnplugged \/ Resolve \/ DetachRemoved \/ UNCHANGED vars
  BY <1>5 DEF ModemUnplugged, Resolve, DetachRemoved, vars
<1> QED
  BY <1>1, <1>2, <1>3, <1>4, <1>5 DEF Next

\* An announced call reaches the queue of the loop when it is new, then moves on.
LEMMA AddedSteps ==
  ASSUME TypeOK, OwnKind, [Next]_vars, NEW c \in Rings
  PROVE  /\ Has(loopQ', "added", c) => Has(loopQ, "added", c) \/ NetworkRings(c)
         /\ Once(loopQ, "added", c) /\ (mm[c] = "absent" => ~ Has(loopQ, "added", c))
              => /\ Once(loopQ', "added", c)
                 /\ LoopCallAdded /\ Head(loopQ).c = c => ~ Has(loopQ', "added", c)
         /\ LoopCallAdded /\ Head(loopQ).c = c => Has(loopQ, "added", c)
<1>0. loopQ \in Seq(LoopItems) /\ c \in Calls /\ c \notin Dials
  BY CallsAssumption DEF TypeOK, Calls
<1>1. CASE LoopSubscribe \/ LoopSignal \/ LoopCallAdded
  <2>1. loopQ /= <<>> /\ loopQ' = Tail(loopQ) /\ (LoopCallAdded => Head(loopQ).k = "added")
    BY <1>1 DEF LoopSubscribe, LoopSignal, LoopCallAdded, LoopTakes
  <2> QED
    BY <1>0, <2>1, TailHas
<1>2. ASSUME loopQ' = loopQ, ~ LoopCallAdded
      PROVE  /\ Has(loopQ', "added", c) => Has(loopQ, "added", c)
             /\ Once(loopQ, "added", c) => Once(loopQ', "added", c)
  BY <1>2
<1>3. ASSUME NEW d \in Calls, NEW s \in States, Attaches(d, s), ~ LoopCallAdded
      PROVE  /\ Has(loopQ', "added", c) => Has(loopQ, "added", c)
             /\ Once(loopQ, "added", c) => Once(loopQ', "added", c)
  <2>1. /\ [k |-> "subscribe", c |-> d, s |-> s] \in LoopItems
        /\ loopQ' = Append(loopQ, [k |-> "subscribe", c |-> d, s |-> s])
    BY <1>3 DEF Attaches, AttachAndMake, LoopItems
  <2>2. [k |-> "subscribe", c |-> d, s |-> s].k /= "added"
    OBVIOUS
  <2> QED
    BY <1>0, <2>1, <2>2, AppendHas
<1>4. ASSUME NEW d \in Calls, NEW s \in States, Announces(d, s), ~ LoopCallAdded
      PROVE  /\ Has(loopQ', "added", c) => Has(loopQ, "added", c) \/ NetworkRings(c)
             /\ Once(loopQ, "added", c) /\ (mm[c] = "absent" => ~ Has(loopQ, "added", c))
                  => Once(loopQ', "added", c)
  <2> DEFINE item == [k |-> "added", c |-> d, s |-> s]
  <2>1. item \in LoopItems /\ loopQ' = Append(loopQ, item) /\ item.c = d
    BY <1>4 DEF Announces, LoopItems
  <2>2. d = c => NetworkRings(c) /\ mm[c] = "absent"
    BY <1>0, <1>4 DEF Announces, NetworkRings, RequestCreate, OwnKind
  <2> HIDE DEF item
  <2> QED
    BY <1>0, <2>1, <2>2, AppendHas
<1>5. ASSUME Advances, ~ LoopCallAdded
      PROVE  /\ Has(loopQ', "added", c) => Has(loopQ, "added", c)
             /\ Once(loopQ, "added", c) => Once(loopQ', "added", c)
  <2>1. PICK d \in Calls, s \in States : MmMoves(d, s)
    BY <1>5 DEF Advances
  <2> QED
    BY <2>1, MovedHas
<1>6. LoopRecord \/ Detaches \/ Passes => loopQ' = loopQ
  BY DEF LoopRecord, Detaches, Passes
<1> QED
  BY <1>1, <1>2, <1>3, <1>4, <1>5, <1>6, LineSteps

\* From there its path goes to the queue of the serializer, and to its hands.
LEMMA PathSteps ==
  ASSUME TypeOK, OwnKind, [Next]_vars, NEW c \in Rings
  PROVE  /\ Has(serQ', "added", c) =>
              Has(serQ, "added", c) \/ (LoopCallAdded /\ Head(loopQ).c = c)
         /\ Once(serQ, "added", c) /\ (Has(loopQ, "added", c) => ~ Has(serQ, "added", c))
              => Once(serQ', "added", c)
         /\ InHand(c)' => InHand(c) \/ (SerAdded /\ Head(serQ).c = c /\ Has(serQ, "added", c))
         /\ Once(serQ, "added", c) /\ SerAdded /\ Head(serQ).c = c => ~ Has(serQ', "added", c)
<1>0. serQ \in Seq(SerTasks) /\ c \in Calls
  BY DEF TypeOK, Calls
<1>1. ASSUME serQ /= <<>>
      PROVE  /\ Has(Tail(serQ), "added", c) => Has(serQ, "added", c)
             /\ Once(serQ, "added", c) => Once(Tail(serQ), "added", c)
             /\ Once(serQ, "added", c) /\ Head(serQ).k = "added" /\ Head(serQ).c = c
                  => ~ Has(Tail(serQ), "added", c)
             /\ Head(serQ).k = "added" /\ Head(serQ).c = c => Has(serQ, "added", c)
  BY <1>0, <1>1, TailHas
<1>2. ASSUME NEW task \in {"added", "start", "terminated"}, NEW d \in Calls \cup {None},
             serQ' = Append(serQ, [k |-> task, c |-> d])
      PROVE  /\ Has(serQ', "added", c) => Has(serQ, "added", c) \/ (task = "added" /\ d = c)
             /\ Once(serQ, "added", c) /\ ~ (task = "added" /\ d = c /\ Has(serQ, "added", c))
                  => Once(serQ', "added", c)
  <2> DEFINE item == [k |-> task, c |-> d]
  <2>1. item \in SerTasks /\ item.k = task /\ item.c = d
    BY DEF SerTasks
  <2> HIDE DEF item
  <2>2. serQ' = Append(serQ, item)
    BY <1>2 DEF item
  <2> QED
    BY <1>0, <2>1, <2>2, AppendHas
<1>3. SerAdded => serQ /= <<>> /\ Head(serQ).k = "added" /\ serQ' = Tail(serQ)
  BY DEF SerAdded, SerTakes
<1>4. LoopCallAdded => /\ Head(loopQ).c = c => Has(loopQ, "added", c)
                       /\ Head(loopQ).c \in Calls
  <2> SUFFICES ASSUME LoopCallAdded PROVE Head(loopQ).c \in Calls
    BY AddedSteps
  <2>1. Head(loopQ) \in LoopItems
    BY HeadTailProperties DEF LoopCallAdded, LoopTakes, TypeOK
  <2> QED
    BY <2>1 DEF LoopItems
<1>5. InHand(c)' => InHand(c) \/ (SerAdded /\ Head(serQ).c = c /\ Has(serQ, "added", c))
  BY <1>1, <1>3, InHandStep DEF InHand
<1>6. Once(serQ, "added", c) /\ SerAdded /\ Head(serQ).c = c => ~ Has(serQ', "added", c)
  BY <1>1, <1>3
<1>7. CASE serQ' = serQ
  BY <1>5, <1>6, <1>7
<1>8. CASE serQ /= <<>> /\ serQ' = Tail(serQ)
  BY <1>1, <1>5, <1>6, <1>8
<1>9. CASE LoopCallAdded /\ serQ' = Append(serQ, [k |-> "added", c |-> Head(loopQ).c])
  <2>1. Head(loopQ).c \in Calls \cup {None} /\ (Head(loopQ).c = c => Has(loopQ, "added", c))
    BY <1>4, <1>9
  <2>2. /\ Has(serQ', "added", c) => Has(serQ, "added", c) \/ Head(loopQ).c = c
        /\ Once(serQ, "added", c) /\ ~ (Head(loopQ).c = c /\ Has(serQ, "added", c))
             => Once(serQ', "added", c)
    BY <1>2, <1>9, <2>1
  <2> QED
    BY <1>5, <1>6, <1>9, <2>1, <2>2
<1>10. CASE \/ serQ' = Append(serQ, [k |-> "start", c |-> None])
            \/ serQ' = Append(serQ, [k |-> "terminated", c |-> None])
  <2>1. /\ Has(serQ', "added", c) => Has(serQ, "added", c)
        /\ Once(serQ, "added", c) => Once(serQ', "added", c)
    BY <1>2, <1>10
  <2> QED
    BY <1>5, <1>6, <2>1
<1> QED
  BY <1>7, <1>8, <1>9, <1>10, TasksStep

LEMMA OwnKindNext == TypeOK /\ OwnKind /\ [Next]_vars => OwnKind'
<1> SUFFICES ASSUME TypeOK, OwnKind, [Next]_vars PROVE OwnKind'
  OBVIOUS
<1>1. ASSUME NEW c \in Calls, pc'[c] \in {"create", "attach"}
      PROVE  c \in Dials /\ (pc'[c] = "attach" => mm'[c] /= "absent")
  BY <1>1, PlaceStep, MmStep DEF OwnKind
<1>2. ASSUME ser'.k = "attach"
      PROVE  ser'.c \in Rings /\ Rank(ser'.s) <= Rank(mm'[ser'.c])
  <2>1. CASE ser' = ser
    <3>1. ser.c \in Calls /\ ser.s \in States /\ Rank(ser.s) <= Rank(mm[ser.c])
      BY <1>2, <2>1 DEF OwnKind, TypeOK, SerSteps
    <3>2. Rank(mm[ser.c]) <= Rank(mm'[ser.c])
      BY <3>1, MmStep
    <3>3. mm[ser.c] \in States /\ mm'[ser.c] \in States
      BY <3>1, TypeNext DEF TypeOK
    <3> QED
      BY <1>2, <2>1, <3>1, <3>2, <3>3, Ranks DEF OwnKind
  <2>2. CASE SerAdded /\ Head(serQ).c \in Rings /\ ser'.c = Head(serQ).c /\ ser'.s = mm[Head(serQ).c]
    <3>1. mm' = mm /\ ser'.c \in Calls
      BY <2>2 DEF SerAdded, daemon, Calls
    <3>2. mm[ser'.c] \in States
      BY <3>1 DEF TypeOK
    <3> QED
      BY <2>2, <3>1, <3>2, Ranks
  <2> QED
    BY <1>2, <2>1, <2>2, InHandStep
<1> QED
  BY <1>1, <1>2 DEF OwnKind

LEMMA OnePlaceNext == TypeOK /\ OwnKind /\ OnePlace /\ [Next]_vars => OnePlace'
<1> SUFFICES ASSUME TypeOK, OwnKind, OnePlace, [Next]_vars, NEW c \in Rings
             PROVE  /\ Once(loopQ', "added", c) /\ Once(serQ', "added", c)
                    /\ mm'[c] = "absent" => /\ ~ Has(loopQ', "added", c)
                                            /\ ~ Has(serQ', "added", c) /\ ~ InHand(c)'
                    /\ Has(loopQ', "added", c) => ~ Has(serQ', "added", c) /\ ~ InHand(c)'
                    /\ Has(serQ', "added", c) => ~ InHand(c)'
  BY DEF OnePlace
<1>0. /\ Once(loopQ, "added", c) /\ Once(serQ, "added", c)
      /\ mm[c] = "absent" => ~ Has(loopQ, "added", c) /\ ~ Has(serQ, "added", c) /\ ~ InHand(c)
      /\ Has(loopQ, "added", c) => ~ Has(serQ, "added", c) /\ ~ InHand(c)
      /\ Has(serQ, "added", c) => ~ InHand(c)
      /\ c \in Calls
  BY DEF OnePlace, Calls
<1>1. mm'[c] = "absent" => mm[c] = "absent"
  BY <1>0, MmStep
<1>2. NetworkRings(c) => mm[c] = "absent" /\ mm'[c] /= "absent" /\ ~ LoopCallAdded /\ ~ SerAdded
  BY <1>0 DEF NetworkRings, LoopCallAdded, SerAdded, TypeOK, daemon
<1>3. LoopCallAdded => ~ SerAdded
  <2> SUFFICES ASSUME LoopCallAdded, SerAdded PROVE FALSE
    OBVIOUS
  <2>1. loopQ' = loopQ /\ loopQ' = Tail(loopQ) /\ loopQ /= <<>> /\ loopQ \in Seq(LoopItems)
    BY DEF LoopCallAdded, SerAdded, loopv, LoopTakes, TypeOK
  <2> QED
    BY <2>1
<1> QED
  BY <1>0, <1>1, <1>2, <1>3, AddedSteps, PathSteps

\* A call that is not attached yet was not before.
LEMMA AheadBefore ==
  ASSUME TypeOK, OwnKind, [Next]_vars, NEW c \in Calls
  PROVE  (DialAhead(c) \/ RingAhead(c))' => DialAhead(c) \/ RingAhead(c)
<1>1. DialAhead(c)' => DialAhead(c)
  BY PlaceStep DEF DialAhead
<1>2. ASSUME RingAhead(c)' PROVE RingAhead(c)
  <2>1. c \in Rings
    BY <1>2 DEF RingAhead
  <2>2. mm'[c] = "absent" => mm[c] = "absent"
    BY MmStep
  <2>3. NetworkRings(c) => mm[c] = "absent"
    BY DEF NetworkRings
  <2> QED
    BY <1>2, <2>1, <2>2, <2>3, AddedSteps, PathSteps DEF RingAhead
<1> QED
  BY <1>1, <1>2

\* Attaching a call takes it from ahead to behind.
LEMMA AttachOnce ==
  ASSUME TypeOK, OwnKind, OnePlace, NEW c \in Calls, NEW s \in States, Attaches(c, s)
  PROVE  /\ DialAhead(c) \/ RingAhead(c)
         /\ ~ (DialAhead(c) \/ RingAhead(c))'
         /\ Rank(s) <= Rank(mm[c])
<1>0. /\ mm[c] \in States /\ loopQ \in Seq(LoopItems) /\ pc \in [Calls -> Places]
      /\ Dials \cap Rings = {}
  BY CallsAssumption DEF TypeOK
<1>1. CASE RequestAttach(c) /\ s = "unknown"
  <2>1. pc[c] = "attach" /\ pc'[c] \in {"start", "failed"} /\ c \in Dials /\ mm[c] /= "absent"
    BY <1>0, <1>1 DEF RequestAttach, Goto, OwnKind
  <2>2. Rank(mm[c]) >= 1
    BY <1>0, <2>1 DEF Rank, States
  <2> QED
    BY <1>0, <1>1, <2>1, <2>2, Ranks DEF DialAhead, RingAhead
<1>2. CASE SerAttach /\ c = ser.c /\ s = ser.s
  <2>1. InHand(c) /\ c \in Rings /\ Rank(s) <= Rank(mm[c])
    BY <1>2 DEF SerAttach, InHand, OwnKind
  <2>2. mm' = mm /\ serQ' = serQ
    BY <1>2 DEF Attaches
  <2>3. ser'.k /= "attach"
    <3>1. SerMove("reject", ser.c, "absent") \/ SerMove("pbx", ser.c, "absent")
      BY <1>2 DEF SerAttach, SerRefuses, SerTakesCall
    <3> QED
      BY <3>1 DEF SerMove
  <2>4. ~ Has(loopQ', "added", c)
    <3> DEFINE item == [k |-> "subscribe", c |-> c, s |-> s]
    <3>1. item \in LoopItems /\ item.k /= "added" /\ loopQ' = Append(loopQ, item)
      BY DEF Attaches, AttachAndMake, LoopItems
    <3>2. ~ Has(loopQ, "added", c)
      BY <2>1 DEF OnePlace
    <3> HIDE DEF item
    <3> QED
      BY <1>0, <3>1, <3>2, AppendHas
  <2>5. mm[c] /= "absent" /\ ~ Has(serQ, "added", c)
    BY <2>1 DEF OnePlace
  <2>6. ~ RingAhead(c)'
    BY <2>2, <2>3, <2>4, <2>5 DEF RingAhead, InHand
  <2>7. c \notin Dials
    BY <1>0, <2>1
  <2> QED
    BY <2>1, <2>6, <2>7 DEF DialAhead, RingAhead
<1> QED
  BY <1>1, <1>2 DEF Attaches

\* Attaching a call queues its subscription, a call the loop listens to its states.
LEMMA QueuedSteps ==
  ASSUME TypeOK, [Next]_vars, NEW c \in Calls
  PROVE  /\ \/ Has(loopQ', "subscribe", c) => Has(loopQ, "subscribe", c)
            \/ \E s \in States : Attaches(c, s)
         /\ Once(loopQ, "subscribe", c) =>
              \/ Once(loopQ', "subscribe", c)
              \/ Has(loopQ, "subscribe", c) /\ \E s \in States : Attaches(c, s)
         /\ Once(loopQ, "subscribe", c) /\ LoopSubscribe /\ Head(loopQ).c = c
              => ~ Has(loopQ', "subscribe", c)
         /\ LoopSubscribe /\ Head(loopQ).c = c => Has(loopQ, "subscribe", c)
         /\ Has(loopQ', "state", c) => Has(loopQ, "state", c) \/ c \in subs \/ call = c
<1>0. loopQ \in Seq(LoopItems)
  BY DEF TypeOK
<1>1. CASE LoopSubscribe \/ LoopSignal \/ LoopCallAdded
  <2>1. loopQ /= <<>> /\ loopQ' = Tail(loopQ) /\ (LoopSubscribe => Head(loopQ).k = "subscribe")
    BY <1>1 DEF LoopSubscribe, LoopSignal, LoopCallAdded, LoopTakes
  <2> QED
    BY <1>0, <2>1, TailHas
<1>2. CASE loopQ' = loopQ /\ ~ LoopSubscribe
  BY <1>2
<1>3. ASSUME NEW d \in Calls, NEW s \in States, Attaches(d, s), ~ LoopSubscribe
      PROVE  /\ Has(loopQ', "subscribe", c) => Has(loopQ, "subscribe", c) \/ d = c
             /\ Once(loopQ, "subscribe", c) /\ ~ (d = c /\ Has(loopQ, "subscribe", c))
                  => Once(loopQ', "subscribe", c)
             /\ Has(loopQ', "state", c) => Has(loopQ, "state", c)
  <2> DEFINE item == [k |-> "subscribe", c |-> d, s |-> s]
  <2>1. item \in LoopItems /\ item.k = "subscribe" /\ item.c = d /\ loopQ' = Append(loopQ, item)
    BY <1>3 DEF Attaches, AttachAndMake, LoopItems
  <2> HIDE DEF item
  <2> QED
    BY <1>0, <2>1, AppendHas
<1>4. ASSUME NEW d \in Calls, NEW s \in States, Announces(d, s), ~ LoopSubscribe,
             NEW kind \in {"subscribe", "state"}
      PROVE  /\ Has(loopQ', kind, c) => Has(loopQ, kind, c)
             /\ Once(loopQ, kind, c) => Once(loopQ', kind, c)
  <2> DEFINE item == [k |-> "added", c |-> d, s |-> s]
  <2>1. item \in LoopItems /\ loopQ' = Append(loopQ, item) /\ item.k /= kind
    BY <1>4 DEF Announces, LoopItems
  <2> HIDE DEF item
  <2> QED
    BY <1>0, <2>1, AppendHas
<1>5. ASSUME Advances, ~ LoopSubscribe
      PROVE  /\ Has(loopQ', "subscribe", c) => Has(loopQ, "subscribe", c)
             /\ Once(loopQ, "subscribe", c) => Once(loopQ', "subscribe", c)
             /\ Has(loopQ', "state", c) => Has(loopQ, "state", c) \/ c \in subs \/ call = c
  <2>1. PICK d \in Calls, s \in States : MmMoves(d, s)
    BY <1>5 DEF Advances
  <2> QED
    BY <2>1, MovedHas
<1>6. LoopRecord \/ Detaches \/ Passes => loopQ' = loopQ
  BY DEF LoopRecord, Detaches, Passes
<1>7. CASE ~ LoopSubscribe /\ \E d \in Calls, s \in States : Attaches(d, s)
  BY <1>3, <1>7
<1>8. CASE ~ LoopSubscribe /\ \E d \in Calls, s \in States : Announces(d, s)
  BY <1>4, <1>8
<1> QED
  BY <1>1, <1>2, <1>5, <1>6, <1>7, <1>8, LineSteps

\* How a step changes the attached call, the recorded subscription and the live ones.
LEMMA WatchSteps ==
  ASSUME TypeOK, SubscriptionsAccounted, [Next]_vars
  PROVE  \/ /\ LoopSubscribe /\ loop.k = "idle" /\ loop'.k = "subscribing"
            /\ loop'.c = Head(loopQ).c /\ loop'.c \in Calls
            /\ subs' = subs \cup {Head(loopQ).c} /\ UNCHANGED <<call, sub>>
         \/ /\ LoopRecord /\ loop.k = "subscribing" /\ loop'.k = "idle" /\ call' = call
            /\ \/ call = loop.c /\ sub' = loop.c /\ subs' = subs
               \/ call /= loop.c /\ sub' = sub /\ subs' = subs \ {loop.c}
         \/ /\ loop.k /= "subscribing" /\ loop'.k /= "subscribing"
            /\ UNCHANGED <<call, sub, subs>>
         \/ UNCHANGED <<call, sub, subs, loop>>
         \/ /\ sub' = None /\ subs' = subs \ {sub} /\ loop' = loop
            /\ call' = None \/ (call' \in Calls /\ \E s \in States : Attaches(call', s))
<1>0. None \notin Calls /\ subs \subseteq Calls /\ sub \in {None, call}
  BY CallsAssumption DEF TypeOK, SubscriptionsAccounted
<1>1. CASE LoopSubscribe
  <2>1. Head(loopQ) \in LoopItems
    BY <1>1, HeadTailProperties DEF LoopSubscribe, LoopTakes, TypeOK
  <2> QED
    BY <1>1, <2>1 DEF LoopSubscribe, LoopTakes, LoopIdle, LoopItems, line
<1>2. CASE LoopRecord
  BY <1>2 DEF LoopRecord, LoopIdle, line
<1>3. CASE LoopSignal \/ LoopCallAdded
  BY <1>3 DEF LoopSignal, LoopCallAdded, LoopTakes, LoopIdle, watch, line
<1>4. CASE Passes
  BY <1>4 DEF Passes, LoopIdle
<1>5. CASE Advances \/ \E c \in Calls, s \in States : Announces(c, s)
  <2>1. UNCHANGED <<call, sub, subs, loop>>
    BY <1>5 DEF Advances, Announces
  <2> QED
    BY <2>1
<1>6. ReleaseWatch => sub' = None /\ subs' = subs \ {sub}
  BY <1>0 DEF ReleaseWatch, watch
<1>7. CASE Detaches
  BY <1>6, <1>7 DEF Detaches, CallDetach
<1>8. ASSUME NEW c \in Calls, NEW s \in States, Attaches(c, s)
      PROVE  ReleaseWatch /\ loop' = loop /\ call' \in {None, c}
  BY <1>8 DEF Attaches, AttachAndMake
<1> QED
  BY <1>1, <1>2, <1>3, <1>4, <1>6, <1>7, <1>8, <1>5, LineSteps

LEMMA SubscriptionsNext ==
  TypeOK /\ SubscribedOnce /\ SubscriptionsAccounted /\ [Next]_vars => SubscriptionsAccounted'
<1> SUFFICES ASSUME TypeOK, SubscribedOnce, SubscriptionsAccounted, [Next]_vars
             PROVE  SubscriptionsAccounted'
  OBVIOUS
<1>1. /\ subs = ({sub} \ {None}) \cup (IF loop.k = "subscribing" THEN {loop.c} ELSE {})
      /\ sub \in {None, call} /\ None \notin Calls
      /\ loop.k = "subscribing" => sub /= loop.c /\ loop.c \in Calls
  BY CallsAssumption DEF SubscriptionsAccounted, SubscribedOnce, TypeOK
<1> QED
  BY <1>1, WatchSteps DEF SubscriptionsAccounted

LEMMA SubscribedNext ==
  /\ TypeOK /\ OwnKind /\ OnePlace /\ SubscribedOnce /\ SubscriptionsAccounted
  /\ [Next]_vars
  => SubscribedOnce'
<1> SUFFICES ASSUME TypeOK, OwnKind, OnePlace, SubscribedOnce, SubscriptionsAccounted,
                    [Next]_vars, NEW c \in Calls
             PROVE  /\ Once(loopQ', "subscribe", c)
                    /\ Has(loopQ', "subscribe", c) => c \notin subs'
                    /\ loop'.k = "subscribing" => sub' /= loop'.c
                    /\ (DialAhead(c) \/ RingAhead(c))' =>
                         /\ ~ Has(loopQ', "subscribe", c) /\ ~ Has(loopQ', "state", c)
                         /\ c \notin subs' /\ call' /= c
  BY DEF SubscribedOnce
<1>0. /\ Once(loopQ, "subscribe", c)
      /\ Has(loopQ, "subscribe", c) => c \notin subs
      /\ loop.k = "subscribing" => sub /= loop.c /\ loop.c \in Calls
      /\ DialAhead(c) \/ RingAhead(c) =>
           /\ ~ Has(loopQ, "subscribe", c) /\ ~ Has(loopQ, "state", c)
           /\ c \notin subs /\ call /= c
      /\ None \notin Calls
  BY CallsAssumption DEF SubscribedOnce, TypeOK
<1>1. ASSUME NEW s \in States, Attaches(c, s)
      PROVE  (DialAhead(c) \/ RingAhead(c)) /\ ~ (DialAhead(c) \/ RingAhead(c))' /\ ~ LoopSubscribe
  <2>1. loop' = loop
    BY <1>1 DEF Attaches
  <2>2. LoopSubscribe => loop' /= loop
    BY DEF LoopSubscribe, LoopTakes, LoopIdle
  <2> QED
    BY <1>1, <2>1, <2>2, AttachOnce
<1>2. Once(loopQ', "subscribe", c)
  BY <1>0, <1>1, QueuedSteps
<1>3. c \in subs' => c \in subs \/ (LoopSubscribe /\ Head(loopQ).c = c)
  BY WatchSteps
<1>4. Has(loopQ', "subscribe", c) => c \notin subs'
  BY <1>0, <1>1, <1>3, QueuedSteps
<1>5. loop'.k = "subscribing" => sub' /= loop'.c
  <2>1. CASE LoopSubscribe
    <3>1. sub' = sub /\ loop'.c = Head(loopQ).c /\ loop'.c \in Calls
      BY <2>1, WatchSteps DEF LoopSubscribe, LoopRecord, LoopTakes, LoopIdle
    <3>2. Has(loopQ, "subscribe", loop'.c)
      <4>1. loopQ /= <<>> /\ Head(loopQ).k = "subscribe" /\ loopQ \in Seq(LoopItems)
        BY <2>1 DEF LoopSubscribe, LoopTakes, TypeOK
      <4> QED
        BY <3>1, <4>1, TailHas
    <3>3. loop'.c \notin subs
      BY <3>1, <3>2 DEF SubscribedOnce
    <3> QED
      BY <3>1, <3>3, <1>0 DEF SubscriptionsAccounted
  <2> QED
    BY <1>0, <2>1, WatchSteps
<1>6. ASSUME (DialAhead(c) \/ RingAhead(c))'
      PROVE  /\ ~ Has(loopQ', "subscribe", c) /\ ~ Has(loopQ', "state", c)
             /\ c \notin subs' /\ call' /= c
  <2>1. DialAhead(c) \/ RingAhead(c)
    BY <1>6, AheadBefore
  <2>2. call' = c => call = c \/ \E s \in States : Attaches(c, s)
    BY <1>0, WatchSteps
  <2> QED
    BY <1>0, <1>1, <1>3, <1>6, <2>1, <2>2, QueuedSteps
<1> QED
  BY <1>2, <1>4, <1>5, <1>6

\* Attaching a call finds none of its states on their way.
LEMMA AttachFresh ==
  ASSUME TypeOK, OwnKind, OnePlace, SubscribedOnce, NEW c \in Calls, NEW s \in States,
         Attaches(c, s)
  PROVE  ~ Has(loopQ, "state", c) /\ call /= c /\ Rank(s) <= Rank(mm[c])
BY AttachOnce DEF SubscribedOnce

\* The signals on their way, step by step.
LEMMA StatesNext ==
  /\ TypeOK /\ OwnKind /\ OnePlace /\ SubscribedOnce /\ StatesAhead
  /\ [Next]_vars
  => /\ StatesAhead'
     /\ call /= None /\ call' = call => Rank(last) <= Rank(last')
<1> SUFFICES ASSUME TypeOK, OwnKind, OnePlace, SubscribedOnce, StatesAhead, [Next]_vars
             PROVE  /\ StatesAhead'
                    /\ call /= None /\ call' = call => Rank(last) <= Rank(last')
  OBVIOUS
<1> DEFINE R == 0 .. 6
<1>0. /\ loopQ \in Seq(LoopItems) /\ mm \in [Calls -> States] /\ None \notin Calls
      /\ last \in States /\ call \in Calls \cup {None}
      /\ mm' \in [Calls -> States] /\ last' \in States /\ loopQ' \in Seq(LoopItems)
      /\ call' \in Calls \cup {None}
  BY TypeNext, CallsAssumption DEF TypeOK
<1>1. \A i \in 1 .. Len(loopQ) : loopQ[i].c \in Calls /\ loopQ[i].s \in States
  <2>1. \A i \in 1 .. Len(loopQ) : loopQ[i] \in LoopItems
    BY <1>0
  <2>2. \A item \in LoopItems : item.c \in Calls /\ item.s \in States
    BY DEF LoopItems
  <2> QED
    BY <2>1, <2>2
<1>2. /\ InOrder(loopQ)
      /\ \A i \in 1 .. Len(loopQ) : loopQ[i].k = "state" =>
           /\ Rank(loopQ[i].s) <= Rank(mm[loopQ[i].c]) /\ loopQ[i].s /= "deleted"
           /\ loopQ[i].c = call => Rank(last) <= Rank(loopQ[i].s)
      /\ call /= None => Rank(last) <= Rank(mm[call])
  BY DEF StatesAhead
<1>3. \A c \in Calls : /\ Rank(mm[c]) <= Rank(mm'[c])
                       /\ Rank(mm[c]) \in R /\ Rank(mm'[c]) \in R
  BY <1>0, MmStep, Ranks
<1>4. \A s \in States : Rank(s) \in R
  BY Ranks
\* The head leaves; last stays, or takes the state at the head.
<1>5. ASSUME loopQ /= <<>>, loopQ' = Tail(loopQ), call' = call, mm' = mm,
             \/ last' = last
             \/ Head(loopQ).k = "state" /\ Head(loopQ).c = call /\ last' = Head(loopQ).s
      PROVE  StatesAhead' /\ (call /= None => Rank(last) <= Rank(last'))
  <2> DEFINE t == loopQ'
  <2>1. /\ Head(loopQ) = loopQ[1] /\ 1 \in 1 .. Len(loopQ) /\ Len(loopQ) \in Nat /\ Len(t) \in Nat
        /\ \A i \in 1 .. Len(t) : i + 1 \in 1 .. Len(loopQ) /\ i + 1 /= 1 /\ t[i] = loopQ[i + 1]
    BY <1>0, <1>5, TailItems
  <2> HIDE DEF t
  <2>2. \A i \in 1 .. Len(t) : t[i].k = "state" =>
          /\ Rank(t[i].s) <= Rank(mm[t[i].c]) /\ t[i].s /= "deleted"
          /\ t[i].c = call => Rank(last) <= Rank(t[i].s)
    BY <1>2, <2>1
  <2>3. InOrder(t)
    <3> SUFFICES ASSUME NEW i \in 1 .. Len(t), NEW j \in 1 .. Len(t), i < j,
                        t[i].k = "state", t[j].k = "state", t[i].c = t[j].c
                 PROVE  Rank(t[i].s) <= Rank(t[j].s)
      BY DEF InOrder
    <3>1. i + 1 < j + 1 /\ i + 1 \in 1 .. Len(loopQ) /\ j + 1 \in 1 .. Len(loopQ)
      BY <2>1
    <3> QED
      BY <1>2, <2>1, <3>1 DEF InOrder
  <2>4. \A i \in 1 .. Len(t) : t[i].k = "state" /\ t[i].c = call => Rank(last') <= Rank(t[i].s)
    <3>1. CASE last' = last
      BY <2>2, <3>1
    <3>2. CASE Head(loopQ).k = "state" /\ Head(loopQ).c = call /\ last' = Head(loopQ).s
      <4> SUFFICES ASSUME NEW i \in 1 .. Len(t), t[i].k = "state", t[i].c = call
                   PROVE  Rank(last') <= Rank(t[i].s)
        OBVIOUS
      <4>1. 1 < i + 1 /\ i + 1 \in 1 .. Len(loopQ) /\ loopQ[i + 1] = t[i]
        BY <2>1
      <4>2. Rank(loopQ[1].s) <= Rank(loopQ[i + 1].s)
        BY <1>2, <2>1, <3>2, <4>1 DEF InOrder
      <4> QED
        BY <2>1, <3>2, <4>1, <4>2
    <3> QED
      BY <1>5, <3>1, <3>2
  <2>5. call /= None => Rank(last) <= Rank(last') /\ Rank(last') <= Rank(mm[call])
    BY <1>0, <1>2, <1>4, <1>5, <2>1
  <2> QED
    BY <1>5, <2>2, <2>3, <2>4, <2>5 DEF StatesAhead, t
\* Nothing joins or leaves but items that carry no state, and the call is the same.
<1>6. ASSUME loopQ' = loopQ, last' = last, call' = call \/ call' = None
      PROVE  StatesAhead' /\ (call /= None /\ call' = call => Rank(last) <= Rank(last'))
  <2>1. \A i \in 1 .. Len(loopQ) : loopQ[i].k = "state" => Rank(loopQ[i].s) <= Rank(mm'[loopQ[i].c])
    BY <1>1, <1>2, <1>3, <1>4
  <2>2. call' /= None => Rank(last) <= Rank(mm'[call'])
    BY <1>0, <1>2, <1>3, <1>4, <1>6
  <2>3. \A i \in 1 .. Len(loopQ) : loopQ[i].k = "state" =>
          loopQ[i].s /= "deleted" /\ (loopQ[i].c = call' => Rank(last') <= Rank(loopQ[i].s))
    BY <1>0, <1>1, <1>2, <1>6
  <2>4. Rank(last) <= Rank(last')
    BY <1>0, <1>4, <1>6
  <2> QED
    BY <1>2, <1>6, <2>1, <2>2, <2>3, <2>4 DEF StatesAhead
<1>7. ASSUME NEW item \in LoopItems, item.k /= "state", loopQ' = Append(loopQ, item)
      PROVE  /\ InOrder(loopQ')
             /\ \A i \in 1 .. Len(loopQ') : loopQ'[i].k = "state" =>
                  i \in 1 .. Len(loopQ) /\ loopQ'[i] = loopQ[i]
  <2>1. \A i \in 1 .. Len(loopQ') : loopQ'[i].k = "state" =>
          i \in 1 .. Len(loopQ) /\ loopQ'[i] = loopQ[i]
    BY <1>0, <1>7, AppendItems
  <2>2. InOrder(loopQ')
    BY <1>2, <2>1 DEF InOrder
  <2> QED
    BY <2>1, <2>2
<1>8. ASSUME NEW c \in Calls, NEW s \in States, Announces(c, s)
      PROVE  StatesAhead' /\ (call /= None /\ call' = call => Rank(last) <= Rank(last'))
  <2> DEFINE item == [k |-> "added", c |-> c, s |-> s]
  <2>1. item \in LoopItems /\ item.k /= "state" /\ loopQ' = Append(loopQ, item)
        /\ call' = call /\ last' = last
    BY <1>8 DEF Announces, LoopItems
  <2> HIDE DEF item
  <2>2. /\ InOrder(loopQ')
        /\ \A i \in 1 .. Len(loopQ') : loopQ'[i].k = "state" =>
             i \in 1 .. Len(loopQ) /\ loopQ'[i] = loopQ[i]
    BY <1>7, <2>1
  <2>3. \A i \in 1 .. Len(loopQ') : loopQ'[i].k = "state" =>
           Rank(loopQ'[i].s) <= Rank(mm'[loopQ'[i].c])
    BY <1>1, <1>2, <1>3, <1>4, <2>2
  <2>4. \A i \in 1 .. Len(loopQ') : loopQ'[i].k = "state" =>
           loopQ'[i].s /= "deleted" /\ (loopQ'[i].c = call => Rank(last) <= Rank(loopQ'[i].s))
    BY <1>2, <2>2
  <2>5. call /= None => Rank(last) <= Rank(mm'[call])
    BY <1>0, <1>2, <1>3, <1>4
  <2>6. Rank(last) <= Rank(last')
    BY <1>0, <1>4, <2>1
  <2> QED
    BY <2>1, <2>2, <2>3, <2>4, <2>5, <2>6 DEF StatesAhead
<1>9. ASSUME NEW c \in Calls, NEW s \in States, Attaches(c, s)
      PROVE  StatesAhead' /\ ~ (call /= None /\ call' = call)
  <2> DEFINE item == [k |-> "subscribe", c |-> c, s |-> s]
  <2>1. item \in LoopItems /\ item.k /= "state" /\ loopQ' = Append(loopQ, item)
        /\ call' \in {None, c} /\ last' = s /\ mm' = mm
    BY <1>9 DEF Attaches, AttachAndMake, LoopItems
  <2> HIDE DEF item
  <2>2. /\ InOrder(loopQ')
        /\ \A i \in 1 .. Len(loopQ') : loopQ'[i].k = "state" =>
             i \in 1 .. Len(loopQ) /\ loopQ'[i] = loopQ[i]
    BY <1>7, <2>1
  <2>3. ~ Has(loopQ, "state", c) /\ call /= c /\ Rank(s) <= Rank(mm[c])
    BY <1>9, AttachFresh
  <2>4. \A i \in 1 .. Len(loopQ') : loopQ'[i].k = "state" =>
           /\ Rank(loopQ'[i].s) <= Rank(mm'[loopQ'[i].c])
           /\ loopQ'[i].s /= "deleted" /\ loopQ'[i].c /= c /\ loopQ'[i].c \in Calls
    BY <1>1, <1>2, <2>1, <2>2, <2>3 DEF Has
  <2> QED
    BY <1>0, <2>1, <2>2, <2>3, <2>4 DEF StatesAhead
<1>10. CASE Advances
  <2>1. PICK c \in Calls, s \in States : /\ MmMoves(c, s) /\ Rank(mm[c]) < Rank(s) /\ s /= "deleted"
                                         /\ UNCHANGED <<call, last>>
    BY <1>10 DEF Advances
  <2>2. mm' = [mm EXCEPT ![c] = s]
    BY <2>1 DEF MmMoves
  <2> DEFINE item == [k |-> "state", c |-> c, s |-> s]
  <2>3. item.k = "state" /\ item.c = c /\ item.s = s
    OBVIOUS
  <2>4. \A i \in 1 .. Len(loopQ') : \/ i \in 1 .. Len(loopQ) /\ loopQ'[i] = loopQ[i]
                                    \/ i > Len(loopQ) /\ loopQ'[i] = item
    BY <2>1, Moved
  <2> HIDE DEF item
  <2>5. mm'[c] = s /\ Rank(s) \in R /\ Rank(mm[c]) \in R
    BY <1>0, <1>4, <2>2
  <2>6. \A i \in 1 .. Len(loopQ') : loopQ'[i].k = "state" =>
          Rank(loopQ'[i].s) <= Rank(mm'[loopQ'[i].c]) /\ loopQ'[i].s /= "deleted"
    <3>1. Rank(item.s) <= Rank(mm'[item.c]) /\ item.s /= "deleted"
      BY <2>1, <2>3, <2>5
    <3>2. \A i \in 1 .. Len(loopQ) : loopQ[i].k = "state" =>
            Rank(loopQ[i].s) <= Rank(mm'[loopQ[i].c]) /\ loopQ[i].s /= "deleted"
      BY <1>1, <1>2, <1>3, <1>4
    <3> QED
      BY <2>4, <3>1, <3>2
  <2>7. \A i \in 1 .. Len(loopQ') : loopQ'[i].k = "state" /\ loopQ'[i].c = call =>
          Rank(last) <= Rank(loopQ'[i].s)
    <3>1. item.c = call => Rank(last) <= Rank(item.s)
      BY <1>0, <1>2, <1>4, <2>1, <2>3, <2>5
    <3> QED
      BY <1>2, <2>4, <3>1
  <2>8. InOrder(loopQ')
    <3> SUFFICES ASSUME NEW i \in 1 .. Len(loopQ'), NEW j \in 1 .. Len(loopQ'), i < j,
                        loopQ'[i].k = "state", loopQ'[j].k = "state", loopQ'[i].c = loopQ'[j].c
                 PROVE  Rank(loopQ'[i].s) <= Rank(loopQ'[j].s)
      BY DEF InOrder
    <3>1. CASE j \in 1 .. Len(loopQ) /\ loopQ'[j] = loopQ[j]
      <4>1. i \in 1 .. Len(loopQ) /\ loopQ'[i] = loopQ[i]
        <5>1. Len(loopQ) \in Nat
          BY <1>0
        <5>2. ~ (i > Len(loopQ))
          BY <3>1, <5>1
        <5> QED
          BY <2>4, <5>2
      <4> QED
        BY <1>2, <3>1, <4>1 DEF InOrder
    <3>2. CASE loopQ'[j] = item
      <4>1. CASE loopQ'[i] = item
        BY <2>3, <2>5, <3>2, <4>1
      <4>2. CASE i \in 1 .. Len(loopQ) /\ loopQ'[i] = loopQ[i]
        <5>1. loopQ[i].c = c /\ loopQ[i].k = "state" /\ Rank(loopQ[i].s) \in R
          BY <1>1, <1>4, <2>3, <3>2, <4>2
        <5>2. Rank(loopQ[i].s) <= Rank(mm[c])
          BY <1>2, <4>2, <5>1
        <5> QED
          BY <2>1, <2>3, <2>5, <3>2, <4>2, <5>1, <5>2
      <4> QED
        BY <2>4, <4>1, <4>2
    <3> QED
      BY <2>4, <3>1, <3>2
  <2>9. call /= None => Rank(last) <= Rank(mm'[call])
    BY <1>0, <1>2, <1>3, <1>4
  <2>10. Rank(last) <= Rank(last')
    BY <1>0, <1>4, <2>1
  <2> QED
    BY <2>1, <2>6, <2>7, <2>8, <2>9, <2>10 DEF StatesAhead
<1>11. CASE LoopSubscribe \/ LoopCallAdded \/ LoopSignal
  <2>1. /\ loopQ /= <<>> /\ loopQ' = Tail(loopQ) /\ call' = call /\ mm' = mm
    BY <1>11 DEF LoopSubscribe, LoopCallAdded, LoopSignal, LoopTakes, line, daemon
  <2>2. \/ last' = last
        \/ Head(loopQ).k = "state" /\ Head(loopQ).c = call /\ last' = Head(loopQ).s
    BY <1>11 DEF LoopSubscribe, LoopCallAdded, LoopSignal, LoopTakes, ForAttachedCall, line
  <2> QED
    BY <1>5, <2>1, <2>2
<1>12. CASE LoopRecord \/ Detaches \/ Passes
  BY <1>6, <1>12 DEF LoopRecord, Detaches, CallDetach, Passes, line
<1> QED
  BY <1>8, <1>9, <1>10, <1>11, <1>12, LineSteps

LEMMA LineInit == Init => LineInv
<1> SUFFICES ASSUME Init PROVE LineInv
  OBVIOUS
<1>1. loopQ = <<>> /\ serQ = <<>> /\ ser.k = "idle" /\ loop.k = "idle"
      /\ call = None /\ sub = None /\ subs = {} /\ None \notin Calls
      /\ \A c \in Calls : pc[c] = "idle"
  BY CallsAssumption DEF Init, SerIdle, LoopIdle
<1>2. OnePlace /\ OwnKind
  BY <1>1 DEF OnePlace, OwnKind, Once, Has, InHand
<1>3. SubscribedOnce /\ SubscriptionsAccounted
  BY <1>1 DEF SubscribedOnce, SubscriptionsAccounted, Once, Has
<1>4. StatesAhead
  BY <1>1 DEF StatesAhead, InOrder
<1> QED
  BY <1>2, <1>3, <1>4, TypeInit DEF LineInv

LEMMA LineNext == LineInv /\ [Next]_vars => LineInv'
<1> SUFFICES ASSUME LineInv, [Next]_vars PROVE LineInv'
  OBVIOUS
<1> QED
  BY TypeNext, OwnKindNext, OnePlaceNext, SubscribedNext, SubscriptionsNext, StatesNext
  DEF LineInv

\* Whatever reloads and unplugs fall between do_call_subscribe's going live and its
\* taking the lock, no subscription leaks and none is cancelled early: a call is
\* subscribed to at most once, because its path is taken to call_attach at most once.
THEOREM SubscriptionsKept == Spec => []SubscriptionsAccounted
<1>1. LineInv => SubscriptionsAccounted
  BY DEF LineInv
<1> QED
  BY <1>1, LineInit, LineNext, PTL DEF Spec

\* While one call stays attached its states are acted upon in ModemManager's order,
\* from the raw subscription and from the proxy together: a late signal is either for
\* another call or not behind the last one.
THEOREM StatesOnlyAdvance == Spec => StatesAdvance
<1>1. LineInv /\ LineInv' /\ [Next]_vars
        => [call /= None /\ call' = call => Rank(last') >= Rank(last)]_vars
  <2> SUFFICES ASSUME LineInv, LineInv', [Next]_vars, call /= None, call' = call
               PROVE  Rank(last') >= Rank(last)
    OBVIOUS
  <2>1. Rank(last) \in 0 .. 6 /\ Rank(last') \in 0 .. 6
    BY Ranks DEF LineInv, TypeOK
  <2>2. Rank(last) <= Rank(last')
    BY StatesNext DEF LineInv
  <2> QED
    BY <2>1, <2>2
<1> QED
  BY <1>1, LineInit, LineNext, PTL DEF Spec, StatesAdvance

-----------------------------------------------------------------------------
(* The end of a call *)

\* The end of a call on its way to the serializer: seen by the GMainLoop thread, then
\* told to the serializer.
EndSeen == loop.k = "handling" /\ loop.s = "terminated"
EndTold == Has(serQ, "terminated", None)
Ended(c) == mm[c] \in {"terminated", "deleted"}

\* Until a reload, while the modem is attached, the call whose end is on its way stays
\* attached, and its end comes once; what the GMainLoop thread acts on is the attached
\* call, until the modem disappears.
EndInv ==
  /\ unplugs = 0 => voice /\ ~ unplugged
  /\ \A i \in 1 .. Len(serQ) : serQ[i].k = "terminated" => serQ[i].c = None
  /\ resolves = 0 /\ ser.k = "delete" => Ended(ser.c)
  /\ resolves = 0 /\ voice =>
       /\ EndSeen \/ EndTold => call /= None /\ last = "terminated"
       /\ ~ (EndSeen /\ EndTold) /\ Once(serQ, "terminated", None)
  /\ resolves = 0 /\ unplugs = 0 /\ loop.k = "handling" => call = loop.c /\ last = loop.s

EndedInv == LineInv /\ ApartInv /\ EndInv

\* A call is attached to a line without one; a caller that fails to make its channel
\* detaches it again.
AttachesToIdle == /\ call = None
                  /\ UNCHANGED <<voice, unplugged, resolves, unplugs, loop, serQ>>
                  /\ ser' = ser \/ ser'.k /= "delete"

\* Steps that neither attach nor detach a call, nor touch what EndInv watches.
Rests == /\ UNCHANGED <<call, last, voice, unplugged, resolves, unplugs>>
         /\ loop' = loop \/ loop'.k /= "handling"
         /\ ser' = ser \/ ser'.k /= "delete"

LEMMA EndSteps ==
  ASSUME TypeOK, OwnKind, [Next]_vars, [DialsFindLineIdle]_vars
  PROVE  \/ LoopSignal \/ SerTerminated \/ Resolve \/ DetachRemoved \/ ModemUnplugged
         \/ AttachesToIdle \/ Rests
<1> USE DEF daemon, line, watch, loopv, serv, chans, world
<1>1. CASE LoopNext
  BY <1>1 DEF LoopNext, LoopSubscribe, LoopRecord, LoopAct, LoopCallAdded, LoopIdle, Rests
<1>2. CASE SerNext
  <2>1. CASE SerAdded
    BY <2>1 DEF SerAdded, SerMove, Rests
  <2>2. CASE SerAttach
    <3>1. SerMove("reject", ser.c, "absent") \/ SerMove("pbx", ser.c, "absent")
      BY <2>2 DEF SerAttach, SerRefuses, SerTakesCall
    <3>2. ser'.k /= "delete"
      BY <3>1 DEF SerMove
    <3>3. CASE SerRefuses
      BY <2>2, <3>2, <3>3 DEF SerAttach, SerRefuses, Rests
    <3>4. CASE SerTakesCall /\ call = None
      BY <2>2, <3>2, <3>4 DEF SerAttach, SerTakesCall, AttachAndMake, AttachesToIdle
    <3> QED
      BY <2>2, <3>3, <3>4 DEF SerAttach
  <2>3. CASE SerReject \/ SerWaited \/ SerDelete \/ SerStart
    BY <2>3 DEF SerReject, SerWaited, SerDelete, SerStart, SerIdle, Rests
  <2>4. CASE SerPbx
    BY <2>4 DEF SerPbx, SerMove, SerIdle, Rests
  <2> QED
    BY <1>2, <2>1, <2>2, <2>3, <2>4 DEF SerNext
<1>3. ASSUME NEW c \in Calls, ChannelNext(c) \/ NetworkRings(c) PROVE AttachesToIdle \/ Rests
  <2>1. CASE RequestAttach(c)
    <3>1. pc[c] = "attach" /\ pc'[c] \in {"start", "failed"} /\ c \in Dials
      BY <2>1 DEF RequestAttach, Goto, TypeOK, OwnKind
    <3>2. call = None
      BY <3>1 DEF DialsFindLineIdle, vars
    <3> QED
      BY <2>1, <3>2 DEF RequestAttach, AttachesToIdle
  <2>2. CASE ~ RequestAttach(c)
    BY <1>3, <2>2 DEF ChannelNext, RequestCheck, RequestCreate, RequestStart, AnswerBegin,
         AnswerAccept, HangupBegin, HangupCall, NetworkRings, MmMoves, AttachAndMake, Rests
  <2> QED
    BY <2>1, <2>2
<1>4. ASSUME NEW c \in Calls, NEW s \in States, NetworkMoves(c, s) PROVE Rests
  BY <1>4 DEF NetworkMoves, Rests
<1>5. CASE UNCHANGED vars
  BY <1>5 DEF vars, Rests
<1> QED
  BY <1>1, <1>2, <1>3, <1>4, <1>5 DEF Next

\* The task that ends a call is queued when the loop acts on its end, and taken once.
LEMMA EndTasks ==
  ASSUME TypeOK, [Next]_vars,
         \A i \in 1 .. Len(serQ) : serQ[i].k = "terminated" => serQ[i].c = None
  PROVE  /\ \A i \in 1 .. Len(serQ') : serQ'[i].k = "terminated" => serQ'[i].c = None
         /\ EndTold' => EndTold \/ (LoopAct /\ EndSeen)
         /\ Once(serQ, "terminated", None) /\ ~ (EndSeen /\ EndTold)
              => Once(serQ', "terminated", None)
         /\ SerTerminated => EndTold /\ (Once(serQ, "terminated", None) => ~ EndTold')
<1>0. serQ \in Seq(SerTasks)
  BY DEF TypeOK
<1>1. CASE serQ /= <<>> /\ serQ' = Tail(serQ) /\ (SerAdded \/ SerStart \/ SerTerminated)
  <2>1. /\ Head(serQ) = serQ[1] /\ 1 \in 1 .. Len(serQ)
        /\ \A i \in 1 .. Len(serQ') : i + 1 \in 1 .. Len(serQ) /\ serQ'[i] = serQ[i + 1]
    BY <1>0, <1>1, TailItems
  <2>2. SerTerminated => Head(serQ).k = "terminated"
    BY DEF SerTerminated, SerTakes
  <2>3. SerTerminated => Head(serQ).c = None
    BY <2>1, <2>2
  <2>4. \A i \in 1 .. Len(serQ') : serQ'[i].k = "terminated" => serQ'[i].c = None
    BY <2>1
  <2>5. /\ Has(serQ', "terminated", None) => Has(serQ, "terminated", None)
        /\ Once(serQ, "terminated", None) => Once(serQ', "terminated", None)
        /\ Once(serQ, "terminated", None) /\ Head(serQ).k = "terminated" /\ Head(serQ).c = None
             => ~ Has(serQ', "terminated", None)
        /\ Head(serQ).k = "terminated" /\ Head(serQ).c = None => Has(serQ, "terminated", None)
    BY <1>0, <1>1, TailHas
  <2> QED
    BY <2>2, <2>3, <2>4, <2>5 DEF EndTold
<1>2. ASSUME ~ SerTerminated, NEW task \in {"added", "start", "terminated"},
             NEW c \in Calls \cup {None}, serQ' = Append(serQ, [k |-> task, c |-> c]),
             task = "terminated" => LoopAct /\ loop.s = "terminated" /\ c = None
      PROVE  /\ \A i \in 1 .. Len(serQ') : serQ'[i].k = "terminated" => serQ'[i].c = None
             /\ EndTold' => EndTold \/ (LoopAct /\ EndSeen)
             /\ Once(serQ, "terminated", None) /\ ~ (EndSeen /\ EndTold)
                  => Once(serQ', "terminated", None)
  <2> DEFINE item == [k |-> task, c |-> c]
  <2>1. item \in SerTasks /\ item.k = task /\ item.c = c
    BY DEF SerTasks
  <2> HIDE DEF item
  <2>2. serQ' = Append(serQ, item)
    BY <1>2 DEF item
  <2>3. \A i \in 1 .. Len(serQ') : serQ'[i].k = "terminated" => serQ'[i].c = None
    <3>1. \A i \in 1 .. Len(serQ') : serQ'[i] = item \/ (i \in 1 .. Len(serQ) /\ serQ'[i] = serQ[i])
      BY <1>0, <2>1, <2>2, AppendItems
    <3> QED
      BY <1>2, <2>1, <3>1
  <2>4. task = "terminated" => EndSeen
    BY <1>2 DEF LoopAct, EndSeen
  <2>5. /\ Has(serQ', "terminated", None) => Has(serQ, "terminated", None) \/ task = "terminated"
        /\ Once(serQ, "terminated", None) /\ ~ (task = "terminated" /\ Has(serQ, "terminated", None))
             => Once(serQ', "terminated", None)
    BY <1>0, <2>1, <2>2, AppendHas
  <2> QED
    BY <1>2, <2>3, <2>4, <2>5 DEF EndTold
<1>3. CASE serQ' = serQ /\ ~ SerTerminated
  BY <1>3 DEF EndTold
<1>4. SerTerminated => serQ' = Tail(serQ) /\ serQ /= <<>>
  BY DEF SerTerminated, SerTakes
<1>5. SerTerminated => ~ LoopCallAdded /\ ~ LoopAct
  <2>1. LoopAct => loop' /= loop
    BY DEF LoopAct, LoopIdle
  <2>2. SerTerminated => loop' = loop /\ loopQ' = loopQ
    BY DEF SerTerminated, loopv
  <2>3. LoopCallAdded => loopQ' /= loopQ
    <3> SUFFICES ASSUME LoopCallAdded PROVE loopQ' /= loopQ
      OBVIOUS
    <3>1. loopQ \in Seq(LoopItems) /\ loopQ /= <<>> /\ loopQ' = Tail(loopQ)
      BY DEF TypeOK, LoopCallAdded, LoopTakes
    <3> QED
      BY <3>1
  <2> QED
    BY <2>1, <2>2, <2>3
<1>6. CASE LoopCallAdded /\ serQ' = Append(serQ, [k |-> "added", c |-> Head(loopQ).c])
  <2>1. Head(loopQ) \in LoopItems
    BY <1>6, HeadTailProperties DEF LoopCallAdded, LoopTakes, TypeOK
  <2>2. Head(loopQ).c \in Calls \cup {None}
    BY <2>1 DEF LoopItems
  <2> QED
    BY <1>2, <1>5, <1>6, <2>2
<1>7. CASE LoopAct /\ serQ' = Append(serQ, [k |-> "start", c |-> None])
  BY <1>2, <1>5, <1>7
<1>8. CASE LoopAct /\ loop.s = "terminated" /\ serQ' = Append(serQ, [k |-> "terminated", c |-> None])
  BY <1>2, <1>5, <1>8
<1>9. CASE SerTerminated
  BY <1>1, <1>4, <1>9
<1> QED
  BY <1>1, <1>3, <1>6, <1>7, <1>8, <1>9, TasksStep

LEMMA EndNext == EndedInv /\ [Next]_vars /\ [DialsFindLineIdle]_vars => EndInv'
<1> SUFFICES ASSUME EndedInv, [Next]_vars, [DialsFindLineIdle]_vars PROVE EndInv'
  OBVIOUS
<1>0. /\ TypeOK /\ TypeOK' /\ StatesAhead /\ OwnKind
      /\ \A c \in Calls : Ended(c) => mm'[c] \in {"terminated", "deleted"}
      /\ resolves \in Nat /\ unplugs \in Nat /\ voice \in BOOLEAN
      /\ loop.k = "handling" => loop.c \in Calls
      /\ ser.k = "delete" => ser.c \in Calls
  <2>1. TypeOK /\ TypeOK' /\ StatesAhead /\ OwnKind
    BY TypeNext DEF EndedInv, LineInv
  <2>2. ASSUME NEW c \in Calls, Ended(c) PROVE mm'[c] \in {"terminated", "deleted"}
    <3>1. mm[c] \in States /\ mm'[c] \in States
      BY <2>1 DEF TypeOK
    <3>2. Rank(mm[c]) >= 5 /\ Rank(mm[c]) <= Rank(mm'[c])
      BY <2>1, <2>2, MmStep, Ranks DEF Ended
    <3> QED
      BY <3>1, <3>2, Ranks
  <2> QED
    BY <2>1, <2>2, CallsAssumption DEF TypeOK
<1>1. /\ unplugs = 0 => voice /\ ~ unplugged
      /\ \A i \in 1 .. Len(serQ) : serQ[i].k = "terminated" => serQ[i].c = None
      /\ resolves = 0 /\ ser.k = "delete" => Ended(ser.c)
      /\ resolves = 0 /\ voice =>
           /\ EndSeen \/ EndTold => call /= None /\ last = "terminated"
           /\ ~ (EndSeen /\ EndTold) /\ Once(serQ, "terminated", None)
      /\ resolves = 0 /\ unplugs = 0 /\ loop.k = "handling" => call = loop.c /\ last = loop.s
  BY DEF EndedInv, EndInv
<1>2. /\ \A i \in 1 .. Len(serQ') : serQ'[i].k = "terminated" => serQ'[i].c = None
      /\ EndTold' => EndTold \/ (LoopAct /\ EndSeen)
      /\ Once(serQ, "terminated", None) /\ ~ (EndSeen /\ EndTold)
           => Once(serQ', "terminated", None)
      /\ SerTerminated => EndTold /\ (Once(serQ, "terminated", None) => ~ EndTold')
  BY <1>0, <1>1, EndTasks
\* The step keeps the line as it is: the end moves from the loop to the serializer.
<1>3. CASE Rests
  <2>1. EndSeen' => EndSeen /\ ~ LoopAct
    <3>1. LoopAct => loop'.k = "idle"
      BY DEF LoopAct, LoopIdle
    <3> QED
      BY <1>3, <3>1 DEF Rests, EndSeen
  <2> QED
    BY <1>0, <1>1, <1>2, <1>3, <2>1 DEF Rests, EndInv, Ended
\* A new state is the attached call's, and "terminated" is not followed by another.
<1>4. CASE LoopSignal
  <2>1. UNCHANGED <<call, voice, unplugged, resolves, unplugs, ser, serQ, mm>> /\ loop.k = "idle"
    BY <1>4 DEF LoopSignal, LoopTakes, LoopIdle, daemon, world, serv
  <2>2. EndTold' <=> EndTold
    BY <2>1 DEF EndTold
  <2>3. CASE UNCHANGED <<last, loop>>
    BY <1>0, <1>1, <2>1, <2>2, <2>3 DEF EndInv, EndSeen, Ended
  <2>4. CASE /\ call = Head(loopQ).c /\ last /= Head(loopQ).s /\ last' = Head(loopQ).s
             /\ loop' = [k |-> "handling", c |-> Head(loopQ).c, s |-> Head(loopQ).s]
    <3>1. /\ Head(loopQ) = loopQ[1] /\ 1 \in 1 .. Len(loopQ) /\ Head(loopQ) \in LoopItems
          /\ Head(loopQ).k = "state"
      BY <1>0, <1>4, TailItems DEF LoopSignal, LoopTakes, TypeOK
    <3>2. Head(loopQ).c \in Calls /\ Head(loopQ).s \in States
      BY <3>1 DEF LoopItems
    <3>3. Rank(last) <= Rank(Head(loopQ).s) /\ Head(loopQ).s /= "deleted"
      BY <1>0, <2>4, <3>1 DEF StatesAhead
    <3>4. last /= "terminated"
      BY <2>4, <3>2, <3>3, Ranks
    <3>5. resolves = 0 /\ voice => ~ EndTold
      BY <1>1, <3>4
    <3>6. /\ loop'.k = "handling" /\ loop'.c = call /\ loop'.s = last'
          /\ call' /= None
      BY <2>1, <2>4, <3>2, CallsAssumption
    <3> QED
      BY <1>0, <1>1, <1>2, <2>1, <2>2, <3>5, <3>6 DEF EndInv, EndSeen, Ended
  <2> QED
    BY <1>4, <2>3, <2>4 DEF LoopSignal, ForAttachedCall
\* The task of the end takes the call it was queued for.
<1>5. CASE SerTerminated
  <2>1. /\ UNCHANGED <<last, voice, unplugged, resolves, unplugs, mm, loop>> /\ call' = None
        /\ \/ ser' = ser
           \/ call /= None /\ voice /\ ser'.k = "delete" /\ ser'.c = call
    BY <1>5 DEF SerTerminated, CallDetach, SerMove, daemon, world, loopv
  <2>2. resolves = 0 /\ voice => /\ call /= None /\ last = "terminated" /\ ~ EndSeen
                                 /\ ~ EndTold' /\ Once(serQ', "terminated", None)
    BY <1>1, <1>2, <1>5
  <2>3. resolves = 0 /\ voice => Ended(call)
    <3> SUFFICES ASSUME resolves = 0, voice PROVE Ended(call)
      OBVIOUS
    <3>1. call \in Calls /\ mm[call] \in States
      BY <1>0, <2>2 DEF TypeOK
    <3>2. Rank("terminated") <= Rank(mm[call])
      BY <1>0, <2>2 DEF StatesAhead
    <3> QED
      BY <3>1, <3>2, Ranks DEF Ended
  <2>4. EndSeen' => EndSeen
    BY <2>1 DEF EndSeen
  <2>5. resolves = 0 /\ unplugs = 0 => loop.k /= "handling"
    BY <1>1, <2>2 DEF EndSeen
  <2> QED
    BY <1>0, <1>1, <1>2, <2>1, <2>2, <2>3, <2>4, <2>5 DEF EndInv, Ended
\* A call is attached only to a line without one, where no end is on its way.
<1>6. CASE AttachesToIdle
  <2>1. resolves = 0 /\ voice => ~ EndSeen /\ ~ EndTold
    BY <1>1, <1>6 DEF AttachesToIdle
  <2>2. (EndSeen' <=> EndSeen) /\ (EndTold' <=> EndTold)
    BY <1>6 DEF EndSeen, EndTold, AttachesToIdle
  <2>3. resolves = 0 /\ unplugs = 0 => loop.k /= "handling"
    BY <1>0, <1>1, <1>6, CallsAssumption DEF AttachesToIdle
  <2> QED
    BY <1>0, <1>1, <1>2, <1>6, <2>1, <2>2, <2>3 DEF EndInv, AttachesToIdle, Ended
<1>7. CASE Resolve
  <2>1. resolves' = resolves + 1 /\ voice' = TRUE /\ unplugged' = FALSE
    BY <1>7 DEF Resolve
  <2> QED
    BY <1>0, <1>2, <2>1 DEF EndInv
<1>8. CASE DetachRemoved
  <2>1. unplugged /\ voice' = FALSE /\ UNCHANGED <<resolves, unplugs, unplugged, ser, mm>>
    BY <1>8 DEF DetachRemoved, world, serv, daemon
  <2> QED
    BY <1>1, <1>2, <2>1 DEF EndInv, Ended
<1>9. CASE ModemUnplugged
  <2>1. unplugs' = unplugs + 1 /\ UNCHANGED <<call, last, voice, resolves, loop, serQ, ser>>
    BY <1>9 DEF ModemUnplugged, line, loopv, serv
  <2>2. (EndSeen' <=> EndSeen) /\ (EndTold' <=> EndTold)
    BY <2>1 DEF EndSeen, EndTold
  <2> QED
    BY <1>0, <1>1, <1>2, <2>1, <2>2 DEF EndInv, Ended
<1> QED
  BY <1>0, <1>3, <1>4, <1>5, <1>6, <1>7, <1>8, <1>9, EndSteps

LEMMA EndedInit == Init => EndedInv
<1> SUFFICES ASSUME Init PROVE EndInv
  BY LineInit, ApartInit DEF EndedInv
<1>1. serQ = <<>> /\ ser.k = "idle" /\ loop.k = "idle" /\ voice /\ ~ unplugged
  BY DEF Init, SerIdle, LoopIdle
<1> QED
  BY <1>1 DEF EndInv, EndSeen, EndTold, Has, Once

LEMMA EndedNext == EndedInv /\ [Next]_vars /\ [DialsFindLineIdle]_vars => EndedInv'
<1>1. [DialsFindLineIdle]_vars => [DialsFindLineFree]_vars
  BY DEF DialsFindLineIdle, DialsFindLineFree
<1> QED
  BY <1>1, LineNext, ApartNext, EndNext DEF EndedInv

\* What a step queues to a channel is of its own call.
LEMMA FramesNext == EndedInv /\ FramesFromOwnCall /\ [Next]_vars => FramesFromOwnCall'
<1> SUFFICES ASSUME EndedInv, FramesFromOwnCall, [Next]_vars, resolves' = 0, unplugs' = 0,
                    NEW c \in Calls, NEW f \in heard'[c]
             PROVE  f.call \in {None, c}
  BY DEF FramesFromOwnCall
<1>0. /\ ApartInv /\ TypeOK /\ resolves \in Nat /\ unplugs \in Nat
      /\ heard \in [Calls -> SUBSET Frames] /\ owner \in Calls \cup {None}
  BY CallsAssumption DEF EndedInv, ApartInv, TypeOK
<1>1. ASSUME NEW ch \in Calls \cup {None}, NEW ctl, NEW d, QueueFrame(ch, ctl, d),
             ch = c => d \in {None, c}, resolves = 0, unplugs = 0
      PROVE  f.call \in {None, c}
  <2>1. f \in heard[c] \/ (ch = c /\ f = [ctl |-> ctl, call |-> d])
    BY <1>0, <1>1 DEF QueueFrame
  <2> QED
    BY <1>1, <2>1 DEF FramesFromOwnCall
<1>2. CASE heard' = heard /\ resolves = 0 /\ unplugs = 0
  BY <1>2 DEF FramesFromOwnCall
<1>3. CASE LoopAct
  <2>1. resolves = 0 /\ unplugs = 0
    BY <1>3 DEF LoopAct, world
  <2>2. owner = c => loop.c = c
    <3>1. call = loop.c /\ loop.c \in Calls
      BY <1>0, <1>3, <2>1 DEF LoopAct, EndedInv, EndInv, TypeOK
    <3>2. owner = c => call \in {None, c}
      BY <1>0, CallsAssumption DEF ApartInv, CallMatchesOwner
    <3> QED
      BY <3>1, <3>2, CallsAssumption
  <2>3. heard' = heard \/ \E ctl \in {"PROCEEDING", "RINGING", "ANSWER", "HANGUP"} :
          QueueFrame(owner, ctl, loop.c)
    BY <1>3 DEF LoopAct
  <2> QED
    BY <1>0, <1>1, <1>2, <2>1, <2>2, <2>3
<1>4. ASSUME NEW d \in Calls, AnswerAccept(d) PROVE f.call \in {None, c}
  <2>1. snap[d] \in {None, d} /\ resolves = 0 /\ unplugs = 0
    BY <1>0, <1>4 DEF ApartInv, ActsOnOwnCall, AnswerAccept, world
  <2>2. heard' = heard \/ QueueFrame(d, "HANGUP", snap[d])
    BY <1>4 DEF AnswerAccept
  <2> QED
    BY <1>1, <1>2, <2>1, <2>2
<1>5. CASE DetachRemoved
  BY <1>0, <1>1, <1>5 DEF DetachRemoved, world
<1>6. CASE LoopSubscribe \/ LoopRecord \/ LoopSignal \/ LoopCallAdded
  BY <1>2, <1>6 DEF LoopSubscribe, LoopRecord, LoopSignal, LoopCallAdded, chans, world
<1>7. CASE SerNext
  BY <1>2, <1>7 DEF SerNext, SerAdded, SerAttach, SerReject, SerPbx, SerWaited, SerStart,
       SerTerminated, SerDelete, chans, world
<1>8. ASSUME NEW d \in Calls, ChannelNext(d) \/ NetworkRings(d), ~ AnswerAccept(d)
      PROVE  f.call \in {None, c}
  BY <1>2, <1>8 DEF ChannelNext, RequestCheck, RequestCreate, RequestAttach, RequestStart,
       AnswerBegin, HangupBegin, HangupCall, NetworkRings, chans, world
<1>9. ASSUME NEW d \in Calls, NEW s \in States, NetworkMoves(d, s) PROVE f.call \in {None, c}
  BY <1>2, <1>9 DEF NetworkMoves, chans, world
<1>10. ~ Resolve /\ ~ ModemUnplugged
  BY <1>0 DEF Resolve, ModemUnplugged
<1>11. CASE UNCHANGED vars
  BY <1>2, <1>11 DEF vars, chans, world
<1> QED
  BY <1>3, <1>4, <1>5, <1>6, <1>7, <1>8, <1>9, <1>10, <1>11 DEF Next, LoopNext

\* Between its decision and the owner it reads the GMainLoop thread holds no lock, but
\* what the serializer and a dial that finds the line idle do meanwhile never makes the
\* owner another call's channel.
THEOREM IdleLineFramesReachOwnCall ==
  Spec /\ [][DialsFindLineIdle]_vars => []FramesFromOwnCall
<1>1. EndedInv /\ [Next]_vars /\ [DialsFindLineIdle]_vars => EndedInv'
  BY EndedNext
<1>2. EndedInv /\ FramesFromOwnCall /\ [Next]_vars => FramesFromOwnCall'
  BY FramesNext
<1>3. Init => FramesFromOwnCall
  BY DEF Init, FramesFromOwnCall
<1> QED
  BY <1>1, <1>2, <1>3, EndedInit, PTL DEF Spec

\* Without dials, frames reach a channel from its own call only.
THEOREM FramesReachOwnCall ==
  ASSUME Dials = {}
  PROVE  Spec => []FramesFromOwnCall
<1>1. [Next]_vars => [DialsFindLineIdle]_vars
  BY DEF DialsFindLineIdle
<1> QED
  BY <1>1, IdleLineFramesReachOwnCall, PTL DEF Spec

\* task_call_terminated looks at the modem anew and deletes what it finds: until a
\* reload that is the call whose end queued it, however many calls come in meanwhile and
\* however many dials find the line idle.
THEOREM IdleLineDeletesTheEnded ==
  Spec /\ [][DialsFindLineIdle]_vars => DeletesOnlyTerminated
<1> DEFINE A == resolves = 0 => \A c \in Calls :
                  mm[c] \in LiveStates /\ mm'[c] = "deleted" => unplugs' > unplugs
<1>1. EndedInv /\ [Next]_vars => [A]_vars
  <2> SUFFICES ASSUME EndedInv, [Next]_vars, resolves = 0, NEW c \in Calls,
                      mm[c] \in LiveStates, mm'[c] = "deleted"
               PROVE  unplugs' > unplugs
    OBVIOUS
  <2>1. TypeOK /\ mm \in [Calls -> States] /\ unplugs \in Nat
    BY CallsAssumption DEF EndedInv, LineInv, TypeOK
  <2>2. mm'[c] /= mm[c]
    BY DEF LiveStates
  <2>3. ~ Advances
    <3> SUFFICES ASSUME Advances PROVE FALSE
      OBVIOUS
    <3>1. PICK d \in Calls, s \in States : mm' = [mm EXCEPT ![d] = s] /\ s /= "deleted"
      BY DEF Advances, MmMoves
    <3> QED
      BY <2>1, <2>2, <3>1
  <2>4. \A d \in Calls : ~ NetworkRings(d) /\ ~ RequestCreate(d)
    BY <2>1, <2>2 DEF NetworkRings, RequestCreate
  <2>5. SerDelete => FALSE
    <3> SUFFICES ASSUME SerDelete PROVE FALSE
      OBVIOUS
    <3>1. c = ser.c
      BY <2>1, <2>2 DEF SerDelete
    <3>2. Ended(ser.c)
      BY DEF SerDelete, EndedInv, EndInv
    <3> QED
      BY <3>1, <3>2 DEF Ended, LiveStates
  <2>6. mm' /= mm
    BY <2>2
  <2>7. ModemUnplugged
    BY <2>1, <2>3, <2>4, <2>5, <2>6, LineSteps
    DEF Passes, LoopSubscribe, LoopRecord, LoopSignal, LoopCallAdded, Attaches, Announces,
        Detaches, daemon
  <2> QED
    BY <2>1, <2>7 DEF ModemUnplugged
<1>2. EndedInv /\ [Next]_vars /\ [DialsFindLineIdle]_vars => EndedInv'
  BY EndedNext
<1> QED
  BY <1>1, <1>2, EndedInit, PTL DEF Spec, DeletesOnlyTerminated

\* Without dials, only the call whose end queued the task is deleted.
THEOREM DeletesTheEnded ==
  ASSUME Dials = {}
  PROVE  Spec => DeletesOnlyTerminated
<1>1. [Next]_vars => [DialsFindLineIdle]_vars
  BY DEF DialsFindLineIdle
<1> QED
  BY <1>1, IdleLineDeletesTheEnded, PTL DEF Spec

=============================================================================
