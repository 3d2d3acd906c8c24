------------------------------- MODULE AtInit -------------------------------
(***************************************************************************)
(* The init commands of a modem: atinit_task and at_pick_port of           *)
(* src/src/atinit.c, which find a port that answers and run the commands   *)
(* on it, over the sessions of src/src/at_tty.c.  When the task is run is  *)
(* the business of Registry.                                               *)
(*                                                                         *)
(* The other side is the modem: it answers a command when it likes, after  *)
(* the task has stopped waiting or never, says unasked things in between,  *)
(* and may be unplugged.  What it says is a sequence of characters on the  *)
(* tty, which a read may cut anywhere; "n" ends a line.                    *)
(***************************************************************************)
EXTENDS Naturals, Sequences, FiniteSetsExt, SequencesExt

CONSTANTS
  Ports,      \* what mm_modem_get_ports may list: records [name, at]
  Primary,    \* the name of the primary port
  InitPorts,  \* what init_port may be: names, None when it is not set
  Commands,   \* how many init_commands there are
  Urcs,       \* what the modem says unasked: lines
  BufMax,     \* sizeof(buf) - 1
  Timeout,    \* AT_TIMEOUT_MS and AT_PROBE_TIMEOUT_MS, in ticks
  InputMax,   \* bound: characters that wait on a tty before the modem says more
  None        \* NULL

ASSUME AtAssumption ==
  /\ Commands \in Nat /\ BufMax \in Nat \ {0} /\ Timeout \in Nat /\ InputMax \in Nat
  /\ Ports \in Seq([name : STRING, at : BOOLEAN])

VARIABLES
  tpc,            \* what the task does
  candidates, fd, \* the ports it may still try, the one it has open
  cmd,            \* the command under way, 0 for the probe "AT"
  buf, left,      \* at_tty_command: buf, the ticks to its deadline
  log,            \* what at_tty_command returned for each command: 0, -1 or -2
  open,           \* the ttys this process has open
  input, owed,    \* of the open tty: what can be read, the commands not answered yet
  gone,           \* the modem is unplugged
  answers,        \* history: how the modem answered the commands of this session
  spoilt          \* history: an answer came late, or a part of a line was dropped

task    == <<tpc, candidates, cmd, log>>
session == <<fd, buf, left, open>>
modem   == <<input, owed, gone>>
history == <<answers, spoilt>>
vars    == <<task, session, modem, history>>

Probe == 0
Stale == Commands + 1       \* a command of an earlier session

OkLine    == <<"O", "K">>
ErrorLine == <<"E">>        \* ERROR, +CME ERROR or +CMS ERROR
Said(line) == <<"n">> \o line \o <<"n">>

\* What the modem says unasked is a line, and no final result code.
ASSUME UrcAssumption ==
  \A line \in Urcs : /\ line \in Seq(STRING) /\ line \notin {OkLine, ErrorLine}
                     /\ \A i \in DOMAIN line : line[i] /= "n"

Init ==
  /\ tpc = "start" /\ candidates = <<>> /\ fd = None /\ cmd = Probe
  /\ buf = <<>> /\ left = 0 /\ log = <<>> /\ open = {}
  /\ input = <<>> /\ owed = <<>> /\ gone = FALSE
  /\ answers = <<>> /\ spoilt = FALSE

-----------------------------------------------------------------------------
(* The modem *)

\* Commands are answered in order; how is recorded for those of this session.
Answer ==
  /\ fd /= None /\ ~ gone /\ owed /= <<>> /\ owed' = Tail(owed)
  /\ \E res \in {"ok", "error"} :
       /\ input' = input \o Said(IF res = "ok" THEN OkLine ELSE ErrorLine)
       /\ answers' = IF Head(owed) = Stale THEN answers ELSE Append(answers, res)
  /\ UNCHANGED <<task, session, gone, spoilt>>

Chatter ==
  /\ fd /= None /\ ~ gone /\ Len(input) < InputMax
  /\ \E line \in Urcs : input' = input \o Said(line)
  /\ UNCHANGED <<task, session, owed, gone, history>>

Unplug ==
  /\ ~ gone /\ gone' = TRUE
  /\ UNCHANGED <<task, session, input, owed, history>>

Tick ==
  /\ tpc = "wait" /\ left > 0 /\ left' = left - 1
  /\ UNCHANGED <<task, fd, buf, open, modem, history>>

-----------------------------------------------------------------------------
(* at_pick_port *)

\* atinit_task: init_port, or the AT ports that are not the primary one, in order.
\* Strings or the list of ports may not be had.
Start ==
  /\ tpc = "start" /\ tpc' = "pick"
  /\ \E port \in InitPorts :
       candidates' \in
         {<<>>, IF port /= None THEN <<port>>
                ELSE LET usable == SelectSeq(Ports, LAMBDA q : q.at /\ q.name /= Primary)
                     IN  [i \in DOMAIN usable |-> usable[i].name]}
  /\ UNCHANGED <<cmd, log, session, modem, history>>

NoPort ==
  /\ tpc = "pick" /\ candidates = <<>> /\ tpc' = "over"
  /\ UNCHANGED <<candidates, cmd, log, session, modem, history>>

\* Mutant: the tty is not flushed: an answer nobody read may be there.
OpenUnflushed ==
  /\ tpc = "pick" /\ candidates /= <<>>
  /\ candidates' = Tail(candidates) /\ UNCHANGED <<cmd, log, buf, left, gone>>
  /\ \/ UNCHANGED <<tpc, fd, open, input, owed, history>>
     \/ /\ ~ gone /\ tpc' = "send" /\ fd' = Head(candidates) /\ open' = open \cup {fd'}
        /\ input' \in {<<>>, Said(OkLine)} /\ owed' \in {<<>>, <<Stale>>}
        /\ answers' = <<>> /\ spoilt' = (owed' /= <<>>)

\* at_tty_open: another process may hold the tty.  What nobody read is flushed, what the
\* modem still owes to an earlier session is not.
Open ==
  /\ tpc = "pick" /\ candidates /= <<>>
  /\ candidates' = Tail(candidates) /\ UNCHANGED <<cmd, log, buf, left, gone>>
  /\ \/ UNCHANGED <<tpc, fd, open, input, owed, history>>
     \/ /\ ~ gone /\ tpc' = "send" /\ fd' = Head(candidates) /\ open' = open \cup {fd'}
        /\ input' = <<>> /\ owed' \in {<<>>, <<Stale>>}
        /\ answers' = <<>> /\ spoilt' = (owed' /= <<>>)

-----------------------------------------------------------------------------
(* at_tty_command *)

Send ==
  /\ tpc = "send" /\ ~ gone /\ tpc' = "wait" /\ buf' = <<>> /\ left' = Timeout
  /\ owed' = Append(owed, cmd)
  /\ UNCHANGED <<candidates, cmd, log, fd, open, input, gone, history>>

Close == open' = open \ {fd} /\ fd' = None

\* Mutant: a port that does not answer stays open.
ReturnsOpen(res) ==
  IF cmd = Probe /\ res /= 0
  THEN tpc' = "pick" /\ fd' = None /\ UNCHANGED <<cmd, log, open>>
  ELSE /\ cmd' = IF cmd < Commands THEN cmd + 1 ELSE Probe
       /\ log' = IF cmd = Probe THEN log ELSE Append(log, res)
       /\ IF cmd < Commands THEN tpc' = "send" /\ UNCHANGED <<fd, open>>
                            ELSE tpc' = "over" /\ Close

\* What at_tty_command returns: at_pick_port tries the next port when the probe fails,
\* atinit_task runs the next command whatever became of the last.
Returns(res) ==
  IF cmd = Probe /\ res /= 0
  THEN tpc' = "pick" /\ Close /\ UNCHANGED <<cmd, log>>
  ELSE /\ cmd' = IF cmd < Commands THEN cmd + 1 ELSE Probe
       /\ log' = IF cmd = Probe THEN log ELSE Append(log, res)
       /\ IF cmd < Commands THEN tpc' = "send" /\ UNCHANGED <<fd, open>>
                            ELSE tpc' = "over" /\ Close

\* The complete lines of a buffer, by where they end, and what is behind them.
Ends(b)    == {i \in DOMAIN b : b[i] = "n"}
Line(b, i) == SubSeq(b, Max({j \in Ends(b) : j < i} \cup {0}) + 1, i - 1)
Rest(b)    == SubSeq(b, Max(Ends(b) \cup {0}) + 1, Len(b))
Finals(b)  == {i \in Ends(b) : Line(b, i) \in {OkLine, ErrorLine}}

\* A read gets some of what is there.  The first line that is a final result ends the
\* command, and what was read behind it is lost; other lines are ignored, and the
\* beginning of one is kept unless it fills the buffer.
Read ==
  /\ tpc = "wait" /\ ~ gone /\ left > 0 /\ input /= <<>>
  /\ \E n \in 1 .. Len(input) :
       LET b == buf \o SubSeq(input, 1, n) IN
       /\ n <= BufMax - Len(buf)
       /\ input' = SubSeq(input, n + 1, Len(input))
       /\ IF Finals(b) /= {}
            THEN /\ Returns(IF Line(b, Min(Finals(b))) = OkLine THEN 0 ELSE -1)
                 /\ spoilt' = (spoilt \/ Rest(b) /= <<>>) /\ buf' = <<>> /\ left' = 0
            ELSE /\ buf' = IF Len(Rest(b)) >= BufMax THEN <<>> ELSE Rest(b)
                 /\ spoilt' = (spoilt \/ Len(Rest(b)) >= BufMax)
                 /\ UNCHANGED <<tpc, cmd, log, fd, open, left>>
  /\ UNCHANGED <<candidates, owed, gone, answers>>

\* The deadline, or an error of poll, read or write.
Fails ==
  /\ \/ tpc = "wait" /\ (left = 0 \/ gone)
     \/ tpc = "send" /\ gone
  /\ Returns(-2) /\ buf' = <<>> /\ left' = 0 /\ spoilt' = TRUE
  /\ UNCHANGED <<candidates, modem, answers>>

-----------------------------------------------------------------------------
TaskNext  == Start \/ NoPort \/ Open \/ Send \/ Read \/ Fails
ModemNext == Unplug \/ Answer \/ Chatter

Next == TaskNext \/ Tick \/ ModemNext

Spec == Init /\ [][Next]_vars

\* The task and the clock go on; the modem owes nothing.
Fairness == WF_vars(TaskNext) /\ WF_vars(Tick)

FairSpec == Spec /\ Fairness

-----------------------------------------------------------------------------
(* Properties *)

\* What at_tty_command returns is how the modem answered that command, until an answer
\* comes late, or a read takes the beginning of a line along with an answer or a line
\* is longer than the buffer; a port is used only after it answered the probe itself.
AnswersTrue ==
  ~ spoilt =>
    /\ cmd > Probe => Len(answers) >= 1 /\ answers[1] = "ok"
    /\ \A k \in DOMAIN log :
         log[k] \in {0, -1} => /\ k < Len(answers)
                               /\ answers[k + 1] = IF log[k] = 0 THEN "ok" ELSE "error"

\* The task, for which all other tasks of the modem wait, ends, whatever the modem does
\* or says, and has closed every port it tried.
TaskEnds == tpc = "start" ~> tpc = "over" /\ open = {}
=============================================================================
