------------------------------ MODULE MmsInbox ------------------------------
(***************************************************************************)
(* What the MMS receive core promises, whatever its worker, its timers, a  *)
(* kick or a restart do: a message is known by the notification SMS that   *)
(* announces it, is taken in only from one that is on the modem, and none  *)
(* leaves the modem before the fate of the message is known.  So while a   *)
(* message that is not settled is pending one of its notifications is on   *)
(* the modem.                                                              *)
(***************************************************************************)
EXTENDS FiniteSets

CONSTANTS Keys,   \* messages
          Sms,    \* notification SMS
          KeyOf   \* the message each SMS announces, a function from Sms to Keys

VARIABLES
  place,     \* where an SMS is: "network", "modem" or "gone"
  pending,   \* messages that are to be fetched
  settled    \* messages that reached the dialplan, were refused by it, expired,
             \* or cannot be decoded

inbox == <<place, pending, settled>>

Announced(k) == \E s \in Sms : KeyOf[s] = k /\ place[s] = "modem"

Init == place = [s \in Sms |-> "network"] /\ pending = {} /\ settled = {}

Arrive(s) ==
  /\ place[s] = "network" /\ place' = [place EXCEPT ![s] = "modem"]
  /\ UNCHANGED <<pending, settled>>

\* A notification found on the modem, for the first time or again.
TakeIn(k) ==
  /\ k \notin pending /\ Announced(k) /\ pending' = pending \cup {k}
  /\ UNCHANGED <<place, settled>>

\* The fate of a message is decided while it is pending, or time decides it.
Conclude(k) ==
  /\ k \in pending /\ settled' = settled \cup {k} /\ pending' \in {pending, pending \ {k}}
  /\ UNCHANGED place

Expire(late) ==
  /\ late \subseteq Keys /\ settled' = settled \cup late /\ UNCHANGED <<place, pending>>

\* The budget is spent, the SIM has no mmsc any more, or the module goes down: the
\* message is not pending any more, whether it is settled or not.
GiveUp(dropped) ==
  /\ dropped \subseteq pending /\ pending' = pending \ dropped
  /\ UNCHANGED <<place, settled>>

Delete(s) ==
  /\ place[s] = "modem" /\ KeyOf[s] \in settled
  /\ place' = [place EXCEPT ![s] = "gone"]
  /\ UNCHANGED <<pending, settled>>

Next == \/ \E s \in Sms : Arrive(s) \/ Delete(s)
        \/ \E k \in Keys : TakeIn(k) \/ Conclude(k)
        \/ \E some \in SUBSET Keys : Expire(some) \/ GiveUp(some)

Spec == Init /\ [][Next]_inbox
=============================================================================
