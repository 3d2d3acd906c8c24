------------------------------ MODULE WapPush ------------------------------
(***************************************************************************)
(* How src/src/mms/mms_codec.c finds an MMS notification in the payload of *)
(* an SMS: mms_codec_wap_push_extract, its helpers, and the message type   *)
(* decode_as asks for.  A payload is a sequence of octets.                 *)
(*                                                                         *)
(* An operator that may fail returns the set of its results, which has one *)
(* element or none.  Places are indexes of the payload, from 1.            *)
(***************************************************************************)
EXTENDS Naturals, Sequences, FiniteSetsExt

PushTypes == {6, 7}                 \* Push, ConfirmedPush
WspPushPort == <<11, 132>>          \* 2948
NotificationInd == <<140, 130>>     \* X-Mms-Message-Type: m-notification-ind

\* application/vnd.wap.mms-message: the well-known value, and the text.  The
\* characters of a text are one octet here, with its zero after it.
MmsShort == 190
MmsText  == 97

\* Longer than any payload.
TooLong == 2^28

\* wsp_decode_uintvar: seven bits in each octet, the last has no top bit, at most
\* five octets.  What does not fit 32 bits is lost; what fits 32 bits and not 28 is
\* too long for any payload.
Bits(d, p, n) ==
  LET first == d[p] % (IF n = 5 THEN 16 ELSE 128)
      bits[i \in 1 .. n] ==
        IF i = 1 THEN first ELSE bits[i - 1] * 128 + (d[p + i - 1] % 128)
  IN  IF n = 5 /\ first > 0 THEN TooLong ELSE bits[n]

Uintvar(d, p) ==
  LET Ends(n) == /\ p + n - 1 <= Len(d) /\ d[p + n - 1] < 128
                 /\ \A i \in 0 .. n - 2 : d[p + i] >= 128
  IN  {[value |-> Bits(d, p, n), next |-> p + n] : n \in {m \in 1 .. 5 : Ends(m)}}

\* wsp_decode_content_type: where the content type at p ends, if it is that of MMS.
\* A field may be a value, or a length, in one form or the other, and a value; max
\* octets belong to it.
MediaEnd(d, p) ==
  CASE p <= Len(d) /\ d[p] = MmsShort                               -> {p + 1}
    [] p < Len(d) /\ d[p] = MmsText /\ d[p + 1] = 0                 -> {p + 2}
    [] OTHER                                                        -> {}

ContentTypeEnd(d, p, max) ==
  CASE d[p] <= 30 -> IF d[p] < max THEN MediaEnd(d, p + 1) ELSE {}
    [] d[p] = 31  -> UNION {MediaEnd(d, v.next) :
                            v \in {u \in Uintvar(SubSeq(d, 1, p + max - 1), p + 1) :
                                   u.next + u.value <= p + max}}
    [] OTHER      -> MediaEnd(d, p)

\* wsp_push_try_parse: where the body of the push begins.
PushBody(d) ==
  IF Len(d) < 3 \/ d[2] \notin PushTypes THEN {}
  ELSE {h.next + h.value :
        h \in {v \in Uintvar(d, 3) :
               /\ v.value \in 1 .. Len(d) + 1 - v.next
               /\ \E e \in ContentTypeEnd(d, v.next, v.value) : e <= v.next + v.value}}

\* udh_skip_len: how long the user data header is.  The information elements must
\* fill it, and the last one that names a port decides.  An 8-bit port is never 2948.
PortOf(d, p) ==
  CASE d[p] = 5 /\ d[p + 1] = 4 -> IF SubSeq(d, p + 2, p + 3) = WspPushPort
                                   THEN "ours" ELSE "other"
    [] d[p] = 4 /\ d[p + 1] = 2 -> "other"
    [] OTHER                    -> "none"

\* Mutant: the first one decides.
Earlier(first, rest) == IF first = "none" \/ rest = "malformed" THEN rest ELSE first

Later(first, rest) == IF rest = "none" THEN first ELSE rest

UdhSkip(d) ==
  LET end == d[1] + 2
      port[p \in 2 .. end] ==
        LET next == p + 2 + d[p + 1] IN
        CASE p = end                      -> "none"
          [] p = end - 1                  -> "malformed"
          [] p + 2 <= end /\ next > end   -> "malformed"
          [] p + 2 <= end /\ next <= end  -> Later(PortOf(d, p), port[next])
  IN  IF end - 1 <= Len(d) /\ port[2] \in {"none", "ours"} THEN {d[1] + 1} ELSE {}

\* mms_codec_wap_push_extract: without a user data header, or after it.
Extract(d) ==
  IF d = <<>> THEN {}
  ELSE IF PushBody(d) /= {} THEN PushBody(d)
  ELSE UNION {{skip + b : b \in PushBody(SubSeq(d, skip + 1, Len(d)))} :
              skip \in {s \in UdhSkip(d) : s < Len(d)}}

\* mms_codec_decode_notification: the body must say that it is a notification.
Notification(d) ==
  {b \in Extract(d) : b < Len(d) /\ SubSeq(d, b, b + 1) = NotificationInd}
=============================================================================
