------------------------------ MODULE MmsPath ------------------------------
(***************************************************************************)
(* The data of an MMS on its way: from the payload of an SMS to the        *)
(* notification in it (WapPush), the transfer of the message from the MMSC *)
(* (src/src/mms/mms_fetch.c), its parts, of which the texts are joined and *)
(* the others are spooled to files (src/src/mms/mms_deliver.c), and the    *)
(* message the dialplan gets.                                              *)
(*                                                                         *)
(* Three threads: a modem's serializer looks at payloads, the MMS worker   *)
(* transfers and delivers, and a thread of Asterisk runs the dialplan for  *)
(* queued messages, which reads the files.  When a message is to be        *)
(* fetched, and what becomes of its SMS, is the business of MmsWorker.     *)
(***************************************************************************)
EXTENDS WapPush, SequencesExt

CONSTANTS
  Txns,        \* messages
  TxnId,       \* their transaction ids, sequences of characters
  Parts,       \* their parts: records [kind, id, last], last the chunk a part ends in
  Chunks,      \* how many chunks their transfer takes
  Plain,       \* the characters a file name may have: letters, digits, '.', '_', '-'
  IdMax,       \* sizeof(txn_safe) - 1
  MaxSize,     \* mms_max_size, in chunks
  Pushes,      \* payloads, as records [udh, tid, type, length, media, headers, body, cut]
  Usual,       \* bound: payloads that may come at any time; the others come first
  MmsMedia,    \* the ways to write the content type of MMS
  None,        \* NULL
  MaxDeliveries  \* bound: deliveries

ASSUME PathAssumption ==
  /\ None \notin Txns /\ None \notin Pushes
  /\ TxnId \in [Txns -> Seq(STRING)] /\ Chunks \in [Txns -> Nat \ {0}]
  /\ Parts \in [Txns -> Seq([kind : {"text", "binary", "smil"}, id : Seq(STRING), last : Nat])]
  /\ IdMax \in Nat \ {0} /\ MaxSize \in Nat /\ MaxDeliveries \in Nat

VARIABLES
  sms, found,  \* the payload looked at; where its notification was found
  pending,     \* messages that are to be fetched
  wpc, cur,    \* what the worker does, and for which message
  got,         \* chunks in the buffer of the transfer
  part,        \* the part whose turn it is
  draft,       \* the message being built: [txn, texts, files, unopened, short, nth]
  queue,       \* messages the dialplan has not read yet
  disk,        \* what the spool files contain, a function on their paths
  begun        \* history: the directories of the deliveries that were begun

intake   == <<sms, found>>
transfer == <<cur, got>>
delivery == <<part, draft>>
vars     == <<intake, pending, wpc, transfer, delivery, queue, disk, begun>>

Init ==
  /\ sms = None /\ found = {} /\ pending = {}
  /\ wpc = "idle" /\ cur = None /\ got = 0 /\ part = 0 /\ draft = None
  /\ queue = <<>> /\ disk = <<>> /\ begun = <<>>

-----------------------------------------------------------------------------
(* Payloads *)

\* A user data header, if there is one: information elements, with their lengths.
Udh(p) ==
  IF p.udh = None THEN <<>>
  ELSE LET all == FlattenSeq([i \in DOMAIN p.udh |->
                                <<p.udh[i].iei, Len(p.udh[i].data)>> \o p.udh[i].data])
       IN  <<Len(all)>> \o all

Headers(p) == p.media \o p.headers

\* The octets up to the headers; the length of the headers may be written with octets
\* to spare, or with more bits than a length has.
Envelope(p) ==
  LET n == Len(Headers(p)) IN
  Udh(p) \o <<p.tid, p.type>> \o CASE p.length = "minimal" -> <<n>>
                                   [] p.length = "padded"  -> <<128, 128, n>>
                                   [] p.length = "wrapped" -> <<144, 128, 128, 128, n>>

\* The last octets may have been lost.
Payload(p) ==
  LET all == Envelope(p) \o Headers(p) \o p.body IN SubSeq(all, 1, Len(all) - p.cut)

\* The serializer looks at a payload.
Receive(p) ==
  /\ sms = None /\ (p \in Usual \/ (pending = {} /\ begun = <<>>))
  /\ sms' = p /\ found' = Notification(Payload(p))
  /\ UNCHANGED <<pending, wpc, transfer, delivery, queue, disk, begun>>

\* mms_on_wap_push_sms: a notification announces a message, perhaps one that has been
\* delivered already; that one is not pending any more.
Announce ==
  /\ sms /= None /\ sms' = None /\ found' = {}
  /\ IF found = {} THEN UNCHANGED pending
                   ELSE \E t \in Txns : pending' = pending \cup {t}
  /\ UNCHANGED <<wpc, transfer, delivery, queue, disk, begun>>

-----------------------------------------------------------------------------
(* mms_http_fetch *)

FetchBegins(t) ==
  /\ wpc = "idle" /\ t \in pending /\ Len(begun) < MaxDeliveries
  /\ wpc' = "fetch" /\ cur' = t /\ got' = 0
  /\ UNCHANGED <<intake, pending, delivery, queue, disk, begun>>

\* Mutant: what exceeds the limit is dropped, and the transfer goes on.
ChunkDropped ==
  /\ wpc = "fetch" /\ got < Chunks[cur]
  /\ IF got + 1 > MaxSize THEN wpc' = "fetched" /\ UNCHANGED transfer
                          ELSE got' = got + 1 /\ UNCHANGED <<wpc, cur>>
  /\ UNCHANGED <<intake, pending, delivery, queue, disk, begun>>

\* write_cb: more than the limit ends the transfer.
Chunk ==
  /\ wpc = "fetch" /\ got < Chunks[cur]
  /\ IF got + 1 > MaxSize THEN wpc' = "idle" /\ cur' = None /\ got' = 0
                          ELSE got' = got + 1 /\ UNCHANGED <<wpc, cur>>
  /\ UNCHANGED <<intake, pending, delivery, queue, disk, begun>>

\* The transfer breaks or the status is not 200, at any chunk; the message stays
\* pending.
FetchFails ==
  /\ wpc = "fetch" /\ wpc' = "idle" /\ cur' = None /\ got' = 0
  /\ UNCHANGED <<intake, pending, delivery, queue, disk, begun>>

FetchEnds ==
  /\ wpc = "fetch" /\ got = Chunks[cur] /\ wpc' = "fetched"
  /\ UNCHANGED <<intake, pending, transfer, delivery, queue, disk, begun>>

-----------------------------------------------------------------------------
(* mms_deliver *)

\* sanitize, with room for size characters.
Sanitize(name, size) ==
  IF name = <<>> THEN <<"p", "a", "r", "t">>
  ELSE [i \in 1 .. (IF Len(name) < size THEN Len(name) ELSE size) |->
          IF name[i] \in Plain THEN name[i] ELSE "_"]

Dir(t) == Sanitize(TxnId[t], IdMax)

File(t, i, count) == <<Dir(t), count, Sanitize(Parts[t][i].id, IdMax)>>

\* fetched and decoded as a m-retrieve.conf.
DeliverBegins ==
  /\ wpc = "fetched" /\ wpc' = "parts" /\ part' = 1
  /\ draft' = [txn |-> cur, texts |-> <<>>, files |-> <<>>, unopened |-> {},
               short |-> {}, nth |-> Len(begun) + 1]
  /\ begun' = Append(begun, Dir(cur))
  /\ UNCHANGED <<intake, pending, transfer, queue, disk>>

AtPart(kinds) ==
  /\ wpc = "parts" /\ part <= Len(Parts[cur])
  /\ Parts[cur][part].last <= got /\ Parts[cur][part].kind \in kinds

\* A part that lies outside the body, or SMIL.
PartSkipped ==
  /\ wpc = "parts" /\ part <= Len(Parts[cur])
  /\ Parts[cur][part].last > got \/ Parts[cur][part].kind = "smil"
  /\ part' = part + 1
  /\ UNCHANGED <<intake, pending, wpc, transfer, draft, queue, disk, begun>>

TextPart ==
  /\ AtPart({"text"}) /\ part' = part + 1
  /\ draft' = [draft EXCEPT !.texts = Append(@, part)]
  /\ UNCHANGED <<intake, pending, wpc, transfer, queue, disk, begun>>

\* The directory or the file cannot be had ...
OpenFails ==
  /\ AtPart({"binary"}) /\ part' = part + 1
  /\ draft' = [draft EXCEPT !.unopened = @ \cup {part}]
  /\ UNCHANGED <<intake, pending, wpc, transfer, queue, disk, begun>>

Holds(path, what) == [p \in DOMAIN disk \cup {path} |-> IF p = path THEN what ELSE disk[p]]

\* ... or it is empty now, whatever it had, ...
Open ==
  /\ AtPart({"binary"}) /\ wpc' = "write"
  /\ disk' = Holds(File(cur, part, Len(draft.files)), [of |-> None, part |-> 0])
  /\ UNCHANGED <<intake, pending, transfer, delivery, queue, begun>>

\* ... and is written, all or not, and noted in the message, with the type of the part.
Write ==
  LET path == File(cur, part, Len(draft.files))
      note == [path |-> path, part |-> part] IN
  /\ wpc = "write" /\ wpc' = "parts" /\ part' = part + 1
  /\ \/ /\ disk' = Holds(path, [of |-> cur, part |-> part])
        /\ draft' = [draft EXCEPT !.files = Append(@, note)]
     \/ /\ draft' = [draft EXCEPT !.files = Append(@, note), !.short = @ \cup {part}]
        /\ UNCHANGED disk
  /\ UNCHANGED <<intake, pending, transfer, queue, begun>>

\* The message is queued, or thrown away: a variable could not be set, or the dialplan
\* has no place for it.  Its files stay either way.
Finish ==
  /\ wpc = "parts" /\ part > Len(Parts[cur])
  /\ wpc' = "idle" /\ pending' = pending \ {cur} /\ cur' = None /\ got' = 0
  /\ part' = 0 /\ draft' = None
  /\ queue' \in {Append(queue, draft), queue}
  /\ UNCHANGED <<intake, disk, begun>>

\* The dialplan has read the first message and its files.
DialplanReads ==
  /\ queue /= <<>> /\ queue' = Tail(queue)
  /\ UNCHANGED <<intake, pending, wpc, transfer, delivery, disk, begun>>

-----------------------------------------------------------------------------
Transfer == (\E t \in Txns : FetchBegins(t)) \/ Chunk \/ FetchFails \/ FetchEnds
Deliver  == \/ DeliverBegins \/ PartSkipped \/ TextPart \/ OpenFails \/ Open \/ Write
            \/ Finish

Next == (\E p \in Pushes : Receive(p)) \/ Announce \/ Transfer \/ Deliver \/ DialplanReads

Spec == Init /\ [][Next]_vars

-----------------------------------------------------------------------------
(* Properties *)

\* An element of a user data header that names the port a message is for, ...
NamesPort(e) == \/ e.iei = 5 /\ Len(e.data) = 4
                \/ e.iei = 4 /\ Len(e.data) = 2

\* ... and one that names the port of WAP pushes.
NamesOurs(e) == e.iei = 5 /\ Len(e.data) = 4 /\ SubSeq(e.data, 1, 2) = WspPushPort

\* What the module says of user data headers: "If a port-addressing IE *is* present but
\* names a port other than 2948, the payload is rejected outright" (mms_codec.h:115-117,
\* and so mms_codec.c:124-127).
Admitted(p) ==
  p.udh = None \/ \A i \in DOMAIN p.udh : NamesPort(p.udh[i]) => NamesOurs(p.udh[i])

\* Where it does otherwise: a wrong port is forgotten when an element behind it names the
\* right one, because each overwrites what the one before it said (mms_codec.c:163-171).
Overruled(p) ==
  /\ p.udh /= None
  /\ \E i, j \in DOMAIN p.udh :
       /\ i < j /\ NamesPort(p.udh[i]) /\ ~ NamesOurs(p.udh[i]) /\ NamesOurs(p.udh[j])
       /\ \A k \in DOMAIN p.udh : k > j => ~ NamesPort(p.udh[k])

\* A notification is found, and found where it is, in exactly those payloads that have
\* one and whose header the module means to admit, with or without a header, however
\* lengths and types are written and wherever the payload is cut off; and, against its
\* own words, behind a header whose wrong port is overruled, and there only.
PushFound ==
  sms /= None =>
    found = IF /\ Admitted(sms) \/ Overruled(sms)
               /\ sms.type \in PushTypes /\ sms.media \in MmsMedia
               /\ sms.cut + 2 <= Len(sms.body) /\ SubSeq(sms.body, 1, 2) = NotificationInd
            THEN {Len(Envelope(sms) \o Headers(sms)) + 1}
            ELSE {}

\* The parts of one kind that lie within the message.
PartsOf(t, kind) ==
  {i \in 1 .. Len(Parts[t]) : Parts[t][i].kind = kind /\ Parts[t][i].last <= Chunks[t]}

\* Numbers in order, and which they are.
Lists(s, numbers) ==
  ToSet(s) = numbers /\ \A i, j \in DOMAIN s : i < j => s[i] < s[j]

\* A message the dialplan gets is whole: it was transferred to its end, its body is its
\* texts in order, and it names one file, each with a path of its own, for every other
\* part whose file could be opened, in order.
MessageWhole ==
  \A m \in ToSet(queue) :
    /\ Lists(m.texts, PartsOf(m.txn, "text"))
    /\ Lists([i \in DOMAIN m.files |-> m.files[i].part], PartsOf(m.txn, "binary") \ m.unopened)
    /\ \A i, j \in DOMAIN m.files : m.files[i].path = m.files[j].path => i = j
    /\ \A i \in DOMAIN m.files : m.files[i].path \in DOMAIN disk

\* Until the dialplan has read a message its files hold its own parts, unless a message
\* whose sanitized id is the same is delivered after it.
FilesOwn ==
  \A m \in ToSet(queue) :
    (\A i \in m.nth + 1 .. Len(begun) : begun[i] /= Dir(m.txn)) =>
      \A i \in DOMAIN m.files :
        disk[m.files[i].path] = IF m.files[i].part \in m.short THEN [of |-> None, part |-> 0]
                                ELSE [of |-> m.txn, part |-> m.files[i].part]

\* What the dialplan reads is the message the MMSC sent, and nothing else.
MessageArrives == MessageWhole /\ FilesOwn
=============================================================================
