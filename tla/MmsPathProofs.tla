---------------------------- MODULE MmsPathProofs ----------------------------
(***************************************************************************)
(* Proofs about MmsPath: whatever messages there are, of whatever parts    *)
(* and with whatever ids, what the dialplan gets is what was sent; and the *)
(* notification in a payload is found, whatever user data header and       *)
(* headers it has.                                                         *)
(***************************************************************************)
EXTENDS MmsPath, SequenceTheorems, FiniteSetTheorems, WellFoundedInduction, TLAPS

-----------------------------------------------------------------------------
(* The inductive invariant *)

Dirs   == {Dir(t) : t \in Txns}
Paths  == {File(t, i, n) : t \in Txns, i \in Nat, n \in Nat}
Drafts == [txn : Txns, texts : Seq(Nat), files : Seq([path : Paths, part : Nat]),
           unopened : SUBSET Nat, short : SUBSET Nat, nth : Nat]

Building == wpc \in {"parts", "write"}

\* Type correctness of what the worker and the dialplan use; a message that is built is
\* that of the delivery begun last, and was transferred to its end.
TypeOK ==
  /\ wpc \in {"idle", "fetch", "fetched", "parts", "write"}
  /\ wpc /= "idle" => cur \in Txns
  /\ got \in Nat /\ part \in Nat
  /\ wpc \in {"fetched", "parts", "write"} => got = Chunks[cur]
  /\ begun \in Seq(Dirs) /\ queue \in Seq(Drafts)
  /\ Building => /\ draft \in Drafts /\ draft.txn = cur
                 /\ part \in 1 .. Len(Parts[cur]) + 1
                 /\ draft.nth = Len(begun) /\ Len(begun) >= 1 /\ begun[Len(begun)] = Dir(cur)

\* The parts of one kind before the n-th.
Before(t, kind, n) == {i \in PartsOf(t, kind) : i < n}

\* A message has all parts before the n-th, in order, ...
Collected(m, n) ==
  /\ Lists(m.texts, Before(m.txn, "text", n))
  /\ Lists([i \in DOMAIN m.files |-> m.files[i].part], Before(m.txn, "binary", n) \ m.unopened)
  /\ m.unopened \subseteq 1 .. n - 1 /\ m.short \subseteq 1 .. n - 1

\* ... its files are numbered and on the disk d, ...
Named(m, d) ==
  \A i \in DOMAIN m.files :
    /\ m.files[i].path = File(m.txn, m.files[i].part, i - 1)
    /\ m.files[i].path \in DOMAIN d

\* ... and hold its parts.
Own(m, d) ==
  \A i \in DOMAIN m.files :
    d[m.files[i].path] = IF m.files[i].part \in m.short THEN [of |-> None, part |-> 0]
                         ELSE [of |-> m.txn, part |-> m.files[i].part]

Superseded(m, b) == \E i \in m.nth + 1 .. Len(b) : b[i] = Dir(m.txn)

DraftWhole == Building => Collected(draft, part) /\ Named(draft, disk) /\ Own(draft, disk)

\* A file that has been opened is empty until it is written.
Opened ==
  wpc = "write" =>
    LET path == File(cur, part, Len(draft.files)) IN
    /\ part \in PartsOf(cur, "binary")
    /\ path \in DOMAIN disk /\ disk[path] = [of |-> None, part |-> 0]

\* A message in the queue, while the delivery of another one may be under way.
Whole(m) ==
  /\ Collected(m, Len(Parts[m.txn]) + 1) /\ Named(m, disk)
  /\ Superseded(m, begun) \/ Own(m, disk)
  /\ m.nth <= Len(begun) /\ (Building => m.nth < Len(begun))

QueueWhole == \A i \in 1 .. Len(queue) : Whole(queue[i])

PathInv == TypeOK /\ DraftWhole /\ Opened /\ QueueWhole

-----------------------------------------------------------------------------
(* Lemmas *)

\* What PathAssumption says of the parts and chunks of a message.
LEMMA MessageParts ==
  ASSUME NEW t \in Txns
  PROVE  /\ Len(Parts[t]) \in Nat /\ Chunks[t] \in Nat
         /\ \A i \in 1 .. Len(Parts[t]) :
              Parts[t][i].kind \in {"text", "binary", "smil"} /\ Parts[t][i].last \in Nat
<1> DEFINE P == [kind : {"text", "binary", "smil"}, id : Seq(STRING), last : Nat]
<1>1. Parts[t] \in Seq(P) /\ Chunks[t] \in Nat
  BY PathAssumption
<1>2. Len(Parts[t]) \in Nat
  BY <1>1, LenProperties
<1>3. \A i \in 1 .. Len(Parts[t]) : Parts[t][i] \in P
  BY <1>1, ElementOfSeq
<1> QED
  BY <1>1, <1>2, <1>3

\* A number beyond those of a list goes to its end.
LEMMA ListsMore ==
  ASSUME NEW s, NEW p, NEW k \in Nat, NEW n \in Nat, NEW A \in SUBSET Nat,
         DOMAIN s = 1 .. k, DOMAIN p = 1 .. k + 1,
         \A i \in 1 .. k : p[i] = s[i], p[k + 1] = n,
         Lists(s, A), \A a \in A : a < n
  PROVE  Lists(p, A \cup {n})
<1>1. \A i : i \in 1 .. k + 1 <=> i \in 1 .. k \/ i = k + 1
  OBVIOUS
<1>2. ToSet(p) = A \cup {n}
  <2>1. ASSUME NEW x \in ToSet(p) PROVE x \in A \cup {n}
    BY <1>1, <2>1 DEF ToSet, Lists
  <2>2. ASSUME NEW x \in A PROVE x \in ToSet(p)
    <3>1. PICK i \in 1 .. k : s[i] = x
      BY DEF Lists, ToSet
    <3> QED
      BY <1>1, <3>1 DEF ToSet
  <2>3. n \in ToSet(p)
    BY <1>1 DEF ToSet
  <2> QED
    BY <2>1, <2>2, <2>3
<1>3. ASSUME NEW i \in DOMAIN p, NEW j \in DOMAIN p, i < j PROVE p[i] < p[j]
  <2>1. i \in 1 .. k
    BY <1>3
  <2>2. s[i] \in A
    BY <2>1 DEF Lists, ToSet
  <2>3. CASE j \in 1 .. k
    BY <2>1, <2>3, <1>3 DEF Lists
  <2>4. CASE j = k + 1
    BY <2>1, <2>2, <2>4
  <2> QED
    BY <1>1, <2>3, <2>4
<1> QED
  BY <1>2, <1>3 DEF Lists

\* The parts before the next one.
LEMMA BeforeNext ==
  ASSUME NEW t \in Txns, NEW kind, NEW n \in Nat
  PROVE  /\ Before(t, kind, n) \in SUBSET Nat /\ \A i \in Before(t, kind, n) : i < n
         /\ n \in PartsOf(t, kind) => Before(t, kind, n + 1) = Before(t, kind, n) \cup {n}
         /\ n \notin PartsOf(t, kind) => Before(t, kind, n + 1) = Before(t, kind, n)
         /\ n = Len(Parts[t]) + 1 => Before(t, kind, n) = PartsOf(t, kind)
<1>1. PartsOf(t, kind) \subseteq Nat /\ \A i \in PartsOf(t, kind) : i < Len(Parts[t]) + 1
  BY MessageParts DEF PartsOf
<1> QED
  BY <1>1 DEF Before

\* Writing another file changes nothing about a message.
LEMMA OtherFile ==
  ASSUME NEW m, NEW d, NEW path, NEW what, Named(m, d),
         \A i \in DOMAIN m.files : m.files[i].path /= path
  PROVE  LET h == [p \in DOMAIN d \cup {path} |-> IF p = path THEN what ELSE d[p]]
         IN  Named(m, h) /\ (Own(m, d) => Own(m, h))
BY DEF Named, Own

\* Messages of different directories have different files, as have different files of one.
LEMMA FilesDiffer ==
  ASSUME NEW t, NEW u, NEW i, NEW j, NEW n, NEW k
  PROVE  /\ Dir(t) /= Dir(u) => File(t, i, n) /= File(u, j, k)
         /\ n /= k => File(t, i, n) /= File(u, j, k)
BY DEF File

\* What is in a draft.
LEMMA DraftFields ==
  ASSUME NEW m \in Drafts
  PROVE  /\ m.txn \in Txns /\ m.texts \in Seq(Nat) /\ Len(m.texts) \in Nat
         /\ DOMAIN m.texts = 1 .. Len(m.texts)
         /\ m.files \in Seq([path : Paths, part : Nat]) /\ Len(m.files) \in Nat
         /\ DOMAIN m.files = 1 .. Len(m.files)
         /\ m.unopened \subseteq Nat /\ m.short \subseteq Nat /\ m.nth \in Nat
<1>1. /\ m.txn \in Txns /\ m.texts \in Seq(Nat) /\ m.files \in Seq([path : Paths, part : Nat])
      /\ m.unopened \subseteq Nat /\ m.short \subseteq Nat /\ m.nth \in Nat
  BY DEF Drafts
<1> QED
  BY <1>1, LenProperties

-----------------------------------------------------------------------------
(* Type correctness *)

\* The initial state.
LEMMA PathInit == Init => PathInv
<1> SUFFICES ASSUME Init PROVE PathInv
  OBVIOUS
<1>1. begun \in Seq(Dirs) /\ queue \in Seq(Drafts) /\ Len(queue) = 0
  BY EmptySeq DEF Init
<1>2. wpc = "idle" /\ got \in Nat /\ part \in Nat
  BY DEF Init
<1>3. TypeOK
  BY <1>1, <1>2 DEF TypeOK, Building
<1>4. QueueWhole
  BY <1>1 DEF QueueWhole
<1> QED
  BY <1>2, <1>3, <1>4 DEF PathInv, DraftWhole, Opened, Building

\* What becomes of the message that is built.
LEMMA DraftStep ==
  ASSUME TypeOK, Building, NEW n \in Nat, NEW path \in Paths
  PROVE  LET note == [path |-> path, part |-> n] IN
         /\ [draft EXCEPT !.texts = Append(@, n)] \in Drafts
         /\ [draft EXCEPT !.unopened = @ \cup {n}] \in Drafts
         /\ [draft EXCEPT !.files = Append(@, note)] \in Drafts
         /\ [draft EXCEPT !.files = Append(@, note), !.short = @ \cup {n}] \in Drafts
<1> DEFINE note == [path |-> path, part |-> n]
<1>1. draft \in Drafts
  BY DEF TypeOK
<1>2. Append(draft.texts, n) \in Seq(Nat)
  BY <1>1, DraftFields, AppendProperties
<1>3. Append(draft.files, note) \in Seq([path : Paths, part : Nat])
  <2>1. note \in [path : Paths, part : Nat]
    OBVIOUS
  <2> HIDE DEF note
  <2> QED
    BY <1>1, <2>1, DraftFields, AppendProperties
<1>4. draft.unopened \cup {n} \in SUBSET Nat /\ draft.short \cup {n} \in SUBSET Nat
  BY <1>1, DraftFields
<1> HIDE DEF note
<1>5. /\ [draft EXCEPT !.texts = Append(@, n)] \in Drafts
      /\ [draft EXCEPT !.unopened = @ \cup {n}] \in Drafts
  BY <1>1, <1>2, <1>4 DEF Drafts
<1>6. /\ [draft EXCEPT !.files = Append(@, note)] \in Drafts
      /\ [draft EXCEPT !.files = Append(@, note), !.short = @ \cup {n}] \in Drafts
  BY <1>1, <1>3, <1>4 DEF Drafts
<1> QED
  BY <1>5, <1>6 DEF note

\* Every action keeps the types.
LEMMA TypeStep == ASSUME TypeOK, Opened, [Next]_vars PROVE TypeOK'
<1>a. ASSUME Building
      PROVE  draft \in Drafts /\ draft.txn = cur /\ cur \in Txns /\ Len(Parts[cur]) \in Nat
  BY <1>a, MessageParts DEF TypeOK, Building
<1>1. ASSUME NEW p \in Pushes, Receive(p) PROVE TypeOK'
  BY <1>1 DEF Receive, TypeOK, Building, transfer, delivery
<1>2. CASE Announce
  BY <1>2 DEF Announce, TypeOK, Building, transfer, delivery
<1>3. ASSUME NEW t \in Txns, FetchBegins(t) PROVE TypeOK'
  BY <1>3 DEF FetchBegins, TypeOK, Building, delivery
<1>4. CASE Chunk
  BY <1>4 DEF Chunk, TypeOK, Building, transfer, delivery
<1>5. CASE FetchFails
  BY <1>5 DEF FetchFails, TypeOK, Building, delivery
<1>6. CASE FetchEnds
  BY <1>6 DEF FetchEnds, TypeOK, Building, transfer, delivery
<1>7. CASE DeliverBegins
  <2>1. /\ wpc = "fetched" /\ wpc' = "parts" /\ part' = 1 /\ begun' = Append(begun, Dir(cur))
        /\ UNCHANGED <<cur, got, queue>> /\ cur \in Txns /\ got = Chunks[cur]
    BY <1>7 DEF DeliverBegins, transfer, TypeOK
  <2>2. /\ begun' \in Seq(Dirs) /\ Len(begun') = Len(begun) + 1 /\ Len(begun) \in Nat
        /\ begun'[Len(begun) + 1] = Dir(cur)
    <3>1. Dir(cur) \in Dirs /\ begun \in Seq(Dirs)
      BY <2>1 DEF Dirs, TypeOK
    <3> HIDE DEF Dirs
    <3> QED
      BY <2>1, <3>1, AppendProperties, LenProperties
  <2>3. draft' \in Drafts /\ draft'.txn = cur /\ draft'.nth = Len(begun) + 1
    <3>1. <<>> \in Seq(Nat) /\ <<>> \in Seq([path : Paths, part : Nat])
      BY EmptySeq
    <3> QED
      BY <1>7, <2>1, <2>2, <3>1 DEF DeliverBegins, Drafts
  <2>4. 1 \in 1 .. Len(Parts[cur]) + 1
    BY <2>1, MessageParts
  <2> QED
    BY <2>1, <2>2, <2>3, <2>4 DEF TypeOK, Building
<1>8. CASE PartSkipped \/ TextPart \/ OpenFails
  <2>1. /\ wpc = "parts" /\ part <= Len(Parts[cur]) /\ part' = part + 1
        /\ UNCHANGED <<wpc, cur, got, begun, queue>>
    BY <1>8 DEF PartSkipped, TextPart, OpenFails, AtPart, transfer
  <2>2. draft' \in Drafts /\ draft'.txn = cur /\ draft'.nth = draft.nth
    <3> DEFINE path == File(cur, 0, 0)
    <3>0. cur \in Txns
      BY <1>a, <2>1 DEF Building
    <3>1. path \in Paths
      BY <3>0 DEF Paths
    <3> HIDE DEF path
    <3>2. draft' \in Drafts
      BY <1>8, <1>a, <2>1, <3>1, DraftStep
         DEF PartSkipped, TextPart, OpenFails, Building, TypeOK
    <3>3. draft'.txn = draft.txn /\ draft'.nth = draft.nth
      BY <1>8, <1>a, <2>1 DEF PartSkipped, TextPart, OpenFails, Building, Drafts
    <3> QED
      BY <1>a, <2>1, <3>2, <3>3 DEF Building
  <2>3. part + 1 \in 1 .. Len(Parts[cur]) + 1
    BY <2>1, <1>a DEF TypeOK, Building
  <2> QED
    BY <2>1, <2>2, <2>3 DEF TypeOK, Building
<1>9. CASE Open
  <2>1. wpc = "parts" /\ wpc' = "write" /\ UNCHANGED <<cur, got, part, draft, queue, begun>>
    BY <1>9 DEF Open, AtPart, transfer, delivery
  <2> QED
    BY <2>1 DEF TypeOK, Building
<1>10. CASE Write
  <2> DEFINE path == File(cur, part, Len(draft.files))
  <2>1. /\ wpc = "write" /\ wpc' = "parts" /\ part' = part + 1
        /\ UNCHANGED <<cur, got, begun, queue>>
    BY <1>10 DEF Write, transfer
  <2>2. /\ draft \in Drafts /\ draft.txn = cur /\ part \in Nat /\ Len(draft.files) \in Nat
        /\ cur \in Txns
    BY <1>a, <2>1, DraftFields DEF Building, TypeOK
  <2>3. path \in Paths
    BY <2>2 DEF Paths
  <2>4. draft' \in Drafts
    BY <1>10, <2>1, <2>2, <2>3, DraftStep DEF Write, Building
  <2>5. draft'.txn = cur /\ draft'.nth = draft.nth
    <3> HIDE DEF path
    <3>1. draft'.txn = draft.txn /\ draft'.nth = draft.nth
      BY <1>10, <2>2 DEF Write, Drafts
    <3> QED
      BY <2>2, <3>1
  <2>6. part + 1 \in 1 .. Len(Parts[cur]) + 1
    <3>1. part \in 1 .. Len(Parts[cur])
      BY <2>1 DEF Opened, PartsOf
    <3> QED
      BY <3>1, <2>2, MessageParts
  <2> HIDE DEF path
  <2> QED
    BY <2>1, <2>4, <2>5, <2>6 DEF TypeOK, Building
<1>11. CASE Finish
  <2>1. /\ wpc = "parts" /\ wpc' = "idle" /\ got' = 0 /\ part' = 0 /\ UNCHANGED begun
        /\ queue' \in {Append(queue, draft), queue} /\ draft \in Drafts
    BY <1>11, <1>a DEF Finish, Building
  <2>2. queue' \in Seq(Drafts)
    BY <2>1, AppendProperties DEF TypeOK
  <2> QED
    BY <2>1, <2>2 DEF TypeOK, Building
<1>12. CASE DialplanReads
  <2>1. queue' \in Seq(Drafts)
    BY <1>12, HeadTailProperties DEF DialplanReads, TypeOK
  <2> QED
    BY <1>12, <2>1 DEF DialplanReads, TypeOK, Building, transfer, delivery
<1>13. CASE UNCHANGED vars
  BY <1>13 DEF vars, transfer, delivery, TypeOK, Building
<1> QED
  BY <1>1, <1>2, <1>3, <1>4, <1>5, <1>6, <1>7, <1>8, <1>9, <1>10, <1>11, <1>12, <1>13
     DEF Next, Transfer, Deliver

-----------------------------------------------------------------------------
(* The message that is built *)

\* The message with all parts before the one whose turn it is, with one more text.
LEMMA TextCollected ==
  ASSUME NEW m \in Drafts, NEW n \in Nat \ {0}, Collected(m, n), n \in PartsOf(m.txn, "text"),
         n \notin PartsOf(m.txn, "binary")
  PROVE  Collected([m EXCEPT !.texts = Append(@, n)], n + 1)
<1> DEFINE q == [m EXCEPT !.texts = Append(@, n)]
<1>1. /\ q.txn = m.txn /\ q.texts = Append(m.texts, n) /\ q.files = m.files
      /\ q.unopened = m.unopened /\ q.short = m.short
  BY DEF Drafts
<1> HIDE DEF q
<1>2. /\ m.txn \in Txns /\ m.texts \in Seq(Nat) /\ Len(m.texts) \in Nat
      /\ DOMAIN m.texts = 1 .. Len(m.texts)
  BY DraftFields
<1>3. Lists(q.texts, Before(m.txn, "text", n + 1))
  <2> DEFINE k == Len(m.texts)
             s == m.texts
             p == Append(m.texts, n)
             A == Before(m.txn, "text", n)
  <2>1. /\ DOMAIN p = 1 .. k + 1 /\ p[k + 1] = n /\ \A i \in 1 .. k : p[i] = s[i]
    BY <1>2, AppendProperties, LenProperties
  <2>2. A \in SUBSET Nat /\ (\A a \in A : a < n) /\ Before(m.txn, "text", n + 1) = A \cup {n}
    BY <1>2, BeforeNext
  <2>3. Lists(s, A) /\ DOMAIN s = 1 .. k /\ k \in Nat
    BY <1>2 DEF Collected
  <2> HIDE DEF k, s, p, A
  <2>4. Lists(p, A \cup {n})
    BY <2>1, <2>2, <2>3, ListsMore
  <2> QED
    BY <1>1, <2>2, <2>4 DEF p
<1>4. Before(m.txn, "binary", n + 1) = Before(m.txn, "binary", n)
  BY <1>2, BeforeNext
<1>5. 1 .. n - 1 \subseteq 1 .. (n + 1) - 1
  OBVIOUS
<1> QED
  BY <1>1, <1>3, <1>4, <1>5 DEF Collected, q

\* A part that is left out: it is none of the message's own kinds.
LEMMA SkipCollected ==
  ASSUME NEW m \in Drafts, NEW n \in Nat \ {0}, Collected(m, n),
         n \notin PartsOf(m.txn, "text"), n \notin PartsOf(m.txn, "binary")
  PROVE  Collected(m, n + 1)
<1>1. /\ Before(m.txn, "text", n + 1) = Before(m.txn, "text", n)
      /\ Before(m.txn, "binary", n + 1) = Before(m.txn, "binary", n)
  BY DraftFields, BeforeNext
<1>2. 1 .. n - 1 \subseteq 1 .. (n + 1) - 1
  OBVIOUS
<1> QED
  BY <1>1, <1>2 DEF Collected

\* A part whose file cannot be opened.
LEMMA UnopenedCollected ==
  ASSUME NEW m \in Drafts, NEW n \in Nat \ {0}, Collected(m, n),
         n \notin PartsOf(m.txn, "text")
  PROVE  Collected([m EXCEPT !.unopened = @ \cup {n}], n + 1)
<1> DEFINE q == [m EXCEPT !.unopened = @ \cup {n}]
<1>1. /\ q.txn = m.txn /\ q.texts = m.texts /\ q.files = m.files
      /\ q.unopened = m.unopened \cup {n} /\ q.short = m.short
  BY DEF Drafts
<1> HIDE DEF q
<1>2. Before(m.txn, "text", n + 1) = Before(m.txn, "text", n)
  BY DraftFields, BeforeNext
<1>3. Before(m.txn, "binary", n + 1) \ q.unopened = Before(m.txn, "binary", n) \ m.unopened
  <2>1. /\ Before(m.txn, "binary", n + 1) \in {Before(m.txn, "binary", n),
                                               Before(m.txn, "binary", n) \cup {n}}
        /\ n \notin Before(m.txn, "binary", n)
    BY DraftFields, BeforeNext
  <2> QED
    BY <1>1, <2>1
<1>4. 1 .. n - 1 \subseteq 1 .. (n + 1) - 1 /\ n \in 1 .. (n + 1) - 1
  OBVIOUS
<1> QED
  BY <1>1, <1>2, <1>3, <1>4 DEF Collected, q

\* A part that is written to a file, all of it or not.
LEMMA FileCollected ==
  ASSUME NEW m \in Drafts, NEW n \in Nat \ {0}, Collected(m, n), NEW path,
         n \notin PartsOf(m.txn, "text"), n \in PartsOf(m.txn, "binary"), NEW q \in Drafts,
         q.txn = m.txn, q.texts = m.texts, q.unopened = m.unopened,
         q.short \subseteq m.short \cup {n},
         q.files = Append(m.files, [path |-> path, part |-> n])
  PROVE  Collected(q, n + 1)
<1>1. Before(m.txn, "text", n + 1) = Before(m.txn, "text", n)
  BY DraftFields, BeforeNext
<1>2. Lists([i \in DOMAIN q.files |-> q.files[i].part],
            Before(m.txn, "binary", n + 1) \ m.unopened)
  <2> DEFINE k    == Len(m.files)
             s    == [i \in DOMAIN m.files |-> m.files[i].part]
             p    == [i \in DOMAIN q.files |-> q.files[i].part]
             A    == Before(m.txn, "binary", n) \ m.unopened
             note == [path |-> path, part |-> n]
  <2>1. /\ m.files \in Seq([path : Paths, part : Nat]) /\ k \in Nat
        /\ DOMAIN m.files = 1 .. k /\ DOMAIN q.files = 1 .. Len(q.files)
        /\ q.files \in Seq([path : Paths, part : Nat])
    BY DraftFields
  <2>2. /\ Len(q.files) = k + 1 /\ q.files[k + 1] = note
        /\ \A i \in 1 .. k : q.files[i] = m.files[i]
    <3>1. note.part = n
      OBVIOUS
    <3> HIDE DEF note
    <3>2. m.files \in Seq([path : Paths, part : Nat] \cup {note})
      <4> DEFINE P == [path : Paths, part : Nat]
      <4>1. m.files \in Seq(P)
        BY <2>1
      <4> HIDE DEF P
      <4>2. m.files \in Seq(P \cup {note})
        BY <4>1, SeqDef
      <4> QED
        BY <4>2 DEF P
    <3>3. q.files = Append(m.files, note)
      BY DEF note
    <3> QED
      BY <3>2, <3>3, AppendProperties
  <2>3. /\ DOMAIN s = 1 .. k /\ DOMAIN p = 1 .. k + 1 /\ p[k + 1] = n
        /\ \A i \in 1 .. k : p[i] = s[i]
    BY <2>1, <2>2
  <2>4. /\ A \in SUBSET Nat /\ (\A a \in A : a < n)
        /\ Before(m.txn, "binary", n + 1) = Before(m.txn, "binary", n) \cup {n}
    <3>1. m.txn \in Txns
      BY DraftFields
    <3>2. /\ Before(m.txn, "binary", n) \in SUBSET Nat
          /\ \A a \in Before(m.txn, "binary", n) : a < n
      BY <3>1, BeforeNext
    <3>3. Before(m.txn, "binary", n + 1) = Before(m.txn, "binary", n) \cup {n}
      BY <3>1, BeforeNext
    <3> QED
      BY <3>2, <3>3
  <2>5. n \notin m.unopened
    BY DEF Collected
  <2>6. Before(m.txn, "binary", n + 1) \ m.unopened = A \cup {n}
    BY <2>4, <2>5
  <2>7. Lists(s, A)
    BY DEF Collected
  <2> HIDE DEF k, s, p, A
  <2>8. Lists(p, A \cup {n})
    BY <2>1, <2>3, <2>4, <2>7, ListsMore
  <2> QED
    BY <2>6, <2>8 DEF p
<1>3. 1 .. n - 1 \subseteq 1 .. (n + 1) - 1 /\ n \in 1 .. (n + 1) - 1
  OBVIOUS
<1> QED
  BY <1>1, <1>2, <1>3 DEF Collected

\* Every action builds the message further, or leaves it as it is.
LEMMA DraftWholeStep ==
  ASSUME PathInv, [Next]_vars PROVE DraftWhole'
<1> USE DEF PathInv
<1>a. ASSUME Building
      PROVE  /\ draft \in Drafts /\ draft.txn = cur /\ cur \in Txns /\ part \in Nat \ {0}
             /\ Len(Parts[cur]) \in Nat /\ got = Chunks[cur]
             /\ Collected(draft, part) /\ Named(draft, disk) /\ Own(draft, disk)
  BY <1>a, MessageParts DEF TypeOK, Building, DraftWhole
<1>b. ASSUME UNCHANGED <<cur, part, draft, disk>>, Building' => Building PROVE DraftWhole'
  BY <1>b DEF DraftWhole
<1>1. ASSUME NEW p \in Pushes, Receive(p) PROVE DraftWhole'
  BY <1>1, <1>b DEF Receive, Building, transfer, delivery
<1>2. CASE Announce \/ DialplanReads
  BY <1>2, <1>b DEF Announce, DialplanReads, Building, transfer, delivery
<1>3. CASE (\E t \in Txns : FetchBegins(t)) \/ Chunk \/ FetchFails \/ FetchEnds \/ Finish
  <2>1. wpc' \notin {"parts", "write"}
    BY <1>3 DEF FetchBegins, Chunk, FetchFails, FetchEnds, Finish
  <2> QED
    BY <2>1 DEF DraftWhole, Building
<1>4. CASE DeliverBegins
  <2>1. /\ part' = 1 /\ draft'.txn = cur /\ draft'.texts = <<>> /\ draft'.files = <<>>
        /\ draft'.unopened = {} /\ draft'.short = {} /\ cur \in Txns
    BY <1>4 DEF DeliverBegins, TypeOK
  <2>2. \A kind : Before(cur, kind, 1) = {}
    BY DEF Before, PartsOf
  <2>3. DOMAIN <<>> = {} /\ ToSet(<<>>) = {}
    BY EmptySeq DEF ToSet
  <2>4. ToSet([i \in {} |-> <<>>[i].part]) = {}
    BY DEF ToSet
  <2>5. Lists(<<>>, {}) /\ Lists([i \in {} |-> <<>>[i].part], {})
    BY <2>3, <2>4 DEF Lists
  <2>6. Collected(draft', 1)
    BY <2>1, <2>2, <2>3, <2>5 DEF Collected
  <2>7. Named(draft', disk') /\ Own(draft', disk')
    BY <2>1, <2>3 DEF Named, Own
  <2> QED
    BY <2>1, <2>6, <2>7 DEF DraftWhole
<1>5. CASE PartSkipped
  <2>1. /\ wpc = "parts" /\ part <= Len(Parts[cur]) /\ part' = part + 1
        /\ Parts[cur][part].last > got \/ Parts[cur][part].kind = "smil"
        /\ UNCHANGED <<wpc, draft, disk>>
    BY <1>5 DEF PartSkipped
  <2>2. Building
    BY <2>1 DEF Building
  <2>3. part \notin PartsOf(cur, "text") /\ part \notin PartsOf(cur, "binary")
    BY <2>1, <2>2, <1>a, MessageParts DEF PartsOf
  <2>4. Collected(draft, part + 1)
    BY <2>2, <2>3, <1>a, SkipCollected
  <2> QED
    BY <2>1, <2>2, <2>4, <1>a DEF DraftWhole
<1>6. CASE TextPart
  <2>1. /\ wpc = "parts" /\ part <= Len(Parts[cur]) /\ part' = part + 1
        /\ Parts[cur][part].last <= got /\ Parts[cur][part].kind = "text"
        /\ draft' = [draft EXCEPT !.texts = Append(@, part)] /\ UNCHANGED <<wpc, disk>>
    BY <1>6 DEF TextPart, AtPart
  <2>2. Building
    BY <2>1 DEF Building
  <2>3. part \in PartsOf(cur, "text") /\ part \notin PartsOf(cur, "binary")
    BY <2>1, <2>2, <1>a, MessageParts DEF PartsOf
  <2>4. Collected(draft', part + 1)
    BY <2>1, <2>2, <2>3, <1>a, TextCollected
  <2>5. draft'.txn = draft.txn /\ draft'.files = draft.files /\ draft'.short = draft.short
    BY <2>1, <2>2, <1>a DEF Drafts
  <2>6. Named(draft', disk') /\ Own(draft', disk')
    BY <2>1, <2>2, <2>5, <1>a DEF Named, Own
  <2> QED
    BY <2>1, <2>4, <2>6 DEF DraftWhole
<1>7. CASE OpenFails
  <2>1. /\ wpc = "parts" /\ part <= Len(Parts[cur]) /\ part' = part + 1
        /\ Parts[cur][part].kind = "binary"
        /\ draft' = [draft EXCEPT !.unopened = @ \cup {part}] /\ UNCHANGED <<wpc, disk>>
    BY <1>7 DEF OpenFails, AtPart
  <2>2. Building
    BY <2>1 DEF Building
  <2>3. part \notin PartsOf(cur, "text")
    BY <2>1 DEF PartsOf
  <2>4. Collected(draft', part + 1)
    BY <2>1, <2>2, <2>3, <1>a, UnopenedCollected
  <2>5. draft'.txn = draft.txn /\ draft'.files = draft.files /\ draft'.short = draft.short
    BY <2>1, <2>2, <1>a DEF Drafts
  <2>6. Named(draft', disk') /\ Own(draft', disk')
    BY <2>1, <2>2, <2>5, <1>a DEF Named, Own
  <2> QED
    BY <2>1, <2>4, <2>6 DEF DraftWhole
<1>8. ASSUME Building, NEW path, NEW what, path = File(cur, part, Len(draft.files)),
             disk' = Holds(path, what)
      PROVE  Named(draft, disk') /\ Own(draft, disk')
  <2>1. \A i \in DOMAIN draft.files : draft.files[i].path /= path
    <3> SUFFICES ASSUME NEW i \in DOMAIN draft.files PROVE draft.files[i].path /= path
      OBVIOUS
    <3>1. draft.files[i].path = File(cur, draft.files[i].part, i - 1)
      BY <1>8, <1>a DEF Named
    <3>2. i - 1 /= Len(draft.files)
      BY <1>8, <1>a, DraftFields
    <3> QED
      BY <1>8, <3>1, <3>2, FilesDiffer
  <2>2. disk' = [p \in DOMAIN disk \cup {path} |-> IF p = path THEN what ELSE disk[p]]
    BY <1>8 DEF Holds
  <2> DEFINE h == [p \in DOMAIN disk \cup {path} |-> IF p = path THEN what ELSE disk[p]]
  <2>3. Named(draft, h) /\ (Own(draft, disk) => Own(draft, h))
    <3>1. Named(draft, disk)
      BY <1>8, <1>a
    <3> QED
      BY <2>1, <3>1, OtherFile
  <2> HIDE DEF h
  <2> QED
    BY <1>8, <1>a, <2>2, <2>3 DEF h
<1>9. CASE Open
  <2>1. /\ wpc = "parts" /\ UNCHANGED <<cur, part, draft>>
        /\ disk' = Holds(File(cur, part, Len(draft.files)), [of |-> None, part |-> 0])
    BY <1>9 DEF Open, AtPart, transfer, delivery
  <2>2. Building
    BY <2>1 DEF Building
  <2>3. Named(draft, disk') /\ Own(draft, disk')
    BY <2>1, <2>2, <1>8
  <2> QED
    BY <2>1, <2>2, <2>3, <1>a DEF DraftWhole
<1>10. CASE Write
  <2> DEFINE path == File(cur, part, Len(draft.files))
             note == [path |-> path, part |-> part]
  <2>1. /\ wpc = "write" /\ part' = part + 1 /\ UNCHANGED cur
        /\ \/ /\ disk' = Holds(path, [of |-> cur, part |-> part])
              /\ draft' = [draft EXCEPT !.files = Append(@, note)]
           \/ /\ draft' = [draft EXCEPT !.files = Append(@, note), !.short = @ \cup {part}]
              /\ UNCHANGED disk
    BY <1>10 DEF Write, transfer
  <2>2. Building
    BY <2>1 DEF Building
  <2>3. part \in PartsOf(cur, "binary") /\ part \notin PartsOf(cur, "text")
        /\ path \in DOMAIN disk /\ disk[path] = [of |-> None, part |-> 0]
    BY <2>1 DEF Opened, PartsOf
  <2>4. draft' \in Drafts
    <3>1. path \in Paths
      BY <2>2, <1>a, DraftFields DEF Paths
    <3> HIDE DEF path
    <3> QED
      BY <2>1, <2>2, <3>1, <1>a, DraftStep
  <2>n. note.path = path /\ note.part = part
    OBVIOUS
  <2> HIDE DEF path, note
  <2>5. /\ draft'.txn = draft.txn /\ draft'.texts = draft.texts
        /\ draft'.unopened = draft.unopened /\ draft'.files = Append(draft.files, note)
        /\ draft'.short \subseteq draft.short \cup {part}
        /\ \A i \in Nat : i /= part => (i \in draft'.short <=> i \in draft.short)
    BY <2>1, <2>2, <1>a DEF Drafts
  <2>6. Collected(draft', part + 1)
    BY <2>2, <2>3, <2>4, <2>5, <1>a, FileCollected DEF note
  <2>7. /\ Named(draft, disk') /\ Own(draft, disk') /\ path \in DOMAIN disk'
        /\ disk'[path] = IF part \in draft'.short THEN [of |-> None, part |-> 0]
                         ELSE [of |-> cur, part |-> part]
    <3>1. CASE /\ disk' = Holds(path, [of |-> cur, part |-> part])
               /\ draft' = [draft EXCEPT !.files = Append(@, note)]
      <4>1. Named(draft, disk') /\ Own(draft, disk')
        BY <2>2, <3>1, <1>8 DEF path
      <4>2. part \notin draft'.short
        BY <2>2, <3>1, <1>a DEF Drafts, Collected
      <4>3. path \in DOMAIN disk' /\ disk'[path] = [of |-> cur, part |-> part]
        BY <3>1 DEF Holds
      <4> QED
        BY <4>1, <4>2, <4>3
    <3>2. CASE /\ draft' = [draft EXCEPT !.files = Append(@, note), !.short = @ \cup {part}]
               /\ UNCHANGED disk
      <4>1. part \in draft'.short
        BY <2>2, <3>2, <1>a DEF Drafts
      <4> QED
        BY <2>2, <2>3, <3>2, <4>1, <1>a
    <3> QED
      BY <2>1, <3>1, <3>2
  <2>8. /\ Len(draft.files) \in Nat /\ DOMAIN draft.files = 1 .. Len(draft.files)
        /\ DOMAIN draft'.files = 1 .. Len(draft.files) + 1
        /\ \A i \in 1 .. Len(draft.files) : draft'.files[i] = draft.files[i]
        /\ draft'.files[Len(draft.files) + 1] = note
    <3> DEFINE P == [path : Paths, part : Nat]
    <3>1. draft.files \in Seq(P) /\ DOMAIN draft.files = 1 .. Len(draft.files)
          /\ Len(draft.files) \in Nat
      BY <2>2, <1>a, DraftFields
    <3>2. path \in Paths
      BY <2>2, <3>1, <1>a DEF Paths, path
    <3>3. note \in P
      BY <2>2, <3>2, <1>a DEF note
    <3> HIDE DEF P
    <3> QED
      BY <2>5, <3>1, <3>3, AppendProperties, LenProperties
  <2>9. \A i \in DOMAIN draft.files : draft.files[i].part \in Nat /\ draft.files[i].part /= part
    <3> SUFFICES ASSUME NEW i \in DOMAIN draft.files
                 PROVE  draft.files[i].part \in Nat /\ draft.files[i].part /= part
      OBVIOUS
    <3> DEFINE s == [j \in DOMAIN draft.files |-> draft.files[j].part]
    <3>1. s[i] \in ToSet(s)
      BY DEF ToSet
    <3>2. ToSet(s) \subseteq Before(cur, "binary", part)
      BY <2>2, <1>a DEF Collected, Lists
    <3>3. draft.files[i].part \in Before(cur, "binary", part)
      BY <3>1, <3>2
    <3> HIDE DEF s
    <3>4. cur \in Txns /\ part \in Nat
      BY <2>2, <1>a
    <3> QED
      BY <3>3, <3>4, BeforeNext
  <2>10. Named(draft', disk')
    <3> SUFFICES ASSUME NEW i \in DOMAIN draft'.files
                 PROVE  /\ draft'.files[i].path = File(cur, draft'.files[i].part, i - 1)
                        /\ draft'.files[i].path \in DOMAIN disk'
      BY <2>2, <2>5, <1>a DEF Named
    <3>1. CASE i \in DOMAIN draft.files
      BY <2>2, <2>7, <2>8, <3>1, <1>a DEF Named
    <3>2. CASE i = Len(draft.files) + 1
      <4>1. i - 1 = Len(draft.files)
        BY <2>8, <3>2
      <4> QED
        BY <2>7, <2>8, <2>n, <3>2, <4>1 DEF path
    <3> QED
      BY <2>8, <3>1, <3>2
  <2>11. Own(draft', disk')
    <3> SUFFICES ASSUME NEW i \in DOMAIN draft'.files
                 PROVE  disk'[draft'.files[i].path] =
                          IF draft'.files[i].part \in draft'.short THEN [of |-> None, part |-> 0]
                          ELSE [of |-> cur, part |-> draft'.files[i].part]
      BY <2>2, <2>5, <1>a DEF Own
    <3>1. CASE i \in DOMAIN draft.files
      BY <2>2, <2>5, <2>7, <2>8, <2>9, <3>1, <1>a DEF Own
    <3>2. CASE i = Len(draft.files) + 1
      BY <2>7, <2>8, <2>n, <3>2
    <3> QED
      BY <2>8, <3>1, <3>2
  <2> QED
    BY <2>1, <2>6, <2>10, <2>11 DEF DraftWhole
<1>11. CASE UNCHANGED vars
  BY <1>11, <1>b DEF vars, transfer, delivery, Building
<1> QED
  BY <1>1, <1>2, <1>3, <1>4, <1>5, <1>6, <1>7, <1>9, <1>10, <1>11 DEF Next, Transfer, Deliver

\* The file that is open is empty; its part is the one whose turn it is.
LEMMA OpenedStep ==
  ASSUME TypeOK, Opened, [Next]_vars PROVE Opened'
<1>1. CASE Open
  <2> DEFINE path == File(cur, part, Len(draft.files))
  <2>1. /\ wpc = "parts" /\ part <= Len(Parts[cur]) /\ UNCHANGED <<cur, part, draft>>
        /\ Parts[cur][part].last <= got /\ Parts[cur][part].kind = "binary"
        /\ disk' = Holds(path, [of |-> None, part |-> 0])
    BY <1>1 DEF Open, AtPart, transfer, delivery
  <2>2. part \in PartsOf(cur, "binary")
    <3>1. part \in 1 .. Len(Parts[cur]) + 1 /\ got = Chunks[cur] /\ Len(Parts[cur]) \in Nat
      BY <2>1, MessageParts DEF TypeOK, Building
    <3> QED
      BY <2>1, <3>1 DEF PartsOf
  <2> HIDE DEF path
  <2>3. path \in DOMAIN disk' /\ disk'[path] = [of |-> None, part |-> 0]
    BY <2>1 DEF Holds
  <2> QED
    BY <2>1, <2>2, <2>3 DEF Opened, path
<1>2. ASSUME wpc' /= "write" PROVE Opened'
  BY <1>2 DEF Opened
<1>3. ASSUME UNCHANGED <<wpc, cur, part, draft, disk>> PROVE Opened'
  BY <1>3 DEF Opened
<1>4. ASSUME NEW p \in Pushes, Receive(p) PROVE Opened'
  BY <1>4, <1>3 DEF Receive, transfer, delivery
<1>5. CASE Announce \/ DialplanReads \/ UNCHANGED vars
  BY <1>5, <1>3 DEF Announce, DialplanReads, vars, transfer, delivery
<1>6. CASE (\E t \in Txns : FetchBegins(t)) \/ Chunk \/ FetchFails \/ FetchEnds
  BY <1>6, <1>2 DEF FetchBegins, Chunk, FetchFails, FetchEnds
<1>7. CASE DeliverBegins \/ PartSkipped \/ TextPart \/ OpenFails \/ Write \/ Finish
  BY <1>7, <1>2
     DEF DeliverBegins, PartSkipped, TextPart, OpenFails, Write, Finish, AtPart
<1> QED
  BY <1>1, <1>4, <1>5, <1>6, <1>7 DEF Next, Transfer, Deliver

-----------------------------------------------------------------------------
(* The messages in the queue *)

\* A delivery that begins is a later one.
LEMMA LaterDelivery ==
  ASSUME begun \in Seq(Dirs), NEW d \in Dirs, NEW m \in Drafts, Superseded(m, begun),
         m.nth <= Len(begun)
  PROVE  Superseded(m, Append(begun, d))
<1>1. Len(begun) \in Nat /\ Len(Append(begun, d)) = Len(begun) + 1
      /\ \A i \in 1 .. Len(begun) : Append(begun, d)[i] = begun[i]
  <2> HIDE DEF Dirs
  <2> QED
    BY AppendProperties, LenProperties
<1>2. PICK i \in m.nth + 1 .. Len(begun) : begun[i] = Dir(m.txn)
  BY DEF Superseded
<1>3. m.nth \in Nat
  BY DraftFields
<1>4. i \in 1 .. Len(begun) /\ i \in m.nth + 1 .. Len(begun) + 1
  BY <1>1, <1>2, <1>3
<1> QED
  BY <1>1, <1>2, <1>4 DEF Superseded

\* A message in the queue stays whole whatever the worker does, ...
LEMMA WholeStep ==
  ASSUME PathInv, NEW m \in Drafts, Whole(m), [Next]_vars PROVE Whole(m)'
<1> USE DEF PathInv
<1>m. m.nth \in Nat /\ m.txn \in Txns
  BY DraftFields
<1>a. ASSUME UNCHANGED <<disk, begun>>, Building' => Building PROVE Whole(m)'
  BY <1>a DEF Whole
<1>b. ASSUME Building, UNCHANGED begun, NEW path, NEW what,
             path = File(cur, part, Len(draft.files)), disk' = Holds(path, what)
      PROVE  Whole(m)'
  <2> DEFINE h == [p \in DOMAIN disk \cup {path} |-> IF p = path THEN what ELSE disk[p]]
  <2>1. disk' = h
    BY <1>b DEF Holds
  <2>2. CASE Dir(m.txn) = Dir(cur)
    <3>1. Superseded(m, begun)
      <4>1. /\ Len(begun) \in Nat /\ m.nth < Len(begun) /\ begun[Len(begun)] = Dir(cur)
        BY <1>b DEF Whole, TypeOK, Building
      <4>2. Len(begun) \in m.nth + 1 .. Len(begun)
        BY <4>1, <1>m
      <4> QED
        BY <2>2, <4>1, <4>2 DEF Superseded
    <3>2. Named(m, h)
      BY DEF Whole, Named
    <3> HIDE DEF h
    <3>3. Named(m, disk')
      BY <2>1, <3>2
    <3>4. Building
      BY <1>b
    <3> QED
      BY <1>b, <3>1, <3>3, <3>4 DEF Whole
  <2>3. CASE Dir(m.txn) /= Dir(cur)
    <3>1. \A i \in DOMAIN m.files : m.files[i].path /= path
      <4> SUFFICES ASSUME NEW i \in DOMAIN m.files PROVE m.files[i].path /= path
        OBVIOUS
      <4>1. m.files[i].path = File(m.txn, m.files[i].part, i - 1)
        BY DEF Whole, Named
      <4> QED
        BY <1>b, <2>3, <4>1, FilesDiffer
    <3>2. Named(m, h) /\ (Own(m, disk) => Own(m, h))
      <4>1. Named(m, disk)
        BY DEF Whole
      <4> QED
        BY <3>1, <4>1, OtherFile
    <3> HIDE DEF h
    <3>3. Named(m, disk') /\ (Own(m, disk) => Own(m, disk'))
      BY <2>1, <3>2
    <3> QED
      BY <1>b, <3>3 DEF Whole
  <2> QED
    BY <2>2, <2>3
<1>1. ASSUME NEW p \in Pushes, Receive(p) PROVE Whole(m)'
  BY <1>1, <1>a DEF Receive, Building
<1>2. CASE Announce \/ DialplanReads \/ UNCHANGED vars
  BY <1>2, <1>a DEF Announce, DialplanReads, vars, Building
<1>3. CASE (\E t \in Txns : FetchBegins(t)) \/ Chunk \/ FetchFails \/ FetchEnds \/ Finish
  BY <1>3, <1>a DEF FetchBegins, Chunk, FetchFails, FetchEnds, Finish, Building
<1>4. CASE PartSkipped \/ TextPart \/ OpenFails
  BY <1>4, <1>a DEF PartSkipped, TextPart, OpenFails, AtPart, Building
<1>5. CASE DeliverBegins
  <2>1. UNCHANGED disk /\ begun' = Append(begun, Dir(cur)) /\ cur \in Txns
    BY <1>5 DEF DeliverBegins, TypeOK
  <2>2. begun \in Seq(Dirs) /\ Dir(cur) \in Dirs
    BY <2>1 DEF TypeOK, Dirs
  <2>3. Len(begun') = Len(begun) + 1 /\ Len(begun) \in Nat
    <3> HIDE DEF Dirs
    <3> QED
      BY <2>1, <2>2, AppendProperties, LenProperties
  <2>4. Superseded(m, begun) => Superseded(m, begun')
    BY <2>1, <2>2, LaterDelivery DEF Whole
  <2>5. m.nth <= Len(begun)
    BY DEF Whole
  <2>6. m.nth < Len(begun')
    BY <2>3, <2>5, <1>m
  <2> QED
    BY <2>1, <2>3, <2>4, <2>6, <1>m DEF Whole
<1>6. CASE Open
  <2>1. /\ wpc = "parts" /\ UNCHANGED begun
        /\ disk' = Holds(File(cur, part, Len(draft.files)), [of |-> None, part |-> 0])
    BY <1>6 DEF Open, AtPart
  <2> QED
    BY <2>1, <1>b DEF Building
<1>7. CASE Write
  <2>1. /\ wpc = "write" /\ UNCHANGED begun
        /\ \/ disk' = Holds(File(cur, part, Len(draft.files)), [of |-> cur, part |-> part])
           \/ UNCHANGED disk
    BY <1>7 DEF Write
  <2> QED
    BY <2>1, <1>a, <1>b DEF Building
<1> QED
  BY <1>1, <1>2, <1>3, <1>4, <1>5, <1>6, <1>7 DEF Next, Transfer, Deliver

\* ... and one that is queued is whole.
LEMMA FinishedWhole ==
  ASSUME PathInv, Finish, NEW m, m = draft PROVE m \in Drafts /\ Whole(m)'
<1> USE DEF PathInv
<1>1. wpc = "parts" /\ part > Len(Parts[cur]) /\ wpc' = "idle" /\ UNCHANGED <<disk, begun>>
  BY DEF Finish
<1>2. /\ draft \in Drafts /\ draft.txn = cur /\ part \in 1 .. Len(Parts[cur]) + 1
      /\ draft.nth = Len(begun) /\ Len(begun) \in Nat
      /\ Collected(draft, part) /\ Named(draft, disk) /\ Own(draft, disk)
  BY <1>1 DEF TypeOK, DraftWhole, Building
<1>3. Len(Parts[cur]) \in Nat
  BY <1>2, DraftFields, MessageParts
<1>4. part = Len(Parts[cur]) + 1
  BY <1>1, <1>2, <1>3
<1> QED
  BY <1>1, <1>2, <1>4 DEF Whole, Building

\* Every action keeps the messages in the queue whole.
LEMMA QueueWholeStep ==
  ASSUME PathInv, [Next]_vars PROVE QueueWhole'
<1> USE DEF PathInv
<1>q. queue \in Seq(Drafts) /\ Len(queue) \in Nat /\ \A i \in 1 .. Len(queue) : queue[i] \in Drafts
  <2>1. queue \in Seq(Drafts)
    BY DEF TypeOK
  <2> HIDE DEF Drafts
  <2> QED
    BY <2>1, LenProperties, ElementOfSeq
<1>w. \A i \in 1 .. Len(queue) : Whole(queue[i])
  BY DEF QueueWhole
<1>m. \A m \in Drafts : Whole(m) => Whole(m)'
  BY WholeStep
<1>t. Len(queue') \in Nat /\ Len(queue') <= Len(queue) + 1
      /\ \A i \in 1 .. Len(queue') :
           \/ \E j \in 1 .. Len(queue) : queue'[i] = queue[j]
           \/ Finish /\ queue'[i] = draft
  <2>1. CASE UNCHANGED queue
    BY <2>1, <1>q
  <2>2. CASE Finish /\ queue' = Append(queue, draft)
    <3>1. draft \in Drafts
      BY <2>2 DEF Finish, TypeOK, Building
    <3>2. /\ Len(queue') = Len(queue) + 1 /\ queue'[Len(queue) + 1] = draft
          /\ \A i \in 1 .. Len(queue) : queue'[i] = queue[i]
      <4> HIDE DEF Drafts
      <4> QED
        BY <2>2, <3>1, <1>q, AppendProperties
    <3> QED
      BY <2>2, <3>2, <1>q
  <2>3. CASE queue /= <<>> /\ queue' = Tail(queue)
    <3>1. /\ Len(queue') = Len(queue) - 1 /\ Len(queue) /= 0
          /\ \A i \in 1 .. Len(queue') : queue'[i] = queue[i + 1]
      <4> HIDE DEF Drafts
      <4> QED
        BY <2>3, <1>q, HeadTailProperties, EmptySeq
    <3>2. \A i \in 1 .. Len(queue') : i + 1 \in 1 .. Len(queue)
      BY <3>1, <1>q
    <3> QED
      BY <3>1, <3>2, <1>q
  <2>4. UNCHANGED queue \/ (Finish /\ queue' = Append(queue, draft))
          \/ (queue /= <<>> /\ queue' = Tail(queue))
    <3>1. CASE (\E p \in Pushes : Receive(p)) \/ Announce \/ Transfer \/ UNCHANGED vars
      BY <3>1
         DEF Receive, Announce, Transfer, FetchBegins, Chunk, FetchFails, FetchEnds, vars
    <3>2. CASE Deliver
      BY <3>2
         DEF Deliver, DeliverBegins, PartSkipped, TextPart, OpenFails, Open, Write, Finish
    <3>3. CASE DialplanReads
      BY <3>3 DEF DialplanReads
    <3> QED
      BY <3>1, <3>2, <3>3 DEF Next
  <2> QED
    BY <2>1, <2>2, <2>3, <2>4
<1> SUFFICES ASSUME NEW i \in 1 .. Len(queue'), NEW r, r = queue'[i] PROVE Whole(r)'
  BY DEF QueueWhole, Whole
<1>1. ASSUME NEW j \in 1 .. Len(queue), r = queue[j] PROVE Whole(r)'
  BY <1>1, <1>q, <1>w, <1>m
<1>2. ASSUME Finish, r = draft PROVE Whole(r)'
  BY <1>2, FinishedWhole
<1> QED
  BY <1>t, <1>1, <1>2

-----------------------------------------------------------------------------
(* What the dialplan gets *)

LEMMA PathStep == ASSUME PathInv, [Next]_vars PROVE PathInv'
<1>1. TypeOK'
  BY TypeStep DEF PathInv
<1>2. Opened'
  BY OpenedStep DEF PathInv
<1> QED
  BY <1>1, <1>2, DraftWholeStep, QueueWholeStep DEF PathInv

\* What a whole message is to its reader.
LEMMA WholeArrives == PathInv => MessageArrives
<1> SUFFICES ASSUME PathInv PROVE MessageArrives
  OBVIOUS
<1>1. \A m \in ToSet(queue) : m \in Drafts /\ Whole(m)
  <2>1. queue \in Seq(Drafts) /\ DOMAIN queue = 1 .. Len(queue)
    BY LenProperties DEF PathInv, TypeOK
  <2>2. \A i \in 1 .. Len(queue) : queue[i] \in Drafts
    <3> HIDE DEF Drafts
    <3> QED
      BY <2>1, ElementOfSeq
  <2> QED
    BY <2>1, <2>2 DEF PathInv, QueueWhole, ToSet
<1>2. ASSUME NEW m \in ToSet(queue)
      PROVE  /\ Lists(m.texts, PartsOf(m.txn, "text"))
             /\ Lists([i \in DOMAIN m.files |-> m.files[i].part],
                      PartsOf(m.txn, "binary") \ m.unopened)
  <2>1. m.txn \in Txns /\ Len(Parts[m.txn]) \in Nat
    BY <1>1, DraftFields, MessageParts
  <2>2. /\ Before(m.txn, "text", Len(Parts[m.txn]) + 1) = PartsOf(m.txn, "text")
        /\ Before(m.txn, "binary", Len(Parts[m.txn]) + 1) = PartsOf(m.txn, "binary")
    BY <2>1, BeforeNext
  <2> QED
    BY <1>1, <2>2 DEF Whole, Collected
<1>3. ASSUME NEW m \in ToSet(queue)
      PROVE  /\ \A i, j \in DOMAIN m.files : m.files[i].path = m.files[j].path => i = j
             /\ \A i \in DOMAIN m.files : m.files[i].path \in DOMAIN disk
  <2>1. Named(m, disk) /\ DOMAIN m.files \subseteq Nat
    BY <1>1, DraftFields DEF Whole
  <2>2. ASSUME NEW i \in DOMAIN m.files, NEW j \in DOMAIN m.files,
               m.files[i].path = m.files[j].path
        PROVE  i = j
    <3>1. /\ m.files[i].path = File(m.txn, m.files[i].part, i - 1)
          /\ m.files[j].path = File(m.txn, m.files[j].part, j - 1)
      BY <2>1 DEF Named
    <3>2. i - 1 = j - 1
      BY <2>2, <3>1, FilesDiffer
    <3> QED
      BY <2>1, <3>2
  <2> QED
    BY <2>1, <2>2 DEF Named
<1>4. ASSUME NEW m \in ToSet(queue),
             \A i \in m.nth + 1 .. Len(begun) : begun[i] /= Dir(m.txn)
      PROVE  Own(m, disk)
  BY <1>1, <1>4 DEF Whole, Superseded
<1>5. MessageWhole
  BY <1>2, <1>3 DEF MessageWhole
<1>6. FilesOwn
  BY <1>4 DEF FilesOwn, Own
<1> QED
  BY <1>5, <1>6 DEF MessageArrives

\* mms_fetch.c and mms_deliver.c, whatever breaks off, is too large, cannot be opened or
\* is written in part: a message the dialplan gets was transferred to its end, has its
\* texts in order and a file of its own for every other part, which holds that part
\* until a message of the same directory is delivered.
THEOREM MessagesArrive == Spec => []MessageArrives
<1>1. Init => PathInv
  BY PathInit
<1>2. PathInv /\ [Next]_vars => PathInv'
  BY PathStep
<1>3. PathInv => MessageArrives
  BY WholeArrives
<1> QED
  BY <1>1, <1>2, <1>3, PTL DEF Spec

-----------------------------------------------------------------------------
(* Octets in a payload, and lengths *)

Octet == 0 .. 255

\* The ways to write a length in the field before the headers.
LengthForms(n) == {<<n>>, <<128, n>>, <<128, 128, n>>, <<128, 128, 128, n>>,
                   <<144, 128, 128, 128, n>>}

\* Octets to spare, and the last one has the number.
Spared(w, n) ==
  /\ Len(w) \in 1 .. 5 /\ w \in Seq(Octet) /\ w[Len(w)] = n
  /\ \A i \in 1 .. 5 : i < Len(w) => w[i] >= 128 /\ (i > 1 => w[i] = 128)
  /\ Len(w) = 5 => w[1] = 144
  /\ Len(w) \in 2 .. 4 => w[1] = 128

\* The number of a length is in its last octet, and the others have their top bit.
LEMMA LengthForm ==
  ASSUME NEW n \in 0 .. 127, NEW w \in LengthForms(n) PROVE Spared(w, n)
<1>1. CASE w = <<n>>
  BY <1>1 DEF Octet, Spared
<1>2. CASE w = <<128, n>>
  BY <1>2 DEF Octet, Spared
<1>3. CASE w = <<128, 128, n>>
  BY <1>3 DEF Octet, Spared
<1>4. CASE w = <<128, 128, 128, n>>
  BY <1>4 DEF Octet, Spared
<1>5. CASE w = <<144, 128, 128, 128, n>>
  BY <1>5 DEF Octet, Spared
<1> QED
  BY <1>1, <1>2, <1>3, <1>4, <1>5 DEF LengthForms

\* w stands at p in d.
Stands(w, d, p) ==
  /\ p + Len(w) <= Len(d) + 1
  /\ \A j \in p .. p + Len(w) - 1 : d[j] = w[j - p + 1]

LEMMA OctetNat == \A o \in Octet : o \in Nat /\ o <= 255
BY DEF Octet

\* A length that stands in a payload is decoded as it was written, ...
LEMMA BitsOf ==
  ASSUME NEW d \in Seq(Octet), NEW p \in Nat \ {0}, NEW n \in 0 .. 127,
         NEW w \in LengthForms(n), Stands(w, d, p)
  PROVE  Bits(d, p, Len(w)) = n
<1> DEFINE k == Len(w)
           first == d[p] % (IF k = 5 THEN 16 ELSE 128)
           oct(i) == d[p + i - 1] % 128
           bits[i \in 1 .. k] == IF i = 1 THEN first ELSE bits[i - 1] * 128 + oct(i)
<1>1. /\ k \in 1 .. 5
      /\ w[k] = n /\ \A i \in 2 .. k - 1 : w[i] = 128
      /\ k = 5 => w[1] = 144
      /\ k \in 2 .. 4 => w[1] = 128
      /\ \A j \in p .. p + k - 1 : d[j] = w[j - p + 1]
  <2>1. Spared(w, n)
    BY LengthForm
  <2>2. \A j \in p .. p + k - 1 : d[j] = w[j - p + 1]
    BY DEF Stands
  <2> HIDE DEF k
  <2>3. /\ k \in 1 .. 5 /\ w[k] = n
        /\ \A i \in 1 .. 5 : i < k => w[i] >= 128 /\ (i > 1 => w[i] = 128)
        /\ k = 5 => w[1] = 144
        /\ k \in 2 .. 4 => w[1] = 128
    BY <2>1 DEF Spared, k
  <2> QED
    BY <2>2, <2>3
<1> HIDE DEF k
<1>2. \A i \in 1 .. k : d[p + i - 1] = w[i]
  <2> SUFFICES ASSUME NEW i \in 1 .. k PROVE d[p + i - 1] = w[i]
    OBVIOUS
  <2>1. p + i - 1 \in p .. p + k - 1 /\ p + i - 1 - p + 1 = i
    BY <1>1
  <2> QED
    BY <2>1, <1>1
<1>3. first = IF k = 1 THEN n ELSE 0
  <2>1. d[p] = w[1]
    <3>1. p \in p .. p + k - 1 /\ p - p + 1 = 1
      BY <1>1
    <3> QED
      BY <3>1, <1>1
  <2> QED
    <3>1. w[1] = IF k = 1 THEN n ELSE IF k = 5 THEN 144 ELSE 128
      BY <1>1
    <3>2. CASE k = 1
      BY <2>1, <3>1, <3>2
    <3>3. CASE k = 5
      BY <2>1, <3>1, <3>3
    <3>4. CASE k \in 2 .. 4
      BY <2>1, <3>1, <3>4
    <3> QED
      BY <1>1, <3>2, <3>3, <3>4
<1>4. \A i \in 2 .. k : oct(i) = IF i = k THEN n ELSE 0
  <2> SUFFICES ASSUME NEW i \in 2 .. k PROVE oct(i) = IF i = k THEN n ELSE 0
    OBVIOUS
  <2>1. oct(i) = w[i] % 128
    BY <1>2
  <2>2. w[i] = IF i = k THEN n ELSE 128
    BY <1>1
  <2> QED
    BY <2>1, <2>2
<1> HIDE DEF oct, first
<1>5. bits = [i \in 1 .. k |-> IF i = 1 THEN first ELSE bits[i - 1] * 128 + oct(i)]
  <2> DEFINE g == [i \in 1 .. k |-> IF i = k THEN n ELSE 0]
  <2>1. g = [i \in 1 .. k |-> IF i = 1 THEN first ELSE g[i - 1] * 128 + oct(i)]
    <3>1. ASSUME NEW i \in 1 .. k
          PROVE g[i] = IF i = 1 THEN first ELSE g[i - 1] * 128 + oct(i)
      <4>1. CASE i = 1
        BY <4>1, <1>1, <1>3
      <4>2. CASE i > 1
        <5>1. i - 1 \in 1 .. k /\ i - 1 /= k
          BY <4>2, <1>1
        <5>2. g[i - 1] = 0
          BY <5>1
        <5> QED
          BY <4>2, <5>2, <1>1, <1>4
      <4> QED
        BY <4>1, <4>2
    <3> QED
      BY <3>1
  <2>2. \E h : h = [i \in 1 .. k |-> IF i = 1 THEN first ELSE h[i - 1] * 128 + oct(i)]
    BY <2>1
  <2> QED
    BY <2>2
<1>6. /\ bits[1] = first
      /\ \A i \in 2 .. k : bits[i] = bits[i - 1] * 128 + oct(i)
  <2> HIDE DEF bits
  <2>1. \A i \in 1 .. k : bits[i] = IF i = 1 THEN first ELSE bits[i - 1] * 128 + oct(i)
    BY <1>5
  <2> QED
    BY <2>1, <1>1
<1> HIDE DEF bits
<1>7. bits[k] = n
  <2>1. CASE k = 1
    BY <2>1, <1>3, <1>6
  <2>2. CASE k > 1
    <3>1. \A i \in 2 .. k : bits[i] = bits[i - 1] * 128 + IF i = k THEN n ELSE 0
      BY <1>4, <1>6
    <3>2. bits[1] = 0
      BY <1>3, <1>6, <2>2
    <3>3. CASE k = 2
      BY <1>1, <3>1, <3>2, <3>3
    <3>4. CASE k = 3
      BY <1>1, <3>1, <3>2, <3>4
    <3>5. CASE k = 4
      BY <1>1, <3>1, <3>2, <3>5
    <3>6. CASE k = 5
      BY <1>1, <3>1, <3>2, <3>6
    <3> QED
      BY <1>1, <2>2, <3>3, <3>4, <3>5, <3>6
  <2> QED
    BY <1>1, <2>1, <2>2
<1>8. Bits(d, p, k) = IF k = 5 /\ first > 0 THEN TooLong ELSE bits[k]
  BY DEF Bits, bits, first, oct, k
<1> QED
  BY <1>1, <1>3, <1>7, <1>8 DEF k

Reads(n, next) == {[value |-> n, next |-> next]}

\* ... and its end is found.
LEMMA UintvarOf ==
  ASSUME NEW d \in Seq(Octet), NEW p \in Nat \ {0}, NEW n \in 0 .. 127,
         NEW w \in LengthForms(n), Stands(w, d, p)
  PROVE  Uintvar(d, p) = Reads(n, p + Len(w))
<1> DEFINE k == Len(w)
           Ends(m) == /\ p + m - 1 <= Len(d) /\ d[p + m - 1] < 128
                      /\ \A i \in 0 .. m - 2 : d[p + i] >= 128
<1>1. k \in 1 .. 5 /\ w[k] = n /\ \A i \in 1 .. k - 1 : w[i] >= 128
  <2>1. Spared(w, n)
    BY LengthForm
  <2> HIDE DEF k
  <2>2. k \in 1 .. 5 /\ w[k] = n /\ \A i \in 1 .. 5 : i < k => w[i] >= 128
    BY <2>1 DEF Spared, k
  <2> QED
    BY <2>2
<1>2. /\ p + k <= Len(d) + 1
      /\ \A j \in p .. p + k - 1 : d[j] = w[j - p + 1]
  BY DEF Stands
<1> HIDE DEF k
<1>a. \A i \in 0 .. k - 1 : d[p + i] = w[i + 1]
  <2> SUFFICES ASSUME NEW i \in 0 .. k - 1 PROVE d[p + i] = w[i + 1]
    OBVIOUS
  <2>1. p + i \in p .. p + k - 1 /\ p + i - p + 1 = i + 1
    BY <1>1
  <2> QED
    BY <2>1, <1>2
<1>3. ASSUME NEW m \in 1 .. 5 PROVE Ends(m) <=> m = k
  <2>1. \A i \in 0 .. k - 2 : d[p + i] >= 128
    <3> SUFFICES ASSUME NEW i \in 0 .. k - 2 PROVE d[p + i] >= 128
      OBVIOUS
    <3>1. i + 1 \in 1 .. k - 1 /\ i \in 0 .. k - 1
      BY <1>1
    <3> QED
      BY <3>1, <1>1, <1>a
  <2>2. d[p + k - 1] = n
    <3>1. k - 1 \in 0 .. k - 1 /\ (k - 1) + 1 = k /\ p + (k - 1) = p + k - 1
      BY <1>1
    <3> QED
      BY <3>1, <1>1, <1>a
  <2>3. CASE m = k
    BY <2>3, <1>1, <1>2, <2>1, <2>2
  <2>4. CASE m < k
    <3>1. m - 1 \in 0 .. k - 2 /\ p + (m - 1) = p + m - 1
      BY <2>4, <1>1
    <3>2. d[p + m - 1] >= 128
      BY <2>1, <3>1
    <3>3. d[p + m - 1] \in Octet
      <4>1. p + m - 1 \in 1 .. Len(d)
        BY <1>1, <1>2, <2>4
      <4> QED
        BY <4>1
    <3> QED
      <4>1. ~(d[p + m - 1] < 128)
        <5>1. \A o \in Octet : o >= 128 => ~(o < 128)
          BY DEF Octet
        <5> QED
          BY <5>1, <3>2, <3>3
      <4>2. m /= k
        BY <2>4, <1>1
      <4> QED
        BY <4>1, <4>2
  <2>5. CASE m > k
    <3>1. k - 1 \in 0 .. m - 2 /\ p + (k - 1) = p + k - 1
      BY <2>5, <1>1
    <3>2. ~(d[p + (k - 1)] >= 128)
      BY <3>1, <2>2
    <3>3. ~ \A i \in 0 .. m - 2 : d[p + i] >= 128
      BY <3>1, <3>2
    <3>4. m /= k
      BY <2>5, <1>1
    <3> QED
      BY <3>3, <3>4
  <2> QED
    BY <2>3, <2>4, <2>5, <1>1
<1>4. {m \in 1 .. 5 : Ends(m)} = {k}
  BY <1>1, <1>3
<1> HIDE DEF Ends
<1>5. Uintvar(d, p) = {[value |-> Bits(d, p, j), next |-> p + j] : j \in {m \in 1 .. 5 : Ends(m)}}
  BY DEF Uintvar, Ends
<1> QED
  BY <1>4, <1>5, BitsOf DEF k, Reads

\* A length of which the end is missing.
LEMMA UintvarCut ==
  ASSUME NEW d \in Seq(Octet), NEW p \in Nat \ {0}, NEW n \in 0 .. 127,
         NEW w \in LengthForms(n), Len(d) + 1 < p + Len(w),
         \A j \in p .. Len(d) : d[j] = w[j - p + 1]
  PROVE  Uintvar(d, p) = {}
<1> DEFINE k == Len(w)
           Ends(m) == /\ p + m - 1 <= Len(d) /\ d[p + m - 1] < 128
                      /\ \A i \in 0 .. m - 2 : d[p + i] >= 128
<1>1. k \in 1 .. 5 /\ w \in Seq(Octet) /\ \A i \in 1 .. 5 : i < k => w[i] >= 128
  <2>1. Spared(w, n)
    BY LengthForm
  <2> HIDE DEF k
  <2> QED
    BY <2>1 DEF Spared, k
<1>2. Len(d) + 1 < p + k
  OBVIOUS
<1> HIDE DEF k
<1>3. ASSUME NEW m \in 1 .. 5, Ends(m) PROVE FALSE
  <2>1. p + m - 1 \in p .. Len(d) /\ p + m - 1 - p + 1 = m /\ m < k
    BY <1>2, <1>3, <1>1
  <2>2. d[p + m - 1] = w[m] /\ w[m] >= 128 /\ w[m] \in Octet
    BY <2>1, <1>1
  <2>3. \A o \in Octet : o >= 128 => ~(o < 128)
    BY DEF Octet
  <2> QED
    BY <1>3, <2>2, <2>3
<1> HIDE DEF Ends
<1>4. {m \in 1 .. 5 : Ends(m)} = {}
  BY <1>3
<1>5. Uintvar(d, p) = {[value |-> Bits(d, p, j), next |-> p + j] : j \in {m \in 1 .. 5 : Ends(m)}}
  BY DEF Uintvar, Ends
<1> QED
  BY <1>4, <1>5

\* Of two sequences that stand together each stands where it should.
LEMMA StandsParts ==
  ASSUME NEW a \in Seq(Octet), NEW b \in Seq(Octet), NEW d \in Seq(Octet),
         NEW p \in Nat \ {0}, Stands(a \o b, d, p)
  PROVE  Stands(a, d, p) /\ Stands(b, d, p + Len(a))
<1>1. /\ Len(a \o b) = Len(a) + Len(b)
      /\ \A i \in 1 .. Len(a) + Len(b) :
           (a \o b)[i] = IF i <= Len(a) THEN a[i] ELSE b[i - Len(a)]
  BY ConcatProperties
<1>2. /\ p + (Len(a) + Len(b)) <= Len(d) + 1
      /\ \A j \in p .. p + (Len(a) + Len(b)) - 1 : d[j] = (a \o b)[j - p + 1]
  BY <1>1 DEF Stands
<1>3. ASSUME NEW j \in p .. p + Len(a) - 1 PROVE d[j] = a[j - p + 1]
  <2>1. j - p + 1 \in 1 .. Len(a) + Len(b) /\ j - p + 1 <= Len(a)
        /\ j \in p .. p + (Len(a) + Len(b)) - 1
    OBVIOUS
  <2> QED
    BY <2>1, <1>1, <1>2
<1>4. ASSUME NEW j \in p + Len(a) .. p + Len(a) + Len(b) - 1
      PROVE d[j] = b[j - (p + Len(a)) + 1]
  <2>1. /\ j - p + 1 \in 1 .. Len(a) + Len(b) /\ ~(j - p + 1 <= Len(a))
        /\ j \in p .. p + (Len(a) + Len(b)) - 1
        /\ j - p + 1 - Len(a) = j - (p + Len(a)) + 1
    OBVIOUS
  <2> QED
    BY <2>1, <1>1, <1>2
<1> QED
  BY <1>2, <1>3, <1>4 DEF Stands

\* What stands in a sequence stands in its beginning, if that is long enough.
LEMMA StandsBefore ==
  ASSUME NEW x \in Seq(Octet), NEW d \in Seq(Octet), NEW all \in Seq(Octet),
         NEW p \in Nat \ {0}, Stands(x, all, p), Stands(d, all, 1), p + Len(x) <= Len(d) + 1
  PROVE  Stands(x, d, p)
<1>1. ASSUME NEW j \in p .. p + Len(x) - 1 PROVE d[j] = x[j - p + 1]
  <2>1. j \in 1 .. 1 + Len(d) - 1 /\ j - 1 + 1 = j
    OBVIOUS
  <2> QED
    BY <2>1 DEF Stands
<1> QED
  BY <1>1 DEF Stands

\* The same for a beginning that is cut out.
LEMMA StandsPrefix ==
  ASSUME NEW x \in Seq(Octet), NEW d \in Seq(Octet), NEW p \in Nat \ {0},
         NEW k \in 0 .. Len(d), Stands(x, d, p), p + Len(x) <= k + 1
  PROVE  SubSeq(d, 1, k) \in Seq(Octet) /\ Stands(x, SubSeq(d, 1, k), p)
<1>1. /\ SubSeq(d, 1, k) \in Seq(Octet) /\ Len(SubSeq(d, 1, k)) = k
      /\ \A j \in 1 .. k : SubSeq(d, 1, k)[j] = d[j]
  BY SubSeqProperties
<1> DEFINE e == SubSeq(d, 1, k)
<1> HIDE DEF e
<1>2. ASSUME NEW j \in p .. p + Len(x) - 1 PROVE e[j] = x[j - p + 1]
  <2>1. j \in 1 .. k
    OBVIOUS
  <2> QED
    BY <2>1, <1>1 DEF Stands, e
<1> QED
  BY <1>1, <1>2 DEF Stands, e

\* The value of a content type: a number, or a text.
Values == {<<o>> : o \in 128 .. 255} \cup {<<c, 0>> : c \in 32 .. 127}
MmsValues == {<<MmsShort>>, <<MmsText, 0>>}

\* A content type is a value, or the length of a value with its parameters and these.
IsMedia(m, v) ==
  \/ m = v
  \/ \E params \in Seq(Octet) :
       LET n == Len(v) + Len(params) IN
       \/ n <= 30 /\ m = <<n>> \o (v \o params)
       \/ n <= 127 /\ \E w \in LengthForms(n) : m = << 31 >> \o (w \o (v \o params))

\* A value is that of MMS or it is not.
LEMMA MediaEndOf ==
  ASSUME NEW d \in Seq(Octet), NEW p \in Nat \ {0}, NEW v \in Values, Stands(v, d, p)
  PROVE  MediaEnd(d, p) = IF v \in MmsValues THEN {p + Len(v)} ELSE {}
<1>1. CASE v \in {<<o>> : o \in 128 .. 255}
  <2>1. PICK o \in 128 .. 255 : v = <<o>>
    BY <1>1
  <2>2. Len(v) = 1 /\ v[1] = o
    BY <2>1
  <2>3. p <= Len(d) /\ d[p] = o
    <3>1. p \in p .. p + 1 - 1 /\ p - p + 1 = 1
      OBVIOUS
    <3> QED
      BY <2>2, <3>1 DEF Stands
  <2>4. v \in MmsValues <=> o = 190
    <3>1. <<o>> /= <<97, 0>>
      OBVIOUS
    <3>2. <<o>> = << 190 >> <=> o = 190
      OBVIOUS
    <3> QED
      BY <2>1, <3>1, <3>2 DEF MmsValues, MmsShort, MmsText
  <2>5. MediaEnd(d, p) = IF o = 190 THEN {p + 1} ELSE {}
    <3>1. o /= 97
      OBVIOUS
    <3>2. CASE o = 190
      BY <2>3, <3>2 DEF MediaEnd, MmsShort, MmsText
    <3>3. CASE o /= 190
      BY <2>3, <3>1, <3>3 DEF MediaEnd, MmsShort, MmsText
    <3> QED
      BY <3>2, <3>3
  <2> QED
    BY <2>2, <2>4, <2>5
<1>2. CASE v \in {<<c, 0>> : c \in 32 .. 127}
  <2>1. PICK c \in 32 .. 127 : v = <<c, 0>>
    BY <1>2
  <2>2. Len(v) = 2 /\ v[1] = c /\ v[2] = 0
    BY <2>1
  <2>3. p < Len(d) /\ d[p] = c /\ d[p + 1] = 0
    <3>1. /\ p \in p .. p + 2 - 1 /\ p - p + 1 = 1
          /\ p + 1 \in p .. p + 2 - 1 /\ p + 1 - p + 1 = 2
      OBVIOUS
    <3>2. \A j \in p .. p + 2 - 1 : d[j] = v[j - p + 1]
      BY <2>2 DEF Stands
    <3>3. p + 2 <= Len(d) + 1
      BY <2>2 DEF Stands
    <3> QED
      BY <2>2, <3>1, <3>2, <3>3
  <2>4. v \in MmsValues <=> c = 97
    <3>1. <<c, 0>> /= << 190 >>
      OBVIOUS
    <3>2. <<c, 0>> = <<97, 0>> <=> c = 97
      OBVIOUS
    <3> QED
      BY <2>1, <3>1, <3>2 DEF MmsValues, MmsShort, MmsText
  <2>5. MediaEnd(d, p) = IF c = 97 THEN {p + 2} ELSE {}
    <3>1. c /= 190
      OBVIOUS
    <3>2. CASE c = 97
      BY <2>3, <3>1, <3>2 DEF MediaEnd, MmsShort, MmsText
    <3>3. CASE c /= 97
      BY <2>3, <3>1, <3>3 DEF MediaEnd, MmsShort, MmsText
    <3> QED
      BY <3>2, <3>3
  <2> QED
    BY <2>2, <2>4, <2>5
<1> QED
  BY <1>1, <1>2 DEF Values

\* What a value looks like.
LEMMA ValueIs ==
  ASSUME NEW v \in Values
  PROVE  v \in Seq(Octet) /\ Len(v) \in 1 .. 2 /\ v[1] \in 32 .. 255
<1>1. CASE v \in {<<o>> : o \in 128 .. 255}
  <2>1. PICK o \in 128 .. 255 : v = <<o>>
    BY <1>1
  <2>2. o \in Octet
    BY DEF Octet
  <2> QED
    BY <2>1, <2>2
<1>2. CASE v \in {<<c, 0>> : c \in 32 .. 127}
  <2>1. PICK c \in 32 .. 127 : v = <<c, 0>>
    BY <1>2
  <2>2. c \in Octet /\ 0 \in Octet
    BY DEF Octet
  <2> QED
    BY <2>1, <2>2
<1> QED
  BY <1>1, <1>2 DEF Values

\* The range of a length, from its bound.
LEMMA SumRange ==
  ASSUME NEW v \in Values, NEW params \in Seq(Octet)
  PROVE  /\ Len(v) + Len(params) <= 30 => Len(v) + Len(params) \in 0 .. 30
         /\ Len(v) + Len(params) <= 127 => Len(v) + Len(params) \in 0 .. 127
<1>1. Len(v) \in Nat /\ Len(params) \in Nat
  BY ValueIs
<1>2. \A n \in Nat : (n <= 30 => n \in 0 .. 30) /\ (n <= 127 => n \in 0 .. 127)
  OBVIOUS
<1>3. Len(v) + Len(params) \in Nat
  BY <1>1
<1> QED
  BY <1>2, <1>3

\* A content type is octets, one at least.
LEMMA MediaIs ==
  ASSUME NEW v \in Values, NEW m, IsMedia(m, v)
  PROVE  m \in Seq(Octet) /\ Len(m) >= 1
<1>1. CASE m = v
  BY <1>1, ValueIs
<1>2. ASSUME NEW params \in Seq(Octet), NEW n \in 0 .. 30,
             n = Len(v) + Len(params), m = <<n>> \o (v \o params)
      PROVE  m \in Seq(Octet) /\ Len(m) >= 1
  <2>1. v \in Seq(Octet) /\ <<n>> \in Seq(Octet) /\ Len(<<n>>) = 1
    <3>1. n \in Octet
      BY DEF Octet
    <3> QED
      BY <3>1, ValueIs
  <2>2. v \o params \in Seq(Octet)
    BY <2>1, ConcatProperties
  <2>3. m \in Seq(Octet) /\ Len(m) = Len(<<n>>) + Len(v \o params)
    BY <2>1, <2>2, <1>2, ConcatProperties
  <2> QED
    BY <2>1, <2>2, <2>3
<1>3. ASSUME NEW params \in Seq(Octet), NEW n \in 0 .. 127, NEW w \in LengthForms(n),
             m = << 31 >> \o (w \o (v \o params))
      PROVE  m \in Seq(Octet) /\ Len(m) >= 1
  <2>1. v \in Seq(Octet) /\ << 31 >> \in Seq(Octet) /\ Len(<< 31 >>) = 1
    BY ValueIs DEF Octet
  <2>2. w \in Seq(Octet)
    BY LengthForm DEF Spared
  <2>3. w \o (v \o params) \in Seq(Octet)
    BY <2>1, <2>2, ConcatProperties
  <2>4. m \in Seq(Octet) /\ Len(m) = Len(<< 31 >>) + Len(w \o (v \o params))
    BY <2>1, <2>3, <1>3, ConcatProperties
  <2> QED
    BY <2>1, <2>3, <2>4
<1>5. CASE m = v
  BY <1>1, <1>5
<1>6. ASSUME NEW params \in Seq(Octet), Len(v) + Len(params) <= 30,
             m = <<Len(v) + Len(params)>> \o (v \o params)
      PROVE  m \in Seq(Octet) /\ Len(m) >= 1
  BY <1>2, <1>6, SumRange
<1>7. ASSUME NEW params \in Seq(Octet), Len(v) + Len(params) <= 127,
             NEW w \in LengthForms(Len(v) + Len(params)),
             m = << 31 >> \o (w \o (v \o params))
      PROVE  m \in Seq(Octet) /\ Len(m) >= 1
  BY <1>3, <1>7, SumRange
<1> QED
  BY <1>5, <1>6, <1>7 DEF IsMedia

\* The content type of MMS is recognized in every form, and no other is.
LEMMA MediaFound ==
  ASSUME NEW d \in Seq(Octet), NEW p \in Nat \ {0}, NEW v \in Values, NEW m, IsMedia(m, v),
         Stands(m, d, p), NEW max \in Nat, Len(m) <= max, p + max <= Len(d) + 1
  PROVE  (\E e \in ContentTypeEnd(d, p, max) : e <= p + max) <=> v \in MmsValues
<1>1. v \in Seq(Octet) /\ Len(v) \in 1 .. 2 /\ v[1] \in 32 .. 255
  BY ValueIs
<1>2. CASE m = v
  <2>1. d[p] = v[1]
    <3>1. p \in p .. p + Len(v) - 1 /\ p - p + 1 = 1
      BY <1>1
    <3> QED
      BY <3>1, <1>2 DEF Stands
  <2>2. ~(d[p] <= 30) /\ d[p] /= 31
    <3>1. \A o \in 32 .. 255 : ~(o <= 30) /\ o /= 31
      OBVIOUS
    <3> QED
      BY <2>1, <1>1, <3>1
  <2>3. ContentTypeEnd(d, p, max) = MediaEnd(d, p)
    BY <2>2 DEF ContentTypeEnd
  <2>4. MediaEnd(d, p) = IF v \in MmsValues THEN {p + Len(v)} ELSE {}
    BY <1>2, MediaEndOf
  <2> QED
    BY <2>3, <2>4, <1>1, <1>2
<1>3. ASSUME NEW params \in Seq(Octet), NEW n \in 0 .. 30,
             n = Len(v) + Len(params), m = <<n>> \o (v \o params)
      PROVE  (\E e \in ContentTypeEnd(d, p, max) : e <= p + max) <=> v \in MmsValues
  <2>1. <<n>> \in Seq(Octet) /\ Len(<<n>>) = 1 /\ <<n>>[1] = n
    <3>1. n \in Octet
      BY DEF Octet
    <3> QED
      BY <3>1
  <2>2. /\ v \o params \in Seq(Octet) /\ Len(v \o params) = n
        /\ Len(m) = n + 1
    <3>1. v \o params \in Seq(Octet) /\ Len(v \o params) = n
      BY <1>1, <1>3, ConcatProperties
    <3>2. Len(m) = Len(<<n>>) + Len(v \o params)
      BY <1>3, <2>1, <3>1, ConcatProperties
    <3> QED
      BY <2>1, <3>1, <3>2
  <2>3. Stands(<<n>>, d, p) /\ Stands(v \o params, d, p + 1)
    <3>1. Stands(<<n>>, d, p) /\ Stands(v \o params, d, p + Len(<<n>>))
      BY <1>3, <2>1, <2>2, StandsParts
    <3> QED
      BY <3>1, <2>1
  <2>4. d[p] = n
    <3>1. p \in p .. p + 1 - 1 /\ p - p + 1 = 1
      OBVIOUS
    <3> QED
      BY <2>1, <2>3, <3>1 DEF Stands
  <2>5. Stands(v, d, p + 1)
    <3>1. p + 1 \in Nat \ {0}
      OBVIOUS
    <3> QED
      BY <1>1, <2>3, <3>1, StandsParts
  <2>6. ContentTypeEnd(d, p, max) = MediaEnd(d, p + 1)
    <3>1. n <= 30 /\ n < max
      BY <2>2
    <3> QED
      BY <2>4, <3>1 DEF ContentTypeEnd
  <2>7. MediaEnd(d, p + 1) = IF v \in MmsValues THEN {p + 1 + Len(v)} ELSE {}
    <3>1. p + 1 \in Nat \ {0}
      OBVIOUS
    <3> QED
      BY <2>5, <3>1, MediaEndOf
  <2>8. p + 1 + Len(v) <= p + max
    <3>1. Len(params) \in Nat
      OBVIOUS
    <3> QED
      BY <2>2, <1>1, <1>3, <3>1
  <2> QED
    BY <2>6, <2>7, <2>8
<1>4. ASSUME NEW params \in Seq(Octet), NEW n \in 0 .. 127, n = Len(v) + Len(params),
             NEW w \in LengthForms(n), m = << 31 >> \o (w \o (v \o params))
      PROVE  (\E e \in ContentTypeEnd(d, p, max) : e <= p + max) <=> v \in MmsValues
  <2>1. << 31 >> \in Seq(Octet) /\ Len(<< 31 >>) = 1 /\ << 31 >>[1] = 31
    BY DEF Octet
  <2>2. w \in Seq(Octet) /\ Len(w) \in 1 .. 5
    BY LengthForm DEF Spared
  <2>3. v \o params \in Seq(Octet) /\ Len(v \o params) = n
    BY <1>1, <1>4, ConcatProperties
  <2>4. w \o (v \o params) \in Seq(Octet) /\ Len(w \o (v \o params)) = Len(w) + n
    BY <2>2, <2>3, ConcatProperties
  <2>5. Len(m) = 1 + Len(w) + n
    <3>1. Len(m) = Len(<< 31 >>) + Len(w \o (v \o params))
      BY <1>4, <2>1, <2>4, ConcatProperties
    <3> QED
      BY <3>1, <2>1, <2>2, <2>4
  <2>6. Stands(<< 31 >>, d, p) /\ Stands(w \o (v \o params), d, p + 1)
    <3>1. Stands(<< 31 >>, d, p) /\ Stands(w \o (v \o params), d, p + Len(<< 31 >>))
      BY <1>4, <2>1, <2>4, StandsParts
    <3> QED
      BY <3>1, <2>1
  <2>7. p + 1 \in Nat \ {0} /\ p + 1 + Len(w) \in Nat \ {0}
    BY <2>2
  <2>8. Stands(w, d, p + 1) /\ Stands(v \o params, d, p + 1 + Len(w))
    BY <2>2, <2>3, <2>6, <2>7, StandsParts
  <2>9. Stands(v, d, p + 1 + Len(w))
    BY <1>1, <2>7, <2>8, StandsParts
  <2>10. d[p] = 31
    <3>1. p \in p .. p + 1 - 1 /\ p - p + 1 = 1
      OBVIOUS
    <3> QED
      BY <2>1, <2>6, <3>1 DEF Stands
  <2> DEFINE k == p + max - 1
             c == SubSeq(d, 1, k)
  <2>11. k \in 0 .. Len(d) /\ p + 1 + Len(w) <= k + 1
    BY <2>5, <2>2
  <2> HIDE DEF k
  <2>12. c \in Seq(Octet) /\ Stands(w, c, p + 1)
    BY <2>2, <2>7, <2>8, <2>11, StandsPrefix
  <2>13. Uintvar(c, p + 1) = Reads(n, p + 1 + Len(w))
    <3> HIDE DEF c
    <3> QED
      BY <2>7, <2>12, UintvarOf
  <2>14. ContentTypeEnd(d, p, max)
           = UNION {MediaEnd(d, u.next) : u \in {u \in Uintvar(c, p + 1) :
                                                   u.next + u.value <= p + max}}
    BY <2>10 DEF ContentTypeEnd, k
  <2> HIDE DEF c
  <2>15. p + 1 + Len(w) + n <= p + max
    BY <2>2, <2>5
  <2>16. ContentTypeEnd(d, p, max) = MediaEnd(d, p + 1 + Len(w))
    <3>1. {u \in Uintvar(c, p + 1) : u.next + u.value <= p + max}
            = {[value |-> n, next |-> p + 1 + Len(w)]}
      BY <2>13, <2>15 DEF Reads
    <3> DEFINE T == {u \in Uintvar(c, p + 1) : u.next + u.value <= p + max}
    <3>2. \A u \in T : u.next = p + 1 + Len(w)
      BY <3>1
    <3>3. T /= {}
      BY <3>1
    <3> HIDE DEF T
    <3>4. UNION {MediaEnd(d, u.next) : u \in T} = MediaEnd(d, p + 1 + Len(w))
      BY <3>2, <3>3
    <3> QED
      BY <3>4, <2>14 DEF T
  <2>17. MediaEnd(d, p + 1 + Len(w)) = IF v \in MmsValues THEN {p + 1 + Len(w) + Len(v)} ELSE {}
    BY <2>7, <2>9, MediaEndOf
  <2>18. p + 1 + Len(w) + Len(v) <= p + max
    <3>1. Len(v) <= n
      BY <1>1, <1>4
    <3> QED
      BY <3>1, <1>1, <2>2, <2>15
  <2> QED
    BY <2>16, <2>17, <2>18
<1> QED
  <2>1. CASE m = v
    BY <1>2, <2>1
  <2>2. ASSUME NEW params \in Seq(Octet), Len(v) + Len(params) <= 30,
               m = <<Len(v) + Len(params)>> \o (v \o params)
        PROVE  (\E e \in ContentTypeEnd(d, p, max) : e <= p + max) <=> v \in MmsValues
    <3>1. Len(v) + Len(params) \in 0 .. 30
      BY <2>2, SumRange
    <3> QED
      BY <3>1, <2>2, <1>3
  <2>3. ASSUME NEW params \in Seq(Octet), Len(v) + Len(params) <= 127,
               NEW w \in LengthForms(Len(v) + Len(params)),
               m = << 31 >> \o (w \o (v \o params))
        PROVE  (\E e \in ContentTypeEnd(d, p, max) : e <= p + max) <=> v \in MmsValues
    <3>1. Len(v) + Len(params) \in 0 .. 127
      BY <2>3, SumRange
    <3> QED
      BY <3>1, <2>3, <1>4
  <2> QED
    BY <2>1, <2>2, <2>3 DEF IsMedia

\* The body of a push is found behind its headers, when these have been received.
LEMMA PushBodyOf ==
  ASSUME NEW d \in Seq(Octet), NEW tid \in Octet, NEW type \in Octet, NEW n \in 0 .. 127,
         NEW w \in LengthForms(n), NEW v \in Values, NEW m, IsMedia(m, v),
         NEW headers \in Seq(Octet), n = Len(m \o headers), NEW body \in Seq(Octet), NEW all,
         all = <<tid, type>> \o (w \o ((m \o headers) \o body)), Stands(d, all, 1)
  PROVE  PushBody(d) = IF /\ type \in PushTypes /\ v \in MmsValues
                          /\ 3 + Len(w) + n <= Len(d) + 1
                       THEN {3 + Len(w) + n} ELSE {}
<1> DEFINE T == <<tid, type>>
           h == m \o headers
           next == 3 + Len(w)
<1>1. /\ T \in Seq(Octet) /\ Len(T) = 2 /\ T[2] = type
      /\ w \in Seq(Octet) /\ Len(w) \in 1 .. 5
      /\ m \in Seq(Octet) /\ Len(m) >= 1
      /\ 1 \in Nat \ {0} /\ 3 \in Nat \ {0}
  <2>1. Spared(w, n)
    BY LengthForm
  <2>2. T \in Seq(Octet) /\ Len(T) = 2 /\ T[2] = type
    OBVIOUS
  <2>3. w \in Seq(Octet) /\ Len(w) \in 1 .. 5
    BY <2>1 DEF Spared
  <2>4. m \in Seq(Octet) /\ Len(m) >= 1
    BY MediaIs
  <2> QED
    BY <2>2, <2>3, <2>4
<1>2. h \in Seq(Octet) /\ Len(h) = n /\ Len(h) = Len(m) + Len(headers)
  BY <1>1, ConcatProperties
<1>3. n \in Nat /\ n >= 1 /\ Len(m) <= n /\ next \in Nat \ {0}
  <2>1. Len(headers) \in Nat /\ Len(m) \in Nat
    BY <1>1
  <2> QED
    BY <1>1, <1>2, <2>1
<1> HIDE DEF T, h
<1>4. h \o body \in Seq(Octet)
  BY <1>2, ConcatProperties
<1>5. w \o (h \o body) \in Seq(Octet)
  BY <1>1, <1>4, ConcatProperties
<1>6. all \in Seq(Octet) /\ all = T \o (w \o (h \o body))
  <2>1. all = T \o (w \o (h \o body))
    BY DEF T, h
  <2> DEFINE x == w \o (h \o body)
  <2>2. x \in Seq(Octet)
    BY <1>5
  <2> HIDE DEF x
  <2>3. T \o x \in Seq(Octet)
    BY <1>1, <2>2, ConcatProperties
  <2> QED
    BY <2>1, <2>3 DEF x
<1>7. Stands(all, all, 1)
  <2>1. \A j \in 1 .. 1 + Len(all) - 1 : all[j] = all[j - 1 + 1]
    BY <1>6
  <2> QED
    BY <1>6, <2>1 DEF Stands
<1>8. Stands(T, all, 1) /\ Stands(w \o (h \o body), all, 3)
  <2>1. Stands(T \o (w \o (h \o body)), all, 1)
    BY <1>6, <1>7
  <2> DEFINE x == w \o (h \o body)
  <2>2. x \in Seq(Octet)
    BY <1>5
  <2> HIDE DEF x
  <2>3. Stands(T, all, 1) /\ Stands(x, all, 1 + Len(T))
    <3>1. Stands(T \o x, all, 1)
      BY <2>1 DEF x
    <3> QED
      BY <1>1, <1>6, <2>2, <3>1, StandsParts
  <2> QED
    BY <2>3, <1>1 DEF x
<1>9. Stands(w, all, 3) /\ Stands(h \o body, all, next)
  <2> DEFINE x == h \o body
  <2>1. x \in Seq(Octet)
    BY <1>4
  <2> HIDE DEF x
  <2>2. Stands(w \o x, all, 3)
    BY <1>8 DEF x
  <2>3. Stands(w, all, 3) /\ Stands(x, all, 3 + Len(w))
    BY <1>1, <1>6, <2>1, <2>2, StandsParts
  <2> QED
    BY <2>3 DEF x
<1>10. Stands(m, all, next)
  <2>1. Stands(h, all, next)
    BY <1>2, <1>3, <1>4, <1>6, <1>9, StandsParts
  <2>2. h = m \o headers
    BY DEF h
  <2> QED
    BY <1>1, <1>3, <1>6, <2>1, <2>2, StandsParts
<1>11. /\ Len(d) <= Len(all)
       /\ \A j \in 1 .. Len(d) : d[j] = all[j]
  <2>1. \A j \in 1 .. Len(d) : all[j] = d[j]
    <3> SUFFICES ASSUME NEW j \in 1 .. Len(d) PROVE all[j] = d[j]
      OBVIOUS
    <3>1. j \in 1 .. 1 + Len(d) - 1 /\ j - 1 + 1 = j
      OBVIOUS
    <3> QED
      BY <3>1 DEF Stands
  <2>2. Len(d) <= Len(all)
    BY <1>6 DEF Stands
  <2> QED
    BY <2>1, <2>2
<1>12. PushBody(d)
         = IF Len(d) < 3 \/ d[2] \notin PushTypes THEN {}
           ELSE {u.next + u.value :
                 u \in {u \in Uintvar(d, 3) :
                        /\ u.value \in 1 .. Len(d) + 1 - u.next
                        /\ \E e \in ContentTypeEnd(d, u.next, u.value) : e <= u.next + u.value}}
  BY DEF PushBody
<1>13. CASE Len(d) < 3
  BY <1>12, <1>13, <1>1, <1>3
<1>14. CASE Len(d) >= 3 /\ type \notin PushTypes
  <2>1. d[2] = type
    <3>1. 2 \in 1 .. 1 + 2 - 1 /\ 2 - 1 + 1 = 2 /\ 2 \in 1 .. Len(d)
      BY <1>14
    <3>2. all[2] = T[2]
      BY <1>1, <1>8, <3>1 DEF Stands
    <3> QED
      BY <1>1, <1>11, <3>1, <3>2
  <2> QED
    BY <1>12, <1>14, <2>1
<1>15. ASSUME Len(d) >= 3, type \in PushTypes, Len(d) + 1 < next
       PROVE  PushBody(d) = {} /\ ~(next + n <= Len(d) + 1)
  <2>1. \A j \in 3 .. Len(d) : d[j] = w[j - 3 + 1]
    <3> SUFFICES ASSUME NEW j \in 3 .. Len(d) PROVE d[j] = w[j - 3 + 1]
      OBVIOUS
    <3>1. j \in 1 .. Len(d) /\ j \in 3 .. 3 + Len(w) - 1
      BY <1>1, <1>15
    <3> QED
      BY <1>9, <1>11, <3>1 DEF Stands
  <2>2. Uintvar(d, 3) = {}
    <3>1. Len(d) + 1 < 3 + Len(w)
      BY <1>15
    <3> QED
      BY <1>1, <2>1, <3>1, UintvarCut
  <2> QED
    BY <1>12, <1>15, <1>3, <2>2
<1>16. ASSUME Len(d) >= 3, type \in PushTypes, next <= Len(d) + 1
       PROVE  PushBody(d) = IF v \in MmsValues /\ next + n <= Len(d) + 1
                            THEN {next + n} ELSE {}
  <2>1. d[2] \in PushTypes
    <3>1. 2 \in 1 .. 1 + 2 - 1 /\ 2 - 1 + 1 = 2 /\ 2 \in 1 .. Len(d)
      BY <1>16
    <3>2. all[2] = T[2]
      BY <1>1, <1>8, <3>1 DEF Stands
    <3> QED
      BY <1>1, <1>11, <1>16, <3>1, <3>2
  <2>2. Stands(w, d, 3)
    <3>1. 3 + Len(w) <= Len(d) + 1
      BY <1>16
    <3> QED
      BY <1>1, <1>6, <1>9, <3>1, StandsBefore
  <2>3. Uintvar(d, 3) = Reads(n, next)
    <3>1. \A q \in Nat \ {0} : Stands(w, d, q) => Uintvar(d, q) = Reads(n, q + Len(w))
      BY UintvarOf
    <3> QED
      BY <1>1, <2>2, <3>1
  <2> HIDE DEF next
  <2>4. PushBody(d) = {u.next + u.value :
                       u \in {u \in Reads(n, next) :
                              /\ u.value \in 1 .. Len(d) + 1 - u.next
                              /\ \E e \in ContentTypeEnd(d, u.next, u.value) :
                                   e <= u.next + u.value}}
    BY <1>12, <1>16, <2>1, <2>3
  <2>5. PushBody(d) = IF /\ n \in 1 .. Len(d) + 1 - next
                         /\ \E e \in ContentTypeEnd(d, next, n) : e <= next + n
                      THEN {next + n} ELSE {}
    <3> DEFINE Fits(u) == /\ u.value \in 1 .. Len(d) + 1 - u.next
                          /\ \E e \in ContentTypeEnd(d, u.next, u.value) :
                               e <= u.next + u.value
               r == [value |-> n, next |-> next]
    <3>1. PushBody(d) = {u.next + u.value : u \in {u \in {r} : Fits(u)}}
      BY <2>4 DEF Reads
    <3>2. r.value = n /\ r.next = next
      OBVIOUS
    <3>3. Fits(r) <=> /\ n \in 1 .. Len(d) + 1 - next
                      /\ \E e \in ContentTypeEnd(d, next, n) : e <= next + n
      BY <3>2
    <3> HIDE DEF r, Fits
    <3>4. PushBody(d) = IF Fits(r) THEN {r.next + r.value} ELSE {}
      <4>1. CASE Fits(r)
        BY <3>1, <4>1
      <4>2. CASE ~ Fits(r)
        BY <3>1, <4>2
      <4> QED
        BY <4>1, <4>2
    <3> QED
      BY <3>2, <3>3, <3>4
  <2>6. n \in 1 .. Len(d) + 1 - next <=> next + n <= Len(d) + 1
    BY <1>3
  <2>7. ASSUME next + n <= Len(d) + 1
        PROVE  (\E e \in ContentTypeEnd(d, next, n) : e <= next + n) <=> v \in MmsValues
    <3>1. Stands(m, d, next)
      <4>1. next + Len(m) <= Len(d) + 1 /\ next \in Nat \ {0}
        BY <1>1, <1>3, <2>7
      <4> QED
        BY <1>1, <1>6, <1>10, <4>1, StandsBefore
    <3> QED
      BY <1>1, <1>3, <2>7, <3>1, MediaFound
  <2> QED
    BY <2>5, <2>6, <2>7
<1> QED
  BY <1>1, <1>3, <1>13, <1>14, <1>15, <1>16

\* A set of natural numbers has a least one.
LEMMA Least ==
  ASSUME NEW T, T \subseteq Nat, T /= {} PROVE \E m \in T : \A n \in T : m <= n
<1> DEFINE Segments == {1 .. n : n \in T}
<1>1. Segments \subseteq FiniteSubsetsOf(Nat) /\ Segments /= {}
  <2>1. ASSUME NEW n \in T PROVE 1 .. n \in FiniteSubsetsOf(Nat)
    <3>1. IsFiniteSet(1 .. n)
      BY FS_Interval
    <3> QED
      BY <3>1 DEF FiniteSubsetsOf
  <2> QED
    BY <2>1
<1>2. IsWellFoundedOn(StrictSubsetOrdering(Nat), FiniteSubsetsOf(Nat))
  BY FS_StrictSubsetOrderingWellFounded
<1>3. PICK x \in Segments : \A y \in Segments : ~ (<<y, x>> \in StrictSubsetOrdering(Nat))
  BY <1>1, <1>2, WFMin
<1>4. PICK m \in T : x = 1 .. m
  OBVIOUS
<1>5. ASSUME NEW n \in T, n < m PROVE FALSE
  <2>1. /\ 1 .. n \subseteq 1 .. m /\ m \in 1 .. m /\ m \notin 1 .. n
        /\ 1 .. n \subseteq Nat /\ 1 .. m \subseteq Nat
    BY <1>5
  <2>2. <<1 .. n, 1 .. m>> \in StrictSubsetOrdering(Nat)
    BY <2>1 DEF StrictSubsetOrdering
  <2> QED
    BY <2>2, <1>3, <1>4
<1> QED
  BY <1>5


-----------------------------------------------------------------------------
(* The recursive definitions of the model do define something *)

\* One element of a user data header after the other.
LEMMA FlattenParts ==
  ASSUME NEW seqs \in Seq(Seq(Octet)), NEW N \in Nat, N = Len(seqs)
  PROVE  \E f \in [0 .. N -> Seq(Octet)] :
           /\ f[0] = <<>> /\ \A i \in 1 .. N : f[i] = f[i - 1] \o seqs[i]
           /\ FlattenSeq(seqs) = f[N]
<1>1. CASE N = 0
  <2>1. seqs = <<>>
    <3>1. Len(seqs) = 0
      BY <1>1
    <3> QED
      BY <3>1, EmptySeq
  <2>2. FlattenSeq(seqs) = <<>>
    BY <2>1, <1>1 DEF FlattenSeq
  <2> DEFINE f == [i \in 0 .. 0 |-> <<>>]
  <2>3. <<>> \in Seq(Octet)
    OBVIOUS
  <2>4. f \in [0 .. N -> Seq(Octet)] /\ f[0] = <<>> /\ f[N] = <<>>
    BY <1>1, <2>3
  <2> HIDE DEF f
  <2> QED
    BY <1>1, <2>2, <2>4
<1>2. CASE N > 0
  <2> DEFINE Good(k, f) == f = [i \in 1 .. k |-> IF i = 1 THEN seqs[i] ELSE f[i - 1] \o seqs[i]]
             bad == {k \in 1 .. N : ~ \E f : Good(k, f)}
  <2> HIDE DEF Good
  <2>1. bad = {}
    <3> SUFFICES ASSUME bad /= {} PROVE FALSE
      OBVIOUS
    <3>1. bad \subseteq Nat
      OBVIOUS
    <3>2. PICK k \in bad : \A j \in bad : k <= j
      BY <3>1, Least
    <3>3. k \in 1 .. N /\ ~ \E f : Good(k, f)
      OBVIOUS
    <3> HIDE DEF bad
    <3>4. CASE k = 1
      <4> DEFINE f == [i \in 1 .. 1 |-> seqs[i]]
      <4>1. \A i \in 1 .. 1 : i = 1
        OBVIOUS
      <4>2. Good(1, f)
        BY <4>1 DEF Good
      <4> QED
        BY <3>3, <3>4, <4>2
    <3>5. CASE k > 1
      <4>1. k - 1 \in 1 .. N /\ k - 1 \notin bad
        BY <3>2, <3>3, <3>5
      <4>2. PICK g : Good(k - 1, g)
        BY <4>1 DEF bad
      <4> DEFINE f == [i \in 1 .. k |-> IF i = k THEN g[k - 1] \o seqs[k] ELSE g[i]]
      <4>3. ASSUME NEW i \in 1 .. k
            PROVE  f[i] = IF i = 1 THEN seqs[i] ELSE f[i - 1] \o seqs[i]
        <5>1. CASE i = k
          <6>1. k - 1 \in 1 .. k /\ k - 1 /= k
            BY <3>3, <3>5
          <6>2. f[k - 1] = g[k - 1]
            BY <6>1
          <6>3. f[k] = g[k - 1] \o seqs[k]
            <7>1. k \in 1 .. k
              BY <3>3
            <7> QED
              BY <7>1
          <6> HIDE DEF f
          <6>4. f[k] = f[k - 1] \o seqs[k]
            BY <6>2, <6>3
          <6>5. k /= 1
            BY <3>3, <3>5
          <6> QED
            BY <5>1, <6>4, <6>5
        <5>2. CASE i /= k /\ i /= 1
          <6>1. i \in 1 .. k - 1 /\ i - 1 \in 1 .. k /\ i - 1 /= k
            BY <3>3, <5>2
          <6>2. f[i] = g[i] /\ f[i - 1] = g[i - 1]
            BY <5>2, <6>1
          <6>3. g[i] = g[i - 1] \o seqs[i]
            BY <4>2, <6>1, <5>2 DEF Good
          <6> HIDE DEF f
          <6> QED
            BY <5>2, <6>2, <6>3
        <5>3. CASE i /= k /\ i = 1
          <6>1. i \in 1 .. k - 1
            BY <3>3, <5>3
          <6>2. f[i] = g[i]
            BY <5>3
          <6>3. g[i] = seqs[i]
            BY <4>2, <6>1, <5>3 DEF Good
          <6> QED
            BY <5>3, <6>2, <6>3
        <5> QED
          BY <5>1, <5>2, <5>3
      <4>4. Good(k, f)
        BY <4>3 DEF Good
      <4> HIDE DEF f
      <4> QED
        BY <3>3, <4>4
    <3> QED
      BY <3>3, <3>4, <3>5
  <2> DEFINE flatten[i \in 1 .. Len(seqs)] ==
               IF i = 1 THEN seqs[i] ELSE flatten[i - 1] \o seqs[i]
  <2>2. N \in 1 .. N
    BY <1>2
  <2>3. \E f : Good(N, f)
    BY <2>1, <2>2
  <2> HIDE DEF bad
  <2>4. flatten = [i \in 1 .. N |-> IF i = 1 THEN seqs[i] ELSE flatten[i - 1] \o seqs[i]]
    BY <2>3 DEF Good
  <2>5. FlattenSeq(seqs) = flatten[N]
    BY <1>2 DEF FlattenSeq
  <2> HIDE DEF flatten
  <2>6. \A i \in 1 .. N : flatten[i] = IF i = 1 THEN seqs[i] ELSE flatten[i - 1] \o seqs[i]
    BY <2>4
  <2> HIDE DEF Good
  <2> DEFINE untyped == {i \in 1 .. N : flatten[i] \notin Seq(Octet)}
  <2>7. untyped = {}
    <3> SUFFICES ASSUME untyped /= {} PROVE FALSE
      OBVIOUS
    <3>1. untyped \subseteq Nat
      OBVIOUS
    <3>2. PICK k \in untyped : \A j \in untyped : k <= j
      BY <3>1, Least
    <3>3. k \in 1 .. N /\ flatten[k] \notin Seq(Octet) /\ seqs[k] \in Seq(Octet)
      OBVIOUS
    <3> HIDE DEF untyped
    <3>4. CASE k = 1
      BY <3>3, <3>4, <2>6
    <3>5. CASE k > 1
      <4>1. k - 1 \in 1 .. N /\ k - 1 \notin untyped
        BY <3>2, <3>3, <3>5
      <4>2. flatten[k - 1] \in Seq(Octet)
        BY <4>1 DEF untyped
      <4>3. flatten[k - 1] \o seqs[k] \in Seq(Octet)
        BY <3>3, <4>2, ConcatProperties
      <4> QED
        BY <3>3, <3>5, <2>6, <4>3
    <3> QED
      BY <3>3, <3>4, <3>5
  <2> DEFINE f == [i \in 0 .. N |-> IF i = 0 THEN <<>> ELSE flatten[i]]
  <2>8. ASSUME NEW i \in 0 .. N PROVE f[i] \in Seq(Octet)
    <3>1. CASE i = 0
      BY <3>1
    <3>2. CASE i > 0
      BY <3>2, <2>7
    <3> QED
      BY <3>1, <3>2
  <2>9. f \in [0 .. N -> Seq(Octet)] /\ f[0] = <<>> /\ \A i \in 1 .. N : f[i] = flatten[i]
    <3>1. f \in [0 .. N -> Seq(Octet)]
      BY <2>8
    <3> QED
      BY <1>2, <3>1
  <2> HIDE DEF f
  <2>10. ASSUME NEW i \in 1 .. N PROVE f[i] = f[i - 1] \o seqs[i]
    <3>1. f[i] = IF i = 1 THEN seqs[i] ELSE flatten[i - 1] \o seqs[i]
      BY <2>6, <2>9
    <3>2. CASE i = 1
      <4>1. seqs[i] \in Seq(Octet) /\ i - 1 = 0
        BY <3>2
      <4>2. <<>> \o seqs[i] = seqs[i]
        BY <4>1, ConcatEmptySeq
      <4>3. f[i - 1] = <<>>
        BY <2>9, <4>1
      <4> QED
        BY <3>1, <3>2, <4>2, <4>3
    <3>3. CASE i /= 1
      <4>1. i - 1 \in 1 .. N
        BY <3>3
      <4>2. f[i - 1] = flatten[i - 1]
        BY <2>9, <4>1
      <4> QED
        BY <3>1, <3>3, <4>2
    <3> QED
      BY <3>2, <3>3
  <2>11. f[N] = flatten[N]
    BY <1>2, <2>9
  <2> QED
    BY <2>5, <2>9, <2>10, <2>11
<1>3. N = 0 \/ N > 0
  OBVIOUS
<1> QED
  BY <1>1, <1>2, <1>3, Zenon

\* What UdhSkip says of the place p, from what f says of later places.
PortStep(d, end, p, f) ==
  LET next == p + 2 + d[p + 1] IN
  CASE p = end                      -> "none"
    [] p = end - 1                  -> "malformed"
    [] p + 2 <= end /\ next > end   -> "malformed"
    [] p + 2 <= end /\ next <= end  -> Later(PortOf(d, p), f[next])

\* A step of the walk looks at what follows it only.
LEMMA PortSame ==
  ASSUME NEW d \in Seq(Octet), NEW end \in Nat, end - 1 <= Len(d), NEW p \in 2 .. end,
         NEW f, NEW g, \A q \in p + 1 .. end : f[q] = g[q]
  PROVE  PortStep(d, end, p, f) = PortStep(d, end, p, g)
<1> DEFINE next == p + 2 + d[p + 1]
<1>1. CASE p = end
  BY <1>1 DEF PortStep
<1>2. CASE p = end - 1
  BY <1>2 DEF PortStep
<1>3. CASE p + 2 <= end
  <2>1. d[p + 1] \in Octet
    <3>1. p + 1 \in 1 .. Len(d)
      BY <1>3
    <3> QED
      BY <3>1
  <2>2. next \in Nat /\ next >= p + 1
    <3>1. d[p + 1] \in Nat
      BY <2>1, OctetNat
    <3> QED
      BY <3>1
  <2>3. PortStep(d, end, p, f)
          = IF next > end THEN "malformed" ELSE Later(PortOf(d, p), f[next])
    BY <1>3, <2>2 DEF PortStep
  <2>4. PortStep(d, end, p, g)
          = IF next > end THEN "malformed" ELSE Later(PortOf(d, p), g[next])
    BY <1>3, <2>2 DEF PortStep
  <2> HIDE DEF next
  <2>5. next <= end => f[next] = g[next]
    BY <2>2
  <2> QED
    BY <2>2, <2>3, <2>4, <2>5
<1> QED
  BY <1>1, <1>2, <1>3

\* So there is a function that walks through the header.
LEMMA PortExists ==
  ASSUME NEW d \in Seq(Octet), NEW end \in Nat, end >= 2, end - 1 <= Len(d)
  PROVE  \E f : f = [p \in 2 .. end |-> PortStep(d, end, p, f)]
<1> DEFINE Good(k, f) == f = [p \in end - k .. end |-> PortStep(d, end, p, f)]
           bad == {k \in 0 .. end - 2 : ~ \E f : Good(k, f)}
<1> HIDE DEF Good
<1>1. bad = {}
  <2> SUFFICES ASSUME bad /= {} PROVE FALSE
    OBVIOUS
  <2>1. bad \subseteq Nat
    OBVIOUS
  <2>2. PICK k \in bad : \A j \in bad : k <= j
    BY <2>1, Least
  <2>3. k \in 0 .. end - 2 /\ ~ \E f : Good(k, f)
    OBVIOUS
  <2> HIDE DEF bad
  <2>4. CASE k = 0
    <3> DEFINE f == [p \in end - 0 .. end |-> "none"]
    <3>1. ASSUME NEW p \in end - 0 .. end PROVE PortStep(d, end, p, f) = "none"
      <4>1. p = end
        OBVIOUS
      <4> QED
        BY <4>1 DEF PortStep
    <3>2. f = [p \in end - 0 .. end |-> PortStep(d, end, p, f)]
      BY <3>1
    <3> HIDE DEF f
    <3>3. Good(0, f)
      BY <3>2 DEF Good
    <3> QED
      BY <2>3, <2>4, <3>3
  <2>5. CASE k > 0
    <3>1. k - 1 \in 0 .. end - 2 /\ k - 1 \notin bad
      BY <2>2, <2>3, <2>5
    <3>2. PICK g : Good(k - 1, g)
      BY <3>1 DEF bad
    <3> DEFINE q == end - k
               f == [p \in q .. end |-> IF p = q THEN PortStep(d, end, q, g) ELSE g[p]]
    <3>3. q \in 2 .. end /\ q + 1 = end - (k - 1)
      BY <2>3
    <3> HIDE DEF q
    <3>4. \A p \in q + 1 .. end : f[p] = g[p]
      BY <3>3
    <3>5. f[q] = PortStep(d, end, q, g)
      BY <3>3
    <3>6. g = [p \in q + 1 .. end |-> PortStep(d, end, p, g)]
      BY <3>2, <3>3 DEF Good
    <3>7. \A p \in q + 1 .. end : g[p] = PortStep(d, end, p, g)
      BY <3>6
    <3>8. f = [p \in q .. end |-> f[p]]
      OBVIOUS
    <3> HIDE DEF f
    <3>9. ASSUME NEW p \in q .. end PROVE f[p] = PortStep(d, end, p, f)
      <4>1. p \in 2 .. end /\ \A r \in p + 1 .. end : f[r] = g[r]
        BY <3>3, <3>4
      <4>2. PortStep(d, end, p, f) = PortStep(d, end, p, g)
        BY <4>1, PortSame
      <4>3. CASE p = q
        BY <3>5, <4>2, <4>3
      <4>4. CASE p /= q
        <5>1. p \in q + 1 .. end
          BY <3>3, <4>4
        <5> QED
          BY <3>4, <3>7, <4>2, <5>1
      <4> QED
        BY <4>3, <4>4
    <3>10. f = [p \in q .. end |-> PortStep(d, end, p, f)]
      BY <3>8, <3>9
    <3>11. Good(k, f)
      BY <3>10 DEF Good, q
    <3> QED
      BY <2>3, <3>11
  <2> QED
    BY <2>3, <2>4, <2>5
<1>2. end - 2 \in 0 .. end - 2 /\ end - (end - 2) = 2
  OBVIOUS
<1>3. PICK f : Good(end - 2, f)
  BY <1>1, <1>2
<1> QED
  BY <1>2, <1>3 DEF Good

\* UdhSkip by its recursive definition.
LEMMA UdhSkipIs ==
  ASSUME NEW d \in Seq(Octet), d /= <<>>
  PROVE  LET end == d[1] + 2 IN
         /\ end - 1 > Len(d) => UdhSkip(d) = {}
         /\ end - 1 <= Len(d) =>
              \E port : /\ \A p \in 2 .. end : port[p] = PortStep(d, end, p, port)
                        /\ UdhSkip(d) = IF port[2] \in {"none", "ours"}
                                        THEN {d[1] + 1} ELSE {}
<1> DEFINE end == d[1] + 2
           port[p \in 2 .. end] ==
             LET next == p + 2 + d[p + 1] IN
             CASE p = end                      -> "none"
               [] p = end - 1                  -> "malformed"
               [] p + 2 <= end /\ next > end   -> "malformed"
               [] p + 2 <= end /\ next <= end  -> Later(PortOf(d, p), port[next])
<1>1. end \in Nat /\ end >= 2
  <2>1. d[1] \in Octet
    BY EmptySeq
  <2> QED
    BY <2>1, OctetNat
<1>2. UdhSkip(d) = IF end - 1 <= Len(d) /\ port[2] \in {"none", "ours"} THEN {d[1] + 1} ELSE {}
  BY Zenon DEF UdhSkip
<1> HIDE DEF port
<1>3. ASSUME end - 1 > Len(d) PROVE UdhSkip(d) = {}
  <2>1. ~(end - 1 <= Len(d))
    BY <1>1, <1>3
  <2> QED
    BY <1>2, <2>1
<1>4. ASSUME end - 1 <= Len(d)
      PROVE  /\ \A p \in 2 .. end : port[p] = PortStep(d, end, p, port)
             /\ UdhSkip(d) = IF port[2] \in {"none", "ours"} THEN {d[1] + 1} ELSE {}
  <2> HIDE DEF end
  <2>1. \E f : f = [p \in 2 .. end |-> PortStep(d, end, p, f)]
    BY <1>1, <1>4, PortExists
  <2>2. port = [p \in 2 .. end |-> PortStep(d, end, p, port)]
    BY <2>1 DEF port, PortStep
  <2>3. \A p \in 2 .. end : port[p] = PortStep(d, end, p, port)
    BY <2>2
  <2> QED
    BY <1>2, <1>4, <2>3
<1> QED
  BY <1>3, <1>4

-----------------------------------------------------------------------------
(* User data headers *)

Elements == {e \in [iei : Octet, data : Seq(Octet)] : Len(e.data) \in Octet}

\* An element as it is sent, and what it says of the port.
Sent(e) == <<e.iei, Len(e.data)>> \o e.data

Names(e) ==
  IF e.iei = 5 /\ Len(e.data) = 4
  THEN IF SubSeq(e.data, 1, 2) = WspPushPort THEN "ours" ELSE "other"
  ELSE IF e.iei = 4 /\ Len(e.data) = 2 THEN "other" ELSE "none"

\* What an element looks like when it is sent.
LEMMA SentIs ==
  ASSUME NEW e \in Elements
  PROVE  /\ Sent(e) \in Seq(Octet) /\ Len(Sent(e)) = 2 + Len(e.data)
         /\ Sent(e)[1] = e.iei /\ Sent(e)[2] = Len(e.data)
         /\ \A i \in 1 .. Len(e.data) : Sent(e)[2 + i] = e.data[i]
<1> DEFINE h == <<e.iei, Len(e.data)>>
<1>1. /\ e.iei \in Octet /\ e.data \in Seq(Octet) /\ Len(e.data) \in Octet
      /\ Len(e.data) \in Nat
  BY DEF Elements
<1>2. h \in Seq(Octet) /\ Len(h) = 2 /\ h[1] = e.iei /\ h[2] = Len(e.data)
  BY <1>1
<1>3. Sent(e) = h \o e.data
  BY DEF Sent
<1> HIDE DEF h
<1>4. /\ Sent(e) \in Seq(Octet) /\ Len(Sent(e)) = 2 + Len(e.data)
      /\ \A i \in 1 .. 2 + Len(e.data) :
           Sent(e)[i] = IF i <= 2 THEN h[i] ELSE e.data[i - 2]
  <2>1. /\ h \o e.data \in Seq(Octet) /\ Len(h \o e.data) = Len(h) + Len(e.data)
        /\ \A i \in 1 .. Len(h) + Len(e.data) :
             (h \o e.data)[i] = IF i <= Len(h) THEN h[i] ELSE e.data[i - Len(h)]
    BY <1>1, <1>2, ConcatProperties
  <2> QED
    BY <1>2, <1>3, <2>1
<1>5. 1 \in 1 .. 2 + Len(e.data) /\ 2 \in 1 .. 2 + Len(e.data)
  BY <1>1
<1>6. ASSUME NEW i \in 1 .. Len(e.data) PROVE Sent(e)[2 + i] = e.data[i]
  <2>1. 2 + i \in 1 .. 2 + Len(e.data) /\ ~(2 + i <= 2) /\ (2 + i) - 2 = i
    BY <1>1
  <2> QED
    BY <2>1, <1>4
<1> QED
  BY <1>2, <1>4, <1>5, <1>6

\* An element is read as it was sent.
LEMMA PortOfElement ==
  ASSUME NEW e \in Elements, NEW d \in Seq(Octet), NEW q \in Nat \ {0}, Stands(Sent(e), d, q)
  PROVE  PortOf(d, q) = Names(e) /\ d[q + 1] = Len(e.data)
<1> DEFINE n == Len(e.data)
<1>1. e.iei \in Octet /\ e.data \in Seq(Octet) /\ n \in Octet /\ n \in Nat
  BY DEF Elements
<1>2. /\ q + (2 + n) <= Len(d) + 1
      /\ \A j \in q .. q + (2 + n) - 1 : d[j] = Sent(e)[j - q + 1]
  BY SentIs DEF Stands
<1>3. d[q] = e.iei
  <2>1. q \in q .. q + (2 + n) - 1 /\ q - q + 1 = 1
    BY <1>1
  <2> QED
    BY <1>2, <2>1, SentIs
<1>4. d[q + 1] = n
  <2>1. q + 1 \in q .. q + (2 + n) - 1 /\ q + 1 - q + 1 = 2
    BY <1>1
  <2> QED
    BY <1>2, <2>1, SentIs
<1>5. ASSUME NEW i \in 1 .. n PROVE d[q + 1 + i] = e.data[i]
  <2> DEFINE j == q + 1 + i
  <2>1. j \in q .. q + (2 + n) - 1 /\ j - q + 1 = 2 + i
    BY <1>1
  <2>2. Sent(e)[2 + i] = e.data[i]
    BY SentIs
  <2> HIDE DEF j
  <2>3. d[j] = e.data[i]
    BY <1>2, <2>1, <2>2
  <2> QED
    BY <2>3 DEF j
<1>6. CASE e.iei = 5 /\ n = 4
  <2>1. d[q + 2] = e.data[1] /\ d[q + 3] = e.data[2]
    <3>1. 1 \in 1 .. n /\ 2 \in 1 .. n /\ q + 1 + 1 = q + 2 /\ q + 1 + 2 = q + 3
      BY <1>6
    <3> QED
      BY <1>5, <3>1
  <2> DEFINE a == SubSeq(e.data, 1, 2)
             b == SubSeq(d, q + 2, q + 3)
  <2>2. a \in Seq(Octet) /\ Len(a) = 2 /\ a[1] = e.data[1] /\ a[2] = e.data[2]
    BY <1>1, <1>6
  <2>3. b \in Seq(Octet) /\ Len(b) = 2 /\ b[1] = d[q + 2] /\ b[2] = d[q + 3]
    BY <1>2, <1>6
  <2>4. a = b
    <3> HIDE DEF a, b
    <3>1. \A i \in 1 .. Len(a) : a[i] = b[i]
      BY <2>1, <2>2, <2>3
    <3> QED
      BY <2>2, <2>3, <3>1, SeqEqual
  <2>5. PortOf(d, q) = IF b = WspPushPort THEN "ours" ELSE "other"
    BY <1>3, <1>4, <1>6 DEF PortOf
  <2>6. Names(e) = IF a = WspPushPort THEN "ours" ELSE "other"
    BY <1>6 DEF Names
  <2> HIDE DEF a, b
  <2> QED
    BY <1>4, <2>4, <2>5, <2>6
<1>7. CASE ~(e.iei = 5 /\ n = 4)
  BY <1>3, <1>4, <1>7 DEF PortOf, Names
<1> QED
  BY <1>4, <1>6, <1>7

\* The greatest is one of them and is not less than any.
LEMMA MaxIs ==
  ASSUME NEW b \in Nat, NEW T, T \subseteq 0 .. b, T /= {}
  PROVE  Max(T) \in T /\ \A n \in T : n <= Max(T)
<1> DEFINE U == {b - n : n \in T}
<1>1. U \subseteq Nat /\ U /= {}
  <2>1. \A n \in T : b - n \in Nat
    OBVIOUS
  <2>2. U \subseteq Nat
    BY <2>1
  <2>3. PICK n \in T : TRUE
    OBVIOUS
  <2>4. b - n \in U
    BY <2>3
  <2> QED
    BY <2>2, <2>4
<1>2. PICK u \in U : \A v \in U : u <= v
  BY <1>1, Least
<1>3. PICK m \in T : u = b - m
  OBVIOUS
<1>4. \A n \in T : n <= m
  <2> SUFFICES ASSUME NEW n \in T PROVE n <= m
    OBVIOUS
  <2>1. b - n \in U
    OBVIOUS
  <2>2. b - m <= b - n
    BY <2>1, <1>2, <1>3
  <2>3. n \in 0 .. b /\ m \in 0 .. b
    OBVIOUS
  <2>4. \A i, j \in 0 .. b : b - j <= b - i => i <= j
    OBVIOUS
  <2> QED
    BY <2>2, <2>3, <2>4
<1> QED
  BY <1>4 DEF Max

\* The element that names a port last decides, when each leaves the decision to the
\* rest.
LEMMA LastDecides ==
  ASSUME NEW N \in Nat, NEW name, NEW r, r[N] = "none",
         \A i \in 1 .. N : r[i - 1] = Later(name[i], r[i])
  PROVE  LET naming == {i \in 1 .. N : name[i] /= "none"} IN
         r[0] = IF naming = {} THEN "none" ELSE name[Max(naming)]
<1> DEFINE naming == {i \in 1 .. N : name[i] /= "none"}
           Decided(i) == r[i] = IF naming = {} \/ i >= Max(naming) THEN "none"
                                ELSE name[Max(naming)]
           bad == {k \in 0 .. N : ~ Decided(N - k)}
<1>1. naming /= {} => Max(naming) \in naming /\ \A n \in naming : n <= Max(naming)
  <2>1. naming \subseteq 0 .. N
    OBVIOUS
  <2> HIDE DEF naming
  <2> QED
    BY <2>1, MaxIs
<1> DEFINE M == Max(naming)
<1>2. naming /= {} => M \in 1 .. N /\ name[M] /= "none"
  BY <1>1
<1>3. \A i \in 1 .. N : (naming = {} \/ i > M) => name[i] = "none"
  <2> SUFFICES ASSUME NEW i \in 1 .. N, naming = {} \/ i > M PROVE name[i] = "none"
    OBVIOUS
  <2>1. i \notin naming
    BY <1>1, <1>2
  <2> QED
    BY <2>1
<1>4. \A i \in 0 .. N : Decided(i) <=> r[i] = IF naming = {} \/ i >= M THEN "none" ELSE name[M]
  OBVIOUS
<1> HIDE DEF M, naming, Decided
<1>5. bad = {}
  <2> SUFFICES ASSUME bad /= {} PROVE FALSE
    OBVIOUS
  <2>1. bad \subseteq Nat
    OBVIOUS
  <2>2. PICK k \in bad : \A j \in bad : k <= j
    BY <2>1, Least
  <2>3. k \in 0 .. N /\ ~ Decided(N - k)
    OBVIOUS
  <2> DEFINE i == N - k
  <2>4. i \in 0 .. N
    BY <2>3
  <2>5. CASE k = 0
    <3>1. i = N
      BY <2>3, <2>5
    <3> QED
      BY <1>2, <1>4, <2>3, <3>1
  <2>6. CASE k > 0
    <3>1. k - 1 \in 0 .. N /\ k - 1 \notin bad /\ N - (k - 1) = i + 1
      BY <2>2, <2>3, <2>6
    <3>2. Decided(i + 1) /\ i + 1 \in 1 .. N /\ (i + 1) - 1 = i
      BY <3>1, <2>3, <2>6
    <3> HIDE DEF bad, i
    <3>3. r[i] = Later(name[i + 1], r[i + 1])
      BY <3>2
    <3>4. r[i + 1] = IF naming = {} \/ i + 1 >= M THEN "none" ELSE name[M]
      BY <1>4, <3>2
    <3>5. CASE naming = {} \/ i + 1 > M
      <4>1. name[i + 1] = "none" /\ r[i + 1] = "none"
        BY <1>2, <1>3, <3>2, <3>4, <3>5
      <4>2. naming = {} \/ i >= M
        BY <1>2, <2>4, <3>5
      <4>3. r[i] = "none"
        BY <3>3, <4>1 DEF Later
      <4> QED
        BY <1>4, <2>3, <2>4, <4>2, <4>3 DEF i
    <3>6. CASE naming /= {} /\ i + 1 = M
      <4>1. r[i + 1] = "none"
        BY <1>2, <3>4, <3>6
      <4>2. r[i] = name[M]
        BY <3>3, <3>6, <4>1 DEF Later
      <4>3. ~(naming = {} \/ i >= M)
        BY <1>2, <2>4, <3>6
      <4> QED
        BY <1>4, <2>3, <2>4, <4>2, <4>3 DEF i
    <3>7. CASE naming /= {} /\ i + 1 < M
      <4>1. r[i + 1] = name[M]
        BY <1>2, <2>4, <3>4, <3>7
      <4>2. r[i] = name[M]
        BY <1>2, <3>3, <3>7, <4>1 DEF Later
      <4>3. ~(naming = {} \/ i >= M)
        BY <1>2, <2>4, <3>7
      <4> QED
        BY <1>4, <2>3, <2>4, <4>2, <4>3 DEF i
    <3> QED
      BY <1>2, <2>4, <3>5, <3>6, <3>7
  <2> QED
    BY <2>3, <2>5, <2>6
<1>6. Decided(0)
  <2>1. N \in 0 .. N /\ N - N = 0
    OBVIOUS
  <2> QED
    BY <1>5, <2>1
<1>7. r[0] = IF naming = {} \/ 0 >= M THEN "none" ELSE name[M]
  BY <1>4, <1>6
<1>8. r[0] = IF naming = {} THEN "none" ELSE name[M]
  BY <1>2, <1>7
<1> QED
  BY <1>8 DEF M, naming

\* A user data header is skipped when it lets the push through.
LEMMA UdhSkipOf ==
  ASSUME NEW udh \in Seq(Elements), NEW flat, flat = FlattenSeq([i \in DOMAIN udh |-> Sent(udh[i])]),
         NEW d \in Seq(Octet), Len(flat) \in Octet, Stands(<<Len(flat)>> \o flat, d, 1)
  PROVE  LET naming == {i \in 1 .. Len(udh) : Names(udh[i]) /= "none"} IN
         UdhSkip(d) = IF naming = {} \/ Names(udh[Max(naming)]) = "ours"
                      THEN {Len(flat) + 1} ELSE {}
<1> DEFINE N == Len(udh)
           seqs == [i \in DOMAIN udh |-> Sent(udh[i])]
           L == Len(flat)
<1>1. /\ N \in Nat /\ seqs \in Seq(Seq(Octet)) /\ Len(seqs) = N
      /\ \A i \in 1 .. N : seqs[i] = Sent(udh[i]) /\ udh[i] \in Elements
  <2>1. \A i \in 1 .. N : udh[i] \in Elements
    OBVIOUS
  <2>2. \A i \in 1 .. N : Sent(udh[i]) \in Seq(Octet)
    BY <2>1, SentIs
  <2>3. DOMAIN udh = 1 .. N /\ N \in Nat
    OBVIOUS
  <2> QED
    BY <2>1, <2>2, <2>3
<1>2. flat = FlattenSeq(seqs)
  OBVIOUS
<1> HIDE DEF seqs, N
<1>3. PICK f \in [0 .. N -> Seq(Octet)] :
        /\ f[0] = <<>> /\ \A i \in 1 .. N : f[i] = f[i - 1] \o seqs[i]
        /\ FlattenSeq(seqs) = f[N]
  BY <1>1, FlattenParts
<1>4. flat = f[N] /\ flat \in Seq(Octet) /\ \A i \in 0 .. N : f[i] \in Seq(Octet)
  <2>1. N \in 0 .. N
    BY <1>1
  <2> QED
    BY <1>2, <1>3, <2>1
<1>5. L \in Octet /\ L \in Nat
  BY OctetNat
<1>6. Stands(<<L>>, d, 1) /\ Stands(flat, d, 2)
  <2>1. <<L>> \in Seq(Octet) /\ Len(<<L>>) = 1 /\ 1 \in Nat \ {0} /\ 1 + 1 = 2
    BY <1>5
  <2>2. Stands(<<L>>, d, 1) /\ Stands(flat, d, 1 + Len(<<L>>))
    BY <1>4, <2>1, StandsParts
  <2> QED
    BY <2>1, <2>2
<1> DEFINE end == L + 2
<1>7. d /= <<>> /\ d[1] = L /\ end = d[1] + 2 /\ end - 1 <= Len(d) /\ end \in Nat
  <2>1. 1 \in 1 .. 1 + 1 - 1 /\ 1 - 1 + 1 = 1 /\ Len(<<L>>) = 1 /\ <<L>>[1] = L
    OBVIOUS
  <2>2. d[1] = L /\ 1 + 1 <= Len(d) + 1
    BY <1>6, <2>1 DEF Stands
  <2>3. 2 + L <= Len(d) + 1
    BY <1>6 DEF Stands
  <2>4. d /= <<>>
    BY <2>2, EmptySeq
  <2> QED
    BY <1>5, <2>2, <2>3, <2>4
<1> HIDE DEF L
<1>8. PICK port : /\ \A p \in 2 .. end : port[p] = PortStep(d, end, p, port)
                  /\ UdhSkip(d) = IF port[2] \in {"none", "ours"} THEN {d[1] + 1} ELSE {}
  BY <1>7, UdhSkipIs
<1> DEFINE at(i) == 2 + Len(f[i])
           Good(i) == Stands(f[i], d, 2) /\ Len(f[i]) <= L
           bad == {k \in 0 .. N : ~ Good(N - k)}
<1> HIDE DEF end, Good
<1>9. ASSUME NEW i \in 1 .. N, Good(i)
      PROVE  Good(i - 1) /\ Stands(seqs[i], d, at(i - 1)) /\ at(i) = at(i - 1) + Len(seqs[i])
  <2>1. /\ f[i - 1] \in Seq(Octet) /\ seqs[i] \in Seq(Octet) /\ 2 \in Nat \ {0}
        /\ f[i] = f[i - 1] \o seqs[i]
    <3>1. i - 1 \in 0 .. N
      BY <1>1
    <3>2. f[i - 1] \in Seq(Octet)
      BY <1>4, <3>1
    <3>3. f[i] = f[i - 1] \o seqs[i]
      BY <1>3, Zenon
    <3>4. seqs[i] \in Seq(Octet) /\ 2 \in Nat \ {0}
      BY <1>1
    <3> QED
      BY <3>2, <3>3, <3>4
  <2>2. Len(f[i]) = Len(f[i - 1]) + Len(seqs[i])
    BY <2>1, ConcatProperties
  <2>3. Stands(f[i - 1] \o seqs[i], d, 2) /\ Len(f[i]) <= L
    BY <1>9, <2>1 DEF Good
  <2>4. Stands(f[i - 1], d, 2) /\ Stands(seqs[i], d, at(i - 1))
    BY <2>1, <2>3, StandsParts
  <2>5. Len(f[i - 1]) \in Nat /\ Len(seqs[i]) \in Nat
    BY <2>1
  <2>6. \A x, y, l \in Nat : /\ x + y <= l => x <= l
                            /\ 2 + (x + y) = (2 + x) + y
    OBVIOUS
  <2>7. Len(f[i - 1]) <= L
    <3>1. Len(f[i - 1]) + Len(seqs[i]) <= L
      BY <2>2, <2>3
    <3> QED
      BY <1>5, <2>5, <2>6, <3>1
  <2>8. at(i) = at(i - 1) + Len(seqs[i])
    BY <2>2, <2>5, <2>6
  <2> QED
    BY <2>4, <2>7, <2>8 DEF Good
<1>10. bad = {}
  <2> SUFFICES ASSUME bad /= {} PROVE FALSE
    OBVIOUS
  <2>1. bad \subseteq Nat
    OBVIOUS
  <2>2. PICK k \in bad : \A j \in bad : k <= j
    BY <2>1, Least
  <2>3. k \in 0 .. N /\ ~ Good(N - k)
    OBVIOUS
  <2>4. CASE k = 0
    <3>1. Good(N)
      BY <1>4, <1>5, <1>6 DEF Good, L
    <3>2. N - k = N
      BY <1>1, <2>4
    <3> QED
      BY <2>3, <3>1, <3>2
  <2>5. CASE k > 0
    <3>1. k - 1 \in 0 .. N /\ k - 1 \notin bad
      <4>1. k - 1 \in 0 .. N /\ ~(k <= k - 1)
        BY <1>1, <2>3, <2>5
      <4> HIDE DEF bad
      <4> QED
        BY <2>2, <4>1
    <3>2. Good(N - (k - 1))
      BY <3>1
    <3>3. N - (k - 1) \in 1 .. N /\ (N - (k - 1)) - 1 = N - k
      BY <1>1, <2>3, <2>5
    <3> HIDE DEF bad
    <3>4. Good((N - (k - 1)) - 1)
      BY <1>9, <3>2, <3>3
    <3> QED
      BY <2>3, <3>3, <3>4
  <2> QED
    BY <2>3, <2>4, <2>5
<1>11. \A i \in 0 .. N : Good(i)
  <2> SUFFICES ASSUME NEW i \in 0 .. N PROVE Good(i)
    OBVIOUS
  <2>1. N - i \in 0 .. N /\ N - (N - i) = i
    BY <1>1
  <2>2. N - i \notin bad
    BY <1>10
  <2>3. Good(N - (N - i))
    BY <2>1, <2>2
  <2> QED
    BY <2>1, <2>3
<1>12. \A i \in 0 .. N : at(i) \in 2 .. end
  <2> SUFFICES ASSUME NEW i \in 0 .. N PROVE at(i) \in 2 .. end
    OBVIOUS
  <2>1. Len(f[i]) \in Nat /\ Len(f[i]) <= L
    BY <1>4, <1>11 DEF Good
  <2>2. \A x, l \in Nat : x <= l => 2 + x \in 2 .. l + 2
    OBVIOUS
  <2> QED
    BY <1>5, <2>1, <2>2 DEF end
<1>13. ASSUME NEW i \in 1 .. N PROVE port[at(i - 1)] = Later(Names(udh[i]), port[at(i)])
  <2> DEFINE e == udh[i]
             q == at(i - 1)
             next == at(i)
  <2>1. e \in Elements /\ seqs[i] = Sent(e) /\ i \in 0 .. N /\ i - 1 \in 0 .. N
    BY <1>1
  <2>2. Good(i)
    BY <1>11, <2>1
  <2>3. Stands(Sent(e), d, q) /\ next = q + Len(Sent(e))
    BY <1>9, <2>1, <2>2
  <2>4. q \in 2 .. end /\ next \in 2 .. end
    BY <1>12, <2>1
  <2> HIDE DEF e, q, next
  <2>5. Len(Sent(e)) = 2 + Len(e.data) /\ Len(e.data) \in Nat
    BY <2>1, SentIs DEF Elements
  <2>6. PortOf(d, q) = Names(e) /\ d[q + 1] = Len(e.data)
    <3>1. q \in Nat \ {0}
      BY <2>4
    <3> QED
      BY <2>1, <2>3, <3>1, PortOfElement
  <2>7. next = q + 2 + d[q + 1] /\ q + 2 <= next
    <3>1. \A x, l \in Nat : x + (2 + l) = x + 2 + l /\ x + 2 <= x + (2 + l)
      OBVIOUS
    <3>2. q \in Nat
      BY <2>4
    <3>3. next = q + (2 + Len(e.data))
      BY <2>3, <2>5
    <3>4. next = q + 2 + Len(e.data) /\ q + 2 <= next
      BY <2>5, <3>1, <3>2, <3>3
    <3> QED
      BY <2>6, <3>4
  <2>8. q /= end /\ q /= end - 1 /\ q + 2 <= end /\ next <= end /\ ~(next > end)
    BY <1>7, <2>4, <2>7
  <2>9. PortStep(d, end, q, port) = Later(PortOf(d, q), port[next])
    BY <2>7, <2>8 DEF PortStep
  <2>10. port[q] = Later(Names(e), port[next])
    BY <1>8, <2>4, <2>6, <2>9
  <2> QED
    BY <2>10 DEF e, q, next
<1>14. at(N) = end /\ port[end] = "none"
  <2>1. at(N) = end
    <3>1. L = Len(f[N])
      BY <1>4 DEF L
    <3> QED
      BY <1>5, <3>1 DEF end
  <2>2. end \in 2 .. end
    BY <1>5, <1>7 DEF end
  <2>3. PortStep(d, end, end, port) = "none"
    BY <1>7 DEF PortStep
  <2> QED
    BY <1>8, <2>1, <2>2, <2>3
<1>15. at(0) = 2
  BY <1>3, EmptySeq
<1> DEFINE r == [i \in 0 .. N |-> port[at(i)]]
           name == [i \in 1 .. N |-> Names(udh[i])]
<1>16. r[N] = "none" /\ r[0] = port[2]
  <2>1. N \in 0 .. N /\ 0 \in 0 .. N
    BY <1>1
  <2> QED
    BY <1>14, <1>15, <2>1
<1>17. \A i \in 1 .. N : r[i - 1] = Later(name[i], r[i])
  <2> SUFFICES ASSUME NEW i \in 1 .. N PROVE r[i - 1] = Later(name[i], r[i])
    OBVIOUS
  <2>1. i \in 0 .. N /\ i - 1 \in 0 .. N
    BY <1>1
  <2>2. r[i - 1] = port[at(i - 1)] /\ r[i] = port[at(i)] /\ name[i] = Names(udh[i])
    BY <2>1
  <2> QED
    BY <1>13, <2>2
<1> DEFINE naming == {i \in 1 .. N : Names(udh[i]) /= "none"}
<1>18. naming = {i \in 1 .. N : name[i] /= "none"}
  OBVIOUS
<1> HIDE DEF r, at
<1>19. port[2] = IF naming = {} THEN "none" ELSE name[Max(naming)]
  <2> HIDE DEF name, naming
  <2> DEFINE named == {i \in 1 .. N : name[i] /= "none"}
  <2>1. N \in Nat
    BY <1>1
  <2>2. r[N] = "none" /\ \A i \in 1 .. N : r[i - 1] = Later(name[i], r[i])
    BY <1>16, <1>17
  <2>3. r[0] = IF named = {} THEN "none" ELSE name[Max(named)]
    BY <2>1, <2>2, LastDecides, Zenon
  <2> QED
    BY <1>16, <1>18, <2>3
<1>20. naming /= {} => name[Max(naming)] = Names(udh[Max(naming)])
  <2>1. naming \subseteq 0 .. N
    OBVIOUS
  <2> HIDE DEF naming
  <2>2. naming /= {} => Max(naming) \in naming
    BY <1>1, <2>1, MaxIs
  <2>3. naming /= {} => Max(naming) \in 1 .. N
    BY <2>2 DEF naming
  <2> QED
    BY <2>3
<1>21. naming /= {} => Names(udh[Max(naming)]) /= "none"
  <2>1. naming \subseteq 0 .. N
    OBVIOUS
  <2> HIDE DEF naming
  <2>2. naming /= {} => Max(naming) \in naming
    BY <1>1, <2>1, MaxIs
  <2> QED
    BY <2>2 DEF naming
<1> HIDE DEF name, naming
<1>22. UdhSkip(d) = IF naming = {} \/ Names(udh[Max(naming)]) = "ours" THEN {L + 1} ELSE {}
  <2>1. UdhSkip(d) = IF port[2] \in {"none", "ours"} THEN {L + 1} ELSE {}
    BY <1>7, <1>8
  <2>2. port[2] \in {"none", "ours"} <=> naming = {} \/ Names(udh[Max(naming)]) = "ours"
    BY <1>19, <1>20, <1>21
  <2> QED
    BY <2>1, <2>2
<1> QED
  BY <1>22 DEF naming, N, L

-----------------------------------------------------------------------------
(* Payloads *)

\* A push as a gateway writes it: its headers begin with a content type, and their
\* length fits an octet without its top bit.
WellFormed(p) ==
  /\ p.tid \in Octet /\ p.type \in Octet /\ p.cut \in Nat
  /\ p.length \in {"minimal", "padded", "wrapped"}
  /\ p.headers \in Seq(Octet) /\ p.body \in Seq(Octet) /\ Len(Headers(p)) <= 127
  /\ \E v \in Values : IsMedia(p.media, v) /\ (p.media \in MmsMedia <=> v \in MmsValues)
  /\ p.udh /= None => p.udh \in Seq(Elements) /\ Len(Udh(p)) <= 256

\* The payload is not also a push when its user data header is taken for the push, or,
\* where there is none, when its transaction id is taken for the length of one: as that
\* it would have to be 0, or leave room for the headers' length and end before the
\* payload.
Unambiguous(p) ==
  LET d == Payload(p) IN
  Len(d) >= 3 => IF p.udh = None
                 THEN /\ p.tid \notin d[3] + 2 .. Len(d) - 2
                      /\ p.tid = 0 => d[3] \notin PushTypes
                 ELSE d[2] \notin PushTypes

LengthField(p) ==
  LET n == Len(Headers(p)) IN
  CASE p.length = "minimal" -> <<n>>
    [] p.length = "padded"  -> <<128, 128, n>>
    [] p.length = "wrapped" -> <<144, 128, 128, 128, n>>

\* The octets behind the user data header.
Pdu(p) == <<p.tid, p.type>> \o (LengthField(p) \o (Headers(p) \o p.body))

\* A user data header is its length and its elements.
LEMMA UdhIs ==
  ASSUME NEW p, WellFormed(p)
  PROVE  /\ Udh(p) \in Seq(Octet)
         /\ p.udh = None => Udh(p) = <<>>
         /\ p.udh /= None =>
              \E flat \in Seq(Octet) :
                /\ flat = FlattenSeq([i \in DOMAIN p.udh |-> Sent(p.udh[i])])
                /\ Len(flat) \in Octet /\ Udh(p) = <<Len(flat)>> \o flat
                /\ Len(Udh(p)) = Len(flat) + 1
<1>1. CASE p.udh = None
  BY <1>1, EmptySeq DEF Udh
<1>2. CASE p.udh /= None
  <2> DEFINE udh == p.udh
             seqs == [i \in DOMAIN udh |-> Sent(udh[i])]
             flat == FlattenSeq(seqs)
             N == Len(udh)
  <2>1. udh \in Seq(Elements) /\ Len(Udh(p)) <= 256
    BY <1>2 DEF WellFormed
  <2> HIDE DEF udh
  <2>2. N \in Nat /\ seqs \in Seq(Seq(Octet)) /\ N = Len(seqs)
    <3>1. \A i \in 1 .. N : udh[i] \in Elements
      BY <2>1
    <3>2. \A i \in 1 .. N : Sent(udh[i]) \in Seq(Octet)
      BY <3>1, SentIs
    <3>3. DOMAIN udh = 1 .. N /\ N \in Nat
      BY <2>1
    <3> QED
      BY <3>2, <3>3
  <2> HIDE DEF seqs, N
  <2>3. flat \in Seq(Octet)
    <3>1. PICK f \in [0 .. N -> Seq(Octet)] : flat = f[N]
      BY <2>2, FlattenParts
    <3> QED
      BY <2>2, <3>1
  <2>4. Udh(p) = <<Len(flat)>> \o flat
    BY <1>2, Zenon DEF Udh, Sent, flat, seqs, udh
  <2> HIDE DEF flat
  <2>5. Len(flat) \in Nat
    BY <2>3
  <2>6. Len(Udh(p)) = Len(flat) + 1
    <3>1. <<Len(flat)>> \in Seq(Nat) /\ flat \in Seq(Nat) /\ Len(<<Len(flat)>>) = 1
      <4>1. \A i \in 1 .. Len(flat) : flat[i] \in Nat
        BY <2>3, OctetNat
      <4>2. flat \in Seq(Nat)
        BY <2>3, <4>1
      <4> QED
        BY <2>5, <4>2
    <3>2. Len(<<Len(flat)>> \o flat) = Len(<<Len(flat)>>) + Len(flat)
      BY <3>1, ConcatProperties
    <3> QED
      BY <2>4, <2>5, <3>1, <3>2
  <2>7. Len(flat) \in Octet
    <3>1. \A n \in Nat : n + 1 <= 256 => n \in Octet
      BY DEF Octet
    <3> QED
      BY <2>1, <2>5, <2>6, <3>1
  <2>8. Udh(p) \in Seq(Octet)
    <3>1. <<Len(flat)>> \in Seq(Octet)
      BY <2>7
    <3> QED
      BY <2>3, <2>4, <3>1, ConcatProperties
  <2> QED
    BY <1>2, <2>3, <2>4, <2>6, <2>7, <2>8 DEF flat, seqs, udh
<1> QED
  BY <1>1, <1>2

\* The octets behind it, and how many they are.
LEMMA PduIs ==
  ASSUME NEW p, WellFormed(p)
  PROVE  /\ LengthField(p) \in LengthForms(Len(Headers(p)))
         /\ Headers(p) \in Seq(Octet) /\ Len(Headers(p)) \in 0 .. 127
         /\ p.body \in Seq(Octet) /\ LengthField(p) \in Seq(Octet)
         /\ Pdu(p) \in Seq(Octet)
         /\ Len(Pdu(p)) = 2 + Len(LengthField(p)) + Len(Headers(p)) + Len(p.body)
<1> DEFINE H == Headers(p)
           w == LengthField(p)
           T == <<p.tid, p.type>>
<1>1. H \in Seq(Octet)
  <2>1. PICK v \in Values : IsMedia(p.media, v)
    BY DEF WellFormed
  <2>2. p.media \in Seq(Octet) /\ p.headers \in Seq(Octet)
    BY <2>1, MediaIs DEF WellFormed
  <2> QED
    BY <2>2, ConcatProperties DEF Headers
<1>2. Len(H) \in 0 .. 127
  <2>1. Len(H) \in Nat /\ Len(H) <= 127
    BY <1>1 DEF WellFormed
  <2>2. \A n \in Nat : n <= 127 => n \in 0 .. 127
    OBVIOUS
  <2> QED
    BY <2>1, <2>2
<1>3. w \in LengthForms(Len(H))
  <2>1. p.length \in {"minimal", "padded", "wrapped"}
    BY DEF WellFormed
  <2>2. CASE p.length = "minimal"
    BY <2>2 DEF LengthField, LengthForms
  <2>3. CASE p.length = "padded"
    BY <2>3 DEF LengthField, LengthForms
  <2>4. CASE p.length = "wrapped"
    BY <2>4 DEF LengthField, LengthForms
  <2> QED
    BY <2>1, <2>2, <2>3, <2>4
<1>4. w \in Seq(Octet)
  <2>1. Spared(w, Len(H))
    BY <1>2, <1>3, LengthForm
  <2> QED
    BY <2>1 DEF Spared
<1>5. p.body \in Seq(Octet) /\ T \in Seq(Octet) /\ Len(T) = 2
  BY DEF WellFormed
<1>6. Pdu(p) = T \o (w \o (H \o p.body))
  BY DEF Pdu
<1> HIDE DEF H, w, T
<1>7. H \o p.body \in Seq(Octet) /\ Len(H \o p.body) = Len(H) + Len(p.body)
  BY <1>1, <1>5, ConcatProperties
<1>8. w \o (H \o p.body) \in Seq(Octet) /\ Len(w \o (H \o p.body)) = Len(w) + Len(H \o p.body)
  BY <1>4, <1>7, ConcatProperties
<1>9. /\ T \o (w \o (H \o p.body)) \in Seq(Octet)
      /\ Len(T \o (w \o (H \o p.body))) = Len(T) + Len(w \o (H \o p.body))
  BY <1>5, <1>8, ConcatProperties
<1>10. Len(Pdu(p)) = 2 + Len(w) + Len(H) + Len(p.body)
  <2>1. Len(w) \in Nat /\ Len(H) \in Nat /\ Len(p.body) \in Nat
    BY <1>1, <1>4, <1>5
  <2>2. \A a, b, c \in Nat : 2 + (a + (b + c)) = 2 + a + b + c
    OBVIOUS
  <2> QED
    <3>1. Len(Pdu(p)) = 2 + (Len(w) + (Len(H) + Len(p.body)))
      BY <1>5, <1>6, <1>7, <1>8, <1>9
    <3> QED
      BY <2>1, <2>2, <3>1
<1> QED
  BY <1>1, <1>2, <1>3, <1>4, <1>5, <1>6, <1>9, <1>10 DEF H, w

\* Five sequences can be joined from either end.
Regroups(a, b, c) == (a \o b) \o c = a \o (b \o c)

LEMMA Regrouped == \A S : \A a, b, c \in Seq(S) : Regroups(a, b, c)
BY ConcatAssociative DEF Regroups

Joined(a, b, c, e, f) ==
  /\ (((a \o b) \o c) \o e) \o f = a \o (b \o (c \o (e \o f)))
  /\ Len(((a \o b) \o c) \o e) = Len(a) + (Len(b) + Len(c) + Len(e))

LEMMA Associates ==
  ASSUME NEW a \in Seq(Octet), NEW b \in Seq(Octet), NEW c \in Seq(Octet),
         NEW e \in Seq(Octet), NEW f \in Seq(Octet)
  PROVE  Joined(a, b, c, e, f)
<1> DEFINE ab == a \o b
           abc == ab \o c
           ef == e \o f
           cef == c \o ef
<1>1. ab \in Seq(Octet) /\ ef \in Seq(Octet) /\ Len(ab) = Len(a) + Len(b)
  BY ConcatProperties
<1>2. abc = ab \o c /\ cef = c \o ef
  OBVIOUS
<1>3. ab = a \o b /\ ef = e \o f
  OBVIOUS
<1> HIDE DEF ab, ef, abc, cef
<1>4. abc \in Seq(Octet) /\ cef \in Seq(Octet) /\ Len(abc) = Len(ab) + Len(c)
  BY <1>1, <1>2, ConcatProperties
<1>5. Len(abc \o e) = Len(abc) + Len(e)
  BY <1>4, ConcatProperties
<1>6. Regroups(abc, e, f) /\ Regroups(ab, c, ef) /\ Regroups(a, b, cef)
  BY <1>1, <1>4, Regrouped
<1>7. (abc \o e) \o f = a \o (b \o cef)
  BY <1>2, <1>3, <1>6 DEF Regroups
<1>8. Len(abc \o e) = Len(a) + (Len(b) + Len(c) + Len(e))
  BY <1>1, <1>4, <1>5
<1> QED
  BY <1>2, <1>3, <1>7, <1>8 DEF Joined

\* The beginning of a sequence stands in it.
LEMMA PrefixIs ==
  ASSUME NEW s \in Seq(Octet), NEW k \in Int, k <= Len(s)
  PROVE  /\ SubSeq(s, 1, k) \in Seq(Octet) /\ Stands(SubSeq(s, 1, k), s, 1)
         /\ Len(SubSeq(s, 1, k)) = IF k >= 0 THEN k ELSE 0
<1> DEFINE e == SubSeq(s, 1, k)
<1>1. CASE k >= 0
  <2>1. e \in Seq(Octet) /\ Len(e) = k /\ \A i \in 1 .. k : e[i] = s[i]
    BY <1>1, SubSeqProperties
  <2> HIDE DEF e
  <2>2. \A j \in 1 .. 1 + Len(e) - 1 : s[j] = e[j - 1 + 1]
    BY <2>1
  <2> QED
    BY <1>1, <2>1, <2>2 DEF Stands, e
<1>2. CASE k < 0
  <2>1. e = <<>> /\ e \in Seq(Octet) /\ Len(e) = 0
    BY <1>2, SubSeqEmpty, EmptySeq
  <2> HIDE DEF e
  <2> QED
    BY <1>2, <2>1 DEF Stands, e
<1> QED
  BY <1>1, <1>2

\* A payload is the beginning of its user data header and its push.
LEMMA PayloadIs ==
  ASSUME NEW p, WellFormed(p)
  PROVE  LET all == Udh(p) \o Pdu(p) IN
         /\ all \in Seq(Octet) /\ Len(all) = Len(Udh(p)) + Len(Pdu(p))
         /\ Payload(p) \in Seq(Octet) /\ Stands(Payload(p), all, 1)
         /\ Len(Payload(p)) = IF p.cut <= Len(all) THEN Len(all) - p.cut ELSE 0
         /\ Len(Envelope(p) \o Headers(p))
              = Len(Udh(p)) + (2 + Len(LengthField(p)) + Len(Headers(p)))
<1> DEFINE U == Udh(p)
           T == <<p.tid, p.type>>
           w == LengthField(p)
           H == Headers(p)
           B == p.body
           c == p.cut
           P == Pdu(p)
           all == U \o P
<1>1. /\ U \in Seq(Octet) /\ T \in Seq(Octet) /\ w \in Seq(Octet) /\ H \in Seq(Octet)
      /\ B \in Seq(Octet) /\ Len(T) = 2 /\ c \in Nat /\ P \in Seq(Octet)
  <2>1. T \in Seq(Octet) /\ Len(T) = 2 /\ c \in Nat
    BY DEF WellFormed
  <2> QED
    BY <2>1, UdhIs, PduIs
<1>2. Envelope(p) = (U \o T) \o w
  BY DEF Envelope, LengthField
<1>3. Payload(p) = SubSeq((Envelope(p) \o H) \o B, 1, Len((Envelope(p) \o H) \o B) - c)
  BY DEF Payload
<1>4. P = T \o (w \o (H \o B))
  BY DEF Pdu
<1> HIDE DEF U, T, w, H, B, c, P
<1>5. all \in Seq(Octet) /\ Len(all) = Len(U) + Len(P)
  BY <1>1, ConcatProperties
<1>6. /\ (((U \o T) \o w) \o H) \o B = all
      /\ Len(((U \o T) \o w) \o H) = Len(U) + (Len(T) + Len(w) + Len(H))
  <2>1. Joined(U, T, w, H, B)
    BY <1>1, Associates
  <2> QED
    BY <1>4, <2>1 DEF Joined
<1>7. Len(Envelope(p) \o H) = Len(U) + (2 + Len(w) + Len(H))
  BY <1>1, <1>2, <1>6
<1> HIDE DEF all
<1>8. Payload(p) = SubSeq(all, 1, Len(all) - c)
  BY <1>2, <1>3, <1>6
<1>9. /\ Payload(p) \in Seq(Octet) /\ Stands(Payload(p), all, 1)
      /\ Len(Payload(p)) = IF c <= Len(all) THEN Len(all) - c ELSE 0
  <2> DEFINE k == Len(all) - c
  <2>1. k \in Int /\ k <= Len(all) /\ (k >= 0 <=> c <= Len(all))
    <3>1. Len(all) \in Nat
      BY <1>5
    <3> QED
      BY <1>1, <3>1
  <2>2. Payload(p) = SubSeq(all, 1, k)
    BY <1>8
  <2> HIDE DEF k
  <2>3. /\ SubSeq(all, 1, k) \in Seq(Octet) /\ Stands(SubSeq(all, 1, k), all, 1)
        /\ Len(SubSeq(all, 1, k)) = IF k >= 0 THEN k ELSE 0
    BY <1>5, <2>1, PrefixIs
  <2> QED
    BY <2>1, <2>2, <2>3 DEF k
<1> QED
  BY <1>5, <1>7, <1>9 DEF all, U, w, H, P, c

\* Whether a push is looked for behind its header, as the module means it or not.
Passes(p) == Admitted(p) \/ Overruled(p)

\* A user data header lets a push through when the last of its elements that names a
\* port names ours, or none does.
LEMMA PassesWhen ==
  ASSUME NEW p, p.udh /= None, p.udh \in Seq(Elements)
  PROVE  LET naming == {i \in 1 .. Len(p.udh) : Names(p.udh[i]) /= "none"} IN
         Passes(p) <=> (naming = {} \/ Names(p.udh[Max(naming)]) = "ours")
<1> DEFINE N == 1 .. Len(p.udh)
           naming == {i \in N : Names(p.udh[i]) /= "none"}
           last == Max(naming)
<1>1. DOMAIN p.udh = N /\ Len(p.udh) \in Nat
  OBVIOUS
<1>2. ASSUME NEW i \in N
      PROVE  /\ NamesPort(p.udh[i]) <=> i \in naming
             /\ NamesOurs(p.udh[i]) <=> Names(p.udh[i]) = "ours"
  <2> DEFINE e == p.udh[i]
  <2>1. i \in naming <=> Names(e) /= "none"
    OBVIOUS
  <2> HIDE DEF naming, e
  <2>2. /\ NamesPort(e) <=> Names(e) /= "none"
        /\ NamesOurs(e) <=> Names(e) = "ours"
    BY DEF NamesPort, NamesOurs, Names
  <2> QED
    BY <2>1, <2>2 DEF e
<1>3. naming \subseteq N /\ \A i \in N : Names(p.udh[i]) = "ours" => i \in naming
  OBVIOUS
<1>4. naming /= {} => last \in naming /\ \A i \in naming : i <= last
  <2>1. naming \subseteq 0 .. Len(p.udh)
    BY <1>1
  <2> HIDE DEF naming
  <2> QED
    BY <1>1, <2>1, MaxIs
<1> HIDE DEF naming, last
<1>5. Admitted(p) <=> \A i \in naming : Names(p.udh[i]) = "ours"
  <2>1. Admitted(p) <=> \A i \in N : NamesPort(p.udh[i]) => NamesOurs(p.udh[i])
    <3> HIDE DEF N
    <3> QED
      BY <1>1 DEF Admitted
  <2> HIDE DEF N
  <2> QED
    BY <1>2, <1>3, <2>1
<1>6. ASSUME Overruled(p) PROVE naming /= {} /\ Names(p.udh[last]) = "ours"
  <2>1. PICK i \in N, j \in N : NamesOurs(p.udh[j]) /\ \A k \in N : k > j => ~ NamesPort(p.udh[k])
    BY <1>1, <1>6 DEF Overruled
  <2>2. j \in naming /\ Names(p.udh[j]) = "ours" /\ \A k \in naming : ~(k > j)
    <3> HIDE DEF N
    <3> QED
      BY <1>2, <1>3, <2>1
  <2>3. last = j
    BY <1>3, <1>4, <2>2
  <2> QED
    BY <2>2, <2>3
<1>7. ASSUME naming /= {}, Names(p.udh[last]) = "ours", ~ Admitted(p) PROVE Overruled(p)
  <2>1. last \in N /\ NamesOurs(p.udh[last])
    BY <1>2, <1>3, <1>4, <1>7
  <2>2. PICK i \in naming : Names(p.udh[i]) /= "ours"
    BY <1>5, <1>7
  <2>3. i \in N /\ NamesPort(p.udh[i]) /\ ~ NamesOurs(p.udh[i])
    BY <1>2, <1>3, <2>2
  <2>4. i < last
    <3>1. i /= last /\ i <= last
      BY <1>4, <1>7, <2>2
    <3> QED
      BY <2>1, <2>3, <3>1
  <2>5. \A k \in N : k > last => ~ NamesPort(p.udh[k])
    <3>1. ASSUME NEW k \in N, k > last PROVE k \notin naming
      BY <1>4, <2>1, <3>1
    <3> QED
      BY <1>2, <3>1
  <2> HIDE DEF N
  <2> QED
    BY <1>1, <2>1, <2>3, <2>4, <2>5 DEF Overruled
<1>8. Passes(p) <=> (naming = {} \/ Names(p.udh[last]) = "ours")
  <2>1. Admitted(p) => naming = {} \/ Names(p.udh[last]) = "ours"
    BY <1>4, <1>5
  <2>2. naming = {} => Admitted(p)
    BY <1>5
  <2> QED
    BY <1>6, <1>7, <2>1, <2>2 DEF Passes
<1> QED
  BY <1>8 DEF naming, last

\* What follows the user data header, found as if there had been none.
LEMMA PduFound ==
  ASSUME NEW p, WellFormed(p), NEW d \in Seq(Octet), Stands(d, Pdu(p), 1)
  PROVE  LET at == 3 + Len(LengthField(p)) + Len(Headers(p)) IN
         PushBody(d) = IF p.type \in PushTypes /\ p.media \in MmsMedia /\ at <= Len(d) + 1
                       THEN {at} ELSE {}
<1>1. PICK v \in Values : IsMedia(p.media, v) /\ (p.media \in MmsMedia <=> v \in MmsValues)
  BY DEF WellFormed
<1> DEFINE n == Len(Headers(p))
           w == LengthField(p)
<1>2. n \in 0 .. 127 /\ w \in LengthForms(n)
  BY PduIs
<1>3. p.tid \in Octet /\ p.type \in Octet /\ p.headers \in Seq(Octet) /\ p.body \in Seq(Octet)
  BY DEF WellFormed
<1>4. n = Len(p.media \o p.headers)
  BY DEF Headers
<1>5. Pdu(p) = <<p.tid, p.type>> \o (w \o ((p.media \o p.headers) \o p.body))
  BY DEF Pdu, Headers
<1> HIDE DEF n, w
<1>6. PushBody(d) = IF p.type \in PushTypes /\ v \in MmsValues /\ 3 + Len(w) + n <= Len(d) + 1
                    THEN {3 + Len(w) + n} ELSE {}
  BY <1>1, <1>2, <1>3, <1>4, <1>5, PushBodyOf
<1> QED
  BY <1>1, <1>6 DEF n, w

\* What is behind the first part of a sequence begins the second.
LEMMA RestStands ==
  ASSUME NEW u \in Seq(Octet), NEW q \in Seq(Octet), NEW d \in Seq(Octet),
         Stands(d, u \o q, 1), Len(u) <= Len(d)
  PROVE  /\ SubSeq(d, Len(u) + 1, Len(d)) \in Seq(Octet)
         /\ Len(SubSeq(d, Len(u) + 1, Len(d))) = Len(d) - Len(u)
         /\ Stands(SubSeq(d, Len(u) + 1, Len(d)), q, 1)
<1> DEFINE rest == SubSeq(d, Len(u) + 1, Len(d))
           k == Len(u)
           l == Len(d)
           all == u \o q
<1>1. /\ Len(all) = k + Len(q) /\ k \in Nat /\ l \in Nat /\ Len(q) \in Nat
      /\ \A i \in 1 .. k + Len(q) : all[i] = IF i <= k THEN u[i] ELSE q[i - k]
  BY ConcatProperties
<1>2. /\ rest \in Seq(Octet) /\ Len(rest) = l - k
      /\ \A i \in 1 .. l - k : rest[i] = d[k + i]
  <2>1. rest \in Seq(Octet) /\ Len(rest) = l - k
    BY <1>1, SubSeqProperties
  <2>2. ASSUME NEW i \in 1 .. l - k PROVE rest[i] = d[k + i]
    <3>1. i \in 1 .. l - (k + 1) + 1 /\ (k + 1) + i - 1 = k + i
      BY <1>1
    <3>2. rest[i] = d[(k + 1) + i - 1]
      BY <1>1, <3>1
    <3> QED
      BY <3>1, <3>2
  <2> QED
    BY <2>1, <2>2
<1>3. l <= k + Len(q) /\ \A j \in 1 .. l : all[j] = d[j]
  <2>1. 1 + l <= Len(all) + 1 /\ \A j \in 1 .. 1 + l - 1 : all[j] = d[j - 1 + 1]
    BY DEF Stands
  <2>2. \A j \in 1 .. l : j \in 1 .. 1 + l - 1 /\ j - 1 + 1 = j
    BY <1>1
  <2> HIDE DEF all, l
  <2>3. l <= k + Len(q)
    BY <1>1, <2>1
  <2> QED
    BY <2>1, <2>2, <2>3
<1> HIDE DEF rest, k, l, all
<1>4. ASSUME NEW j \in 1 .. 1 + Len(rest) - 1 PROVE q[j] = rest[j - 1 + 1]
  <2>1. j \in 1 .. l - k /\ j - 1 + 1 = j /\ k + j \in 1 .. l /\ k + j \in 1 .. k + Len(q)
        /\ ~(k + j <= k) /\ (k + j) - k = j
    BY <1>1, <1>2, <1>3
  <2> DEFINE i == k + j
  <2>2. all[i] = d[i] /\ rest[j] = d[i]
    BY <1>2, <1>3, <2>1
  <2>3. all[i] = q[i - k]
    BY <1>1, <2>1
  <2> QED
    BY <2>1, <2>2, <2>3
<1>5. 1 + Len(rest) <= Len(q) + 1
  BY <1>1, <1>2, <1>3
<1> QED
  BY <1>2, <1>4, <1>5 DEF Stands, rest, k, l

\* A first octet that is too great for the element behind it, or leaves room for less
\* than one, is not the length of a user data header.
LEMMA NoUdh ==
  ASSUME NEW d \in Seq(Octet), Len(d) >= 3, d[1] >= 1, d[1] <= d[3] + 1
  PROVE  UdhSkip(d) = {}
<1> DEFINE end == d[1] + 2
<1>1. d[1] \in Nat /\ d[3] \in Nat /\ d /= <<>> /\ end \in Nat
  <2>1. d[1] \in Octet /\ d[3] \in Octet /\ d /= <<>>
    BY EmptySeq
  <2> QED
    BY <2>1, OctetNat
<1>2. CASE end - 1 > Len(d)
  BY <1>1, <1>2, UdhSkipIs
<1>3. CASE end - 1 <= Len(d)
  <2>1. PICK port : /\ \A p \in 2 .. end : port[p] = PortStep(d, end, p, port)
                    /\ UdhSkip(d) = IF port[2] \in {"none", "ours"} THEN {d[1] + 1} ELSE {}
    BY <1>1, <1>3, UdhSkipIs
  <2> DEFINE next == 2 + 2 + d[2 + 1]
  <2>2. /\ 2 \in 2 .. end /\ 2 /= end /\ (2 = end - 1 \/ (2 + 2 <= end /\ next > end))
        /\ end \in Nat /\ next \in Nat
    BY <1>1
  <2> HIDE DEF end, next
  <2>3. PortStep(d, end, 2, port) = "malformed"
    <3>1. CASE 2 = end - 1
      BY <2>2, <3>1 DEF PortStep
    <3>2. CASE 2 /= end - 1
      BY <2>2, <3>2 DEF PortStep, next
    <3> QED
      BY <3>1, <3>2
  <2>4. port[2] = "malformed"
    BY <2>1, <2>2, <2>3
  <2> QED
    BY <2>1, <2>4
<1>4. Len(d) \in Nat
  OBVIOUS
<1> QED
  BY <1>1, <1>2, <1>3, <1>4

\* Where its body begins.
Place(p) == Len(Udh(p)) + (3 + Len(LengthField(p)) + Len(Headers(p)))

\* Whether it is looked at.
Lets(p) == Passes(p) /\ p.type \in PushTypes /\ p.media \in MmsMedia

\* Where the body begins.
LEMMA PlaceIs ==
  ASSUME NEW p, WellFormed(p)
  PROVE  /\ Place(p) \in Nat /\ Len(Udh(p)) \in Nat /\ Len(Pdu(p)) \in Nat
         /\ Place(p) = Len(Envelope(p) \o Headers(p)) + 1
         /\ Place(p) + Len(p.body) = Len(Udh(p)) + Len(Pdu(p)) + 1
         /\ Place(p) >= Len(Udh(p)) + 4 /\ Len(p.body) \in Nat
<1> DEFINE u == Len(Udh(p))
           w == Len(LengthField(p))
           n == Len(Headers(p))
           b == Len(p.body)
           q == Len(Pdu(p))
           e == Len(Envelope(p) \o Headers(p))
<1>1. u \in Nat /\ w \in Nat /\ n \in Nat /\ b \in Nat /\ w >= 1
  <2>1. u \in Nat
    BY UdhIs
  <2>2. w \in Nat /\ n \in Nat /\ b \in Nat
    BY PduIs
  <2>3. w >= 1
    <3>1. Spared(LengthField(p), n)
      BY PduIs, LengthForm
    <3>2. w \in 1 .. 5
      BY <3>1 DEF Spared
    <3> QED
      BY <3>2
  <2> QED
    BY <2>1, <2>2, <2>3
<1>2. q = 2 + w + n + b
  BY PduIs
<1>3. e = u + (2 + w + n)
  BY PayloadIs
<1>4. Place(p) = u + (3 + w + n)
  BY DEF Place
<1> HIDE DEF u, w, n, b, q, e
<1>5. /\ Place(p) \in Nat /\ q \in Nat /\ Place(p) = e + 1 /\ Place(p) + b = u + q + 1
      /\ Place(p) >= u + 4
  BY <1>1, <1>2, <1>3, <1>4
<1> QED
  BY <1>1, <1>5 DEF u, b, q, e

\* Without a user data header the push is found at once, and nowhere else.
LEMMA ExtractWithout ==
  ASSUME NEW p, WellFormed(p), Unambiguous(p), p.udh = None
  PROVE  Extract(Payload(p)) = IF Lets(p) /\ Place(p) <= Len(Payload(p)) + 1
                               THEN {Place(p)} ELSE {}
<1> DEFINE d == Payload(p)
           P == Pdu(p)
<1>1. P \in Seq(Octet) /\ Udh(p) = <<>> /\ Len(Udh(p)) = 0
  BY PduIs, UdhIs, EmptySeq
<1>2. Udh(p) \o P = P
  BY <1>1, ConcatEmptySeq
<1>3. d \in Seq(Octet) /\ Stands(d, P, 1) /\ Len(d) \in Nat
  <2>1. d \in Seq(Octet) /\ Stands(d, Udh(p) \o P, 1)
    BY PayloadIs
  <2> QED
    BY <1>2, <2>1
<1>4. Place(p) = 3 + Len(LengthField(p)) + Len(Headers(p)) /\ Place(p) \in Nat /\ Place(p) >= 4
  <2>1. Len(LengthField(p)) \in Nat /\ Len(Headers(p)) \in Nat
    BY PduIs
  <2>2. Place(p) = Len(Udh(p)) + (3 + Len(LengthField(p)) + Len(Headers(p)))
    BY DEF Place
  <2>3. Place(p) \in Nat /\ Place(p) >= Len(Udh(p)) + 4
    BY PlaceIs
  <2> QED
    BY <1>1, <2>1, <2>2, <2>3
<1>5. Lets(p) <=> p.type \in PushTypes /\ p.media \in MmsMedia
  BY DEF Lets, Passes, Admitted, Overruled
<1>6. PushBody(d) = IF Lets(p) /\ Place(p) <= Len(d) + 1 THEN {Place(p)} ELSE {}
  BY <1>3, <1>4, <1>5, PduFound
<1>7. d /= <<>> /\ Len(d) >= 1 => d[1] = p.tid /\ p.tid \in Nat
  <2>1. ASSUME Len(d) >= 1 PROVE P[1] = d[1]
    <3>1. 1 \in 1 .. 1 + Len(d) - 1 /\ 1 - 1 + 1 = 1
      BY <1>3, <2>1
    <3> QED
      BY <1>3, <3>1 DEF Stands
  <2>2. P[1] = p.tid
    <3> DEFINE T == <<p.tid, p.type>>
               R == LengthField(p) \o (Headers(p) \o p.body)
    <3>1. T \in Seq(Octet) /\ Len(T) = 2 /\ T[1] = p.tid /\ R \in Seq(Octet)
      <4>1. T \in Seq(Octet) /\ Len(T) = 2 /\ T[1] = p.tid
        BY DEF WellFormed
      <4>2. Headers(p) \o p.body \in Seq(Octet) /\ LengthField(p) \in Seq(Octet)
        BY PduIs, ConcatProperties
      <4>3. R \in Seq(Octet)
        BY <4>2, ConcatProperties
      <4> QED
        BY <4>1, <4>3
    <3>2. P = T \o R
      BY DEF Pdu
    <3> HIDE DEF T, R, P
    <3>3. Len(R) \in Nat
      BY <3>1
    <3>4. 1 \in 1 .. Len(T) + Len(R) /\ 1 <= Len(T)
      BY <3>1, <3>3
    <3> QED
      BY <3>1, <3>2, <3>4, ConcatProperties
  <2>3. p.tid \in Nat
    BY OctetNat DEF WellFormed
  <2> QED
    BY <2>1, <2>2, <2>3
<1>8. Len(d) >= 3 => /\ p.tid \notin d[3] + 2 .. Len(d) - 2
                     /\ p.tid = 0 => d[3] \notin PushTypes
  BY DEF Unambiguous
<1> HIDE DEF d, P
<1>9. ASSUME NEW s \in UdhSkip(d), s < Len(d), d /= <<>>
      PROVE  PushBody(SubSeq(d, s + 1, Len(d))) = {}
  <2> DEFINE rest == SubSeq(d, s + 1, Len(d))
  <2>1. d[1] = p.tid /\ p.tid \in Nat /\ s = p.tid + 1
    <3>1. d[1] = p.tid /\ p.tid \in Nat
      BY <1>3, <1>7, <1>9, EmptySeq
    <3>2. UdhSkip(d) \subseteq {d[1] + 1}
      BY Zenon DEF UdhSkip
    <3> QED
      BY <3>1, <3>2
  <2>2. /\ rest \in Seq(Octet) /\ Len(rest) = Len(d) - s
        /\ \A i \in 1 .. Len(d) - s : rest[i] = d[s + i]
    <3>1. s \in Nat /\ \A i \in s + 1 .. Len(d) : d[i] \in Octet
      BY <1>3, <2>1
    <3>2. rest \in Seq(Octet) /\ Len(rest) = Len(d) - s
      BY <1>3, <1>9, <3>1, SubSeqProperties
    <3>3. ASSUME NEW i \in 1 .. Len(d) - s PROVE rest[i] = d[s + i]
      <4>1. i \in 1 .. Len(d) - (s + 1) + 1 /\ (s + 1) + i - 1 = s + i
        BY <1>3, <3>1
      <4>2. rest[i] = d[(s + 1) + i - 1]
        BY <1>3, <3>1, <4>1
      <4> QED
        BY <4>1, <4>2
    <3> QED
      BY <3>2, <3>3
  <2> HIDE DEF rest
  <2> SUFFICES PushBody(rest) = {}
    BY DEF rest
  <2>3. Len(rest) < 3 \/ rest[2] \notin PushTypes => PushBody(rest) = {}
    BY Zenon DEF PushBody
  <2>5. CASE Len(rest) < 3
    BY <2>3, <2>5
  <2>4. CASE Len(rest) >= 3
    <3>1. Len(d) >= 3 /\ p.tid <= Len(d) - 2
      BY <1>3, <2>1, <2>2, <2>4
    <3>2. d[3] \in Nat
      <4>1. d[3] \in Octet
        BY <1>3, <3>1
      <4> QED
        BY <4>1, OctetNat
    <3>3. CASE p.tid = 0
      <4>1. rest[2] = d[3]
        <5>1. s = 1 /\ 2 \in 1 .. Len(d) - s /\ s + 2 = 3
          BY <1>3, <2>1, <3>1, <3>3, <2>2, <2>4
        <5> QED
          BY <2>2, <5>1
      <4> QED
        BY <1>8, <2>3, <3>1, <3>3, <4>1
    <3>4. CASE p.tid /= 0
      <4>1. d[1] >= 1 /\ d[1] <= d[3] + 1
        BY <1>3, <1>8, <2>1, <3>1, <3>2, <3>4
      <4>2. UdhSkip(d) = {}
        BY <1>3, <3>1, <4>1, NoUdh
      <4> QED
        BY <4>2
    <3> QED
      BY <3>3, <3>4
  <2> QED
    BY <1>3, <2>1, <2>2, <2>5, <2>4
<1>10. CASE d = <<>>
  BY <1>4, <1>10, EmptySeq DEF Extract, d
<1>11. CASE d /= <<>> /\ PushBody(d) /= {}
  BY <1>6, <1>11 DEF Extract, d
<1>12. CASE d /= <<>> /\ PushBody(d) = {}
  <2>1. ~(Lets(p) /\ Place(p) <= Len(d) + 1)
    BY <1>6, <1>12
  <2>2. Extract(d) = UNION {{skip + b : b \in PushBody(SubSeq(d, skip + 1, Len(d)))} :
                            skip \in {s \in UdhSkip(d) : s < Len(d)}}
    BY <1>12 DEF Extract
  <2>3. Extract(d) = {}
    BY <1>9, <1>12, <2>2
  <2> QED
    BY <2>1, <2>3 DEF d
<1> QED
  BY <1>10, <1>11, <1>12

LEMMA StandsWhole ==
  ASSUME NEW s \in Seq(Octet) PROVE Stands(s, s, 1)
<1>1. \A j \in 1 .. 1 + Len(s) - 1 : s[j] = s[j - 1 + 1]
  <2>1. \A j \in Int : j - 1 + 1 = j
    OBVIOUS
  <2> QED
    BY <2>1
<1> QED
  BY <1>1 DEF Stands

\* With one it is found behind it.
LEMMA ExtractBehind ==
  ASSUME NEW p, WellFormed(p), Unambiguous(p), p.udh /= None
  PROVE  Extract(Payload(p)) = IF Lets(p) /\ Place(p) <= Len(Payload(p)) + 1
                               THEN {Place(p)} ELSE {}
<1> DEFINE d == Payload(p)
           P == Pdu(p)
           U == Udh(p)
           u == Len(U)
           all == U \o P
           rest == SubSeq(d, u + 1, Len(d))
<1>1. P \in Seq(Octet) /\ U \in Seq(Octet) /\ all \in Seq(Octet)
  BY PduIs, UdhIs, ConcatProperties
<1>2. d \in Seq(Octet) /\ Stands(d, all, 1) /\ Len(d) \in Nat
  <2>1. d \in Seq(Octet) /\ Stands(d, all, 1)
    BY PayloadIs
  <2> QED
    BY <2>1
<1>3. PICK flat \in Seq(Octet) :
        /\ flat = FlattenSeq([i \in DOMAIN p.udh |-> Sent(p.udh[i])])
        /\ Len(flat) \in Octet /\ U = <<Len(flat)>> \o flat /\ u = Len(flat) + 1
  BY UdhIs
<1>4. p.udh \in Seq(Elements)
  BY DEF WellFormed
<1>5. u \in Nat /\ u >= 1 /\ Len(flat) \in Nat
  <2>1. Len(flat) \in Nat
    OBVIOUS
  <2> QED
    BY <1>3, <2>1
<1>6. Place(p) \in Nat /\ Place(p) >= u + 4
  BY PlaceIs
<1>7. PushBody(d) = {}
  <2>1. Len(d) < 3 \/ d[2] \notin PushTypes
    BY <1>2 DEF Unambiguous
  <2> HIDE DEF d
  <2> QED
    BY <2>1, Zenon DEF PushBody
<1>8. d /= <<>> => d[1] = Len(flat)
  <2> SUFFICES ASSUME d /= <<>> PROVE d[1] = Len(flat)
    OBVIOUS
  <2>1. Len(d) >= 1
    BY <1>2, EmptySeq
  <2>2. 1 \in 1 .. 1 + Len(d) - 1 /\ 1 - 1 + 1 = 1
    BY <1>2, <2>1
  <2> HIDE DEF d, all
  <2>3. all[1] = d[1]
    BY <1>2, <2>2 DEF Stands
  <2>4. all[1] = U[1]
    <3>1. 1 \in 1 .. Len(U) + Len(P) /\ 1 <= Len(U)
      <4>1. Len(P) \in Nat
        BY <1>1
      <4> QED
        BY <1>5, <4>1
    <3> HIDE DEF U, P
    <3> QED
      BY <1>1, <3>1, ConcatProperties DEF all
  <2>5. U[1] = Len(flat)
    <3> DEFINE o == <<Len(flat)>>
    <3>1. o \in Seq(Octet) /\ Len(o) = 1 /\ o[1] = Len(flat)
      BY <1>3
    <3>2. U = o \o flat
      BY <1>3
    <3> HIDE DEF o, U
    <3>3. 1 \in 1 .. Len(o) + Len(flat) /\ 1 <= Len(o)
      BY <1>5, <3>1
    <3> QED
      BY <3>1, <3>2, <3>3, ConcatProperties
  <2> QED
    BY <2>3, <2>4, <2>5
<1> HIDE DEF d, P, U
<1>9. CASE d = <<>>
  <2>1. Len(d) = 0
    BY <1>9, EmptySeq
  <2>2. Extract(d) = {}
    BY <1>9 DEF Extract
  <2>3. ~(Place(p) <= Len(d) + 1)
    BY <1>5, <1>6, <2>1
  <2> QED
    BY <2>2, <2>3 DEF d
<1>10. d /= <<>> => Extract(d) = UNION {{skip + b : b \in PushBody(SubSeq(d, skip + 1, Len(d)))} :
                                        skip \in {s \in UdhSkip(d) : s < Len(d)}}
  BY <1>7, Zenon DEF Extract
<1>11. CASE d /= <<>> /\ u > Len(d)
  <2>1. UdhSkip(d) = {}
    <3>1. (d[1] + 2) - 1 > Len(d)
      BY <1>2, <1>3, <1>5, <1>8, <1>11
    <3> QED
      BY <1>2, <1>11, <3>1, UdhSkipIs
  <2>2. Extract(d) = {}
    BY <1>10, <1>11, <2>1
  <2>3. ~(Place(p) <= Len(d) + 1)
    BY <1>2, <1>5, <1>6, <1>11
  <2> QED
    BY <2>2, <2>3 DEF d
<1>12. CASE d /= <<>> /\ u <= Len(d)
  <2>1. Stands(U, d, 1)
    <3>1. Stands(U, all, 1)
      <4>1. Stands(all, all, 1) /\ 1 \in Nat \ {0}
        <5> HIDE DEF all
        <5> QED
          BY <1>1, StandsWhole
      <4> QED
        BY <1>1, <4>1, StandsParts
    <3>2. 1 + Len(U) <= Len(d) + 1 /\ 1 \in Nat \ {0}
      BY <1>2, <1>5, <1>12
    <3> HIDE DEF all
    <3> QED
      BY <1>1, <1>2, <3>1, <3>2, StandsBefore
  <2>2. UdhSkip(d) = IF Passes(p) THEN {u} ELSE {}
    <3> DEFINE naming == {i \in 1 .. Len(p.udh) : Names(p.udh[i]) /= "none"}
    <3>1. UdhSkip(d) = IF naming = {} \/ Names(p.udh[Max(naming)]) = "ours"
                       THEN {Len(flat) + 1} ELSE {}
      <4>1. Stands(<<Len(flat)>> \o flat, d, 1)
        BY <1>3, <2>1
      <4> QED
        BY <1>2, <1>3, <1>4, <4>1, UdhSkipOf
    <3>2. Passes(p) <=> (naming = {} \/ Names(p.udh[Max(naming)]) = "ours")
      BY <1>4, PassesWhen
    <3> HIDE DEF naming
    <3> QED
      BY <1>3, <3>1, <3>2
  <2>3. /\ rest \in Seq(Octet) /\ Len(rest) = Len(d) - u /\ Stands(rest, P, 1)
    BY <1>1, <1>2, <1>12, RestStands
  <2> DEFINE at == 3 + Len(LengthField(p)) + Len(Headers(p))
  <2>4. PushBody(rest) = IF p.type \in PushTypes /\ p.media \in MmsMedia /\ at <= Len(rest) + 1
                         THEN {at} ELSE {}
    BY <2>3, PduFound DEF P
  <2>5. at \in Nat /\ Place(p) = u + at
    <3>1. Len(LengthField(p)) \in Nat /\ Len(Headers(p)) \in Nat
      BY PduIs
    <3> QED
      BY <1>5, <3>1 DEF Place, U
  <2> HIDE DEF at, rest
  <2>6. at <= Len(rest) + 1 <=> Place(p) <= Len(d) + 1
    BY <1>2, <1>5, <2>3, <2>5
  <2>7. CASE Passes(p) /\ u < Len(d)
    <3>1. {s \in UdhSkip(d) : s < Len(d)} = {u}
      BY <2>2, <2>7
    <3>2. Extract(d) = {u + b : b \in PushBody(rest)}
      BY <1>10, <1>12, <3>1 DEF rest
    <3>3. Extract(d) = IF Lets(p) /\ Place(p) <= Len(d) + 1 THEN {u + at} ELSE {}
      BY <2>4, <2>6, <2>7, <3>2 DEF Lets
    <3> QED
      BY <2>5, <3>3 DEF d
  <2>8. CASE ~(Passes(p) /\ u < Len(d))
    <3>1. {s \in UdhSkip(d) : s < Len(d)} = {}
      BY <2>2, <2>8
    <3>2. Extract(d) = {}
      BY <1>10, <1>12, <3>1
    <3>3. ~(Lets(p) /\ Place(p) <= Len(d) + 1)
      BY <1>2, <1>5, <1>6, <1>12, <2>8 DEF Lets
    <3> QED
      BY <3>2, <3>3 DEF d
  <2> QED
    BY <2>7, <2>8
<1> QED
  BY <1>2, <1>5, <1>9, <1>11, <1>12

\* The body is at its place.
LEMMA BodyStands ==
  ASSUME NEW p, WellFormed(p)
  PROVE  Stands(p.body, Udh(p) \o Pdu(p), Place(p))
<1> DEFINE U == Udh(p)
           P == Pdu(p)
           all == U \o P
           T == <<p.tid, p.type>>
           w == LengthField(p)
           H == Headers(p)
           B == p.body
           HB == H \o B
           wHB == w \o HB
<1>1. /\ U \in Seq(Octet) /\ P \in Seq(Octet) /\ w \in Seq(Octet) /\ H \in Seq(Octet)
      /\ B \in Seq(Octet)
  BY PduIs, UdhIs
<1>2. T \in Seq(Octet) /\ Len(T) = 2
  BY DEF WellFormed
<1>3. P = T \o wHB
  BY DEF Pdu
<1>4. Place(p) = Len(U) + (3 + Len(w) + Len(H))
  BY DEF Place
<1> HIDE DEF U, P, T, w, H, B
<1>5. HB \in Seq(Octet) /\ all \in Seq(Octet)
  BY <1>1, ConcatProperties
<1>6. wHB \in Seq(Octet)
  <2> HIDE DEF HB
  <2> QED
    BY <1>1, <1>5, ConcatProperties
<1>7. Len(U) \in Nat /\ Len(w) \in Nat /\ Len(H) \in Nat
  BY <1>1
<1> DEFINE a == 1 + Len(U)
           b == a + Len(T)
           c == b + Len(w)
           e == c + Len(H)
<1>8. 1 \in Nat \ {0} /\ a \in Nat \ {0} /\ b \in Nat \ {0} /\ c \in Nat \ {0} /\ e = Place(p)
  BY <1>2, <1>4, <1>7
<1>9. Stands(all, all, 1)
  <2> HIDE DEF all
  <2> QED
    BY <1>5, StandsWhole
<1>10. all = U \o P /\ wHB = w \o HB /\ HB = H \o B
  OBVIOUS
<1> HIDE DEF all, HB, wHB
<1>11. Stands(P, all, a)
  <2>1. Stands(U \o P, all, 1)
    BY <1>9, <1>10
  <2> QED
    BY <1>1, <1>5, <1>8, <2>1, StandsParts
<1> HIDE DEF a
<1>12. Stands(wHB, all, b)
  <2>1. Stands(T \o wHB, all, a)
    BY <1>3, <1>11
  <2> QED
    BY <1>2, <1>5, <1>6, <1>8, <2>1, StandsParts
<1> HIDE DEF b
<1>13. Stands(HB, all, c)
  <2>1. Stands(w \o HB, all, b)
    BY <1>10, <1>12
  <2> QED
    BY <1>1, <1>5, <1>8, <2>1, StandsParts
<1> HIDE DEF c
<1>14. Stands(B, all, e)
  <2>1. Stands(H \o B, all, c)
    BY <1>10, <1>13
  <2> QED
    BY <1>1, <1>5, <1>8, <2>1, StandsParts
<1> QED
  BY <1>8, <1>14 DEF B, all, U, P

\* The notification in a payload as a gateway writes it, cut off or not.
LEMMA NotificationOf ==
  ASSUME NEW p, WellFormed(p), Unambiguous(p)
  PROVE  Notification(Payload(p))
           = IF /\ Passes(p) /\ p.type \in PushTypes /\ p.media \in MmsMedia
                /\ p.cut + 2 <= Len(p.body) /\ SubSeq(p.body, 1, 2) = NotificationInd
             THEN {Len(Envelope(p) \o Headers(p)) + 1}
             ELSE {}
<1> DEFINE d == Payload(p)
           all == Udh(p) \o Pdu(p)
           u == Len(Udh(p))
           q == Len(Pdu(p))
           at == Place(p)
           B == p.body
           e == Len(Envelope(p) \o Headers(p))
           c == p.cut
<1>1. Extract(d) = IF Lets(p) /\ at <= Len(d) + 1 THEN {at} ELSE {}
  BY ExtractWithout, ExtractBehind
<1>2. /\ d \in Seq(Octet) /\ all \in Seq(Octet) /\ Len(all) = u + q /\ Stands(d, all, 1)
      /\ Len(d) = IF c <= Len(all) THEN Len(all) - c ELSE 0
  BY PayloadIs
<1>3. /\ at \in Nat /\ u \in Nat /\ q \in Nat /\ at = e + 1 /\ at + Len(B) = u + q + 1
      /\ at >= u + 4 /\ Len(B) \in Nat
  BY PlaceIs
<1>4. c \in Nat /\ B \in Seq(Octet)
  BY DEF WellFormed
<1>5. Stands(B, all, at)
  BY BodyStands
<1>6. Notification(d) = {b \in Extract(d) : b < Len(d) /\ SubSeq(d, b, b + 1) = NotificationInd}
  BY DEF Notification
<1> HIDE DEF d, all, u, q, at, B, e, c
<1>7. at < Len(d) <=> c + 2 <= Len(B)
  BY <1>2, <1>3, <1>4
<1>8. Len(d) \in Nat
  BY <1>2
<1>9. ASSUME at < Len(d) PROVE SubSeq(d, at, at + 1) = SubSeq(B, 1, 2)
  <2>1. Len(B) >= 2
    BY <1>3, <1>4, <1>7, <1>9
  <2>2. ASSUME NEW i \in 1 .. 2 PROVE d[at + i - 1] = B[i]
    <3> DEFINE j == at + i - 1
    <3>1. /\ j \in at .. at + Len(B) - 1 /\ j - at + 1 = i
          /\ j \in 1 .. 1 + Len(d) - 1 /\ j - 1 + 1 = j
      BY <1>3, <1>8, <1>9, <2>1
    <3> HIDE DEF j
    <3>2. all[j] = B[i]
      BY <1>5, <3>1 DEF Stands
    <3>3. all[j] = d[j]
      BY <1>2, <3>1 DEF Stands
    <3> QED
      BY <3>2, <3>3 DEF j
  <2> DEFINE x == SubSeq(d, at, at + 1)
             y == SubSeq(B, 1, 2)
  <2>3. x \in Seq(Octet) /\ Len(x) = 2 /\ x[1] = d[at] /\ x[2] = d[at + 1]
    <3>1. at + 1 \in Nat /\ at + 1 \in Int /\ at \in Int /\ \A j \in at .. at + 1 : d[j] \in Octet
      BY <1>2, <1>3, <1>8, <1>9
    <3>2. at <= at + 1 /\ (at + 1) - at + 1 = 2
      BY <1>3
    <3>3. x \in Seq(Octet) /\ Len(x) = (at + 1) - at + 1
      BY <3>1, <3>2, SubSeqProperties
    <3>4. \A i \in 1 .. (at + 1) - at + 1 : x[i] = d[at + i - 1]
      BY <3>1, SubSeqProperties
    <3>5. 1 \in 1 .. 2 /\ 2 \in 1 .. 2 /\ at + 1 - 1 = at /\ at + 2 - 1 = at + 1
      BY <1>3
    <3> QED
      BY <3>2, <3>3, <3>4, <3>5
  <2>4. y \in Seq(Octet) /\ Len(y) = 2 /\ y[1] = B[1] /\ y[2] = B[2]
    BY <1>4, <2>1
  <2>5. d[at] = B[1] /\ d[at + 1] = B[2]
    <3>1. 1 \in 1 .. 2 /\ 2 \in 1 .. 2 /\ at + 1 - 1 = at /\ at + 2 - 1 = at + 1
      BY <1>3
    <3> QED
      BY <2>2, <3>1
  <2> HIDE DEF x, y
  <2>6. \A i \in 1 .. Len(x) : x[i] = y[i]
    BY <2>3, <2>4, <2>5
  <2>7. x = y
    BY <2>3, <2>4, <2>6, SeqEqual
  <2> QED
    BY <2>7 DEF x, y
<1>10. Notification(d)
         = IF Lets(p) /\ c + 2 <= Len(B) /\ SubSeq(B, 1, 2) = NotificationInd THEN {at} ELSE {}
  <2>1. CASE Lets(p) /\ at < Len(d)
    <3>1. Extract(d) = {at}
      BY <1>1, <1>3, <1>8, <2>1
    <3>2. Notification(d) = IF SubSeq(d, at, at + 1) = NotificationInd THEN {at} ELSE {}
      BY <1>6, <2>1, <3>1
    <3> QED
      BY <1>7, <1>9, <2>1, <3>2
  <2>2. CASE ~(Lets(p) /\ at < Len(d))
    <3>1. \A b \in Extract(d) : b = at /\ Lets(p)
      BY <1>1
    <3>2. Notification(d) = {}
      BY <1>6, <2>2, <3>1
    <3> QED
      BY <1>7, <2>2, <3>2
  <2> QED
    BY <2>1, <2>2
<1> QED
  BY <1>3, <1>10 DEF Lets, d, at, B, e, c

-----------------------------------------------------------------------------
(* Whatever the octets are *)

LEMMA OneUintvar ==
  ASSUME NEW d \in Seq(Octet), NEW p \in Nat \ {0}, NEW u \in Uintvar(d, p), NEW v \in Uintvar(d, p)
  PROVE  u = v /\ u.next \in p + 1 .. p + 5
<1> DEFINE Ends(n) == /\ p + n - 1 <= Len(d) /\ d[p + n - 1] < 128
                      /\ \A i \in 0 .. n - 2 : d[p + i] >= 128
<1>1. Uintvar(d, p)
        = {[value |-> Bits(d, p, n), next |-> p + n] : n \in {m \in 1 .. 5 : Ends(m)}}
  BY Zenon DEF Uintvar
<1> HIDE DEF Ends
<1>2. PICK k \in 1 .. 5 : Ends(k) /\ u = [value |-> Bits(d, p, k), next |-> p + k]
  BY <1>1
<1>3. PICK l \in 1 .. 5 : Ends(l) /\ v = [value |-> Bits(d, p, l), next |-> p + l]
  BY <1>1
<1>4. ASSUME NEW a \in 1 .. 5, NEW b \in 1 .. 5, Ends(a), Ends(b), a < b PROVE FALSE
  <2>1. a - 1 \in 0 .. b - 2 /\ p + (a - 1) = p + a - 1
    BY <1>4
  <2>2. d[p + (a - 1)] >= 128
    BY <1>4, <2>1 DEF Ends
  <2>3. d[p + a - 1] < 128 /\ p + a - 1 \in 1 .. Len(d)
    BY <1>4 DEF Ends
  <2>4. d[p + a - 1] \in Nat
    BY <2>3, OctetNat
  <2> QED
    BY <2>1, <2>2, <2>3, <2>4
<1>5. k = l
  BY <1>2, <1>3, <1>4
<1>6. u = v
  BY <1>2, <1>3, <1>5
<1>7. u.next \in p + 1 .. p + 5
  BY <1>2
<1> QED
  BY <1>6, <1>7

LEMMA OneBody ==
  ASSUME NEW d \in Seq(Octet), NEW a \in PushBody(d), NEW b \in PushBody(d)
  PROVE  a = b /\ a \in 5 .. Len(d) + 1
<1> DEFINE Fits(v) == /\ v.value \in 1 .. Len(d) + 1 - v.next
                      /\ \E e \in ContentTypeEnd(d, v.next, v.value) : e <= v.next + v.value
<1>1. PushBody(d) \subseteq {h.next + h.value : h \in {v \in Uintvar(d, 3) : Fits(v)}}
  BY Zenon DEF PushBody
<1>2. PICK g \in Uintvar(d, 3) : Fits(g) /\ a = g.next + g.value
  BY <1>1
<1>3. PICK h \in Uintvar(d, 3) : Fits(h) /\ b = h.next + h.value
  BY <1>1
<1>4. 3 \in Nat \ {0} /\ Len(d) \in Nat
  OBVIOUS
<1>5. g = h /\ g.next \in 3 + 1 .. 3 + 5
  BY <1>2, <1>3, <1>4, OneUintvar
<1>6. g.value \in 1 .. Len(d) + 1 - g.next
  BY <1>2
<1> HIDE DEF Fits
<1>7. a \in 5 .. Len(d) + 1
  BY <1>2, <1>4, <1>5, <1>6
<1> QED
  BY <1>2, <1>3, <1>5, <1>7

\* A payload of any octets has one push at most: behind its user data header it is looked
\* for only when there is none at its beginning, and either way no length leads out of
\* the payload.
THEOREM OnePush ==
  \A d \in Seq(Octet) : \A a, b \in Extract(d) : a = b /\ a \in 5 .. Len(d) + 1
<1> SUFFICES ASSUME NEW d \in Seq(Octet), NEW a \in Extract(d), NEW b \in Extract(d)
             PROVE  a = b /\ a \in 5 .. Len(d) + 1
  OBVIOUS
<1>1. d /= <<>> /\ Len(d) \in Nat
  BY DEF Extract
<1>2. CASE PushBody(d) /= {}
  <2>1. Extract(d) = PushBody(d)
    BY <1>1, <1>2, Zenon DEF Extract
  <2> QED
    BY <2>1, OneBody
<1>3. CASE PushBody(d) = {}
  <2> DEFINE Rest(s) == SubSeq(d, s + 1, Len(d))
  <2>1. Extract(d) = UNION {{skip + c : c \in PushBody(Rest(skip))} :
                            skip \in {s \in UdhSkip(d) : s < Len(d)}}
    BY <1>1, <1>3, Zenon DEF Extract
  <2>2. UdhSkip(d) \subseteq {d[1] + 1}
    BY Zenon DEF UdhSkip
  <2> DEFINE s == d[1] + 1
  <2>3. s \in Nat \ {0}
    <3>1. d[1] \in Octet
      BY <1>1, EmptySeq
    <3> QED
      BY <3>1, OctetNat
  <2> HIDE DEF Rest, s
  <2>4. PICK e \in PushBody(Rest(s)) : a = s + e
    BY <2>1, <2>2 DEF s
  <2>5. PICK f \in PushBody(Rest(s)) : b = s + f
    BY <2>1, <2>2 DEF s
  <2>6. s < Len(d)
    BY <2>1, <2>2 DEF s
  <2>7. Rest(s) \in Seq(Octet) /\ Len(Rest(s)) = Len(d) - s
    <3>1. \A i \in s + 1 .. Len(d) : d[i] \in Octet
      BY <1>1, <2>3
    <3>2. /\ SubSeq(d, s + 1, Len(d)) \in Seq(Octet)
          /\ Len(SubSeq(d, s + 1, Len(d))) = Len(d) - s
      BY <1>1, <2>3, <2>6, <3>1, SubSeqProperties
    <3> QED
      BY <3>2 DEF Rest
  <2>8. e = f /\ e \in 5 .. Len(Rest(s)) + 1
    BY <2>7, OneBody
  <2> QED
    BY <1>1, <2>3, <2>4, <2>5, <2>6, <2>7, <2>8
<1> QED
  BY <1>2, <1>3

-----------------------------------------------------------------------------
(* The serializer *)

\* The payload looked at is one of those that come.
Seen == sms = None \/ (sms \in Pushes /\ found = Notification(Payload(sms)))

\* Every notification in a payload as a gateway writes it is found, wherever the payload
\* is cut off, and nothing else is, whatever other payloads come.
THEOREM PushesAreFound ==
  Spec => []((sms /= None => WellFormed(sms) /\ Unambiguous(sms)) => PushFound)
<1>1. Init => Seen
  BY DEF Init, Seen
<1>2. Seen /\ [Next]_vars => Seen'
  <2> SUFFICES ASSUME Seen, [Next]_vars PROVE Seen'
    OBVIOUS
  <2>1. ASSUME NEW p \in Pushes, Receive(p) PROVE Seen'
    BY <2>1 DEF Receive, Seen
  <2>2. CASE Announce
    BY <2>2 DEF Announce, Seen
  <2>3. CASE UNCHANGED <<sms, found>>
    BY <2>3 DEF Seen
  <2>4. Transfer \/ Deliver \/ DialplanReads \/ UNCHANGED vars => UNCHANGED <<sms, found>>
    BY DEF Transfer, Deliver, FetchBegins, Chunk, FetchFails, FetchEnds, DeliverBegins,
           PartSkipped, TextPart, OpenFails, Open, Write, Finish, DialplanReads, vars, intake
  <2> QED
    BY <2>1, <2>2, <2>3, <2>4 DEF Next
<1>3. Seen => ((sms /= None => WellFormed(sms) /\ Unambiguous(sms)) => PushFound)
  <2> SUFFICES ASSUME Seen, sms /= None, WellFormed(sms), Unambiguous(sms) PROVE PushFound
    BY DEF PushFound
  <2>1. found = Notification(Payload(sms))
    BY DEF Seen
  <2> QED
    BY <2>1, NotificationOf DEF PushFound, Passes
<1> QED
  BY <1>1, <1>2, <1>3, PTL DEF Spec

=============================================================================
