---------------------------- MODULE DevicesProofs ----------------------------
(***************************************************************************)
(* Proofs about Devices: the sound card of a modem, for any USB topology   *)
(* and any cards, and the results of init commands, whatever the modem     *)
(* says and however reads cut it up.                                       *)
(***************************************************************************)
EXTENDS Devices, SequenceTheorems, FiniteSetTheorems, WellFoundedInduction, TLAPS

-----------------------------------------------------------------------------
(* The greatest and the least of some numbers *)

\* A set of natural numbers has a least element: the initial segments that end in its
\* elements are well founded under inclusion.
LEMMA Least ==
  ASSUME NEW T, T \subseteq Nat, T /= {} PROVE \E m \in T : \A n \in T : m <= n
<1> DEFINE Segments == {1 .. n : n \in T}
<1>1. Segments \subseteq FiniteSubsetsOf(Nat) /\ Segments /= {}
  <2>1. ASSUME NEW n \in T PROVE 1 .. n \in FiniteSubsetsOf(Nat)
    <3>1. IsFiniteSet(1 .. n)
      BY FS_Interval
    <3> QED
      BY <3>1 DEF FiniteSubsetsOf
  <2> QED
    BY <2>1
<1>2. IsWellFoundedOn(StrictSubsetOrdering(Nat), FiniteSubsetsOf(Nat))
  BY FS_StrictSubsetOrderingWellFounded
<1>3. PICK x \in Segments : \A y \in Segments : ~ (<<y, x>> \in StrictSubsetOrdering(Nat))
  BY <1>1, <1>2, WFMin
<1>4. PICK m \in T : x = 1 .. m
  OBVIOUS
<1>5. ASSUME NEW n \in T, n < m PROVE FALSE
  <2>1. /\ 1 .. n \subseteq 1 .. m /\ m \in 1 .. m /\ m \notin 1 .. n
        /\ 1 .. n \subseteq Nat /\ 1 .. m \subseteq Nat
    BY <1>5
  <2>2. <<1 .. n, 1 .. m>> \in StrictSubsetOrdering(Nat)
    BY <2>1 DEF StrictSubsetOrdering
  <2> QED
    BY <2>2, <1>3, <1>4
<1> QED
  BY <1>5

LEMMA MinIs ==
  ASSUME NEW T, T \subseteq Nat, T /= {} PROVE Min(T) \in T /\ \A n \in T : Min(T) <= n
BY Least DEF Min

LEMMA MaxIs ==
  ASSUME NEW b \in Nat, NEW T, T \subseteq 0 .. b, T /= {}
  PROVE  Max(T) \in T /\ \A n \in T : n <= Max(T)
<1> DEFINE U == {b - n : n \in T}
<1>1. U \subseteq Nat /\ U /= {}
  OBVIOUS
<1>2. PICK u \in U : \A v \in U : u <= v
  BY <1>1, Least
<1>3. PICK m \in T : u = b - m
  OBVIOUS
<1>4. \A n \in T : n <= m
  <2> SUFFICES ASSUME NEW n \in T PROVE n <= m
    OBVIOUS
  <2>1. b - n \in U
    OBVIOUS
  <2>2. b - m <= b - n
    BY <2>1, <1>2, <1>3
  <2> QED
    BY <2>2
<1> QED
  BY <1>4 DEF Max

\* The greatest is the one that is not less than any.
LEMMA MaxUnique ==
  ASSUME NEW T, T \subseteq Nat, NEW m \in T, \A n \in T : n <= m PROVE Max(T) = m
<1>1. T \subseteq 0 .. m
  OBVIOUS
<1>2. Max(T) \in T /\ \A n \in T : n <= Max(T)
  BY <1>1, MaxIs
<1> DEFINE x == Max(T)
<1>3. x \in T /\ m <= x /\ x <= m
  BY <1>2
<1> HIDE DEF x
<1>4. x = m
  BY <1>3
<1> QED
  BY <1>4 DEF x

\* Characters; that those the modules name are strings is beyond the provers.
Chars == STRING \cup Digits \cup {"-", ".", ":", "n", "O", "K", "E"}

-----------------------------------------------------------------------------
(* The sound card *)

\* The addresses of a device and of the hubs before it.
LEMMA AddressIs ==
  ASSUME NEW d \in Devices, NEW k \in 1 .. Len(d.ports)
  PROVE  LET a == Address(d, k) IN
         /\ a \in Seq(Chars) /\ Len(a) = 2 * k + 1 /\ a[1] = d.bus /\ a[2] = "-"
         /\ \A i \in 1 .. k : a[2 * i + 1] = d.ports[i]
         /\ \A i \in 1 .. k - 1 : a[2 * i + 2] = "."
<1> DEFINE h == <<d.bus, "-">>
           t == [i \in 1 .. 2 * k - 1 |-> IF i % 2 = 1 THEN d.ports[(i + 1) \div 2] ELSE "."]
           a == h \o t
<1>1. d.bus \in Digits /\ d.ports \in Seq(Digits) /\ Len(d.ports) \in Nat
  BY DetectAssumption, LenProperties
<1>2. Digits \subseteq Chars /\ "-" \in Chars /\ "." \in Chars
  BY DEF Chars
<1>3. h \in Seq(Chars) /\ Len(h) = 2 /\ h[1] = d.bus /\ h[2] = "-"
  BY <1>1, <1>2
<1>4. \A i \in 1 .. 2 * k - 1 : i % 2 = 1 => (i + 1) \div 2 \in 1 .. Len(d.ports)
  OBVIOUS
<1>5. \A j \in 1 .. Len(d.ports) : d.ports[j] \in Chars
  BY <1>1, <1>2, ElementOfSeq
<1>6. t \in [1 .. 2 * k - 1 -> Chars]
  BY <1>2, <1>4, <1>5
<1>7. t \in Seq(Chars) /\ Len(t) = 2 * k - 1
  <2>1. 2 * k - 1 \in Nat
    OBVIOUS
  <2> HIDE DEF t
  <2> QED
    BY <1>6, <2>1, SeqDef, LenProperties
<1>8. /\ \A i \in 1 .. k : t[2 * i - 1] = d.ports[i]
      /\ \A i \in 1 .. k - 1 : t[2 * i] = "."
  <2>1. \A i \in 1 .. k : 2 * i - 1 \in 1 .. 2 * k - 1 /\ (2 * i - 1) % 2 = 1
                            /\ ((2 * i - 1) + 1) \div 2 = i
    OBVIOUS
  <2>2. \A i \in 1 .. k - 1 : 2 * i \in 1 .. 2 * k - 1 /\ (2 * i) % 2 /= 1
    OBVIOUS
  <2> QED
    BY <2>1, <2>2
<1> HIDE DEF h, t
<1>9. /\ a \in Seq(Chars) /\ Len(a) = 2 * k + 1 /\ a[1] = d.bus /\ a[2] = "-"
      /\ \A i \in 1 .. 2 * k - 1 : a[i + 2] = t[i]
  <2>1. /\ h \o t \in Seq(Chars) /\ Len(h \o t) = Len(h) + Len(t)
        /\ \A i \in 1 .. Len(h) + Len(t) :
             (h \o t)[i] = IF i <= Len(h) THEN h[i] ELSE t[i - Len(h)]
    BY <1>3, <1>7, ConcatProperties
  <2>2. 2 + (2 * k - 1) = 2 * k + 1 /\ k >= 1
    OBVIOUS
  <2>3. \A i \in 1 .. 2 * k - 1 : i + 2 \in 1 .. 2 * k + 1 /\ ~ (i + 2 <= 2) /\ (i + 2) - 2 = i
    OBVIOUS
  <2>4. \A i \in 1 .. 2 * k - 1 : (h \o t)[i + 2] = t[i]
    <3> SUFFICES ASSUME NEW i \in 1 .. 2 * k - 1 PROVE (h \o t)[i + 2] = t[i]
      OBVIOUS
    <3> QED
      BY <1>3, <1>7, <2>1, <2>2, <2>3
  <2>5. (h \o t)[1] = d.bus /\ (h \o t)[2] = "-"
    BY <1>3, <1>7, <2>1, <2>2
  <2> QED
    BY <1>3, <1>7, <2>1, <2>2, <2>4, <2>5
<1>10. \A i \in 1 .. k : a[2 * i + 1] = d.ports[i]
  <2> SUFFICES ASSUME NEW i \in 1 .. k PROVE a[2 * i + 1] = d.ports[i]
    OBVIOUS
  <2>1. 2 * i - 1 \in 1 .. 2 * k - 1 /\ (2 * i - 1) + 2 = 2 * i + 1
    OBVIOUS
  <2> QED
    BY <2>1, <1>8, <1>9
<1>11. \A i \in 1 .. k - 1 : a[2 * i + 2] = "."
  <2> SUFFICES ASSUME NEW i \in 1 .. k - 1 PROVE a[2 * i + 2] = "."
    OBVIOUS
  <2>1. 2 * i \in 1 .. 2 * k - 1
    OBVIOUS
  <2> QED
    BY <2>1, <1>8, <1>9
<1>12. a = Address(d, k)
  BY DEF a, h, t, Address
<1> HIDE DEF a
<1> QED
  BY <1>9, <1>10, <1>11, <1>12

\* They have the form of one.
LEMMA AddressIsPort ==
  ASSUME NEW d \in Devices, NEW k \in 1 .. Len(d.ports) PROVE IsUsbPort(Address(d, k))
<1> DEFINE a == Address(d, k)
<1>1. /\ Len(a) = 2 * k + 1 /\ a[1] = d.bus /\ a[2] = "-"
      /\ \A i \in 1 .. k : a[2 * i + 1] = d.ports[i]
      /\ \A i \in 1 .. k - 1 : a[2 * i + 2] = "."
  BY AddressIs
<1>2. d.bus \in Digits /\ \A i \in 1 .. Len(d.ports) : d.ports[i] \in Digits
  BY DetectAssumption, ElementOfSeq
<1>3. \A i \in 1 .. k : a[2 * i + 1] \in Digits
  <2> SUFFICES ASSUME NEW i \in 1 .. k PROVE a[2 * i + 1] \in Digits
    OBVIOUS
  <2>1. i \in 1 .. Len(d.ports)
    BY DetectAssumption, LenProperties
  <2> QED
    BY <1>1, <1>2, <2>1
<1> HIDE DEF a
<1>4. a[3] \in Digits
  <2>1. 1 \in 1 .. k /\ 2 * 1 + 1 = 3
    OBVIOUS
  <2> QED
    BY <2>1, <1>3
<1>5. ASSUME NEW i \in 3 .. Len(a)
      PROVE  a[i] \in Digits \/ (a[i] = "." /\ a[i - 1] \in Digits /\ i < Len(a))
  <2>1. CASE i % 2 = 1
    <3>1. (i - 1) \div 2 \in 1 .. k /\ 2 * ((i - 1) \div 2) + 1 = i
      BY <1>1, <2>1
    <3> QED
      BY <3>1, <1>3
  <2>2. CASE i % 2 = 0
    <3>1. PICK j \in Nat : i = 2 * j + 2
      <4>1. i \in Nat /\ i = 2 * (i \div 2) /\ i \div 2 \in Nat
        BY <1>1, <2>2
      <4>2. i \div 2 - 1 \in Nat /\ i = 2 * (i \div 2 - 1) + 2
        BY <4>1
      <4> QED
        BY <4>2
    <3>2. j \in 1 .. k - 1 /\ j \in 1 .. k /\ i - 1 = 2 * j + 1 /\ i < Len(a)
      BY <1>1, <3>1
    <3> QED
      BY <3>1, <3>2, <1>1, <1>3
  <2> QED
    BY <1>1, <2>1, <2>2
<1>6. 2 \in 2 .. Len(a) - 1 /\ \A i \in 1 .. 2 - 1 : a[i] \in Digits
  BY <1>1, <1>2
<1>7. IsUsbPort(a)
  BY <1>1, <1>4, <1>5, <1>6 DEF IsUsbPort
<1> QED
  BY <1>7 DEF a

\* An interface of a device has not, for its colon.
LEMMA InterfaceIsNoPort ==
  ASSUME NEW d \in Devices, NEW f \in Interfaces
  PROVE  ~ IsUsbPort(Address(d, Len(d.ports)) \o <<":">> \o f)
<1> DEFINE n == Len(d.ports)
           a == Address(d, n)
           s == a \o <<":">> \o f
<1>1. n \in Nat /\ n >= 1 /\ f \in Seq(Chars)
  <2>1. f \in Seq(STRING) /\ d.ports \in Seq(Digits) /\ d.ports /= <<>>
    BY DetectAssumption
  <2>2. f \in Seq(Chars)
    BY <2>1, SeqDef DEF Chars
  <2>3. n \in Nat /\ n /= 0
    BY <2>1, LenProperties, EmptySeq
  <2> QED
    BY <2>2, <2>3
<1>2. a \in Seq(Chars) /\ Len(a) = 2 * n + 1 /\ a[2] = "-"
  BY <1>1, AddressIs
<1>3. <<":">> \in Seq(Chars) /\ Len(<<":">>) = 1 /\ <<":">>[1] = ":"
  <2>1. ":" \in Chars
    BY DEF Chars
  <2> QED
    BY <2>1
<1> DEFINE c == <<":">>
<1> HIDE DEF n, a, c
<1>4. /\ a \o c \in Seq(Chars) /\ Len(a \o c) = Len(a) + 1 /\ (a \o c)[2] = "-"
      /\ (a \o c)[Len(a) + 1] = ":"
  <2>1. c \in Seq(Chars) /\ Len(c) = 1 /\ c[1] = ":"
    BY <1>3 DEF c
  <2>2. /\ a \o c \in Seq(Chars) /\ Len(a \o c) = Len(a) + Len(c)
        /\ \A i \in 1 .. Len(a) + Len(c) :
             (a \o c)[i] = IF i <= Len(a) THEN a[i] ELSE c[i - Len(a)]
    BY <1>2, <2>1, ConcatProperties
  <2>3. Len(a) \in Nat /\ Len(a) >= 2 /\ (Len(a) + 1) - Len(a) = 1
    BY <1>1, <1>2
  <2> QED
    BY <1>2, <2>1, <2>2, <2>3
<1>5. /\ Len((a \o c) \o f) >= Len(a) + 1 /\ ((a \o c) \o f)[2] = "-"
      /\ ((a \o c) \o f)[Len(a) + 1] = ":"
  BY <1>1, <1>2, <1>4, ConcatProperties, LenProperties
<1>6. Len(s) >= Len(a) + 1 /\ s[2] = "-" /\ s[Len(a) + 1] = ":"
  BY <1>5 DEF c
<1> HIDE DEF s
<1>7. ASSUME IsUsbPort(s) PROVE FALSE
  <2>1. PICK dash \in 2 .. Len(s) - 1 :
          /\ \A i \in 1 .. dash - 1 : s[i] \in Digits
          /\ \A i \in dash + 1 .. Len(s) :
               s[i] \in Digits \/ (s[i] = "." /\ s[i - 1] \in Digits /\ i < Len(s))
    BY <1>7 DEF IsUsbPort
  <2>2. dash = 2
    <3>1. s[2] \notin Digits
      BY <1>6 DEF Digits
    <3> QED
      BY <2>1, <3>1
  <2>3. Len(s) \in Nat /\ Len(a) + 1 \in dash + 1 .. Len(s)
    BY <1>1, <1>2, <1>6, <2>1, <2>2
  <2> QED
    BY <1>6, <2>1, <2>3 DEF Digits
<1> QED
  BY <1>7 DEF s, a, n

\* What the path of a device, or of an interface of it, consists of.
LEMMA PathIs ==
  ASSUME NEW d \in Devices, NEW f \in Interfaces \cup {<<>>}
  PROVE  LET p == SysfsPath(d, f)
             n == Len(d.ports) IN
         /\ n \in Nat /\ n >= 1
         /\ p[1] = <<"p", "c", "i">> /\ p[2] = <<"u", "s", "b", d.bus>>
         /\ \A k \in 1 .. n : p[k + 2] = Address(d, k)
         /\ f = <<>> => DOMAIN p = 1 .. n + 2
         /\ f /= <<>> => /\ DOMAIN p = 1 .. n + 3
                         /\ p[n + 3] = Address(d, n) \o <<":">> \o f
<1> DEFINE n == Len(d.ports)
           h == <<<<"p", "c", "i">>, <<"u", "s", "b", d.bus>>>>
           m == [k \in 1 .. n |-> Address(d, k)]
           z == Address(d, n) \o <<":">> \o f
           t == IF f = <<>> THEN <<>> ELSE <<z>>
           C == {h[1], h[2], z} \cup {Address(d, k) : k \in 1 .. n}
<1>1. n \in Nat /\ n >= 1
  <2>1. d.ports \in Seq(Digits) /\ d.ports /= <<>>
    BY DetectAssumption
  <2> QED
    BY <2>1, LenProperties, EmptySeq
<1>2. h \in Seq(C) /\ Len(h) = 2 /\ h[1] = <<"p", "c", "i">> /\ h[2] = <<"u", "s", "b", d.bus>>
  <2> DEFINE u == <<"p", "c", "i">>
             v == <<"u", "s", "b", d.bus>>
  <2>1. h = <<u, v>> /\ h[1] = u /\ h[2] = v
    OBVIOUS
  <2> HIDE DEF u, v
  <2>2. u \in C /\ v \in C
    BY <2>1
  <2> HIDE DEF C, h
  <2>3. <<u, v>> \in Seq(C) /\ Len(<<u, v>>) = 2
    BY <2>2
  <2> QED
    BY <2>1, <2>3 DEF u, v
<1>3. m \in Seq(C) /\ Len(m) = n /\ \A k \in 1 .. n : m[k] = Address(d, k)
  <2>1. m \in [1 .. n -> C]
    OBVIOUS
  <2>2. \A k \in 1 .. n : m[k] = Address(d, k)
    OBVIOUS
  <2> HIDE DEF m, C, n
  <2> QED
    BY <2>1, <2>2, <1>1, SeqDef, LenProperties
<1>4. /\ t \in Seq(C)
      /\ f = <<>> => Len(t) = 0
      /\ f /= <<>> => Len(t) = 1 /\ t[1] = z
  <2>1. z \in C
    OBVIOUS
  <2> HIDE DEF C, z
  <2>2. <<z>> \in Seq(C) /\ Len(<<z>>) = 1 /\ <<z>>[1] = z
    BY <2>1
  <2>3. <<>> \in Seq(C) /\ Len(<<>>) = 0
    BY EmptySeq
  <2> QED
    BY <2>2, <2>3
<1>5. SysfsPath(d, f) = (h \o m) \o t
  BY DEF SysfsPath
<1> HIDE DEF h, m, t, C, n, z
<1>6. /\ h \o m \in Seq(C) /\ Len(h \o m) = n + 2
      /\ (h \o m)[1] = h[1] /\ (h \o m)[2] = h[2]
      /\ \A k \in 1 .. n : (h \o m)[k + 2] = m[k]
  <2>1. /\ h \o m \in Seq(C) /\ Len(h \o m) = Len(h) + Len(m)
        /\ \A i \in 1 .. Len(h) + Len(m) :
             (h \o m)[i] = IF i <= Len(h) THEN h[i] ELSE m[i - Len(h)]
    BY <1>2, <1>3, ConcatProperties
  <2>2. \A k \in 1 .. n : k + 2 \in 1 .. n + 2 /\ ~ (k + 2 <= 2) /\ (k + 2) - 2 = k
    BY <1>1
  <2>3. \A k \in 1 .. n : (h \o m)[k + 2] = m[k]
    BY <1>1, <1>2, <1>3, <2>1, <2>2
  <2> QED
    BY <1>1, <1>2, <1>3, <2>1, <2>3
<1> DEFINE q == h \o m
           p == q \o t
<1> HIDE DEF q
<1>7. /\ p \in Seq(C) /\ Len(p) = n + 2 + Len(t) /\ Len(t) \in Nat
      /\ \A i \in 1 .. n + 2 : p[i] = q[i]
      /\ Len(t) = 1 => p[n + 3] = t[1]
  <2>1. q \in Seq(C) /\ Len(q) = n + 2 /\ Len(t) \in Nat
    BY <1>4, <1>6, LenProperties DEF q
  <2>2. /\ p \in Seq(C) /\ Len(p) = Len(q) + Len(t)
        /\ \A i \in 1 .. Len(q) + Len(t) : p[i] = IF i <= Len(q) THEN q[i] ELSE t[i - Len(q)]
    <3>1. t \in Seq(C)
      BY <1>4
    <3>2. /\ q \o t \in Seq(C) /\ Len(q \o t) = Len(q) + Len(t)
          /\ \A i \in 1 .. Len(q) + Len(t) :
               (q \o t)[i] = IF i <= Len(q) THEN q[i] ELSE t[i - Len(q)]
      BY <2>1, <3>1, ConcatProperties
    <3> QED
      BY <3>2
  <2> HIDE DEF p
  <2> QED
    BY <1>1, <2>1, <2>2
<1> HIDE DEF p
<1>8. DOMAIN p = 1 .. Len(p)
  BY <1>7, LenProperties
<1>9. /\ \A k \in 1 .. n : p[k + 2] = Address(d, k)
      /\ p[1] = h[1] /\ p[2] = h[2]
  <2>1. \A k \in 1 .. n : k + 2 \in 1 .. n + 2
    BY <1>1
  <2>2. 1 \in 1 .. n + 2 /\ 2 \in 1 .. n + 2
    BY <1>1
  <2>3. q[1] = h[1] /\ q[2] = h[2] /\ \A k \in 1 .. n : q[k + 2] = m[k]
    BY <1>6 DEF q
  <2> QED
    BY <1>3, <1>7, <2>1, <2>2, <2>3
<1>10. SysfsPath(d, f) = p
  BY <1>5 DEF p, q
<1> QED
  <2>1. /\ n \in Nat /\ n >= 1
        /\ p[1] = <<"p", "c", "i">> /\ p[2] = <<"u", "s", "b", d.bus>>
        /\ \A k \in 1 .. n : p[k + 2] = Address(d, k)
    BY <1>1, <1>2, <1>9
  <2>2. f = <<>> => DOMAIN p = 1 .. n + 2
    BY <1>1, <1>4, <1>7, <1>8
  <2>3. ASSUME f /= <<>> PROVE DOMAIN p = 1 .. n + 3 /\ p[n + 3] = z
    <3>1. Len(t) = 1 /\ t[1] = z
      BY <1>4, <2>3
    <3>2. Len(p) = n + 3
      BY <1>1, <1>7, <3>1
    <3> QED
      BY <1>7, <1>8, <3>1, <3>2
  <2> QED
    BY <1>10, <2>1, <2>2, <2>3 DEF n, z

\* The device is found in its own path and in those of its interfaces.
LEMMA DeviceFound ==
  ASSUME NEW d \in Devices, NEW f \in Interfaces \cup {<<>>}
  PROVE  RootToken(SysfsPath(d, f)) = {Address(d, Len(d.ports))}
<1> DEFINE p == SysfsPath(d, f)
           n == Len(d.ports)
<1>1. /\ n \in Nat /\ n >= 1
      /\ p[1] = <<"p", "c", "i">> /\ p[2] = <<"u", "s", "b", d.bus>>
      /\ \A k \in 1 .. n : p[k + 2] = Address(d, k)
      /\ f = <<>> => DOMAIN p = 1 .. n + 2
      /\ f /= <<>> => DOMAIN p = 1 .. n + 3 /\ p[n + 3] = Address(d, n) \o <<":">> \o f
  BY PathIs
<1>2. d.bus \in Digits /\ 2 * n + 1 < TokenMax
  BY DetectAssumption
<1>3. f /= <<>> => ~ IsUsbPort(Address(d, n) \o <<":">> \o f)
  BY InterfaceIsNoPort
<1>4. \A k \in 1 .. n : IsUsbPort(Address(d, k))
  BY AddressIsPort
<1>5. Len(Address(d, n)) = 2 * n + 1
  BY <1>1, AddressIs
<1> HIDE DEF p, n
<1>6. ASSUME NEW s, s[1] \notin Digits PROVE ~ IsUsbPort(s)
  BY <1>6 DEF IsUsbPort
<1>7. ~ IsUsbPort(p[1]) /\ ~ IsUsbPort(p[2])
  <2>1. p[1][1] = "p" /\ p[2][1] = "u"
    BY <1>1
  <2> QED
    BY <2>1, <1>6 DEF Digits
<1>8. IsUsbRoot(p[2])
  <2> DEFINE s == <<"u", "s", "b", d.bus>>
  <2>1. Len(s) = 4 /\ s[1] = "u" /\ s[2] = "s" /\ s[3] = "b" /\ s[4] = d.bus
    OBVIOUS
  <2>2. SubSeq(s, 1, 3) = <<"u", "s", "b">>
    <3> DEFINE c == <<"u", "s", "b">>
               S == {"u", "s", "b"}
    <3>1. c \in Seq(S) /\ Len(c) = 3 /\ c[1] = "u" /\ c[2] = "s" /\ c[3] = "b"
      OBVIOUS
    <3>2. \A i \in 1 .. 3 : i = 1 \/ i = 2 \/ i = 3
      OBVIOUS
    <3>3. \A i \in 1 .. 3 : s[i] \in S
      BY <2>1, <3>2
    <3> HIDE DEF s, c, S
    <3>4. /\ SubSeq(s, 1, 3) \in Seq(S) /\ Len(SubSeq(s, 1, 3)) = 3
          /\ \A i \in 1 .. 3 - 1 + 1 : SubSeq(s, 1, 3)[i] = s[1 + i - 1]
      BY <3>3, SubSeqProperties
    <3>5. \A i \in 1 .. 3 : SubSeq(s, 1, 3)[i] = c[i]
      BY <2>1, <3>1, <3>2, <3>4
    <3>6. SubSeq(s, 1, 3) = c
      BY <3>1, <3>4, <3>5, SeqEqual
    <3> QED
      BY <3>6 DEF c
  <2>3. \A i \in 4 .. Len(s) : s[i] \in Digits
    BY <1>2, <2>1
  <2> QED
    BY <1>1, <2>1, <2>2, <2>3 DEF IsUsbRoot
<1>9. Addresses(p) = 3 .. n + 2
  <2>1. ASSUME NEW i \in Addresses(p) PROVE i \in 3 .. n + 2
    <3>1. i \in DOMAIN p /\ IsUsbPort(p[i])
      BY DEF Addresses
    <3>2. i /= 1 /\ i /= 2
      BY <3>1, <1>7
    <3>3. f /= <<>> => i /= n + 3
      BY <3>1, <1>1, <1>3
    <3> QED
      BY <3>1, <3>2, <3>3, <1>1
  <2>2. ASSUME NEW i \in 3 .. n + 2 PROVE i \in Addresses(p)
    <3>1. i \in DOMAIN p /\ 2 \in 1 .. i - 1
      BY <1>1
    <3>2. i - 2 \in 1 .. n /\ (i - 2) + 2 = i
      BY <1>1
    <3>3. IsUsbPort(p[i])
      BY <3>2, <1>1, <1>4
    <3> QED
      BY <3>1, <3>3, <1>8 DEF Addresses
  <2> QED
    BY <2>1, <2>2
<1>10. Max(Addresses(p)) = n + 2
  <2>1. n + 2 \in 3 .. n + 2 /\ 3 .. n + 2 \subseteq Nat /\ \A i \in 3 .. n + 2 : i <= n + 2
    BY <1>1
  <2> QED
    BY <1>9, <2>1, MaxUnique
<1>11. p[n + 2] = Address(d, n) /\ Len(p[n + 2]) < TokenMax /\ n + 2 \in Addresses(p)
  <2>1. p[n + 2] = Address(d, n) /\ n + 2 \in 3 .. n + 2
    BY <1>1
  <2> QED
    BY <1>2, <1>5, <1>9, <2>1
<1>12. RootToken(p) = {p[n + 2]}
  BY <1>10, <1>11 DEF RootToken
<1> QED
  BY <1>11, <1>12 DEF p, n

\* No device is found in the path of a card that is on none.
LEMMA NoDeviceFound == RootToken(LinkOf(<<>>)) = {}
<1> DEFINE u == <<"p", "c", "i">>
           p == <<u, <<"0", ":", "1", "f", ".", "3">>>>
<1>1. LinkOf(<<>>) = p
  BY DEF LinkOf
<1>2. DOMAIN p = 1 .. 2 /\ p[1] = u
  OBVIOUS
<1>3. ~ IsUsbRoot(u)
  <2>1. Len(u) = 3
    OBVIOUS
  <2> QED
    BY <2>1 DEF IsUsbRoot
<1> HIDE DEF p, u
<1>4. Addresses(p) = {}
  <2> SUFFICES ASSUME NEW i \in Addresses(p) PROVE FALSE
    OBVIOUS
  <2>1. PICK j \in 1 .. i - 1 : IsUsbRoot(p[j]) /\ i \in 1 .. 2
    BY <1>2 DEF Addresses
  <2>2. j = 1
    BY <2>1
  <2> QED
    BY <1>2, <1>3, <2>1, <2>2
<1> QED
  BY <1>1, <1>4 DEF RootToken

\* An address belongs to one device.
LEMMA AddressOfOne ==
  ASSUME NEW d \in Devices, NEW e \in Devices,
         Address(d, Len(d.ports)) = Address(e, Len(e.ports))
  PROVE  d = e
<1> DEFINE n == Len(d.ports)
           k == Len(e.ports)
<1>1. /\ d \in [bus : Digits, ports : Seq(Digits) \ {<<>>}]
      /\ e \in [bus : Digits, ports : Seq(Digits) \ {<<>>}]
  BY DetectAssumption
<1>2. n \in Nat /\ n >= 1 /\ k \in Nat /\ k >= 1
  BY <1>1, LenProperties, EmptySeq
<1>3. /\ Len(Address(d, n)) = 2 * n + 1 /\ Address(d, n)[1] = d.bus
      /\ \A i \in 1 .. n : Address(d, n)[2 * i + 1] = d.ports[i]
  <2>1. n \in 1 .. Len(d.ports)
    BY <1>2
  <2> HIDE DEF n
  <2> QED
    BY <2>1, AddressIs
<1>4. /\ Len(Address(e, k)) = 2 * k + 1 /\ Address(e, k)[1] = e.bus
      /\ \A i \in 1 .. k : Address(e, k)[2 * i + 1] = e.ports[i]
  BY <1>2, AddressIs
<1>5. n = k /\ d.bus = e.bus
  BY <1>2, <1>3, <1>4
<1>6. d.ports = e.ports
  BY <1>1, <1>3, <1>4, <1>5, SeqEqual
<1> QED
  BY <1>1, <1>5, <1>6

\* The cards that match are those on the device.
LEMMA CardsMatch ==
  ASSUME NEW d \in Devices, NEW place \in Places
  PROVE  RootToken(LinkOf(place)) = RootToken(SysfsPath(d, <<>>))
           <=> place /= <<>> /\ place.device = d
<1>1. RootToken(SysfsPath(d, <<>>)) = {Address(d, Len(d.ports))}
  BY DeviceFound
<1>2. CASE place = <<>>
  BY <1>1, <1>2, NoDeviceFound
<1>3. CASE place /= <<>>
  <2>1. place.device \in Devices /\ place.interface \in Interfaces
    BY <1>3 DEF Places
  <2>2. RootToken(LinkOf(place)) = {Address(place.device, Len(place.device.ports))}
    BY <1>3, <2>1, DeviceFound DEF LinkOf
  <2> QED
    BY <1>1, <1>3, <2>1, <2>2, AddressOfOne
<1> QED
  BY <1>2, <1>3

\* alsa_autodetect_devices: whatever cards there are, on whatever devices, hubs and
\* interfaces, a modem gets the one on its own device, and none if there are two.
THEOREM CardsAreFound == ResolveSpec => []CardFound
<1>1. ResolveInit => CardFound
  BY DEF ResolveInit, DetectInit, CardFound
<1>2. CardFound /\ [ResolveNext]_<<vars, look>> => CardFound'
  <2> SUFFICES ASSUME CardFound, [ResolveNext]_<<vars, look>> PROVE CardFound'
    OBVIOUS
  <2>1. CASE AutodetectDevices
    <3>1. PICK d \in Devices, present \in SUBSET Cards : \E place \in [present -> Places] :
            look' = [device |-> d, place |-> place,
                     card   |-> CardFor(SysfsPath(d, <<>>),
                                        [n \in present |-> LinkOf(place[n])])]
      BY <2>1 DEF AutodetectDevices
    <3>2. PICK place \in [present -> Places] :
            look' = [device |-> d, place |-> place,
                     card   |-> CardFor(SysfsPath(d, <<>>),
                                        [n \in present |-> LinkOf(place[n])])]
      BY <3>1
    <3> DEFINE own     == {n \in DOMAIN place : place[n] /= <<>> /\ place[n].device = d}
               links   == [n \in present |-> LinkOf(place[n])]
               matches == {n \in DOMAIN links :
                             RootToken(links[n]) = RootToken(SysfsPath(d, <<>>))}
    <3>3. matches = own
      <4>1. \A n \in present : place[n] \in Places
        OBVIOUS
      <4> QED
        BY <4>1, CardsMatch
    <3>4. RootToken(SysfsPath(d, <<>>)) /= {}
      BY DeviceFound
    <3>5. CardFor(SysfsPath(d, <<>>), links) = IF Cardinality(own) = 1 THEN own ELSE {}
      BY <3>3, <3>4 DEF CardFor
    <3>6. /\ look'.device = d /\ look'.place = place
          /\ look'.card = CardFor(SysfsPath(d, <<>>), links)
      BY <3>2
    <3> QED
      BY <3>5, <3>6 DEF CardFound
  <2>2. CASE Detected
    BY <2>2 DEF Detected, CardFound
  <2>3. CASE UNCHANGED look
    BY <2>3 DEF CardFound
  <2> QED
    BY <2>1, <2>2, <2>3 DEF ResolveNext
<1> QED
  BY <1>1, <1>2, PTL DEF ResolveSpec

-----------------------------------------------------------------------------
(* The init commands: the inductive invariant *)

\* What was said and has not been thrown away ends with the end of a line.
Stream   == buf \o input
Clean(s) == s = <<>> \/ s[Len(s)] = "n"

AtTypeOK ==
  /\ tpc \in {"start", "pick", "send", "wait", "over"} /\ cmd \in 0 .. Commands
  /\ buf \in Seq(Chars) /\ input \in Seq(Chars)
  /\ log \in Seq({0, -1, -2}) /\ answers \in Seq({"ok", "error"})

\* There is a result for every command before the one under way.
LogInStep ==
  /\ tpc \in {"start", "pick"} => cmd = Probe /\ log = <<>>
  /\ tpc = "over" => cmd = Probe
  /\ tpc \in {"send", "wait"} => Len(log) = IF cmd = Probe THEN 0 ELSE cmd - 1

\* No answer waits on the tty when a command is sent, ...
NoneWaits ==
  tpc = "send" => owed = <<>> /\ Len(answers) = cmd /\ Clean(input) /\ Finals(input) = {}

AnswerIs(s, i, answer) ==
  Finals(s) = {i} /\ Line(s, i) = IF answer = "ok" THEN OkLine ELSE ErrorLine

\* ... and then its own only.
OneWaits ==
  tpc = "wait" =>
    /\ Clean(Stream)
    /\ \/ owed = <<cmd>> /\ Len(answers) = cmd /\ Finals(Stream) = {}
       \/ /\ owed = <<>> /\ Len(answers) = cmd + 1
          /\ \E i \in DOMAIN Stream : AnswerIs(Stream, i, answers[cmd + 1])

AtInv == /\ AtTypeOK /\ LogInStep /\ AnswersTrue
         /\ ~ spoilt => NoneWaits /\ OneWaits

-----------------------------------------------------------------------------
(* Lines and where they begin *)

Begin(s, i) == Max({j \in Ends(s) : j < i} \cup {0})

\* The characters of a part of a sequence.
LEMMA PartOf ==
  ASSUME NEW s \in Seq(Chars), NEW a \in Nat \ {0}, NEW c \in Nat, c <= Len(s)
  PROVE  /\ SubSeq(s, a, c) \in Seq(Chars)
         /\ Len(SubSeq(s, a, c)) = IF a <= c THEN c - a + 1 ELSE 0
         /\ \A i \in 1 .. c - a + 1 : SubSeq(s, a, c)[i] = s[a + i - 1]
<1>1. \A i \in a .. c : s[i] \in Chars
  BY ElementOfSeq, LenProperties
<1> QED
  BY <1>1, SubSeqProperties

LEMMA EndsIn ==
  ASSUME NEW s \in Seq(Chars)
  PROVE  /\ Len(s) \in Nat /\ DOMAIN s = 1 .. Len(s)
         /\ \A i : i \in Ends(s) <=> i \in 1 .. Len(s) /\ s[i] = "n"
         /\ Ends(s) \subseteq Nat
BY LenProperties DEF Ends

\* A line begins behind the end of the last one before it.
LEMMA BeginIs ==
  ASSUME NEW s \in Seq(Chars), NEW i \in Nat
  PROVE  /\ i > 0 => Begin(s, i) \in Nat /\ Begin(s, i) < i
         /\ Begin(s, i) = 0 \/ Begin(s, i) \in Ends(s)
         /\ \A j \in Ends(s) : j < i => j <= Begin(s, i)
<1> DEFINE T == {j \in Ends(s) : j < i} \cup {0}
<1>1. T \subseteq 0 .. i /\ T /= {}
  BY EndsIn
<1>2. Max(T) \in T /\ \A n \in T : n <= Max(T)
  BY <1>1, MaxIs
<1>3. Begin(s, i) = Max(T)
  BY DEF Begin
<1>4. \A n \in T : n \in Nat /\ (n = 0 \/ (n \in Ends(s) /\ n < i))
  BY EndsIn
<1> QED
  BY <1>2, <1>3, <1>4

LEMMA BeginUnique ==
  ASSUME NEW s \in Seq(Chars), NEW i \in Nat \ {0}, NEW m \in Nat, m < i,
         m = 0 \/ m \in Ends(s), \A j \in Ends(s) : j < i => j <= m
  PROVE  Begin(s, i) = m
<1> DEFINE T == {j \in Ends(s) : j < i} \cup {0}
<1>1. T \subseteq Nat /\ m \in T /\ \A n \in T : n <= m
  BY EndsIn
<1> HIDE DEF T
<1>2. Max(T) = m
  BY <1>1, MaxUnique
<1> QED
  BY <1>2 DEF T, Begin

\* A line is the same wherever what it is a part of begins.
LEMMA SameLine ==
  ASSUME NEW s \in Seq(Chars), NEW t \in Seq(Chars), NEW e \in Nat, e = 0 \/ e \in Ends(s),
         NEW i \in Ends(t), e + i <= Len(s), \A k \in 1 .. i : s[e + k] = t[k]
  PROVE  Line(s, e + i) = Line(t, i)
<1> DEFINE m == Begin(t, i)
<1>1. /\ i \in Nat \ {0} /\ i <= Len(t) /\ e + i \in Nat \ {0}
      /\ Len(s) \in Nat /\ Len(t) \in Nat
  BY EndsIn
<1>2. /\ m \in Nat /\ m < i
      /\ m = 0 \/ m \in Ends(t)
      /\ \A j \in Ends(t) : j < i => j <= m
  BY <1>1, BeginIs
<1> HIDE DEF m
<1>3. \A k \in 1 .. i : e + k \in Ends(s) <=> k \in Ends(t)
  <2> SUFFICES ASSUME NEW k \in 1 .. i PROVE e + k \in Ends(s) <=> k \in Ends(t)
    OBVIOUS
  <2>1. s[e + k] = t[k] /\ e + k \in 1 .. Len(s) /\ k \in 1 .. Len(t)
    BY <1>1
  <2> QED
    BY <2>1, EndsIn
<1>4. e + m \in Nat /\ e + m < e + i /\ (e + m = 0 \/ e + m \in Ends(s))
  <2>1. CASE m = 0
    BY <2>1, <1>1
  <2>2. CASE m \in Ends(t)
    <3>1. m \in 1 .. i
      BY <2>2, <1>1, <1>2, EndsIn
    <3> QED
      BY <3>1, <2>2, <1>1, <1>2, <1>3
  <2> QED
    BY <2>1, <2>2, <1>2
<1>5. ASSUME NEW j \in Ends(s), j < e + i PROVE j <= e + m
  <2>0. j \in Nat
    BY EndsIn
  <2>1. CASE j <= e
    BY <2>0, <2>1, <1>2
  <2>2. CASE j > e
    <3> DEFINE k == j - e
    <3>1. k \in 1 .. i /\ e + k = j /\ k < i
      BY <2>0, <2>2, <1>1, <1>5
    <3>2. k \in Ends(t)
      BY <3>1, <1>3
    <3>3. k <= m
      BY <3>1, <3>2, <1>2
    <3> QED
      BY <3>1, <3>3, <2>0, <1>2
  <2> QED
    BY <2>0, <2>1, <2>2
<1>6. Begin(s, e + i) = e + m
  BY <1>1, <1>4, <1>5, BeginUnique
<1> DEFINE p == SubSeq(s, e + m + 1, (e + i) - 1)
           q == SubSeq(t, m + 1, i - 1)
<1>7. p \in Seq(Chars) /\ Len(p) = i - 1 - m /\ \A k \in 1 .. i - 1 - m : p[k] = s[e + m + k]
  <2> DEFINE a == e + m + 1
             c == (e + i) - 1
  <2>1. /\ a \in Nat \ {0} /\ c \in Nat /\ c <= Len(s) /\ c - a + 1 = i - 1 - m
        /\ IF a <= c THEN c - a + 1 = i - 1 - m ELSE i - 1 - m = 0
        /\ \A k \in 1 .. i - 1 - m : a + k - 1 = e + m + k
    BY <1>1, <1>2
  <2> HIDE DEF a, c
  <2>2. /\ SubSeq(s, a, c) \in Seq(Chars)
        /\ Len(SubSeq(s, a, c)) = IF a <= c THEN c - a + 1 ELSE 0
        /\ \A k \in 1 .. c - a + 1 : SubSeq(s, a, c)[k] = s[a + k - 1]
    BY <2>1, PartOf
  <2>3. /\ SubSeq(s, a, c) \in Seq(Chars) /\ Len(SubSeq(s, a, c)) = i - 1 - m
        /\ \A k \in 1 .. i - 1 - m : SubSeq(s, a, c)[k] = s[e + m + k]
    BY <2>1, <2>2
  <2> QED
    BY <2>3 DEF a, c
<1>8. q \in Seq(Chars) /\ Len(q) = i - 1 - m /\ \A k \in 1 .. i - 1 - m : q[k] = t[m + k]
  <2> DEFINE a == m + 1
             c == i - 1
  <2>1. /\ a \in Nat \ {0} /\ c \in Nat /\ c <= Len(t) /\ c - a + 1 = i - 1 - m
        /\ IF a <= c THEN c - a + 1 = i - 1 - m ELSE i - 1 - m = 0
        /\ \A k \in 1 .. i - 1 - m : a + k - 1 = m + k
    BY <1>1, <1>2
  <2> HIDE DEF a, c
  <2>2. /\ SubSeq(t, a, c) \in Seq(Chars)
        /\ Len(SubSeq(t, a, c)) = IF a <= c THEN c - a + 1 ELSE 0
        /\ \A k \in 1 .. c - a + 1 : SubSeq(t, a, c)[k] = t[a + k - 1]
    BY <2>1, PartOf
  <2>3. /\ SubSeq(t, a, c) \in Seq(Chars) /\ Len(SubSeq(t, a, c)) = i - 1 - m
        /\ \A k \in 1 .. i - 1 - m : SubSeq(t, a, c)[k] = t[m + k]
    BY <2>1, <2>2
  <2> QED
    BY <2>3 DEF a, c
<1>9. Line(s, e + i) = p /\ Line(t, i) = q
  <2>1. Line(s, e + i) = SubSeq(s, Begin(s, e + i) + 1, (e + i) - 1)
    BY Zenon DEF Line, Begin
  <2>2. Line(t, i) = SubSeq(t, m + 1, i - 1)
    BY DEF Line, Begin, m
  <2>3. SubSeq(s, Begin(s, e + i) + 1, (e + i) - 1) = p
    BY Zenon, <1>6
  <2> QED
    BY <2>1, <2>2, <2>3, Zenon
<1> HIDE DEF p, q
<1>10. \A k \in 1 .. i - 1 - m : p[k] = q[k]
  <2> SUFFICES ASSUME NEW k \in 1 .. i - 1 - m PROVE p[k] = q[k]
    OBVIOUS
  <2>1. m + k \in 1 .. i /\ e + (m + k) = e + m + k
    BY <1>1, <1>2
  <2>2. s[e + (m + k)] = t[m + k]
    BY <2>1
  <2> QED
    BY <2>1, <2>2, <1>7, <1>8
<1>11. p = q
  BY <1>7, <1>8, <1>10, SeqEqual
<1> QED
  BY <1>9, <1>11

\* What is read first has the lines that end in it.
LEMMA PrefixLines ==
  ASSUME NEW b \in Seq(Chars), NEW r \in Seq(Chars)
  PROVE  LET s == b \o r IN
         /\ s \in Seq(Chars) /\ Len(s) = Len(b) + Len(r)
         /\ \A i \in 1 .. Len(b) : i \in Ends(s) <=> i \in Ends(b)
         /\ \A i \in Ends(b) : Line(s, i) = Line(b, i)
         /\ Finals(b) = {i \in Finals(s) : i <= Len(b)}
<1> DEFINE s == b \o r
<1>1. /\ s \in Seq(Chars) /\ Len(s) = Len(b) + Len(r) /\ Len(b) \in Nat /\ Len(r) \in Nat
      /\ \A i \in 1 .. Len(b) : s[i] = b[i]
  <2>1. /\ b \o r \in Seq(Chars) /\ Len(b \o r) = Len(b) + Len(r)
        /\ \A i \in 1 .. Len(b) + Len(r) : (b \o r)[i] = IF i <= Len(b) THEN b[i] ELSE r[i - Len(b)]
    BY ConcatProperties
  <2>2. Len(b) \in Nat /\ Len(r) \in Nat
    BY LenProperties
  <2> QED
    BY <2>1, <2>2
<1> HIDE DEF s
<1>2. \A i \in 1 .. Len(b) : i \in Ends(s) <=> i \in Ends(b)
  BY <1>1, EndsIn
<1>3. ASSUME NEW i \in Ends(b) PROVE Line(s, i) = Line(b, i)
  <2>1. /\ i \in 1 .. Len(b) /\ 0 + i = i /\ 0 + i <= Len(s) /\ 0 \in Nat
        /\ \A k \in 1 .. i : 0 + k = k /\ s[k] = b[k]
    BY <1>1, EndsIn
  <2>2. \A k \in 1 .. i : s[0 + k] = b[k]
    BY <2>1
  <2>3. Line(s, 0 + i) = Line(b, i)
    BY <1>1, <2>1, <2>2, SameLine
  <2> QED
    BY <2>1, <2>3
<1>4. Finals(b) = {i \in Finals(s) : i <= Len(b)}
  <2>1. ASSUME NEW i \in Finals(b) PROVE i \in Finals(s) /\ i <= Len(b)
    <3>1. i \in Ends(b) /\ i \in 1 .. Len(b)
      BY EndsIn DEF Finals
    <3> QED
      BY <3>1, <1>1, <1>2, <1>3 DEF Finals
  <2>2. ASSUME NEW i \in Finals(s), i <= Len(b) PROVE i \in Finals(b)
    <3>1. i \in Ends(s) /\ i \in 1 .. Len(b)
      BY <1>1, <2>2, EndsIn DEF Finals
    <3> QED
      BY <3>1, <1>2, <1>3 DEF Finals
  <2> QED
    BY <2>1, <2>2
<1> QED
  BY <1>1, <1>2, <1>3, <1>4 DEF s

\* What is left when the beginning is cut off at the end of a line has the other lines.
LEMMA CutLines ==
  ASSUME NEW s \in Seq(Chars), NEW e \in Nat, e = 0 \/ e \in Ends(s)
  PROVE  LET t == SubSeq(s, e + 1, Len(s)) IN
         /\ t \in Seq(Chars) /\ e <= Len(s) /\ Len(t) = Len(s) - e
         /\ \A i \in 1 .. Len(s) - e : t[i] = s[e + i]
         /\ \A i \in Nat \ {0} : i \in Finals(t) <=> e + i \in Finals(s)
         /\ \A i \in Ends(t) : Line(s, e + i) = Line(t, i)
         /\ Clean(s) => Clean(t)
<1> DEFINE t == SubSeq(s, e + 1, Len(s))
<1>1. Len(s) \in Nat /\ e <= Len(s)
  BY EndsIn
<1>2. /\ t \in Seq(Chars) /\ Len(t) = Len(s) - e
      /\ \A i \in 1 .. Len(s) - e : t[i] = s[e + i]
  <2>1. e + 1 \in Nat \ {0} /\ Len(s) <= Len(s) /\ Len(s) - (e + 1) + 1 = Len(s) - e
        /\ \A i \in 1 .. Len(s) - e : (e + 1) + i - 1 = e + i
    BY <1>1
  <2>2. /\ t \in Seq(Chars)
        /\ Len(t) = IF e + 1 <= Len(s) THEN Len(s) - (e + 1) + 1 ELSE 0
        /\ \A i \in 1 .. Len(s) - (e + 1) + 1 : t[i] = s[(e + 1) + i - 1]
    BY <1>1, <2>1, PartOf
  <2> HIDE DEF t
  <2>3. Len(t) = Len(s) - e
    BY <1>1, <2>2
  <2>4. ASSUME NEW i \in 1 .. Len(s) - e PROVE t[i] = s[e + i]
    <3>1. i \in 1 .. Len(s) - (e + 1) + 1 /\ (e + 1) + i - 1 = e + i
      BY <1>1, <2>1
    <3> QED
      BY <3>1, <2>2
  <2> QED
    BY <2>2, <2>3, <2>4
<1> HIDE DEF t
<1>3. ASSUME NEW i \in Nat \ {0} PROVE i \in Ends(t) <=> e + i \in Ends(s)
  <2>1. CASE i <= Len(t)
    <3>1. i \in 1 .. Len(t) /\ e + i \in 1 .. Len(s) /\ t[i] = s[e + i]
      BY <1>1, <1>2, <2>1
    <3> QED
      BY <3>1, <1>2, EndsIn
  <2>2. CASE i > Len(t)
    <3>1. ~ (i \in 1 .. Len(t)) /\ ~ (e + i \in 1 .. Len(s))
      BY <1>1, <1>2, <2>2
    <3> QED
      BY <3>1, <1>2, EndsIn
  <2> QED
    BY <1>1, <1>2, <2>1, <2>2
<1>4. ASSUME NEW i \in Ends(t) PROVE Line(s, e + i) = Line(t, i)
  <2>1. i \in 1 .. Len(t) /\ e + i <= Len(s)
    BY <1>1, <1>2, EndsIn
  <2>2. \A k \in 1 .. i : s[e + k] = t[k]
    BY <1>1, <1>2, <2>1
  <2> QED
    BY <1>2, <2>1, <2>2, SameLine
<1>5. \A i \in Nat \ {0} : i \in Finals(t) <=> e + i \in Finals(s)
  BY <1>3, <1>4 DEF Finals
<1>6. ASSUME Clean(s) PROVE Clean(t)
  <2>1. CASE Len(t) = 0
    BY <1>2, <2>1, EmptySeq DEF Clean
  <2>2. CASE Len(t) > 0
    <3>1. t[Len(t)] = s[Len(s)] /\ s /= <<>>
      <4>1. Len(t) \in 1 .. Len(s) - e /\ e + Len(t) = Len(s) /\ Len(s) /= 0
        BY <1>1, <1>2, <2>2
      <4> QED
        BY <4>1, <1>2, EmptySeq
    <3> QED
      BY <3>1, <1>6 DEF Clean
  <2> QED
    BY <1>1, <1>2, <2>1, <2>2
<1> QED
  BY <1>1, <1>2, <1>4, <1>5, <1>6 DEF t

\* A line that is said, behind complete lines: an empty line and the line itself, which
\* may be a final result.
LEMMA SaidLines ==
  ASSUME NEW s \in Seq(Chars), Clean(s), NEW l \in Seq(Chars), \A k \in 1 .. Len(l) : l[k] /= "n"
  PROVE  LET t == s \o Said(l) IN
         /\ t \in Seq(Chars) /\ Clean(t) /\ Len(t) \in DOMAIN t /\ Line(t, Len(t)) = l
         /\ Len(t) \notin Finals(s)
         /\ Finals(t) = Finals(s) \cup (IF l \in {OkLine, ErrorLine} THEN {Len(t)} ELSE {})
         /\ \A i \in Finals(s) : Line(t, i) = Line(s, i)
<1> DEFINE r == Said(l)
           t == s \o r
           a == Len(s)
           n == Len(l)
<1>1. a \in Nat /\ n \in Nat /\ "n" \in Chars
  BY LenProperties DEF Chars
<1>2. /\ r \in Seq(Chars) /\ Len(r) = n + 2 /\ r[1] = "n" /\ r[n + 2] = "n"
      /\ \A k \in 1 .. n : r[k + 1] = l[k]
  <2> DEFINE h == <<"n">>
             u == h \o l
  <2>1. h \in Seq(Chars) /\ Len(h) = 1 /\ h[1] = "n"
    BY <1>1
  <2> HIDE DEF h
  <2>2. /\ u \in Seq(Chars) /\ Len(u) = 1 + n
        /\ \A k \in 1 .. 1 + n : u[k] = IF k <= 1 THEN h[k] ELSE l[k - 1]
    <3>1. /\ h \o l \in Seq(Chars) /\ Len(h \o l) = Len(h) + Len(l)
          /\ \A k \in 1 .. Len(h) + Len(l) :
               (h \o l)[k] = IF k <= Len(h) THEN h[k] ELSE l[k - Len(h)]
      BY <2>1, ConcatProperties
    <3> QED
      BY <3>1, <2>1
  <2> HIDE DEF u
  <2>3. /\ u \o h \in Seq(Chars) /\ Len(u \o h) = n + 2
        /\ \A k \in 1 .. n + 2 : (u \o h)[k] = IF k <= 1 + n THEN u[k] ELSE h[k - (1 + n)]
    <3>1. /\ u \o h \in Seq(Chars) /\ Len(u \o h) = Len(u) + Len(h)
          /\ \A k \in 1 .. Len(u) + Len(h) :
               (u \o h)[k] = IF k <= Len(u) THEN u[k] ELSE h[k - Len(u)]
      BY <2>1, <2>2, ConcatProperties
    <3> QED
      BY <3>1, <2>1, <2>2, <1>1
  <2>4. (u \o h)[1] = "n" /\ (u \o h)[n + 2] = "n"
    <3>1. /\ 1 \in 1 .. n + 2 /\ 1 \in 1 .. 1 + n /\ 1 <= 1 + n
          /\ n + 2 \in 1 .. n + 2 /\ ~ (n + 2 <= 1 + n) /\ (n + 2) - (1 + n) = 1
      BY <1>1
    <3> QED
      BY <3>1, <2>1, <2>2, <2>3
  <2>5. ASSUME NEW k \in 1 .. n PROVE (u \o h)[k + 1] = l[k]
    <3>1. /\ k + 1 \in 1 .. n + 2 /\ k + 1 \in 1 .. 1 + n /\ k + 1 <= 1 + n
          /\ ~ (k + 1 <= 1) /\ (k + 1) - 1 = k
      BY <1>1
    <3> QED
      BY <3>1, <2>2, <2>3
  <2>6. r = u \o h
    BY Zenon DEF r, Said, u, h
  <2> QED
    BY <2>3, <2>4, <2>5, <2>6
<1> HIDE DEF r
<1>3. /\ t \in Seq(Chars) /\ Len(t) = a + n + 2 /\ t[a + 1] = "n" /\ t[a + n + 2] = "n"
      /\ \A i \in 1 .. a : t[i] = s[i]
      /\ \A k \in 1 .. n : t[a + 1 + k] = l[k]
  <2>1. /\ s \o r \in Seq(Chars) /\ Len(s \o r) = Len(s) + Len(r)
        /\ \A i \in 1 .. Len(s) + Len(r) :
             (s \o r)[i] = IF i <= Len(s) THEN s[i] ELSE r[i - Len(s)]
    BY <1>2, ConcatProperties
  <2> HIDE DEF t
  <2>2. /\ t \in Seq(Chars) /\ Len(t) = a + n + 2
        /\ \A i \in 1 .. a + n + 2 : t[i] = IF i <= a THEN s[i] ELSE r[i - a]
    BY <2>1, <1>1, <1>2 DEF t
  <2> HIDE DEF a
  <2>3. t[a + 1] = "n" /\ t[a + n + 2] = "n"
    <3>1. /\ a + 1 \in 1 .. a + n + 2 /\ ~ (a + 1 <= a) /\ (a + 1) - a = 1
          /\ a + n + 2 \in 1 .. a + n + 2 /\ ~ (a + n + 2 <= a) /\ (a + n + 2) - a = n + 2
      BY <1>1
    <3> QED
      BY <3>1, <2>2, <1>2
  <2>4. ASSUME NEW i \in 1 .. a PROVE t[i] = s[i]
    BY <2>2, <1>1
  <2>5. ASSUME NEW k \in 1 .. n PROVE t[a + 1 + k] = l[k]
    <3>1. /\ a + 1 + k \in 1 .. a + n + 2 /\ ~ (a + 1 + k <= a) /\ (a + 1 + k) - a = k + 1
      BY <1>1
    <3> QED
      BY <3>1, <2>2, <1>2
  <2> QED
    BY <2>2, <2>3, <2>4, <2>5
<1> HIDE DEF t
<1>4. Clean(t) /\ Len(t) \in DOMAIN t
  BY <1>1, <1>3, EndsIn DEF Clean
<1>5. /\ a + 1 \in Ends(t) /\ a + n + 2 \in Ends(t)
      /\ \A i \in Ends(t) : i <= a \/ i = a + 1 \/ i = a + n + 2
  <2>1. a + 1 \in Ends(t) /\ a + n + 2 \in Ends(t)
    <3>1. a + 1 \in 1 .. Len(t) /\ a + n + 2 \in 1 .. Len(t)
      BY <1>1, <1>3
    <3>2. \A i : i \in Ends(t) <=> i \in 1 .. Len(t) /\ t[i] = "n"
      BY <1>3, EndsIn
    <3> QED
      BY <3>1, <3>2, <1>3, Zenon
  <2>2. ASSUME NEW i \in Ends(t), i > a + 1, i < a + n + 2 PROVE FALSE
    <3>1. i \in Nat /\ t[i] = "n"
      BY EndsIn, <1>3
    <3>2. i - (a + 1) \in 1 .. n /\ a + 1 + (i - (a + 1)) = i
      BY <3>1, <2>2, <1>1
    <3>3. t[i] = l[i - (a + 1)]
      BY <3>2, <1>3
    <3> QED
      BY <3>1, <3>2, <3>3
  <2>3. ASSUME NEW i \in Ends(t) PROVE i <= a \/ i = a + 1 \/ i = a + n + 2
    <3>1. i \in Nat /\ i <= a + n + 2
      BY EndsIn, <1>3
    <3> QED
      BY <3>1, <2>2, <1>1
  <2> QED
    BY <2>1, <2>3
<1>6. Line(t, a + n + 2) = l
  <2>1. Begin(t, a + n + 2) = a + 1
    <3>1. a + n + 2 \in Nat \ {0} /\ a + 1 \in Nat /\ a + 1 < a + n + 2
      BY <1>1
    <3>2. \A j \in Ends(t) : j \in Nat
      BY <1>3, EndsIn
    <3>3. \A j \in Ends(t) : j < a + n + 2 => j <= a + 1
      BY <3>2, <1>1, <1>5
    <3> QED
      BY <3>1, <3>3, <1>3, <1>5, BeginUnique
  <2> DEFINE f == a + 1 + 1
             c == (a + n + 2) - 1
             p == SubSeq(t, f, c)
  <2>2. Line(t, a + n + 2) = SubSeq(t, Begin(t, a + n + 2) + 1, (a + n + 2) - 1)
    BY Zenon DEF Line, Begin
  <2>3. Line(t, a + n + 2) = p
    BY <2>1, <2>2, Zenon
  <2>4. /\ f \in Nat \ {0} /\ c \in Nat /\ c <= Len(t) /\ c - f + 1 = n
        /\ IF f <= c THEN c - f + 1 = n ELSE n = 0
        /\ \A k \in 1 .. n : f + k - 1 = a + 1 + k
    BY <1>1, <1>3
  <2> HIDE DEF f, c
  <2>5. /\ p \in Seq(Chars) /\ Len(p) = IF f <= c THEN c - f + 1 ELSE 0
        /\ \A k \in 1 .. c - f + 1 : p[k] = t[f + k - 1]
    BY <1>3, <2>4, PartOf
  <2> HIDE DEF p
  <2>6. Len(p) = n /\ \A k \in 1 .. n : p[k] = l[k]
    <3>1. Len(p) = n
      BY <2>4, <2>5
    <3>2. ASSUME NEW k \in 1 .. n PROVE p[k] = l[k]
      <4>1. p[k] = t[f + k - 1] /\ f + k - 1 = a + 1 + k
        BY <2>4, <2>5
      <4> QED
        BY <4>1, <1>3
    <3> QED
      BY <3>1, <3>2
  <2>7. p = l
    BY <2>5, <2>6, SeqEqual
  <2> QED
    BY <2>3, <2>7
<1>7. Line(t, a + 1) = <<>>
  <2>1. Begin(t, a + 1) = a
    <3>1. a = 0 \/ a \in Ends(t)
      <4>1. CASE s = <<>>
        BY <4>1, EmptySeq
      <4>2. CASE s[Len(s)] = "n" /\ a > 0
        <5>1. a \in 1 .. Len(t) /\ a \in 1 .. a
          BY <4>2, <1>1, <1>3
        <5>2. t[a] = "n"
          BY <5>1, <4>2, <1>3
        <5> QED
          BY <5>1, <5>2, <1>3, EndsIn
      <4> QED
        BY <4>1, <4>2, <1>1, EmptySeq DEF Clean
    <3>2. /\ a + 1 \in Nat \ {0} /\ a \in Nat /\ a < a + 1
          /\ \A j \in Ends(t) : j < a + 1 => j <= a
      BY <1>1, <1>3, EndsIn
    <3> QED
      BY <3>1, <3>2, <1>3, BeginUnique
  <2> DEFINE f == a + 1
             c == (a + 1) - 1
             p == SubSeq(t, f, c)
  <2>2. Line(t, a + 1) = SubSeq(t, Begin(t, a + 1) + 1, (a + 1) - 1)
    BY Zenon DEF Line, Begin
  <2>3. Line(t, a + 1) = p
    BY <2>1, <2>2, Zenon
  <2>4. f \in Nat \ {0} /\ c \in Nat /\ c <= Len(t) /\ ~ (f <= c)
    BY <1>1, <1>3
  <2> HIDE DEF f, c
  <2>5. p \in Seq(Chars) /\ Len(p) = IF f <= c THEN c - f + 1 ELSE 0
    BY <1>3, <2>4, PartOf
  <2> HIDE DEF p
  <2> QED
    BY <2>3, <2>4, <2>5, EmptySeq
<1>8. <<>> \notin {OkLine, ErrorLine}
  BY DEF OkLine, ErrorLine
<1>9. /\ \A i \in 1 .. a : i \in Ends(t) <=> i \in Ends(s)
      /\ \A i \in Ends(s) : Line(t, i) = Line(s, i)
      /\ Finals(s) = {i \in Finals(t) : i <= a}
  BY <1>2, PrefixLines DEF t
<1>10. Len(t) \notin Finals(s)
  BY <1>1, <1>3, <1>9
<1>11. Finals(t) = Finals(s) \cup (IF l \in {OkLine, ErrorLine} THEN {Len(t)} ELSE {})
  <2>1. ASSUME NEW i \in Finals(t)
        PROVE  i \in Finals(s) \/ (l \in {OkLine, ErrorLine} /\ i = Len(t))
    <3>1. i \in Ends(t) /\ Line(t, i) \in {OkLine, ErrorLine}
      BY DEF Finals
    <3>2. i /= a + 1
      BY <3>1, <1>7, <1>8
    <3>3. CASE i <= a
      BY <3>3, <1>9
    <3>4. CASE i = a + n + 2
      BY <3>1, <3>4, <1>3, <1>6
    <3> QED
      BY <3>1, <3>2, <3>3, <3>4, <1>5
  <2>2. l \in {OkLine, ErrorLine} => Len(t) \in Finals(t)
    BY <1>3, <1>5, <1>6 DEF Finals
  <2>3. Finals(s) \subseteq Finals(t)
    BY <1>9
  <2> QED
    BY <2>1, <2>2, <2>3
<1>12. \A i \in Finals(s) : Line(t, i) = Line(s, i)
  BY <1>9 DEF Finals
<1>13. Line(t, Len(t)) = l
  BY <1>3, <1>6
<1> QED
  BY <1>3, <1>4, <1>10, <1>11, <1>12, <1>13 DEF t, r

-----------------------------------------------------------------------------
(* The init commands: the modem *)

LEMMA FinalLines ==
  /\ OkLine \in Seq(Chars) /\ ErrorLine \in Seq(Chars) /\ OkLine /= ErrorLine
  /\ \A l \in {OkLine, ErrorLine} : \A k \in 1 .. Len(l) : l[k] /= "n"
BY DEF OkLine, ErrorLine, Chars

\* What is said joins what was said, and the stream stays complete.
LEMMA StreamGrows ==
  ASSUME AtTypeOK, NEW l \in Seq(Chars), input' = input \o Said(l), UNCHANGED buf
  PROVE  input' \in Seq(Chars) /\ Stream \in Seq(Chars) /\ Stream' = Stream \o Said(l)
<1>1. buf \in Seq(Chars) /\ input \in Seq(Chars)
  BY DEF AtTypeOK
<1>2. Said(l) \in Seq(Chars)
  <2> DEFINE h == <<"n">>
  <2>1. h \in Seq(Chars)
    BY DEF Chars
  <2> HIDE DEF h
  <2>2. h \o l \o h \in Seq(Chars)
    BY <2>1, ConcatProperties
  <2> QED
    BY <2>2, Zenon DEF Said, h
<1> DEFINE r == Said(l)
<1> HIDE DEF r
<1>3. r \in Seq(Chars)
  BY <1>2 DEF r
<1>4. (buf \o input) \o r = buf \o (input \o r)
  <2>1. \A a \in Seq(Chars), b \in Seq(Chars), c \in Seq(Chars) : (a \o b) \o c = a \o (b \o c)
    BY ConcatAssociative
  <2> QED
    BY <2>1, <1>1, <1>3
<1>5. input \o r \in Seq(Chars) /\ buf \o input \in Seq(Chars)
  BY <1>1, <1>3, ConcatProperties
<1>6. Stream' = buf \o (input \o r)
  BY DEF Stream, r
<1> QED
  BY <1>4, <1>5, <1>6 DEF Stream, r

\* More answers take nothing from what earlier ones said.
LEMMA MoreAnswers ==
  ASSUME AtTypeOK, AnswersTrue, NEW res \in {"ok", "error"}, answers' = Append(answers, res),
         UNCHANGED <<cmd, log, spoilt>>
  PROVE  /\ AnswersTrue' /\ answers' \in Seq({"ok", "error"})
         /\ Len(answers') = Len(answers) + 1 /\ answers'[Len(answers) + 1] = res
<1>1. /\ answers \in Seq({"ok", "error"}) /\ Len(answers) \in Nat
      /\ log \in Seq({0, -1, -2}) /\ DOMAIN log = 1 .. Len(log) /\ Len(log) \in Nat
  BY LenProperties DEF AtTypeOK
<1>2. /\ answers' \in Seq({"ok", "error"})
      /\ Len(answers') = Len(answers) + 1 /\ answers'[Len(answers) + 1] = res
      /\ \A k \in 1 .. Len(answers) : answers'[k] = answers[k]
  BY <1>1, AppendProperties
<1>3. ASSUME ~ spoilt, cmd > Probe PROVE Len(answers') >= 1 /\ answers'[1] = "ok"
  <2>1. Len(answers) >= 1 /\ answers[1] = "ok"
    BY <1>3 DEF AnswersTrue
  <2> QED
    BY <2>1, <1>1, <1>2
<1>4. ASSUME ~ spoilt, NEW k \in DOMAIN log, log[k] \in {0, -1}
      PROVE  k < Len(answers') /\ answers'[k + 1] = IF log[k] = 0 THEN "ok" ELSE "error"
  <2>1. k < Len(answers) /\ answers[k + 1] = IF log[k] = 0 THEN "ok" ELSE "error"
    BY <1>4 DEF AnswersTrue
  <2>2. k \in Nat /\ k + 1 \in 1 .. Len(answers)
    BY <1>1, <2>1
  <2> QED
    BY <2>1, <2>2, <1>1, <1>2
<1>5. AnswersTrue'
  BY <1>3, <1>4 DEF AnswersTrue
<1> QED
  BY <1>2, <1>5

LEMMA AnswerKeeps ==
  ASSUME AtInv, Answer PROVE AtInv'
<1>0. AtTypeOK /\ LogInStep /\ AnswersTrue
  BY DEF AtInv
<1>1. PICK res \in {"ok", "error"} :
        /\ input' = input \o Said(IF res = "ok" THEN OkLine ELSE ErrorLine)
        /\ answers' = IF Head(owed) = Stale THEN answers ELSE Append(answers, res)
  BY DEF Answer
<1> DEFINE l == IF res = "ok" THEN OkLine ELSE ErrorLine
<1>2. /\ l \in Seq(Chars) /\ l \in {OkLine, ErrorLine} /\ \A k \in 1 .. Len(l) : l[k] /= "n"
      /\ input' = input \o Said(l)
  BY <1>1, FinalLines
<1>3. /\ owed /= <<>> /\ owed' = Tail(owed)
      /\ UNCHANGED <<tpc, cmd, log, buf, spoilt>>
  BY DEF Answer, task, session
<1>l. l = IF res = "ok" THEN OkLine ELSE ErrorLine
  OBVIOUS
<1> HIDE DEF l
<1>4. input' \in Seq(Chars) /\ Stream \in Seq(Chars) /\ Stream' = Stream \o Said(l)
  BY <1>0, <1>2, <1>3, StreamGrows
<1>5. AnswersTrue' /\ answers' \in Seq({"ok", "error"})
  <2>1. CASE Head(owed) = Stale
    BY <2>1, <1>0, <1>1, <1>3 DEF AnswersTrue, AtTypeOK
  <2>2. CASE Head(owed) /= Stale
    BY <2>2, <1>0, <1>1, <1>3, MoreAnswers
  <2> QED
    BY <2>1, <2>2
<1>6. AtTypeOK' /\ LogInStep'
  BY <1>0, <1>3, <1>4, <1>5 DEF AtTypeOK, LogInStep
<1>7. ASSUME ~ spoilt' PROVE NoneWaits' /\ OneWaits'
  <2>1. NoneWaits /\ OneWaits
    BY <1>3, <1>7 DEF AtInv
  <2>2. tpc /= "send"
    BY <2>1, <1>3 DEF NoneWaits
  <2>3. NoneWaits'
    BY <2>2, <1>3 DEF NoneWaits
  <2>4. CASE tpc = "wait"
    <3>1. Clean(Stream) /\ owed = <<cmd>> /\ Len(answers) = cmd /\ Finals(Stream) = {}
      BY <2>1, <2>4, <1>3 DEF OneWaits
    <3>2. cmd \in Nat /\ cmd /= Stale
      BY <1>0, AtAssumption DEF AtTypeOK, Stale
    <3>3. Head(owed) = cmd /\ owed' = <<>>
      BY <3>1, <1>3
    <3>4. answers' = Append(answers, res)
      BY <3>2, <3>3, <1>1
    <3>5. Len(answers') = cmd + 1 /\ answers'[cmd + 1] = res
      BY <3>1, <3>4, <1>0, <1>3, MoreAnswers
    <3> DEFINE t == Stream \o Said(l)
    <3>6. /\ Clean(t) /\ Len(t) \in DOMAIN t /\ Line(t, Len(t)) = l
          /\ Finals(t) = Finals(Stream) \cup (IF l \in {OkLine, ErrorLine} THEN {Len(t)} ELSE {})
      BY <3>1, <1>2, <1>4, SaidLines
    <3>t. Stream' = t
      BY <1>4
    <3> HIDE DEF t
    <3>7. Finals(t) = {Len(t)}
      BY <3>6, <3>1, <1>2
    <3>8. AnswerIs(t, Len(t), res)
      BY <3>6, <3>7, <1>l DEF AnswerIs
    <3>9. cmd' = cmd
      BY <1>3
    <3>10. AnswerIs(t, Len(t), answers'[cmd' + 1])
      BY <3>5, <3>8, <3>9
    <3>11. \E i \in DOMAIN t : AnswerIs(t, i, answers'[cmd' + 1])
      BY <3>6, <3>10
    <3>12. \E i \in DOMAIN Stream' : AnswerIs(Stream', i, answers'[cmd' + 1])
      BY <3>11, <3>t
    <3>13. Clean(Stream')
      BY <3>6, <3>t
    <3> QED
      BY <2>3, <3>3, <3>5, <3>9, <3>12, <3>13 DEF OneWaits
  <2>5. CASE tpc /= "wait"
    BY <2>3, <2>5, <1>3 DEF OneWaits
  <2> QED
    BY <2>4, <2>5
<1> QED
  BY <1>5, <1>6, <1>7 DEF AtInv

LEMMA ChatterKeeps ==
  ASSUME AtInv, Chatter PROVE AtInv'
<1>0. AtTypeOK /\ LogInStep /\ AnswersTrue
  BY DEF AtInv
<1>1. PICK l \in Urcs : input' = input \o Said(l)
  BY DEF Chatter
<1>2. l \in Seq(Chars) /\ l \notin {OkLine, ErrorLine} /\ \A k \in 1 .. Len(l) : l[k] /= "n"
  <2>1. l \in Seq(STRING) /\ l \notin {OkLine, ErrorLine} /\ \A k \in DOMAIN l : l[k] /= "n"
    BY UrcAssumption
  <2>2. DOMAIN l = 1 .. Len(l) /\ \A k \in 1 .. Len(l) : l[k] \in STRING
    BY <2>1, LenProperties
  <2>3. l \in Seq(Chars)
    BY <2>1, <2>2 DEF Chars
  <2> QED
    BY <2>1, <2>2, <2>3
<1>3. UNCHANGED <<tpc, cmd, log, buf, spoilt, answers, owed>>
  BY DEF Chatter, task, session, history
<1>4. input' \in Seq(Chars) /\ Stream \in Seq(Chars) /\ Stream' = Stream \o Said(l)
  BY <1>0, <1>1, <1>2, <1>3, StreamGrows
<1>5. AtTypeOK' /\ LogInStep' /\ AnswersTrue'
  BY <1>0, <1>3, <1>4 DEF AtTypeOK, LogInStep, AnswersTrue
<1>6. ASSUME ~ spoilt' PROVE NoneWaits' /\ OneWaits'
  <2>1. NoneWaits /\ OneWaits
    BY <1>3, <1>6 DEF AtInv
  <2>2. NoneWaits'
    <3>1. CASE tpc = "send"
      <4>1. owed = <<>> /\ Len(answers) = cmd /\ Clean(input) /\ Finals(input) = {}
        BY <2>1, <3>1 DEF NoneWaits
      <4> DEFINE t == input \o Said(l)
      <4>2. input \in Seq(Chars)
        BY <1>0 DEF AtTypeOK
      <4>3. /\ Clean(t)
            /\ Finals(t) = Finals(input) \cup (IF l \in {OkLine, ErrorLine} THEN {Len(t)} ELSE {})
        BY <4>1, <4>2, <1>2, SaidLines
      <4>4. input' = t
        BY <1>1
      <4> HIDE DEF t
      <4>5. Clean(input') /\ Finals(input') = {}
        BY <4>1, <4>3, <4>4, <1>2
      <4> QED
        BY <4>1, <4>5, <1>3 DEF NoneWaits
    <3>2. CASE tpc /= "send"
      BY <3>2, <1>3 DEF NoneWaits
    <3> QED
      BY <3>1, <3>2
  <2>3. OneWaits'
    <3>1. CASE tpc = "wait"
      <4> DEFINE s == Stream
                 t == s \o Said(l)
      <4>1. Clean(s)
        BY <2>1, <3>1 DEF OneWaits
      <4>2. /\ Clean(t) /\ Len(t) \in DOMAIN t
            /\ Finals(t) = Finals(s) \cup (IF l \in {OkLine, ErrorLine} THEN {Len(t)} ELSE {})
            /\ \A i \in Finals(s) : Line(t, i) = Line(s, i)
            /\ t \in Seq(Chars)
        BY <4>1, <1>2, <1>4, SaidLines
      <4>3. \/ owed = <<cmd>> /\ Len(answers) = cmd /\ Finals(s) = {}
            \/ /\ owed = <<>> /\ Len(answers) = cmd + 1
               /\ \E i \in DOMAIN s : AnswerIs(s, i, answers[cmd + 1])
        BY <2>1, <3>1 DEF OneWaits
      <4>4. Stream' = t
        BY <1>4
      <4> HIDE DEF s, t
      <4>5. Finals(t) = Finals(s)
        BY <4>2, <1>2
      <4>6. ASSUME NEW i \in DOMAIN s, AnswerIs(s, i, answers[cmd + 1])
            PROVE  \E j \in DOMAIN t : AnswerIs(t, j, answers[cmd + 1])
        <5>1. i \in Finals(t) /\ Line(t, i) = Line(s, i)
          BY <4>2, <4>5, <4>6 DEF AnswerIs
        <5>2. i \in DOMAIN t
          BY <5>1 DEF Finals, Ends
        <5>3. AnswerIs(t, i, answers[cmd + 1])
          BY <4>5, <4>6, <5>1 DEF AnswerIs
        <5> QED
          BY <5>2, <5>3
      <4>7. \/ owed = <<cmd>> /\ Len(answers) = cmd /\ Finals(t) = {}
            \/ /\ owed = <<>> /\ Len(answers) = cmd + 1
               /\ \E i \in DOMAIN t : AnswerIs(t, i, answers[cmd + 1])
        BY <4>3, <4>5, <4>6
      <4>8. \/ owed' = <<cmd'>> /\ Len(answers') = cmd' /\ Finals(Stream') = {}
            \/ /\ owed' = <<>> /\ Len(answers') = cmd' + 1
               /\ \E i \in DOMAIN Stream' : AnswerIs(Stream', i, answers'[cmd' + 1])
        BY <4>4, <4>7, <1>3
      <4> QED
        BY <4>2, <4>4, <4>8 DEF OneWaits
    <3>2. CASE tpc /= "wait"
      BY <3>2, <1>3 DEF OneWaits
    <3> QED
      BY <3>1, <3>2
  <2> QED
    BY <2>2, <2>3
<1> QED
  BY <1>5, <1>6 DEF AtInv

-----------------------------------------------------------------------------
(* The init commands: the task *)

LEMMA OpenKeeps ==
  ASSUME AtInv, Open PROVE AtInv'
<1>0. AtTypeOK /\ LogInStep /\ AnswersTrue
  BY DEF AtInv
<1>1. tpc = "pick" /\ UNCHANGED <<cmd, log, buf>>
  BY DEF Open
<1>2. cmd = Probe /\ log = <<>>
  BY <1>0, <1>1 DEF LogInStep
<1>3. CASE UNCHANGED <<tpc, fd, open, input, owed, history>>
  <2>1. UNCHANGED <<tpc, input, owed, answers, spoilt>>
    BY <1>3 DEF history
  <2>2. AtTypeOK' /\ LogInStep' /\ AnswersTrue'
    BY <2>1, <1>0, <1>1 DEF AtTypeOK, LogInStep, AnswersTrue
  <2>3. NoneWaits' /\ OneWaits'
    BY <2>1, <1>1 DEF NoneWaits, OneWaits
  <2> QED
    BY <2>2, <2>3 DEF AtInv
<1>4. CASE /\ tpc' = "send" /\ input' = <<>> /\ owed' \in {<<>>, <<Stale>>}
           /\ answers' = <<>> /\ spoilt' = (owed' /= <<>>)
  <2>1. /\ input' \in Seq(Chars) /\ answers' \in Seq({"ok", "error"}) /\ Len(answers') = 0
        /\ DOMAIN log = {} /\ Len(log) = 0
    BY <1>2, <1>4
  <2>2. AtTypeOK' /\ LogInStep'
    BY <2>1, <1>0, <1>1, <1>2, <1>4 DEF AtTypeOK, LogInStep
  <2>3. AnswersTrue'
    BY <2>1, <1>1, <1>2 DEF AnswersTrue, Probe
  <2>4. Clean(input') /\ Finals(input') = {}
    BY <1>4 DEF Clean, Finals, Ends
  <2>5. ASSUME ~ spoilt' PROVE NoneWaits' /\ OneWaits'
    <3>1. owed' = <<>> /\ Len(answers') = cmd'
      BY <2>1, <2>5, <1>1, <1>2, <1>4 DEF Probe
    <3> QED
      BY <3>1, <2>4, <1>4 DEF NoneWaits, OneWaits
  <2> QED
    BY <2>2, <2>3, <2>5 DEF AtInv
<1> QED
  BY <1>3, <1>4 DEF Open

LEMMA SendKeeps ==
  ASSUME AtInv, Send PROVE AtInv'
<1>0. AtTypeOK /\ LogInStep /\ AnswersTrue
  BY DEF AtInv
<1>1. /\ tpc = "send" /\ tpc' = "wait" /\ buf' = <<>> /\ owed' = Append(owed, cmd)
      /\ UNCHANGED <<cmd, log, input, answers, spoilt>>
  BY DEF Send, history
<1>2. AtTypeOK' /\ LogInStep' /\ AnswersTrue'
  BY <1>0, <1>1 DEF AtTypeOK, LogInStep, AnswersTrue
<1>3. ASSUME ~ spoilt' PROVE NoneWaits' /\ OneWaits'
  <2>1. owed = <<>> /\ Len(answers) = cmd /\ Clean(input) /\ Finals(input) = {}
    BY <1>1, <1>3 DEF AtInv, NoneWaits
  <2>2. Stream' = input
    <3>1. input \in Seq(Chars)
      BY <1>0 DEF AtTypeOK
    <3>2. Stream' = <<>> \o input
      BY <1>1 DEF Stream
    <3> QED
      BY <3>1, <3>2, ConcatEmptySeq
  <2>3. owed' = <<cmd>>
    BY <2>1, <1>1
  <2>4. Clean(Stream') /\ Finals(Stream') = {}
    BY <2>1, <2>2
  <2> QED
    BY <2>1, <2>3, <2>4, <1>1 DEF NoneWaits, OneWaits
<1> QED
  BY <1>2, <1>3 DEF AtInv

\* What becomes of the task when a command returns.
LEMMA ReturnsKeeps ==
  ASSUME AtTypeOK, LogInStep, tpc \in {"send", "wait"}, NEW res \in {0, -1, -2}, Returns(res)
  PROVE  /\ tpc' \in {"pick", "send", "over"} /\ cmd' \in 0 .. Commands
         /\ log' \in Seq({0, -1, -2}) /\ LogInStep'
         /\ cmd' \in {Probe, cmd + 1} /\ (tpc' = "send" => cmd' = cmd + 1)
         /\ cmd = Probe => log' = log /\ log = <<>> /\ (cmd' > Probe => res = 0)
         /\ cmd > Probe => log' = Append(log, res) /\ Len(log) = cmd - 1
<1>1. /\ cmd \in 0 .. Commands /\ Commands \in Nat /\ log \in Seq({0, -1, -2})
      /\ Len(log) \in Nat /\ Len(log) = IF cmd = Probe THEN 0 ELSE cmd - 1
  BY AtAssumption, LenProperties DEF AtTypeOK, LogInStep
<1>2. cmd = Probe => log = <<>>
  BY <1>1, EmptySeq
<1>3. CASE cmd = Probe /\ res /= 0
  <2>1. tpc' = "pick" /\ cmd' = cmd /\ log' = log
    BY <1>3 DEF Returns, Close
  <2> QED
    BY <2>1, <1>1, <1>2, <1>3 DEF LogInStep, Probe
<1>4. CASE ~ (cmd = Probe /\ res /= 0)
  <2>1. /\ cmd' = IF cmd < Commands THEN cmd + 1 ELSE Probe
        /\ log' = IF cmd = Probe THEN log ELSE Append(log, res)
        /\ tpc' = IF cmd < Commands THEN "send" ELSE "over"
    BY <1>4 DEF Returns, Close
  <2>2. Append(log, res) \in Seq({0, -1, -2}) /\ Len(Append(log, res)) = Len(log) + 1
    BY <1>1, AppendProperties
  <2>3. Len(log') = cmd /\ log' \in Seq({0, -1, -2})
    BY <2>1, <2>2, <1>1 DEF Probe
  <2>4. LogInStep'
    BY <2>1, <2>3, <1>1 DEF LogInStep, Probe
  <2>5. cmd = Probe => res = 0
    BY <1>4
  <2> QED
    BY <2>1, <2>3, <2>4, <2>5, <1>1, <1>2 DEF Probe
<1> QED
  BY <1>3, <1>4

LEMMA FailsKeeps ==
  ASSUME AtInv, Fails PROVE AtInv'
<1>0. AtTypeOK /\ LogInStep
  BY DEF AtInv
<1>1. /\ tpc \in {"send", "wait"} /\ Returns(-2) /\ buf' = <<>> /\ spoilt' = TRUE
      /\ UNCHANGED <<input, answers>>
  BY DEF Fails, modem
<1>2. /\ tpc' \in {"pick", "send", "over"} /\ cmd' \in 0 .. Commands
      /\ log' \in Seq({0, -1, -2}) /\ LogInStep'
  BY <1>0, <1>1, ReturnsKeeps
<1>3. AtTypeOK'
  BY <1>0, <1>1, <1>2 DEF AtTypeOK
<1> QED
  BY <1>1, <1>2, <1>3 DEF AtInv, AnswersTrue

\* A read takes a part of what is there to what it has.
LEMMA ReadSplits ==
  ASSUME AtTypeOK, NEW n \in 1 .. Len(input)
  PROVE  LET b == buf \o SubSeq(input, 1, n)
             r == SubSeq(input, n + 1, Len(input))
         IN  b \in Seq(Chars) /\ r \in Seq(Chars) /\ Stream = b \o r
<1> DEFINE p == SubSeq(input, 1, n)
           r == SubSeq(input, n + 1, Len(input))
<1>1. buf \in Seq(Chars) /\ input \in Seq(Chars) /\ Len(input) \in Nat /\ n \in Nat
  BY LenProperties DEF AtTypeOK
<1>2. /\ p \in Seq(Chars) /\ Len(p) = n /\ \A i \in 1 .. n : p[i] = input[i]
      /\ r \in Seq(Chars) /\ Len(r) = Len(input) - n
      /\ \A i \in 1 .. Len(input) - n : r[i] = input[n + i]
  <2>1. /\ p \in Seq(Chars) /\ Len(p) = IF 1 <= n THEN n - 1 + 1 ELSE 0
        /\ \A i \in 1 .. n - 1 + 1 : p[i] = input[1 + i - 1]
    BY <1>1, PartOf
  <2> DEFINE f == n + 1
             c == Len(input)
  <2>2. /\ f \in Nat \ {0} /\ c \in Nat /\ c <= Len(input) /\ c - f + 1 = Len(input) - n
        /\ IF f <= c THEN c - f + 1 = Len(input) - n ELSE Len(input) - n = 0
        /\ \A i \in 1 .. Len(input) - n : f + i - 1 = n + i
    BY <1>1
  <2> HIDE DEF f, c
  <2>3. /\ SubSeq(input, f, c) \in Seq(Chars)
        /\ Len(SubSeq(input, f, c)) = IF f <= c THEN c - f + 1 ELSE 0
        /\ \A i \in 1 .. c - f + 1 : SubSeq(input, f, c)[i] = input[f + i - 1]
    BY <1>1, <2>2, PartOf
  <2>4. /\ SubSeq(input, f, c) \in Seq(Chars)
        /\ Len(SubSeq(input, f, c)) = Len(input) - n
        /\ \A i \in 1 .. Len(input) - n : SubSeq(input, f, c)[i] = input[n + i]
    BY <2>2, <2>3
  <2>5. r = SubSeq(input, f, c)
    BY DEF f, c
  <2> HIDE DEF p, r
  <2>6. Len(p) = n
    BY <2>1
  <2>7. ASSUME NEW i \in 1 .. n PROVE p[i] = input[i]
    <3>1. i \in 1 .. n - 1 + 1 /\ 1 + i - 1 = i
      BY <1>1
    <3> QED
      BY <3>1, <2>1
  <2> QED
    BY <2>1, <2>4, <2>5, <2>6, <2>7
<1> HIDE DEF p, r
<1>3. p \o r = input
  <2> DEFINE q == p \o r
  <2>1. /\ q \in Seq(Chars) /\ Len(q) = Len(p) + Len(r)
        /\ \A i \in 1 .. Len(p) + Len(r) : q[i] = IF i <= Len(p) THEN p[i] ELSE r[i - Len(p)]
    BY <1>2, ConcatProperties
  <2> HIDE DEF q
  <2>2. Len(q) = Len(input)
    BY <2>1, <1>1, <1>2
  <2>3. ASSUME NEW i \in 1 .. Len(q) PROVE q[i] = input[i]
    <3>1. CASE i <= n
      <4>1. i \in 1 .. n /\ i \in 1 .. Len(p) + Len(r) /\ i <= Len(p)
        BY <3>1, <2>1, <1>2
      <4> QED
        BY <4>1, <2>1, <1>2
    <3>2. CASE i > n
      <4>1. /\ i \in 1 .. Len(p) + Len(r) /\ ~ (i <= Len(p)) /\ i - Len(p) \in 1 .. Len(input) - n
            /\ n + (i - Len(p)) = i
        BY <3>2, <2>1, <2>2, <1>1, <1>2
      <4> QED
        BY <4>1, <2>1, <1>2
    <3> QED
      BY <3>1, <3>2, <1>1, <2>2
  <2>4. q = input
    BY <2>1, <2>2, <2>3, <1>1, SeqEqual
  <2> QED
    BY <2>4 DEF q
<1>4. (buf \o p) \o r = buf \o (p \o r)
  <2>1. \A a \in Seq(Chars), b \in Seq(Chars), c \in Seq(Chars) : (a \o b) \o c = a \o (b \o c)
    BY ConcatAssociative
  <2> QED
    BY <2>1, <1>1, <1>2
<1>5. buf \o p \in Seq(Chars)
  BY <1>1, <1>2, ConcatProperties
<1>6. Stream = (buf \o p) \o r
  BY <1>3, <1>4 DEF Stream
<1> QED
  BY <1>2, <1>5, <1>6 DEF p, r

\* What is kept of what was read, with what was not, is the stream behind the last line.
LEMMA KeptIs ==
  ASSUME NEW b \in Seq(Chars), NEW r \in Seq(Chars)
  PROVE  LET e == Max(Ends(b) \cup {0})
             s == b \o r
         IN  /\ e \in Nat /\ e <= Len(b) /\ (e = 0 \/ e \in Ends(s))
             /\ Rest(b) \in Seq(Chars) /\ Len(Rest(b)) = Len(b) - e
             /\ Rest(b) \o r = SubSeq(s, e + 1, Len(s))
<1> DEFINE e == Max(Ends(b) \cup {0})
           s == b \o r
<1>1. Len(b) \in Nat /\ Len(r) \in Nat
  BY LenProperties
<1>2. e \in Ends(b) \cup {0}
  <2>1. Ends(b) \cup {0} \subseteq 0 .. Len(b)
    BY <1>1, EndsIn
  <2> QED
    BY <2>1, <1>1, MaxIs
<1>3. e \in Nat /\ e <= Len(b)
  BY <1>1, <1>2, EndsIn
<1>r. Rest(b) = SubSeq(b, e + 1, Len(b))
  BY DEF Rest
<1> HIDE DEF e
<1>4. /\ s \in Seq(Chars) /\ Len(s) = Len(b) + Len(r)
      /\ \A i \in 1 .. Len(b) + Len(r) : s[i] = IF i <= Len(b) THEN b[i] ELSE r[i - Len(b)]
  BY ConcatProperties
<1>5. e = 0 \/ e \in Ends(s)
  <2>1. \A i \in 1 .. Len(b) : i \in Ends(s) <=> i \in Ends(b)
    BY PrefixLines
  <2>2. e \in Ends(b) => e \in 1 .. Len(b)
    BY EndsIn
  <2> QED
    BY <2>1, <2>2, <1>2
<1> HIDE DEF s
<1> DEFINE f == e + 1
           c == Len(b)
           d == Len(s)
           h == SubSeq(b, f, c)
           t == SubSeq(s, f, d)
           q == h \o r
<1>6. /\ f \in Nat \ {0} /\ c \in Nat /\ c <= Len(b) /\ c - f + 1 = Len(b) - e
      /\ IF f <= c THEN c - f + 1 = Len(b) - e ELSE Len(b) - e = 0
      /\ d \in Nat /\ d <= Len(s) /\ d - f + 1 = (Len(b) - e) + Len(r)
      /\ IF f <= d THEN d - f + 1 = (Len(b) - e) + Len(r) ELSE (Len(b) - e) + Len(r) = 0
      /\ \A i \in 1 .. (Len(b) - e) + Len(r) : f + i - 1 = e + i
  BY <1>1, <1>3, <1>4
<1> HIDE DEF f, c, d
<1>7. /\ h \in Seq(Chars) /\ Len(h) = Len(b) - e
      /\ \A i \in 1 .. Len(b) - e : h[i] = b[e + i]
  <2>1. /\ h \in Seq(Chars) /\ Len(h) = IF f <= c THEN c - f + 1 ELSE 0
        /\ \A i \in 1 .. c - f + 1 : h[i] = b[f + i - 1]
    BY <1>6, PartOf
  <2> HIDE DEF h
  <2>2. Len(h) = Len(b) - e
    BY <2>1, <1>6
  <2>3. ASSUME NEW i \in 1 .. Len(b) - e PROVE h[i] = b[e + i]
    <3>1. i \in 1 .. (Len(b) - e) + Len(r) /\ i \in 1 .. c - f + 1
      BY <1>1, <1>3, <1>6
    <3> QED
      BY <3>1, <2>1, <1>6
  <2> QED
    BY <2>1, <2>2, <2>3
<1>8. /\ t \in Seq(Chars) /\ Len(t) = (Len(b) - e) + Len(r)
      /\ \A i \in 1 .. (Len(b) - e) + Len(r) : t[i] = s[e + i]
  <2>1. /\ t \in Seq(Chars) /\ Len(t) = IF f <= d THEN d - f + 1 ELSE 0
        /\ \A i \in 1 .. d - f + 1 : t[i] = s[f + i - 1]
    BY <1>4, <1>6, PartOf
  <2> HIDE DEF t
  <2> QED
    BY <2>1, <1>6
<1>n. Rest(b) = h /\ SubSeq(s, e + 1, Len(s)) = t
  BY <1>r DEF f, c, d
<1> HIDE DEF h, t
<1>9. /\ q \in Seq(Chars) /\ Len(q) = (Len(b) - e) + Len(r)
      /\ \A i \in 1 .. (Len(b) - e) + Len(r) :
           q[i] = IF i <= Len(b) - e THEN h[i] ELSE r[i - (Len(b) - e)]
  <2>1. /\ q \in Seq(Chars) /\ Len(q) = Len(h) + Len(r)
        /\ \A i \in 1 .. Len(h) + Len(r) : q[i] = IF i <= Len(h) THEN h[i] ELSE r[i - Len(h)]
    BY <1>7, ConcatProperties
  <2> QED
    BY <2>1, <1>7
<1>q. q = Rest(b) \o r
  BY <1>n
<1> HIDE DEF q
<1>10. ASSUME NEW i \in 1 .. Len(q) PROVE q[i] = t[i]
  <2>1. /\ i \in 1 .. (Len(b) - e) + Len(r) /\ e + i \in 1 .. Len(b) + Len(r)
        /\ (i <= Len(b) - e <=> e + i <= Len(b)) /\ (e + i) - Len(b) = i - (Len(b) - e)
        /\ (i <= Len(b) - e => i \in 1 .. Len(b) - e)
    BY <1>1, <1>3, <1>9
  <2>2. t[i] = IF e + i <= Len(b) THEN b[e + i] ELSE r[(e + i) - Len(b)]
    BY <2>1, <1>4, <1>8
  <2>3. q[i] = IF i <= Len(b) - e THEN h[i] ELSE r[i - (Len(b) - e)]
    BY <2>1, <1>9
  <2> QED
    BY <2>1, <2>2, <2>3, <1>7
<1>11. q = t
  BY <1>8, <1>9, <1>10, SeqEqual
<1>12. Rest(b) \o r = SubSeq(s, e + 1, Len(s))
  BY <1>11, <1>n, <1>q
<1>13. Rest(b) \in Seq(Chars) /\ Len(Rest(b)) = Len(b) - e
  BY <1>7, <1>n
<1> QED
  BY <1>3, <1>5, <1>12, <1>13 DEF e, s

\* What a command that read its answer returns is that answer, ...
LEMMA ReturnsTrue ==
  ASSUME AtInv, tpc = "wait", ~ spoilt, Len(answers) = cmd + 1, NEW res \in {0, -1},
         (answers[cmd + 1] = "ok") <=> (res = 0), Returns(res), UNCHANGED answers
  PROVE  AnswersTrue'
<1>0. AtTypeOK /\ LogInStep /\ AnswersTrue
  BY DEF AtInv
<1>1. /\ cmd \in Nat /\ answers \in Seq({"ok", "error"}) /\ log \in Seq({0, -1, -2})
      /\ Len(answers) \in Nat /\ answers[cmd + 1] \in {"ok", "error"}
  <2>1. cmd \in Nat /\ answers \in Seq({"ok", "error"}) /\ log \in Seq({0, -1, -2})
    BY <1>0 DEF AtTypeOK
  <2>2. cmd + 1 \in 1 .. Len(answers)
    BY <2>1
  <2> QED
    BY <2>1, <2>2, ElementOfSeq, LenProperties
<1>2. /\ cmd' \in {Probe, cmd + 1}
      /\ cmd = Probe => log' = log /\ log = <<>> /\ (cmd' > Probe => res = 0)
      /\ cmd > Probe => log' = Append(log, res) /\ Len(log) = cmd - 1
  BY <1>0, ReturnsKeeps
<1>3. CASE cmd = Probe
  <2>1. log' = <<>> /\ DOMAIN log' = {} /\ cmd + 1 = 1
    BY <1>2, <1>3 DEF Probe
  <2>2. cmd' > Probe => answers[1] = "ok" /\ Len(answers) >= 1
    BY <2>1, <1>2, <1>3
  <2> QED
    BY <2>1, <2>2 DEF AnswersTrue
<1>4. CASE cmd > Probe
  <2>1. Len(answers) >= 1 /\ answers[1] = "ok"
    BY <1>0, <1>4 DEF AnswersTrue
  <2>2. /\ log' = Append(log, res) /\ Len(log') = cmd /\ DOMAIN log' = 1 .. cmd
        /\ \A k \in 1 .. cmd - 1 : log'[k] = log[k] /\ k \in DOMAIN log
        /\ log'[cmd] = res
    <3>1. log' = Append(log, res) /\ Len(log) = cmd - 1 /\ DOMAIN log = 1 .. Len(log)
      BY <1>1, <1>2, <1>4, LenProperties
    <3> DEFINE g == Append(log, res)
    <3>2. /\ g \in Seq({0, -1, -2}) /\ Len(g) = Len(log) + 1
          /\ \A k \in 1 .. Len(log) : g[k] = log[k]
          /\ g[Len(log) + 1] = res
      BY <1>1, AppendProperties
    <3>3. DOMAIN g = 1 .. Len(g)
      BY <3>2, LenProperties
    <3>4. Len(log) + 1 = cmd
      BY <3>1, <1>1
    <3> HIDE DEF g
    <3>5. log' = g
      BY <3>1 DEF g
    <3> QED
      BY <3>1, <3>2, <3>3, <3>4, <3>5
  <2>3. ASSUME NEW k \in DOMAIN log', log'[k] \in {0, -1}
        PROVE  k < Len(answers) /\ answers[k + 1] = IF log'[k] = 0 THEN "ok" ELSE "error"
    <3>1. k \in 1 .. cmd
      BY <2>2
    <3>2. CASE k = cmd
      BY <3>2, <2>2, <1>1
    <3>3. CASE k < cmd
      <4>1. k \in 1 .. cmd - 1
        BY <3>1, <3>3, <1>1
      <4>2. log'[k] = log[k] /\ k \in DOMAIN log
        BY <4>1, <2>2
      <4> QED
        BY <4>2, <2>3, <1>0 DEF AnswersTrue
    <3> QED
      BY <3>1, <3>2, <3>3, <1>1
  <2> QED
    BY <2>1, <2>3 DEF AnswersTrue
<1> QED
  BY <1>1, <1>3, <1>4 DEF Probe

\* ... and what it leaves behind has none.
LEMMA ReadKeeps ==
  ASSUME AtInv, Read PROVE AtInv'
<1>0. AtTypeOK /\ LogInStep /\ AnswersTrue
  BY DEF AtInv
<1>1. tpc = "wait" /\ UNCHANGED <<owed, answers>>
  BY DEF Read
<1>2. PICK n \in 1 .. Len(input) :
        /\ input' = SubSeq(input, n + 1, Len(input))
        /\ IF Finals(buf \o SubSeq(input, 1, n)) /= {}
             THEN /\ Returns(IF Line(buf \o SubSeq(input, 1, n),
                                     Min(Finals(buf \o SubSeq(input, 1, n)))) = OkLine
                             THEN 0 ELSE -1)
                  /\ spoilt' = (spoilt \/ Rest(buf \o SubSeq(input, 1, n)) /= <<>>)
                  /\ buf' = <<>>
             ELSE /\ buf' = IF Len(Rest(buf \o SubSeq(input, 1, n))) >= BufMax
                            THEN <<>> ELSE Rest(buf \o SubSeq(input, 1, n))
                  /\ spoilt' = (spoilt \/ Len(Rest(buf \o SubSeq(input, 1, n))) >= BufMax)
                  /\ UNCHANGED <<tpc, cmd, log>>
  BY DEF Read
<1> DEFINE b == buf \o SubSeq(input, 1, n)
           r == SubSeq(input, n + 1, Len(input))
           res == IF Line(b, Min(Finals(b))) = OkLine THEN 0 ELSE -1
           e == Max(Ends(b) \cup {0})
           s == b \o r
           t == SubSeq(s, e + 1, Len(s))
<1>3. b \in Seq(Chars) /\ r \in Seq(Chars) /\ Stream = s
  BY <1>0, ReadSplits
<1>4. /\ input' = r
      /\ Finals(b) /= {} => /\ Returns(res) /\ buf' = <<>>
                            /\ spoilt' = (spoilt \/ Rest(b) /= <<>>)
      /\ Finals(b) = {} => /\ buf' = IF Len(Rest(b)) >= BufMax THEN <<>> ELSE Rest(b)
                           /\ spoilt' = (spoilt \/ Len(Rest(b)) >= BufMax)
                           /\ UNCHANGED <<tpc, cmd, log>>
  BY <1>2
<1> HIDE DEF b, r
<1>5. /\ e \in Nat /\ e <= Len(b) /\ (e = 0 \/ e \in Ends(s))
      /\ Rest(b) \in Seq(Chars) /\ Len(Rest(b)) = Len(b) - e
      /\ Rest(b) \o r = t
  BY <1>3, KeptIs
<1> HIDE DEF e
<1>6. /\ s \in Seq(Chars) /\ Len(b) \in Nat
      /\ \A i \in Ends(b) : Line(s, i) = Line(b, i)
      /\ Finals(b) = {i \in Finals(s) : i <= Len(b)}
  BY <1>3, PrefixLines, LenProperties
<1>7. /\ \A i \in Nat \ {0} : i \in Finals(t) <=> e + i \in Finals(s)
      /\ \A i \in Ends(t) : Line(s, e + i) = Line(t, i)
      /\ Clean(s) => Clean(t)
      /\ t \in Seq(Chars)
  BY <1>5, <1>6, CutLines
<1>8. /\ \A i \in Finals(s) : i \in Nat \ {0}
      /\ \A i \in Finals(t) : i \in Nat \ {0} /\ i \in Ends(t) /\ i \in DOMAIN t
      /\ \A i \in Finals(b) : i \in Nat /\ i \in Ends(b) /\ Line(b, i) \in {OkLine, ErrorLine}
  <2>0. ASSUME NEW u \in Seq(Chars), NEW i \in Finals(u)
        PROVE  i \in Nat \ {0} /\ i \in Ends(u) /\ i \in DOMAIN u
    <3>1. i \in Ends(u)
      BY DEF Finals
    <3> QED
      BY <3>1, EndsIn
  <2>1. \A i \in Finals(s) : i \in Nat \ {0}
    BY <2>0, <1>6
  <2>2. \A i \in Finals(t) : i \in Nat \ {0} /\ i \in Ends(t) /\ i \in DOMAIN t
    BY <2>0, <1>7
  <2>3. \A i \in Finals(b) : i \in Nat /\ i \in Ends(b) /\ Line(b, i) \in {OkLine, ErrorLine}
    BY <1>3, EndsIn DEF Finals
  <2> QED
    BY <2>1, <2>2, <2>3
<1> HIDE DEF s, t, res
<1>9. ASSUME ~ spoilt
      PROVE  /\ Clean(s)
             /\ \/ owed = <<cmd>> /\ Len(answers) = cmd /\ Finals(s) = {}
                \/ /\ owed = <<>> /\ Len(answers) = cmd + 1
                   /\ \E i \in DOMAIN s : AnswerIs(s, i, answers[cmd + 1])
  <2>1. OneWaits
    BY <1>9 DEF AtInv
  <2> QED
    BY <2>1, <1>1, <1>3 DEF OneWaits
<1>10. CASE Finals(b) /= {}
  <2>1. Returns(res) /\ buf' = <<>> /\ spoilt' = (spoilt \/ Rest(b) /= <<>>) /\ res \in {0, -1}
    BY <1>4, <1>10 DEF res
  <2>2. /\ tpc' \in {"pick", "send", "over"} /\ cmd' \in 0 .. Commands
        /\ log' \in Seq({0, -1, -2}) /\ LogInStep'
        /\ tpc' = "send" => cmd' = cmd + 1
    BY <2>1, <1>0, <1>1, ReturnsKeeps
  <2>3. AtTypeOK'
    BY <2>1, <2>2, <1>0, <1>1, <1>3, <1>4 DEF AtTypeOK
  <2>4. OneWaits'
    BY <2>2 DEF OneWaits
  <2>5. ASSUME ~ spoilt' PROVE AnswersTrue' /\ NoneWaits'
    <3>1. ~ spoilt /\ Rest(b) = <<>>
      BY <2>1, <2>5
    <3>2. Finals(s) /= {}
      BY <1>6, <1>10
    <3>3. Clean(s) /\ owed = <<>> /\ Len(answers) = cmd + 1
      BY <3>1, <3>2, <1>9
    <3>4. PICK i \in DOMAIN s : AnswerIs(s, i, answers[cmd + 1])
      BY <3>1, <3>2, <1>9
    <3>5. Finals(s) = {i} /\ Finals(b) = {i} /\ i <= Len(b) /\ i \in Nat \ {0}
      BY <3>4, <1>6, <1>8, <1>10 DEF AnswerIs
    <3>6. Min(Finals(b)) = i
      <4>1. Finals(b) \subseteq Nat
        BY <3>5
      <4> DEFINE m == Min(Finals(b))
      <4>2. m \in Finals(b)
        BY <4>1, <1>10, MinIs
      <4> HIDE DEF m
      <4>3. m = i
        BY <4>2, <3>5
      <4> QED
        BY <4>3 DEF m
    <3>7. Line(b, i) = Line(s, i) /\ i \in Finals(b)
      BY <3>5, <1>6, <1>8
    <3>8. (answers[cmd + 1] = "ok") <=> (res = 0)
      <4>1. Line(b, i) = IF answers[cmd + 1] = "ok" THEN OkLine ELSE ErrorLine
        BY <3>4, <3>7 DEF AnswerIs
      <4>2. res = IF Line(b, i) = OkLine THEN 0 ELSE -1
        BY <3>6 DEF res
      <4> QED
        BY <4>1, <4>2, FinalLines
    <3>9. AnswersTrue'
      BY <3>1, <3>3, <3>8, <2>1, <1>1, ReturnsTrue
    <3>10. r = t
      <4>1. <<>> \o r = r
        BY <1>3, ConcatEmptySeq
      <4> QED
        BY <4>1, <3>1, <1>5
    <3>11. Len(b) = e
      BY <3>1, <1>5, <1>6, EmptySeq
    <3>12. Finals(t) = {}
      <4> SUFFICES ASSUME NEW j \in Finals(t) PROVE FALSE
        OBVIOUS
      <4>1. j \in Nat \ {0} /\ e + j \in Finals(s)
        BY <1>7, <1>8
      <4> QED
        BY <4>1, <3>5, <3>11, <1>5
    <3>13. Clean(input') /\ Finals(input') = {}
      BY <3>3, <3>10, <3>12, <1>4, <1>7
    <3>14. NoneWaits'
      BY <3>3, <3>13, <2>2, <1>1 DEF NoneWaits
    <3> QED
      BY <3>9, <3>14
  <2>6. AnswersTrue'
    BY <2>5 DEF AnswersTrue
  <2> QED
    BY <2>2, <2>3, <2>4, <2>5, <2>6 DEF AtInv
<1>11. CASE Finals(b) = {}
  <2>1. /\ buf' = IF Len(Rest(b)) >= BufMax THEN <<>> ELSE Rest(b)
        /\ spoilt' = (spoilt \/ Len(Rest(b)) >= BufMax)
        /\ UNCHANGED <<tpc, cmd, log>>
    BY <1>4, <1>11
  <2>2. buf' \in Seq(Chars)
    BY <2>1, <1>5
  <2>3. AtTypeOK' /\ LogInStep'
    BY <2>1, <2>2, <1>0, <1>1, <1>3, <1>4 DEF AtTypeOK, LogInStep
  <2>4. AnswersTrue'
    BY <2>1, <1>0, <1>1 DEF AnswersTrue
  <2>5. NoneWaits'
    BY <2>1, <1>1 DEF NoneWaits
  <2>6. ASSUME ~ spoilt' PROVE OneWaits'
    <3>1. ~ spoilt /\ buf' = Rest(b)
      BY <2>1, <2>6
    <3>2. Stream' = t
      <4>1. Stream' = Rest(b) \o r
        BY <3>1, <1>4 DEF Stream
      <4> QED
        BY <4>1, <1>5
    <3>3. Clean(t)
      BY <3>1, <1>7, <1>9
    <3>4. CASE owed = <<cmd>> /\ Len(answers) = cmd /\ Finals(s) = {}
      <4>1. Finals(t) = {}
        BY <3>4, <1>7, <1>8
      <4> QED
        BY <4>1, <3>2, <3>3, <3>4, <2>1, <1>1 DEF OneWaits
    <3>5. CASE /\ owed = <<>> /\ Len(answers) = cmd + 1
               /\ \E i \in DOMAIN s : AnswerIs(s, i, answers[cmd + 1])
      <4>1. PICK i \in DOMAIN s : AnswerIs(s, i, answers[cmd + 1])
        BY <3>5
      <4>2. Finals(s) = {i} /\ i \in Nat \ {0} /\ i > Len(b)
        BY <4>1, <1>6, <1>8, <1>11 DEF AnswerIs
      <4> DEFINE j == i - e
      <4>3. j \in Nat \ {0} /\ e + j = i
        BY <4>2, <1>5, <1>6
      <4>4. \A k \in Finals(t) : k = j
        <5> SUFFICES ASSUME NEW k \in Finals(t) PROVE k = j
          OBVIOUS
        <5>1. k \in Nat /\ e + k = i
          BY <4>2, <1>7, <1>8
        <5> QED
          BY <5>1, <4>2, <1>5
      <4> HIDE DEF j
      <4>5. Finals(t) = {j} /\ j \in DOMAIN t /\ Line(t, j) = Line(s, i)
        BY <4>2, <4>3, <4>4, <1>7, <1>8
      <4>6. AnswerIs(t, j, answers[cmd + 1])
        BY <4>1, <4>5 DEF AnswerIs
      <4>7. \E k \in DOMAIN Stream' : AnswerIs(Stream', k, answers'[cmd' + 1])
        BY <4>5, <4>6, <3>2, <2>1, <1>1
      <4> QED
        BY <4>7, <3>2, <3>3, <3>5, <2>1, <1>1 DEF OneWaits
    <3> QED
      BY <3>1, <3>4, <3>5, <1>9
  <2> QED
    BY <2>3, <2>4, <2>5, <2>6 DEF AtInv
<1> QED
  BY <1>10, <1>11

LEMMA Same ==
  ASSUME AtInv, UNCHANGED <<tpc, cmd, log, buf, input, owed, answers, spoilt>> PROVE AtInv'
<1>1. /\ AtTypeOK' <=> AtTypeOK
      /\ LogInStep' <=> LogInStep
      /\ AnswersTrue' <=> AnswersTrue
  BY DEF AtTypeOK, LogInStep, AnswersTrue
<1>2. Stream' = Stream
  BY DEF Stream
<1>3. /\ NoneWaits' <=> NoneWaits
      /\ OneWaits' <=> OneWaits
  BY <1>2 DEF NoneWaits, OneWaits
<1> QED
  BY <1>1, <1>3 DEF AtInv

LEMMA AtStep ==
  ASSUME AtInv, ResolveNext PROVE AtInv'
<1>0. AtTypeOK /\ LogInStep /\ AnswersTrue
  BY DEF AtInv
<1>1. CASE UNCHANGED vars
  <2>1. UNCHANGED <<tpc, cmd, log, buf, input, owed, answers, spoilt>>
    BY <1>1 DEF vars, task, session, modem, history
  <2> QED
    BY <2>1, Same
<1>2. CASE Answer
  BY <1>2, AnswerKeeps
<1>3. CASE Chatter
  BY <1>3, ChatterKeeps
<1>4. CASE Unplug \/ Tick
  <2>1. UNCHANGED <<tpc, cmd, log, buf, input, owed, answers, spoilt>>
    BY <1>4 DEF Unplug, Tick, task, session, modem, history
  <2> QED
    BY <2>1, Same
<1>5. CASE Start \/ NoPort
  <2>1. /\ tpc \in {"start", "pick"} /\ tpc' \in {"pick", "over"}
        /\ UNCHANGED <<cmd, log, buf, input, owed, answers, spoilt>>
    BY <1>5 DEF Start, NoPort, session, modem, history
  <2>2. AtTypeOK' /\ LogInStep' /\ AnswersTrue'
    BY <2>1, <1>0 DEF AtTypeOK, LogInStep, AnswersTrue
  <2>3. NoneWaits' /\ OneWaits'
    BY <2>1 DEF NoneWaits, OneWaits
  <2> QED
    BY <2>2, <2>3 DEF AtInv
<1>6. CASE Open
  BY <1>6, OpenKeeps
<1>7. CASE Send
  BY <1>7, SendKeeps
<1>8. CASE Read
  BY <1>8, ReadKeeps
<1>9. CASE Fails
  BY <1>9, FailsKeeps
<1> QED
  BY <1>1, <1>2, <1>3, <1>4, <1>5, <1>6, <1>7, <1>8, <1>9
     DEF ResolveNext, Next, TaskNext, ModemNext

\* at_tty_command: however many commands and ports there are, whatever the modem says in
\* between and wherever reads cut it, a result is how the modem answered that very
\* command, until an answer comes late or a part of a line is dropped; and at_pick_port
\* takes a port only if it answered "OK" to the probe.
THEOREM AnswersAreTrue == ResolveSpec => []AnswersTrue
<1>1. ResolveInit => AtInv
  <2> SUFFICES ASSUME Init PROVE AtInv
    BY DEF ResolveInit
  <2>1. /\ tpc = "start" /\ cmd = 0 /\ buf = <<>> /\ log = <<>> /\ input = <<>>
        /\ answers = <<>> /\ DOMAIN log = {}
    BY DEF Init, Probe
  <2>2. AtTypeOK
    BY <2>1, AtAssumption DEF AtTypeOK
  <2>3. LogInStep /\ AnswersTrue
    BY <2>1 DEF LogInStep, AnswersTrue, Probe
  <2>4. NoneWaits /\ OneWaits
    BY <2>1 DEF NoneWaits, OneWaits
  <2> QED
    BY <2>2, <2>3, <2>4 DEF AtInv
<1>2. AtInv /\ [ResolveNext]_<<vars, look>> => AtInv'
  <2> SUFFICES ASSUME AtInv, [ResolveNext]_<<vars, look>> PROVE AtInv'
    OBVIOUS
  <2>1. CASE ResolveNext
    BY <2>1, AtStep
  <2>2. CASE UNCHANGED <<vars, look>>
    <3>1. UNCHANGED <<tpc, cmd, log, buf, input, owed, answers, spoilt>>
      BY <2>2 DEF vars, task, session, modem, history
    <3> QED
      BY <3>1, Same
  <2> QED
    BY <2>1, <2>2
<1>3. AtInv => AnswersTrue
  BY DEF AtInv
<1> QED
  BY <1>1, <1>2, <1>3, PTL DEF ResolveSpec

=============================================================================
