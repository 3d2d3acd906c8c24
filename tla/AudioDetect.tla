---------------------------- MODULE AudioDetect ----------------------------
(***************************************************************************)
(* The ALSA card of a modem, src/src/audio_detect.c: the sound card and    *)
(* the modem are functions of one USB device, which their sysfs paths      *)
(* show.  A path is a sequence of components, a component a sequence of    *)
(* characters.  An operator that may fail returns the set of its results.  *)
(*                                                                         *)
(* resolve_object looks for the card of a modem whenever it attaches the   *)
(* modem.  Cards come and go between two looks: each finds them anywhere.  *)
(***************************************************************************)
EXTENDS Naturals, Sequences, FiniteSetsExt

CONSTANTS
  TokenMax,    \* sizeof(token)
  Devices,     \* USB devices: records [bus, ports], ports those that lead to it
  Interfaces,  \* the interfaces sound cards may be, <<>> when it is the device itself
  Cards        \* the numbers of sound cards there may be

VARIABLE look  \* the look under way: [device, place, card], or nothing

Digits == {"0", "1", "2", "3", "4", "5", "6", "7", "8", "9"}

\* Buses and ports have one digit, and there is room for the address of every device:
\* USB has seven tiers and sizeof(token) is 64.
ASSUME DetectAssumption ==
  /\ \A device \in Devices :
       /\ device \in [bus : Digits, ports : Seq(Digits) \ {<<>>}]
       /\ 2 * Len(device.ports) + 1 < TokenMax
  /\ Interfaces \subseteq Seq(STRING) /\ TokenMax \in Nat

\* busnum-port[.port...]
IsUsbPort(s) ==
  \E dash \in 2 .. Len(s) - 1 :
    /\ s[dash] = "-" /\ s[dash + 1] \in Digits
    /\ \A i \in 1 .. dash - 1 : s[i] \in Digits
    /\ \A i \in dash + 1 .. Len(s) :
         s[i] \in Digits \/ (s[i] = "." /\ s[i - 1] \in Digits /\ i < Len(s))

IsUsbRoot(s) ==
  /\ Len(s) >= 4 /\ SubSeq(s, 1, 3) = <<"u", "s", "b">>
  /\ \A i \in 4 .. Len(s) : s[i] \in Digits

\* The components that are the address of a USB device.
Addresses(path) ==
  {i \in DOMAIN path : IsUsbPort(path[i]) /\ \E j \in 1 .. i - 1 : IsUsbRoot(path[j])}

\* Mutant: the first address is taken, that of a hub.
RootTokenFirst(path) ==
  {path[i] : i \in {k \in Addresses(path) : k = Min(Addresses(path)) /\ Len(path[k]) < TokenMax}}

\* mm_audio_usb_root_token: the deepest address, if there is room for it.
RootToken(path) ==
  {path[i] : i \in {k \in Addresses(path) : k = Max(Addresses(path)) /\ Len(path[k]) < TokenMax}}

\* mm_audio_card_for_physdev: the only card of the modem's device.  Cards are numbers;
\* links maps those whose link can be followed to where it leads.
CardFor(phys, links) ==
  LET matches == {n \in DOMAIN links : RootToken(links[n]) = RootToken(phys)} IN
  IF RootToken(phys) /= {} /\ Cardinality(matches) = 1 THEN matches ELSE {}

-----------------------------------------------------------------------------
(* A reference: sysfs, as the kernel lays it out *)

Address(device, depth) ==
  <<device.bus, "-">> \o
    [i \in 1 .. 2 * depth - 1 |-> IF i % 2 = 1 THEN device.ports[(i + 1) \div 2] ELSE "."]

SysfsPath(device, interface) ==
  <<<<"p", "c", "i">>, <<"u", "s", "b", device.bus>>>>
    \o [d \in 1 .. Len(device.ports) |-> Address(device, d)]
    \o (IF interface = <<>> THEN <<>>
        ELSE <<Address(device, Len(device.ports)) \o <<":">> \o interface>>)
\* A card is on a USB device or on none.
Places == [device : Devices, interface : Interfaces] \cup {<<>>}

LinkOf(place) ==
  IF place = <<>> THEN <<<<"p", "c", "i">>, <<"0", ":", "1", "f", ".", "3">>>>
  ELSE SysfsPath(place.device, place.interface)


DetectInit == look = <<>>

\* alsa_autodetect_devices: the cards there are, each at some place.
AutodetectDevices ==
  /\ look = <<>>
  /\ \E device \in Devices, present \in SUBSET Cards : \E place \in [present -> Places] :
       look' = [device |-> device, place |-> place,
                card   |-> CardFor(SysfsPath(device, <<>>),
                                   [n \in present |-> LinkOf(place[n])])]

\* The card, if one was found, is noted in the modem.
Detected == look /= <<>> /\ look' = <<>>

\* A modem gets the card that is on its own USB device, not one on a hub before it, on a
\* device behind it or beside it, and none when two cards are on it.
CardFound ==
  look /= <<>> =>
    LET own == {n \in DOMAIN look.place :
                  look.place[n] /= <<>> /\ look.place[n].device = look.device}
    IN  look.card = IF Cardinality(own) = 1 THEN own ELSE {}
=============================================================================
