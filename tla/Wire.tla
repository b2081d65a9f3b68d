-------------------------------- MODULE Wire --------------------------------
(***************************************************************************)
(* One announce on its way: built and signed by its originator             *)
(* (identity.py), packed (frame.py), put on the air and taken off it again *)
(* behind whatever radiotap header the receiving driver writes (link.py),  *)
(* unpacked, verified, and relayed with one hop spent, hop after hop.      *)
(*                                                                         *)
(* A node stands for its keys and for the address of its radio, and a      *)
(* signature is who signed what.  Lengths and offsets are in bytes; of the *)
(* bytes themselves only those are told apart that the code looks at.      *)
(***************************************************************************)
EXTENDS Integers, Sequences, FiniteSetsExt

CONSTANTS
    Nodes,
    Bytes,          \* the bytes of these
    Names,          \* app_data of announces
    MaxHops,        \* largest hop limit
    Fields,         \* the radiotap fields that drivers report, of 0..6
    MaxChain,       \* most present words that follow the first
    Signal,         \* the signal at which frames are heard
    Fresh,          \* random bytes, drawn for this announce
    Junk,           \* bytes that mean something else
    Nothing         \* None

ASSUME WireAssumption ==
    /\ Fields \subseteq 0..6 /\ MaxHops \in Nat /\ MaxChain \in Nat
    /\ Names \subseteq Seq(Bytes)
    /\ Junk \notin Nodes \cup {Signal, Fresh, Nothing} /\ Nothing \notin {Signal, TRUE}

VARIABLES
    phase,      \* where the announce is: "idle", "air", "heard" or "got"
    packet,     \* the packet as it was last sent
    sender,     \* the radio that sent it
    heard,      \* the radiotap header of the driver that heard it
    got,        \* what the receiving node makes of it
    \* History variables.  Only Alter looks at one, to act once a flight.
    built,      \* the announce as its originator built it
    altered     \* whether it was changed on the way

vars == <<phase, packet, sender, heard, got, built, altered>>

(***************************************************************************)
(* identity.py and the layout of the packet                                *)
(***************************************************************************)
HeaderLen   == 4 + 1 + 1 + 1 + 2 + 4 + 16 + 16
AnnounceMin == 32 * 2 + 10 + 64

\* SHA-256, truncated: no two keys have the same.
NodeIdFromKey(key) == [hashOf |-> key]

\* Mistake: the name is not signed.
SignedBytesUnnamed(src, key, encrypt, random, name) == <<src, key, encrypt, random>>

SignedBytes(src, key, encrypt, random, name) == <<src, key, encrypt, random, name>>

\* size: bytes of header, keys, random and signature; the name follows them.
\* ours: the frame's type and BSSID, the packet's magic and its version.
BuildAnnounce(n, name, hops) ==
    [ours |-> TRUE, type |-> "announce", hops |-> hops, id |-> Fresh,
     src |-> NodeIdFromKey(n), key |-> n, encrypt |-> n, random |-> Fresh,
     sig |-> [by |-> n, of |-> SignedBytes(NodeIdFromKey(n), n, n, Fresh, name)],
     size |-> HeaderLen + AnnounceMin, name |-> name]

\* parse_announce
Verifies(p) ==
    /\ p.size = HeaderLen + AnnounceMin
    /\ NodeIdFromKey(p.key) = p.src
    /\ p.sig = [by |-> p.key, of |-> SignedBytes(p.src, p.key, p.encrypt, p.random, p.name)]

Info(p) == [src |-> p.src, key |-> p.key, encrypt |-> p.encrypt, name |-> p.name]

\* Packet.relayed
Relayed(p) == [p EXCEPT !.hops = @ - 1]

(***************************************************************************)
(* Radiotap.  The driver writes its fields in order, after all present     *)
(* words, each behind the padding that its alignment asks for.  A field's  *)
(* number stands for its first byte.                                       *)
(***************************************************************************)
Flags     == 1
AntSignal == 5

Align == <<8, 1, 1, 2, 2, 1, 1>>
Size  == <<8, 1, 1, 4, 2, 1, 1>>

Filler(n) == [i \in 1..n |-> Junk]

WordsLen(chain) == 8 + 4 * chain

Padding(len, align) == CHOOSE n \in 0..(align - 1) : (len + n) % align = 0

Behind(before, b, present) ==
    IF b \in present
    THEN before \o Filler(Padding(Len(before), Align[b + 1]))
         \o <<b>> \o Filler(Size[b + 1] - 1)
    ELSE before

HeaderBytes(present, chain) ==
    LET upTo[b \in -1..6] ==
            IF b = -1 THEN Filler(WordsLen(chain)) ELSE Behind(upTo[b - 1], b, present)
    IN  upTo[6]

\* Headers as they should be, cut short by a byte or in the present words, or
\* with more fields behind these; fcs: a checksum follows the packet.
HeadersWith(present, chain) ==
    LET bytes == HeaderBytes(present, chain)
    IN  [present : {present}, chain : {chain}, fcs : BOOLEAN,
         bytes : {bytes, bytes \o Filler(4), SubSeq(bytes, 1, Len(bytes) - 1),
                  SubSeq(bytes, 1, WordsLen(chain) - 1)}]

Headers == UNION {HeadersWith(present, chain) : present \in SUBSET Fields, chain \in 0..MaxChain}

\* Every field is there, and a checksum is only handed up with the flag for it.
WellFormed(h) ==
    /\ Len(h.bytes) >= Len(HeaderBytes(h.present, h.chain))
    /\ h.fcs => Flags \in h.present

(***************************************************************************)
(* parse_radiotap, MonitorLink.recv and Packet.from_bytes                  *)
(***************************************************************************)
\* Mistake: fields follow each other without padding.
AlignedNever(o, align) == o

Aligned(o, align) == ((o + align - 1) \div align) * align

PastField(h, b, off) == off + IF b \in h.present THEN Size[b + 1] ELSE 0

PlaceOf(h, b, off) == IF b \in h.present THEN Aligned(off, Align[b + 1]) ELSE off

\* The running offset, moved on to the place of field b.
OffsetOf(h, b) ==
    LET off[c \in 0..6] ==
            PlaceOf(h, c, IF c = 0 THEN WordsLen(h.chain) ELSE PastField(h, c - 1, off[c - 1]))
    IN  off[b]

Reading(h, b) ==
    LET byte == h.bytes[OffsetOf(h, b) + 1]
    IN  IF b \in h.present /\ OffsetOf(h, b) + Size[b + 1] <= Len(h.bytes)
        THEN CASE byte = Flags -> h.fcs
               [] byte = AntSignal -> Signal
               [] OTHER -> Junk
        ELSE Nothing

Fcs == <<"fcs", "fcs", "fcs", "fcs">>

StripFcs(h, bytes) ==
    IF Reading(h, Flags) = TRUE THEN SubSeq(bytes, 1, Len(bytes) - 4) ELSE bytes

\* The packet and its meta data, or None at one of the layers.
Received(h) ==
    LET bytes == StripFcs(h, packet.name \o IF h.fcs THEN Fcs ELSE <<>>)
        up    == [packet EXCEPT !.name = bytes]
    IN  IF /\ Len(h.bytes) >= WordsLen(h.chain)
           /\ packet.ours /\ packet.size >= HeaderLen
        THEN [packet |-> up, mac |-> sender, rssi |-> Reading(h, AntSignal),
              info |-> IF up.type = "announce" /\ Verifies(up) THEN Info(up) ELSE Nothing]
        ELSE Nothing

(***************************************************************************)
(* The way of an announce                                                  *)
(***************************************************************************)
\* Node.send_announce
Build ==
    /\ phase = "idle" /\ phase' = "air"
    /\ \E n \in Nodes, name \in Names, hops \in 0..MaxHops :
          /\ packet' = BuildAnnounce(n, name, hops)
          /\ built'  = packet'
          /\ sender' = n
    /\ altered' = FALSE
    /\ UNCHANGED <<heard, got>>

\* Packets that differ in one part.
Alterations(p) ==
    {[p EXCEPT !.ours = FALSE], [p EXCEPT !.type = "data"], [p EXCEPT !.id = Junk],
     [p EXCEPT !.random = Junk], [p EXCEPT !.sig = [by |-> Junk, of |-> p.sig.of]]}
    \cup {[p EXCEPT !.hops = hops] : hops \in 0..MaxHops}
    \cup {[p EXCEPT !.src = NodeIdFromKey(n)] : n \in Nodes}
    \cup {[p EXCEPT !.key = n] : n \in Nodes}
    \cup {[p EXCEPT !.encrypt = n] : n \in Nodes}
    \cup {[p EXCEPT !.name = name] : name \in Names}
    \cup {[p EXCEPT !.size = size, !.name = <<>>] :
             size \in {HeaderLen - 1, HeaderLen + AnnounceMin - 1}}

\* A receiver's error that goes unnoticed, or a faulty node on the way.
Alter ==
    /\ phase = "air" /\ ~altered
    /\ packet' \in Alterations(packet) \ {packet}
    /\ altered' = TRUE
    /\ UNCHANGED <<phase, sender, heard, got, built>>

HandUp ==
    /\ phase = "air" /\ phase' = "heard"
    /\ heard' \in Headers
    /\ UNCHANGED <<packet, sender, got, built, altered>>

Receive ==
    /\ phase = "heard" /\ phase' = "got"
    /\ got' = Received(heard)
    /\ UNCHANGED <<packet, sender, heard, built, altered>>

\* Verified or not; the originator does not relay its own.
Relay ==
    /\ phase = "got" /\ phase' = "air"
    /\ got # Nothing /\ got.packet.hops > 0
    /\ sender' \in {n \in Nodes : NodeIdFromKey(n) # got.packet.src}
    /\ packet' = Relayed(got.packet)
    /\ altered' = (altered \/ got.packet # packet)
    /\ heard' = Nothing /\ got' = Nothing
    /\ UNCHANGED built

\* Lost on the air, not relayed, or relayed by none.
Vanish ==
    /\ phase \in {"air", "got"} /\ phase' = "idle"
    /\ packet' = Nothing /\ sender' = Nothing /\ heard' = Nothing /\ got' = Nothing
    /\ built' = Nothing /\ altered' = FALSE

Init ==
    /\ phase = "idle"
    /\ packet = Nothing /\ sender = Nothing /\ heard = Nothing /\ got = Nothing
    /\ built = Nothing /\ altered = FALSE

Next == Build \/ Alter \/ HandUp \/ Receive \/ Relay \/ Vanish

Spec == Init /\ [][Next]_vars

(***************************************************************************)
(* Properties                                                              *)
(***************************************************************************)

\* Every variable has its type.
TypeOK ==
    /\ phase \in {"idle", "air", "heard", "got"}
    /\ sender \in Nodes \cup {Nothing}
    /\ heard # Nothing => heard \in Headers
    /\ packet # Nothing => packet.hops \in 0..MaxHops
    /\ altered \in BOOLEAN

\* recv() hands up the bytes that were sent, and the signal, behind any
\* well-formed header: however its fields are padded and its present words
\* chained, and with the checksum or without it.  Behind a header that was cut
\* it reports a signal only if the header holds one.
SentIsReceived ==
    phase = "got" =>
        /\ WellFormed(heard) /\ packet.ours /\ packet.size >= HeaderLen =>
              /\ got # Nothing
              /\ got.packet = packet /\ got.mac = sender
              /\ got.rssi = IF AntSignal \in heard.present THEN Signal ELSE Nothing
        /\ got # Nothing => got.rssi \in {Signal, Nothing}

\* Nothing is learned from an announce but what its originator signed.
LearnsTheSigned ==
    phase = "got" /\ got # Nothing => got.info \in {Info(built), Nothing}

\* The two checks of identity.py together: nothing is learned from an announce
\* but what its originator signed, whatever part of it was changed on the way;
\* and one that nobody changed verifies at every node it reaches, however many
\* relays it has been through, and brings what its originator put in it.
LearnsWhatWasSigned ==
    /\ LearnsTheSigned
    /\ phase = "got" /\ ~altered /\ WellFormed(heard) =>
          got # Nothing /\ got.info = Info(built)

(***************************************************************************)
(* What a signature ties down on the way.                                  *)
(***************************************************************************)
\* A name gains the checksum where the flag for it is not seen.
NamesOnAir == Seq(Bytes \cup {"fcs"})

NodeIds == {NodeIdFromKey(n) : n \in Nodes}

Signatures ==
    [by : Nodes \cup {Junk}, of : NodeIds \X Nodes \X Nodes \X {Fresh} \X NamesOnAir]

Packets ==
    [ours : BOOLEAN, type : {"announce", "data"}, hops : Nat, id : {Fresh, Junk},
     src : NodeIds, key : Nodes, encrypt : Nodes, random : {Fresh, Junk},
     sig : Signatures, size : Nat, name : NamesOnAir]

Infos == [src : NodeIds, key : Nodes, encrypt : Nodes, name : NamesOnAir]

Receptions ==
    [packet : Packets, mac : Nodes, rssi : {Signal, Nothing}, info : Infos \cup {Nothing}]

\* None is not a packet with its meta data.
ASSUME NothingAssumption == Nothing \notin Receptions

\* Packet.relayed and every change on the way leave the originator's signature,
\* or put one there that nobody made.
SignedByBuilder(p) == p \in Packets /\ (p.sig = built.sig \/ p.sig.by = Junk)

\* What nobody changed is what was built but for the hops.
UnalteredIsBuilt ==
    phase # "idle" /\ ~altered => packet = [built EXCEPT !.hops = packet.hops]

\* Together the invariant behind SentIsReceived and LearnsWhatWasSigned.
WireInduct ==
    phase # "idle" =>
        /\ built \in Packets /\ built.ours /\ built.type = "announce" /\ Verifies(built)
        /\ SignedByBuilder(packet) /\ sender \in Nodes
        /\ phase \in {"heard", "got"} => heard \in Headers
        /\ phase = "got" => got = Received(heard)
        /\ phase = "got" /\ got # Nothing =>
              SignedByBuilder(got.packet) /\ LearnsTheSigned
        /\ UnalteredIsBuilt
=============================================================================
