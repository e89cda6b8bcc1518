-------------------------------- MODULE GeoNet --------------------------------
(***************************************************************************)
(* What the programs of the Raspberry Pi look at in an Ethernet frame on   *)
(* the loopback interface lo, where the proxies, the Vanetza station       *)
(* (socktap) and ethcom meet: the source MAC and the ether type.           *)
(*                                                                         *)
(* lo's own MAC is 00:00:00:00:00:00.  socktap takes it as its own         *)
(* GeoNetworking address, so a header of zero bytes, which is also ether   *)
(* type 0, reads as sent by socktap itself.                                *)
(***************************************************************************)

OwnMac    == "own"     \* 00:00:00:00:00:00
TaggedMac == "tagged"  \* 00:ff:00:00:00:00, what writeGeonet first writes
OtherMac  == "other"   \* any other station, such as ethcom's ff:ff:00:00:00:00

Macs == {OwnMac, TaggedMac, OtherMac}

GeoNetType == "GeoNet"  \* 0x8947 on the wire, 18313 read on a little endian host
NoType     == "none"    \* 0
OtherType  == "other"   \* ARP, IP, ...

EtherTypes == {GeoNetType, NoType, OtherType}

Headers == [src : Macs, type : EtherTypes]

\* What writeGeonet stores in sendbuf before its loop, and what memset makes of it.
TaggedHeader == [src |-> TaggedMac, type |-> GeoNetType]
ZeroHeader   == [src |-> OwnMac, type |-> NoType]

\* A packet socket bound to ETH_P 0x8947 only gets such frames.
BoundSocketTakes(h) == h.type = GeoNetType

\* Mutant of ReaderRelays: the ether type is not compared.
RelaysAnyType(h) == h.src # TaggedMac

\* readGeonet passes a frame on to the app.
ReaderRelays(h) == h.type = GeoNetType /\ h.src # TaggedMac

\* RouterContext::pass_up hands a frame to the GeoNetworking router.
RouterIndicates(h) == h.src # OwnMac /\ h.type = GeoNetType
===============================================================================
