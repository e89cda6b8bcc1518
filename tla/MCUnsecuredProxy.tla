--------------------------- MODULE MCUnsecuredProxy ---------------------------
(***************************************************************************)
(* Small instances of UnsecuredProxy.                                      *)
(***************************************************************************)
EXTENDS UnsecuredProxy

CarFrame == [src |-> OwnMac, type |-> GeoNetType]    \* socktap's
PeerFrame == [src |-> OtherMac, type |-> GeoNetType] \* ethcom's
ForeignFrame == [src |-> OwnMac, type |-> OtherType] \* other traffic on lo
TaggedFrame == TaggedHeader  \* what a sender with writeGeonet's tag would use

OneHeader == {CarFrame}
AllHeaders == {CarFrame, PeerFrame, ForeignFrame, TaggedFrame}
===============================================================================
