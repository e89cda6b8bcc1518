---------------------------- MODULE MCSecureProxy ----------------------------
(***************************************************************************)
(* Small instances of SecureProxy.                                         *)
(***************************************************************************)
EXTENDS SecureProxy

CarFrame == [src |-> OwnMac, type |-> GeoNetType]   \* socktap's
OneHeader == {CarFrame}
==============================================================================
