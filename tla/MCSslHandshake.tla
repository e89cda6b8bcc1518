---------------------------- MODULE MCSslHandshake ----------------------------
(***************************************************************************)
(* Small instances of SslHandshake: buffers of four cells, and peers whose *)
(* records fill them, or do not.                                           *)
(***************************************************************************)
EXTENDS SslHandshake

Rec(from, to, flight, kind) == [from |-> from, to |-> to, flight |-> flight, kind |-> kind]

\* Flights of exactly a buffer, in one record and in two.
Filling == {Rec(1, 4, 1, "handshake"), Rec(5, 8, 2, "handshake")}
InHalves == {Rec(1, 2, 1, "handshake"), Rec(3, 4, 1, "handshake"),
             Rec(5, 6, 2, "handshake"), Rec(7, 8, 2, "data")}
\* Flights that end in the middle of a buffer, and a record longer than one.
Ragged == {Rec(1, 3, 1, "handshake"), Rec(4, 5, 1, "handshake"), Rec(6, 7, 2, "handshake")}
Long == {Rec(1, 6, 1, "handshake"), Rec(7, 8, 2, "handshake")}
\* Peers that close instead of going on.
Closing == {Rec(1, 4, 1, "close")}
ClosingLate == {Rec(1, 2, 1, "handshake"), Rec(3, 4, 1, "close")}

AllScripts == {Filling, InHalves, Ragged, Long, Closing, ClosingLate}
===============================================================================
