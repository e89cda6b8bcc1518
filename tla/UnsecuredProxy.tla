---------------------------- MODULE UnsecuredProxy ----------------------------
(***************************************************************************)
(* The relay of unsecured_proxy.c: writeGeonet (app to car) and readGeonet *)
(* (car to app), two processes on one RFCOMM socket and on lo.             *)
(*                                                                         *)
(* The app's RFCOMM stream carries no message boundaries.  Its bytes are   *)
(* their positions 1, 2, ... in the stream, and 0 is the byte memset       *)
(* leaves in a buffer.  Frames of the car are numbered in the order they   *)
(* appear on lo.                                                           *)
(***************************************************************************)
EXTENDS Naturals, Sequences, GeoNet

CONSTANTS
    BufSize,    \* sizeof(buf) of writeGeonet
    MaxBytes,   \* bound: bytes the app writes
    MsgSizes,   \* bound: sizes of one message of the app
    CarHeaders, \* headers of the frames others put on lo
    MaxCar,     \* bound: frames others put on lo
    QueueCap    \* frames the kernel keeps for readGeonet's packet socket

ASSUME ProxyAssumption ==
    /\ BufSize \in Nat \ {0}
    /\ MaxBytes \in Nat
    /\ MsgSizes \subseteq Nat \ {0}
    /\ CarHeaders \subseteq Headers
    /\ MaxCar \in Nat
    /\ QueueCap \in Nat \ {0}

Cells == 1..BufSize
Buffers == [Cells -> 0..MaxBytes]
ZeroBuf == [i \in Cells |-> 0]

VARIABLES
    \* the RFCOMM stream from the app
    written,     \* bytes the app has written
    taken,       \* bytes writeGeonet has read
    connected,   \* the client is still connected
    \* writeGeonet
    wpc,         \* "read", "send" or "ended"
    buf,         \* its receive buffer
    bytes_read,  \* what the last read() returned
    header,      \* the first 14 bytes of sendbuf
    frames,      \* history: the frames it put on lo
    lost,        \* history: bytes whose sendto() failed
    \* lo and readGeonet
    carSent,     \* frames others put on lo
    early,       \* how many of them before readGeonet bound its socket
    queue,       \* readGeonet's packet socket
    rpc,         \* "bind", "recv", "write" or "ended"
    cur,         \* the frame readGeonet relays
    toApp,       \* history: what write() passed to the client, in order
    routed       \* history: writeGeonet's frames the Vanetza router takes

appVars == <<written, taken, connected>>
writerVars == <<wpc, buf, bytes_read, header, frames, lost>>
loVars == <<carSent, early, queue>>
readerVars == <<rpc, cur, toApp>>
vars == <<appVars, writerVars, loVars, readerVars, routed>>

\* A frame waiting for readGeonet: id is its number among the frames of the
\* others, 0 for a frame of writeGeonet; big: it fills the 65536 byte buffer.
Frames == [hdr : Headers, id : 0..MaxCar, big : BOOLEAN]
NoFrame == [hdr |-> ZeroHeader, id |-> 0, big |-> FALSE]

TypeOK ==
    /\ written \in 0..MaxBytes /\ taken \in 0..written
    /\ connected \in BOOLEAN
    /\ wpc \in {"read", "send", "ended"}
    /\ buf \in Buffers
    /\ bytes_read \in 0..BufSize
    /\ header \in Headers
    /\ frames \in Seq([hdr : Headers, data : Buffers])
    /\ lost \subseteq 1..MaxBytes
    /\ carSent \in 0..MaxCar /\ early \in 0..carSent
    /\ queue \in Seq(Frames)
    /\ rpc \in {"bind", "recv", "write", "ended"}
    /\ cur \in Frames
    /\ toApp \in Seq(0..MaxCar)
    /\ routed \in Seq(Headers)

Init ==
    /\ written = 0 /\ taken = 0 /\ connected = TRUE
    /\ wpc = "read" /\ buf = ZeroBuf /\ bytes_read = 0
    /\ header = TaggedHeader /\ frames = <<>> /\ lost = {}
    /\ carSent = 0 /\ early = 0 /\ queue = <<>>
    /\ rpc = "bind" /\ cur = NoFrame /\ toApp = <<>>
    /\ routed = <<>>

-----------------------------------------------------------------------------
(* The app, at the other end of the Bluetooth connection.                  *)

AppWrites ==
    \E n \in MsgSizes :
        /\ connected
        /\ written + n <= MaxBytes
        /\ written' = written + n
        /\ UNCHANGED <<taken, connected, writerVars, loVars, readerVars, routed>>

AppDisconnects ==
    /\ connected
    /\ connected' = FALSE
    /\ UNCHANGED <<written, taken, writerVars, loVars, readerVars, routed>>

-----------------------------------------------------------------------------
(* lo.  readGeonet's socket is made for every protocol and only then bound *)
(* to lo and 0x8947: until it is, it gets frames of any type, and a frame  *)
(* on lo twice, once on its way out and once on its way in.                *)

Copies == IF rpc = "bind" THEN 2 ELSE 1

SocketTakes(f) == rpc # "ended" /\ (rpc = "bind" \/ BoundSocketTakes(f.hdr))

\* The kernel drops what does not fit in the socket's receive buffer.
Fits(n) == Len(queue) + n <= QueueCap

OnLo(f) ==
    queue' = IF ~SocketTakes(f) \/ ~Fits(1) THEN queue
             ELSE IF Copies = 1 \/ ~Fits(2) THEN Append(queue, f)
             ELSE queue \o <<f, f>>

CarSends ==
    \E h \in CarHeaders, big \in BOOLEAN :
        /\ carSent < MaxCar
        /\ carSent' = carSent + 1
        /\ early' = IF rpc = "bind" THEN carSent + 1 ELSE early
        /\ OnLo([hdr |-> h, id |-> carSent + 1, big |-> big])
        /\ UNCHANGED <<appVars, writerVars, readerVars, routed>>

-----------------------------------------------------------------------------
(* writeGeonet.                                                            *)

\* memset(buf), then a read() that returns 1 to sizeof(buf) of the bytes that
\* wait, whatever messages they belong to.
\* Mutant of Filled: no memset(buf), so the rest of the last message stays.
FilledNoMemset(from, n) == [i \in Cells |-> IF i <= n THEN from + i ELSE buf[i]]
Filled(from, n) == [i \in Cells |-> IF i <= n THEN from + i ELSE 0]

WriterReads ==
    \E n \in Cells :
        /\ wpc = "read"
        /\ taken + n <= written
        /\ bytes_read' = n
        /\ buf' = Filled(taken, n)
        /\ taken' = taken + n
        /\ wpc' = "send"
        /\ UNCHANGED <<written, connected, header, frames, lost, loVars,
                       readerVars, routed>>

\* read() returns 0 or -1 on the closed connection: the loop goes round.
\* Mutant of WriterReadsNothing: the process returns when the client is gone,
\* without waiting for the bytes the kernel still holds.
WriterStopsAtOnce ==
    /\ wpc = "read"
    /\ ~connected
    /\ bytes_read' = 0
    /\ buf' = ZeroBuf
    /\ taken' = written
    /\ UNCHANGED <<written, connected, wpc, header, frames, lost, loVars,
                   readerVars, routed>>

WriterReadsNothing ==
    /\ wpc = "read"
    /\ ~connected /\ taken = written
    /\ bytes_read' = 0
    /\ buf' = ZeroBuf
    /\ UNCHANGED <<appVars, wpc, header, frames, lost, loVars, readerVars, routed>>

\* memset(sendbuf) clears the Ethernet header made before the loop, and all of
\* buf, read or not, becomes the payload.
WriterSends ==
    /\ wpc = "send"
    /\ bytes_read > 0
    /\ wpc' = "read"
    /\ header' = ZeroHeader
    /\ \/ /\ frames' = Append(frames, [hdr |-> header', data |-> buf])
          /\ OnLo([hdr |-> header', id |-> 0, big |-> FALSE])
          /\ routed' = IF RouterIndicates(header') THEN Append(routed, header')
                                                   ELSE routed
          /\ UNCHANGED lost
       \/ /\ lost' = lost \cup {buf[i] : i \in {j \in Cells : buf[j] # 0}}
          /\ UNCHANGED <<frames, queue, routed>>
    /\ UNCHANGED <<appVars, buf, bytes_read, carSent, early, readerVars>>

\* The SIGTERM main or sig_handler sends (ProxyProcesses).
WriterKilled ==
    /\ wpc # "ended"
    /\ wpc' = "ended"
    /\ UNCHANGED <<appVars, buf, bytes_read, header, frames, lost, loVars,
                   readerVars, routed>>

-----------------------------------------------------------------------------
(* readGeonet.                                                             *)

ReaderBinds ==
    /\ rpc = "bind"
    /\ rpc' = "recv"
    /\ UNCHANGED <<appVars, writerVars, loVars, cur, toApp, routed>>

\* recvfrom(), and the two tests that decide whether the frame goes on.
\* Mutant of ReaderReceives: a frame it does not relay empties the socket.
ReaderFlushesAtForeign ==
    /\ rpc = "recv"
    /\ queue # <<>>
    /\ IF ~Head(queue).big /\ ReaderRelays(Head(queue).hdr)
       THEN rpc' = "write" /\ cur' = Head(queue) /\ queue' = Tail(queue)
       ELSE queue' = <<>> /\ UNCHANGED <<rpc, cur>>
    /\ UNCHANGED <<appVars, writerVars, carSent, early, toApp, routed>>

ReaderReceives ==
    /\ rpc = "recv"
    /\ queue # <<>>
    /\ queue' = Tail(queue)
    /\ IF ~Head(queue).big /\ ReaderRelays(Head(queue).hdr)
       THEN rpc' = "write" /\ cur' = Head(queue)
       ELSE UNCHANGED <<rpc, cur>>
    /\ UNCHANGED <<appVars, writerVars, carSent, early, toApp, routed>>

ReaderWrites ==
    /\ rpc = "write"
    /\ rpc' = "recv"
    /\ \/ toApp' = Append(toApp, cur.id) /\ connected
       \/ toApp' = toApp /\ ~connected
    /\ UNCHANGED <<appVars, writerVars, loVars, cur, routed>>

\* exit(1) on a failed set-up call or recvfrom(), or the SIGTERM.
ReaderEnds ==
    /\ rpc # "ended"
    /\ rpc' = "ended"
    /\ UNCHANGED <<appVars, writerVars, loVars, cur, toApp, routed>>

-----------------------------------------------------------------------------
App == AppWrites \/ AppDisconnects
Writer == WriterReads \/ WriterReadsNothing \/ WriterSends
Reader == ReaderBinds \/ ReaderReceives \/ ReaderWrites

Next == App \/ CarSends \/ Writer \/ WriterKilled \/ Reader \/ ReaderEnds

Spec == Init /\ [][Next]_vars

\* The two processes run as long as they live; neither the app nor the car has
\* to send anything, and a process need not be killed.
FairSpec == Spec /\ WF_vars(Writer) /\ WF_vars(Reader)

-----------------------------------------------------------------------------
(* Properties.                                                             *)

\* No frame writeGeonet put on lo comes back to the app, neither before the
\* socket is bound nor after ("qu'elle ne vient pas du proxy app vers voiture",
\* unsecured_proxy.c:301).
EchoFree == \A i \in 1..Len(toApp) : toApp[i] # 0

\* The app gets the car's messages in the order they were on lo, each at most
\* once, except that one of before bind() may come twice in a row.
DeliveredInOrder ==
    \A i, j \in 1..Len(toApp) :
        i < j => \/ toApp[i] < toApp[j]
                 \/ toApp[i] = toApp[j] /\ toApp[i] <= early /\ j = i + 1

\* The two together: readGeonet passes on lo's frames and never the proxy's own.
LoRelayed == EchoFree /\ DeliveredInOrder

\* Byte a of frame j.
Sent(j, a) == frames[j].data[a]

\* The frames carry the app's bytes in stream order, none of them twice and no
\* byte of an older message behind a shorter one.
FramesInStreamOrder ==
    \A j, k \in 1..Len(frames), a, b \in Cells :
        (j < k \/ (j = k /\ a < b)) /\ Sent(j, a) # 0 /\ Sent(k, b) # 0
            => Sent(j, a) < Sent(k, b)

\* A byte that was read is in a frame, in the buffer about to be sent, or in a
\* message whose sendto() failed; nothing is cut off at the end of the buffer.
ReadBytesAccounted ==
    \A p \in 1..taken :
        \/ p \in lost
        \/ wpc # "read" /\ \E a \in Cells : buf[a] = p
        \/ \E j \in 1..Len(frames), a \in Cells : Sent(j, a) = p

\* The two together: the frames of writeGeonet are the stream, cut up.
StreamFramed == FramesInStreamOrder /\ ReadBytesAccounted

\* Every byte the app wrote leaves for the car, unless sendto() fails or the
\* process is killed; a disconnection does not drop what was written before.
StreamDrained ==
    \A p \in 1..MaxBytes :
        written >= p ~> \/ wpc = "ended" \/ p \in lost
                        \/ \E j \in 1..Len(frames), a \in Cells : Sent(j, a) = p

Waits(k) == \E i \in 1..Len(queue) : /\ queue[i].id = k /\ ~queue[i].big
                                      /\ ReaderRelays(queue[i].hdr)
Arrived(k) == \E i \in 1..Len(toApp) : toApp[i] = k

\* A GeoNet frame in the packet socket reaches the app, unless the client is
\* gone or the process ends: no frame of another kind stops the loop.
QueuedFrameArrives ==
    \A k \in 1..MaxCar : Waits(k) ~> \/ Arrived(k) \/ ~connected \/ rpc = "ended"

\* The Vanetza router takes the frames made of the app's messages: their source
\* was "modifiee pour que vanetza ne le discard pas" (unsecured_proxy.c:152).
CarTakesAppFrames == Len(routed) = Len(frames)
===============================================================================
