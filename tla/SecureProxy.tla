------------------------------ MODULE SecureProxy ------------------------------
(***************************************************************************)
(* The relay of proxy.c.  writeGeonet (app to car) and readGeonet (car to  *)
(* app) are two processes; each makes a new SSL for every message, runs    *)
(* SSL_accept on the one RFCOMM stream they share, passes one message and  *)
(* shuts the SSL down again.  Whichever process reads next gets the next   *)
(* bytes of the client, whatever session they belong to.                   *)
(*                                                                         *)
(* A TLS handshake is four flights, hello and fin of each side; a record   *)
(* carries the number of the client's session, which stands for its keys.  *)
(* OpenSSL reads the header of a record and its body one after the other,  *)
(* and the other process may read in between.  What a process makes of     *)
(* bytes that are not the header or the body it waits for is left open.    *)
(* OpenSSL and the client are external.                                    *)
(***************************************************************************)
EXTENDS Naturals, Sequences, GeoNet

CONSTANTS
    MaxSessions, \* bound: handshakes the client starts
    MaxMsgs,     \* bound: messages the client sends
    CarHeaders,  \* headers of the frames others put on lo
    MaxCar,      \* bound: frames others put on lo
    QueueCap,    \* frames the kernel keeps for readGeonet's packet socket
    ZeroCap      \* bound: all-zero frames are counted up to here

ASSUME SecureAssumption ==
    /\ MaxSessions \in Nat /\ MaxMsgs \in Nat /\ MaxCar \in Nat
    /\ CarHeaders \subseteq Headers
    /\ QueueCap \in Nat \ {0} /\ ZeroCap \in Nat \ {0}

W == "writeGeonet"
R == "readGeonet"
Procs == {W, R}

Kinds == {"hello", "fin", "data", "close", "alert"}

\* data is the number of a message, of the client or of the car, or 0.
Records == [kind : Kinds, sess : 0..MaxSessions, data : 0..(MaxMsgs + MaxCar)]
Rec(k, s) == [kind |-> k, sess |-> s, data |-> 0]
Data(s, d) == [kind |-> "data", sess |-> s, data |-> d]
Alert == Rec("alert", 0)   \* ends a session of the client, whichever it is of

VARIABLES
    \* the stream and the client
    c2s, s2c,    \* records on their way to the proxy and to the client
    cut,         \* what is left of the first record of c2s: see Cuts
    lost,        \* processes that read a header and are not to read its body
    split,       \* history: bytes of the client's last session were read by a
                 \* process that waited for others
    connected,
    cst,         \* the client: "idle", "hello", "fin" or "open"
    csess,       \* its last session
    said,        \* messages it has sent
    appGot,      \* history: messages of the car it received
    \* the two processes
    step,        \* where each is: see Steps
    sess,        \* the session it is accepting or has accepted
    buf,         \* writeGeonet's buffer: a message, or 0 for zeros
    bytes_read,  \* writeGeonet's bytes_read: 1 if positive, 0 if not
    got,         \* history: messages SSL_read returned
    frames,      \* history: messages writeGeonet put on lo, in order
    zeros,       \* history: all-zero frames writeGeonet put on lo
    \* lo and readGeonet
    carSent, queue, cur

partVars == <<cut, lost, split>>
clientVars == <<cst, csess, said, appGot>>
writerVars == <<buf, bytes_read, got, frames, zeros>>
readerVars == <<queue, cur>>
vars == <<c2s, s2c, partVars, connected, clientVars, step, sess, writerVars, carSent,
          readerVars>>

\* "recv": blocked in recvfrom (readGeonet only).  "hello", "fin": in
\* SSL_accept.  "failed": SSL_accept failed.  "use": the SSL is up.  "ready":
\* SSL_read returned (writeGeonet only).  "shut": about to call SSL_shutdown.
Steps == {"recv", "hello", "fin", "failed", "use", "ready", "shut", "ended"}

\* The whole record, the body of which a process has read the header, or a part
\* that nobody waits for.
Cuts == {"whole", "scrap"} \union Procs

TypeOK ==
    /\ c2s \in Seq(Records) /\ s2c \in Seq(Records)
    /\ cut \in Cuts
    /\ lost \subseteq Procs
    /\ split \in BOOLEAN
    /\ connected \in BOOLEAN
    /\ cst \in {"idle", "hello", "fin", "open"}
    /\ csess \in 0..MaxSessions
    /\ said \in 0..MaxMsgs
    /\ appGot \in Seq(1..MaxCar)
    /\ step \in [Procs -> Steps]
    /\ sess \in [Procs -> 0..MaxSessions]
    /\ buf \in 0..MaxMsgs
    /\ bytes_read \in {0, 1}
    /\ got \in 0..MaxMsgs
    /\ frames \in Seq(1..MaxMsgs)
    /\ zeros \in 0..ZeroCap
    /\ carSent \in 0..MaxCar
    /\ queue \in Seq([hdr : Headers, id : 1..MaxCar, big : BOOLEAN])
    /\ cur \in 0..MaxCar

\* Mutant of Init: bytes_read left uninitialised, as in unsecured_proxy.c.
InitUnset ==
    /\ c2s = <<>> /\ s2c = <<>> /\ connected = TRUE
    /\ cut = "whole" /\ lost = {} /\ split = FALSE
    /\ cst = "idle" /\ csess = 0 /\ said = 0 /\ appGot = <<>>
    /\ step = [p \in Procs |-> IF p = W THEN "hello" ELSE "recv"]
    /\ sess = [p \in Procs |-> 0]
    /\ buf = 0 /\ bytes_read \in {0, 1} /\ got = 0 /\ frames = <<>> /\ zeros = 0
    /\ carSent = 0 /\ queue = <<>> /\ cur = 0

Init ==
    /\ c2s = <<>> /\ s2c = <<>> /\ connected = TRUE
    /\ cut = "whole" /\ lost = {} /\ split = FALSE
    /\ cst = "idle" /\ csess = 0 /\ said = 0 /\ appGot = <<>>
    /\ step = [p \in Procs |-> IF p = W THEN "hello" ELSE "recv"]
    /\ sess = [p \in Procs |-> 0]
    /\ buf = 0 /\ bytes_read = 0 /\ got = 0 /\ frames = <<>> /\ zeros = 0
    /\ carSent = 0 /\ queue = <<>> /\ cur = 0

\* What the proxy writes is lost once the client is gone.
ToClient(r) == s2c' = IF connected THEN Append(s2c, r) ELSE s2c

-----------------------------------------------------------------------------
(* The client: a TLS client that starts one session after the other.       *)

ClientSame == UNCHANGED <<cut, lost, step, sess, writerVars, carSent, readerVars>>

ClientStarts ==
    /\ connected /\ cst = "idle" /\ csess < MaxSessions
    /\ csess' = csess + 1
    /\ cst' = "hello"
    /\ split' = FALSE
    /\ c2s' = Append(c2s, Rec("hello", csess'))
    /\ UNCHANGED <<s2c, connected, said, appGot>> /\ ClientSame

ClientSays ==
    /\ connected /\ cst = "open" /\ said < MaxMsgs
    /\ said' = said + 1
    /\ c2s' = Append(c2s, Data(csess, said'))
    /\ UNCHANGED <<s2c, split, connected, cst, csess, appGot>> /\ ClientSame

\* It leaves a session, with a close or an alert of its own or without.
Leaves ==
    /\ cst' = "idle"
    /\ \/ c2s' = Append(c2s, Rec("close", csess))
       \/ c2s' = c2s

Expected(r) == r.sess = csess /\ \/ cst = "hello" /\ r.kind = "hello"
                                 \/ cst = "fin" /\ r.kind = "fin"
                                 \/ cst = "open" /\ r.kind = "data"

\* It takes the next record of the proxy; one it does not expect (a close or an
\* alert among them) ends the session.
ClientTakes ==
    /\ connected /\ s2c # <<>>
    /\ s2c' = Tail(s2c)
    /\ LET r == Head(s2c) IN
       \/ /\ Expected(r)
          /\ cst' = IF cst = "hello" THEN "fin" ELSE "open"
          /\ c2s' = IF cst = "hello" THEN Append(c2s, Rec("fin", csess)) ELSE c2s
          /\ appGot' = IF r.kind = "data" THEN Append(appGot, r.data) ELSE appGot
       \/ /\ ~Expected(r)
          /\ IF cst = "idle" THEN UNCHANGED <<cst, c2s>> ELSE Leaves
          /\ UNCHANGED appGot
    /\ UNCHANGED <<split, connected, csess, said>> /\ ClientSame

ClientCloses ==
    /\ connected /\ cst = "open"
    /\ Leaves
    /\ UNCHANGED <<s2c, split, connected, csess, said, appGot>> /\ ClientSame

Disconnects ==
    /\ connected
    /\ connected' = FALSE
    /\ cst' = "idle"
    /\ s2c' = <<>>
    /\ UNCHANGED <<c2s, split, csess, said, appGot>> /\ ClientSame

-----------------------------------------------------------------------------
(* Reading the stream, in SSL_accept for either process or in SSL_read.     *)

Goes(p, to) == step' = [step EXCEPT ![p] = to]

Reading(p) == step[p] \in {"hello", "fin"} \/ (p = W /\ step[p] = "use")

\* A process reads the header of the next record ...
TakesHeader(p) ==
    /\ Reading(p) /\ p \notin lost
    /\ c2s # <<>> /\ cut = "whole"
    /\ cut' = p
    /\ UNCHANGED <<c2s, s2c, lost, split, connected, clientVars, step, sess,
                   writerVars, carSent, readerVars>>

\* ... and, unless the other one did, its body.
TakesBody(p) ==
    /\ c2s # <<>> /\ cut = p
    /\ cut' = "whole"
    /\ c2s' = Tail(c2s)
    /\ UNCHANGED <<lost, split>>

AtEnd(p) ==
    /\ c2s = <<>> /\ ~connected
    /\ lost' = lost \ {p}
    /\ UNCHANGED <<c2s, cut, split>>

\* It reads a part of a record where it waits for another: a body of which the
\* other process has the header, the rest of a record, or a record in place of
\* the body it has lost.  That is an error for OpenSSL, with an alert or none, or
\* it passes for a header, or is too short for what the process waits for: then
\* the process waits on.  Bound: what such a read leaves is read at once.
Strays(p) ==
    /\ Reading(p)
    /\ c2s # <<>> /\ cut # p /\ (cut = "whole" => p \in lost)
    /\ split' = (split \/ Head(c2s).sess = csess)
    /\ \/ cut # "scrap" /\ cut' = "scrap" /\ c2s' = c2s
       \/ cut' = "whole" /\ c2s' = Tail(c2s)
    /\ \/ /\ lost' = (lost \union ({cut} \intersect Procs)) \ {p}
          /\ Goes(p, "failed")
          /\ bytes_read' = IF step[p] = "use" THEN 0 ELSE bytes_read
          /\ ToClient(Alert) \/ UNCHANGED s2c
       \/ /\ lost' = lost \union ({cut} \intersect Procs) \union {p}
          /\ UNCHANGED <<step, bytes_read, s2c>>
    /\ UNCHANGED <<connected, clientVars, sess, buf, got, frames, zeros, carSent,
                   readerVars>>

\* The record SSL_accept waits for.
Awaited(p, r) == \/ step[p] = "hello" /\ r.kind = "hello"
                 \/ step[p] = "fin" /\ r = Rec("fin", sess[p])

Accepts(p) ==
    /\ step[p] \in {"hello", "fin"} /\ connected
    /\ TakesBody(p) /\ Awaited(p, Head(c2s))
    /\ sess' = [sess EXCEPT ![p] = Head(c2s).sess]
    /\ ToClient(Rec(step[p], Head(c2s).sess))
    /\ Goes(p, IF step[p] = "hello" THEN "fin" ELSE "use")
    /\ UNCHANGED <<connected, clientVars, writerVars, carSent, readerVars>>

\* Mutant of AcceptFails: the process waits for a record it can use.
AcceptWaits(p) ==
    /\ step[p] \in {"hello", "fin"}
    /\ AtEnd(p)
    /\ Goes(p, "failed")
    /\ UNCHANGED <<s2c, connected, clientVars, sess, writerVars, carSent, readerVars>>

\* Any other record makes it fail, with an alert to the client (for a close
\* perhaps none); so does the end of the stream.
AcceptFails(p) ==
    /\ step[p] \in {"hello", "fin"}
    /\ \/ /\ TakesBody(p) /\ ~(connected /\ Awaited(p, Head(c2s)))
          /\ \/ ToClient(Alert)
             \/ Head(c2s).kind = "close" /\ UNCHANGED s2c
       \/ AtEnd(p) /\ UNCHANGED s2c
    /\ Goes(p, "failed")
    /\ UNCHANGED <<connected, clientVars, sess, writerVars, carSent, readerVars>>

-----------------------------------------------------------------------------
(* writeGeonet.                                                            *)

WriterSame == UNCHANGED <<connected, clientVars, sess, carSent, readerVars>>

\* Mutant of ClearedBuf: no memset(buf) at the top of the loop.
StaleBuf == buf

\* What the memset at the top of the loop leaves in buf.
ClearedBuf == 0

\* SSL_read returns a message of the session; 0 when the client closed it or is
\* gone; -1 for a record that is not of this session, which is also answered by
\* an alert and leaves an SSL that SSL_shutdown does nothing for.
WriterReads ==
    /\ step[W] = "use"
    /\ \/ /\ TakesBody(W) /\ Head(c2s).kind = "data" /\ Head(c2s).sess = sess[W]
          /\ buf' = Head(c2s).data
          /\ bytes_read' = 1
          /\ got' = got + 1
          /\ Goes(W, "ready")
          /\ UNCHANGED s2c
       \/ /\ (TakesBody(W) /\ Head(c2s) = Rec("close", sess[W])) \/ AtEnd(W)
          /\ bytes_read' = 0
          /\ Goes(W, "ready")
          /\ UNCHANGED <<buf, got, s2c>>
       \/ /\ TakesBody(W) /\ Head(c2s).sess # sess[W]
          /\ ToClient(Alert)
          /\ bytes_read' = 0
          /\ Goes(W, "failed")
          /\ UNCHANGED <<buf, got>>
    /\ UNCHANGED <<frames, zeros>> /\ WriterSame

\* bytes_read decides whether buf is sent, also when SSL_accept failed and
\* bytes_read is what an earlier message left in it.  sendto() may fail.
SendsFrame == bytes_read > 0

Capped(n) == IF n < ZeroCap THEN n + 1 ELSE n

WriterFrames ==
    /\ step[W] \in {"ready", "failed"}
    /\ \/ /\ SendsFrame
          /\ frames' = IF buf # 0 THEN Append(frames, buf) ELSE frames
          /\ zeros' = IF buf = 0 THEN Capped(zeros) ELSE zeros
       \/ UNCHANGED <<frames, zeros>>
    /\ IF step[W] = "ready" THEN Goes(W, "shut") /\ UNCHANGED buf
                            ELSE Goes(W, "hello") /\ buf' = ClearedBuf
    /\ UNCHANGED <<c2s, s2c, partVars, bytes_read, got>> /\ WriterSame

WriterShuts ==
    /\ step[W] = "shut"
    /\ ToClient(Rec("close", sess[W]))
    /\ Goes(W, "hello")
    /\ buf' = ClearedBuf
    /\ UNCHANGED <<c2s, partVars, bytes_read, got, frames, zeros>> /\ WriterSame

-----------------------------------------------------------------------------
(* lo and readGeonet.  The packet socket is bound (UnsecuredProxy has the  *)
(* moment before) and never gets writeGeonet's frames, whose type is 0.    *)

CarSends ==
    \E h \in CarHeaders, big \in BOOLEAN :
        /\ carSent < MaxCar
        /\ carSent' = carSent + 1
        /\ queue' = IF BoundSocketTakes(h) /\ Len(queue) < QueueCap
                    THEN Append(queue, [hdr |-> h, id |-> carSent', big |-> big])
                    ELSE queue
        /\ UNCHANGED <<c2s, s2c, partVars, connected, clientVars, step, sess, writerVars,
                       cur>>

ReaderSame == UNCHANGED <<partVars, connected, clientVars, sess, writerVars, carSent>>

Relays(f) == ~f.big /\ ReaderRelays(f.hdr)

\* Mutant of ReaderReceives: what is sent is not the frame just received.
ReaderKeepsOld ==
    /\ step[R] = "recv"
    /\ queue # <<>>
    /\ queue' = Tail(queue)
    /\ IF Relays(Head(queue)) THEN Goes(R, "hello") ELSE UNCHANGED step
    /\ UNCHANGED <<c2s, s2c, cur>> /\ ReaderSame

ReaderReceives ==
    /\ step[R] = "recv"
    /\ queue # <<>>
    /\ queue' = Tail(queue)
    /\ IF Relays(Head(queue)) THEN Goes(R, "hello") /\ cur' = Head(queue).id
                              ELSE UNCHANGED <<step, cur>>
    /\ UNCHANGED <<c2s, s2c>> /\ ReaderSame

ReaderWrites ==
    /\ step[R] = "use"
    /\ ToClient(Data(sess[R], cur))
    /\ Goes(R, "shut")
    /\ UNCHANGED <<c2s, readerVars>> /\ ReaderSame

ReaderShuts ==
    /\ step[R] = "shut"
    /\ ToClient(Rec("close", sess[R]))
    /\ Goes(R, "recv")
    /\ UNCHANGED <<c2s, readerVars>> /\ ReaderSame

\* After a failed SSL_accept the frame is dropped.
ReaderGivesUp ==
    /\ step[R] = "failed"
    /\ Goes(R, "recv")
    /\ UNCHANGED <<c2s, s2c, readerVars>> /\ ReaderSame

\* A failed call of readGeonet, or the SIGTERM of ProxyProcesses.
Ends(p) ==
    /\ step[p] # "ended"
    /\ Goes(p, "ended")
    /\ lost' = lost \ {p}
    /\ UNCHANGED <<c2s, s2c, cut, split, connected, clientVars, sess, writerVars,
                   carSent, readerVars>>

-----------------------------------------------------------------------------
Client == \/ ClientStarts \/ ClientSays \/ ClientTakes \/ ClientCloses
          \/ Disconnects

Accept(p) == TakesHeader(p) \/ Strays(p) \/ Accepts(p) \/ AcceptFails(p)
Writer == Accept(W) \/ WriterReads \/ WriterFrames \/ WriterShuts
Reader == Accept(R) \/ ReaderReceives \/ ReaderWrites \/ ReaderShuts \/ ReaderGivesUp

Next == Client \/ CarSends \/ Writer \/ Reader \/ \E p \in Procs : Ends(p)

Spec == Init /\ [][Next]_vars

\* The processes run as long as they live and the client reads its stream; it
\* need not start sessions or send, and neither need the car.
FairSpec == Spec /\ WF_vars(Writer) /\ WF_vars(Reader) /\ WF_vars(ClientTakes)

-----------------------------------------------------------------------------
(* Properties.                                                             *)

\* No frame of zeros before a first message was read: bytes_read is 0 until
\* then, whatever handshakes fail.
ZerosNeedAMessage == zeros > 0 => got > 0

\* A handshake the client started ends, well or badly: for all that the processes
\* take records from each other, the client and they never all wait for each
\* other's next record, unless one of the client's records in this session was
\* split between the two.
HandshakeEnds ==
    cst \in {"hello", "fin"} ~> \/ cst \in {"idle", "open"} \/ ~connected
                               \/ step[W] = "ended" \/ split

DataIn(records) ==
    {records[i].data : i \in {k \in DOMAIN records : records[k].kind = "data"}}

\* Car to app: what is on its way to the client, the frame readGeonet has in
\* hand, and the relayable frames of the packet socket.
InHand == IF step[R] \in {"hello", "fin", "failed", "use"} THEN {cur} ELSE {}
Relayable == {queue[i].id : i \in {k \in DOMAIN queue : Relays(queue[k])}}
ToApp == INSTANCE RelayChannel WITH
             offered <- carSent, delivered <- appGot,
             waiting <- DataIn(s2c) \union InHand \union Relayable

\* App to car: the message in the buffer and those still in the stream.
InBuf == IF step[W] = "ready" /\ buf # 0 THEN {buf} ELSE {}
ToCar == INSTANCE RelayChannel WITH
             offered <- said, delivered <- frames,
             waiting <- InBuf \union DataIn(c2s)

\* Both directions are lossy channels that keep the order: the app gets the
\* car's messages as they were on lo, whatever the two processes do to each
\* other's sessions, and the frames that are not all zeros carry the app's, each
\* once, for all that bytes_read and buf outlive a message.
ImplementsChannels == ToApp!Spec /\ ToCar!Spec
===============================================================================
