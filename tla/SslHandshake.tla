----------------------------- MODULE SslHandshake -----------------------------
(***************************************************************************)
(* ConnectedThread.doHandshake of BluetoothConnectionService: the loop     *)
(* that moves TLS records between the Bluetooth socket and an SSLEngine    *)
(* through the ByteBuffers peerBTData and myBTData.                        *)
(*                                                                         *)
(* The peer's stream is a set of records, each the cells from..to of it.   *)
(* What was read and not yet consumed stands at the position of            *)
(* peerBTData; the cells behind it are the zeros a new array is filled     *)
(* with.  SSLEngine, the executor and the peer are external.               *)
(***************************************************************************)
EXTENDS Naturals

CONSTANTS
    Cap,        \* size of the read array and of peerBTData: 1024 bytes
    HeaderLen,  \* cells the engine needs to see what a record is
    PacketSize, \* the session's packet buffer size
    Scripts     \* bound: what the peer may send, a set of sets of records

Records == [from : Nat, to : Nat, flight : {1, 2}, kind : {"handshake", "data", "close"}]

ASSUME HandshakeAssumption ==
    /\ Cap \in Nat \ {0} /\ HeaderLen \in Nat \ {0}
    /\ PacketSize \in Nat /\ PacketSize > Cap
    /\ \A s \in Scripts : s \subseteq Records /\ \A r \in s : r.from + HeaderLen <= r.to + 1

VARIABLES
    \* the peer
    script,   \* what it sends
    flights,  \* flights the phone has sent it
    sent,     \* cells it has sent
    open,     \* the connection is up
    \* doHandshake
    pc,       \* where it is: see Steps
    status,   \* the status of the last wrap or unwrap
    taken,    \* cells read from the socket
    peerBT,   \* peerBTData: its position, limit and capacity
    mySize,   \* capacity of myBTData
    answer,   \* what doHandshake returned
    \* the engine
    hs,       \* its handshake status
    consumed, \* cells of the stream it has taken
    task,     \* its delegated task: "none", "wanted" or "running"
    next,     \* the status the task leads to
    inbound,  \* "open"; "sick": the next call throws; "done"
    outbound, \* "open", "closing" (an alert is due) or "done"
    roomy,    \* its wrap wants room for a whole packet, whatever it writes
    finished, \* history: the handshake was completed
    alert     \* history: "none", "written", or "lost" to a failed write

peerVars == <<script, flights, sent, open>>
bufVars == <<taken, peerBT, mySize>>
sslVars == <<hs, consumed, task, next, inbound, outbound, roomy, finished>>
vars == <<peerVars, pc, status, bufVars, answer, sslVars, alert>>

\* "crashed": an exception nothing catches.  "thrown": an IOException, which
\* run() catches.
Steps == {"switch", "unwrap", "unwrapped", "write", "returned", "thrown", "crashed"}
Ended == pc \in {"returned", "thrown", "crashed"}

Status == {"NEED_WRAP", "NEED_UNWRAP", "NEED_TASK", "NOT_HANDSHAKING"}
Sizes == {Cap, PacketSize}

TypeOK ==
    /\ script \in Scripts /\ flights \in 0..2 /\ sent \in Nat /\ open \in BOOLEAN
    /\ pc \in Steps
    /\ status \in {"OK", "BUFFER_UNDERFLOW", "CLOSED"}
    /\ taken \in 0..sent /\ consumed \in 0..taken
    /\ peerBT \in [pos : Nat, lim : Nat, cap : Sizes]
    /\ peerBT.pos <= peerBT.lim /\ peerBT.lim <= peerBT.cap
    /\ mySize \in Sizes
    /\ hs \in Status /\ next \in Status
    /\ task \in {"none", "wanted", "running"}
    /\ inbound \in {"open", "sick", "done"}
    /\ outbound \in {"open", "closing", "done"}
    /\ answer \in BOOLEAN /\ roomy \in BOOLEAN /\ finished \in BOOLEAN
    /\ alert \in {"none", "written", "lost"}

Init ==
    /\ script \in Scripts /\ flights = 0 /\ sent = 0 /\ open = TRUE
    /\ pc = "switch" /\ status = "OK"
    /\ taken = 0 /\ mySize = Cap /\ peerBT = [pos |-> 0, lim |-> Cap, cap |-> Cap]
    /\ answer = FALSE
    /\ hs = "NEED_WRAP" /\ consumed = 0 /\ task = "none" /\ next = "NEED_WRAP"
    /\ inbound = "open" /\ outbound = "open" /\ roomy \in BOOLEAN
    /\ finished = FALSE /\ alert = "none"

Case(s) == pc = "switch" /\ hs = s

\* Mutant of Finished: a pending task does not keep the loop going.
FinishedOrTask == hs \notin {"NEED_WRAP", "NEED_UNWRAP"}

\* The loop's condition fails: doHandshake returns true.
Finished == hs = "NOT_HANDSHAKING"

Done ==
    /\ pc = "switch" /\ Finished
    /\ pc' = "returned" /\ answer' = TRUE
    /\ UNCHANGED <<peerVars, status, bufVars, sslVars, alert>>

-----------------------------------------------------------------------------
(* The peer answers each flight of the phone with one of its own.          *)

PeerSends ==
    \E r \in script :
        /\ open
        /\ r.from = sent + 1 /\ r.flight <= flights
        /\ sent' = r.to
        /\ UNCHANGED <<script, flights, open, pc, status, bufVars, answer, sslVars, alert>>

PeerDisconnects ==
    /\ open
    /\ open' = FALSE
    /\ UNCHANGED <<script, flights, sent, pc, status, bufVars, answer, sslVars, alert>>

-----------------------------------------------------------------------------
(* ByteBuffer and enlargeBuffer.                                           *)

Remaining == peerBT.lim - peerBT.pos
Compact == [peerBT EXCEPT !.pos = Remaining, !.lim = peerBT.cap]

\* Mutant of Enlarged: it never grows.
EnlargedNot(cap) == cap

Enlarged(cap) == IF PacketSize > cap THEN PacketSize ELSE 2 * cap

\* handleBufferUnderflow: what is left moves to a larger buffer.
Underflowed(b) == IF PacketSize < b.lim THEN b
                  ELSE [pos |-> b.pos, lim |-> Enlarged(b.cap), cap |-> Enlarged(b.cap)]

-----------------------------------------------------------------------------
(* NEED_UNWRAP.                                                            *)

\* read() returns 1 to Cap cells, and the whole array, of Cap cells, is put
\* into peerBTData: without room for it a BufferOverflowException.
Reads ==
    \E n \in 1..Cap :
        /\ Case("NEED_UNWRAP") /\ taken + n <= sent
        /\ taken' = taken + n
        /\ IF Remaining < Cap
           THEN pc' = "crashed" /\ UNCHANGED peerBT
           ELSE /\ pc' = "unwrap"
                /\ peerBT' = [peerBT EXCEPT !.pos = 0, !.lim = peerBT.pos + Cap]
        /\ UNCHANGED <<peerVars, status, mySize, answer, sslVars, alert>>

ReadThrows ==
    /\ Case("NEED_UNWRAP") /\ ~open
    /\ pc' = "thrown"
    /\ UNCHANGED <<peerVars, status, bufVars, answer, sslVars, alert>>

\* Mutant of CloseOutbound: no alert is due.
CloseOutboundQuietly == outbound' = "done" /\ hs' = "NOT_HANDSHAKING"

\* ssl.closeOutbound() and getHandshakeStatus(): an alert is to be wrapped, once.
CloseOutbound ==
    /\ outbound' = IF outbound = "open" THEN "closing" ELSE outbound
    /\ hs' = IF outbound' = "closing" THEN "NEED_WRAP" ELSE "NOT_HANDSHAKING"

ReadsEnd ==
    /\ Case("NEED_UNWRAP") /\ ~open /\ taken = sent
    /\ IF inbound = "done" /\ outbound = "done"
       THEN pc' = "returned" /\ UNCHANGED <<hs, inbound, outbound>>
       ELSE inbound' = "done" /\ CloseOutbound /\ UNCHANGED pc
    /\ UNCHANGED <<peerVars, status, bufVars, answer, consumed, task, next, roomy,
                   finished, alert>>

\* The record that follows what was consumed, as the engine finds it.
Following(r) == r.from = consumed + 1
Whole(r) == Following(r) /\ r.to <= taken
TooLittle ==
    \/ Remaining < HeaderLen
    \/ \E r \in script : /\ Following(r)
                         /\ taken - consumed >= HeaderLen
                         /\ r.to - consumed > Remaining
Wanting == hs \in {"NEED_UNWRAP", "NOT_HANDSHAKING"} /\ inbound # "done"

\* The status when r has been taken.
LastOfFlight(r) == \A q \in script : q.flight = r.flight /\ q.kind = "handshake" => q.to <= r.to
After(r) == IF ~LastOfFlight(r) THEN "NEED_UNWRAP"
            ELSE IF r.flight = 1 THEN "NEED_WRAP" ELSE "NOT_HANDSHAKING"

\* Mutant of LoopsOn: only what was produced keeps the loop going.
LoopsOnProduced(produced, left) == produced

\* The condition of the do-while loop around unwrap.
LoopsOn(produced, left) == produced \/ left > 0

Unwraps(st, n, produced) ==
    /\ status' = st
    /\ consumed' = consumed + n
    /\ peerBT' = [peerBT EXCEPT !.pos = peerBT.pos + n]
    /\ pc' = IF LoopsOn(produced, Remaining - n) THEN "unwrap" ELSE "unwrapped"
    /\ UNCHANGED <<peerVars, taken, mySize, answer, outbound, roomy, alert>>

\* It takes a record.  For a handshake record it may ask for a task.
UnwrapsRecord ==
    \E r \in script :
        /\ pc = "unwrap" /\ Wanting /\ inbound = "open" /\ Whole(r) /\ r.kind # "close"
        /\ Unwraps("OK", r.to - consumed, r.kind = "data")
        /\ \/ /\ hs' = After(r)
              /\ finished' = (After(r) = "NOT_HANDSHAKING")
              /\ UNCHANGED <<task, next>>
           \/ /\ After(r) # "NOT_HANDSHAKING"
              /\ hs' = "NEED_TASK" /\ task' = "wanted" /\ next' = After(r)
              /\ UNCHANGED finished
        /\ UNCHANGED inbound

UnwrapsClose ==
    \E r \in script :
        /\ pc = "unwrap" /\ Wanting /\ inbound = "open" /\ Whole(r) /\ r.kind = "close"
        /\ Unwraps("CLOSED", r.to - consumed, FALSE)
        /\ inbound' = "done" /\ hs' = "NEED_WRAP"
        /\ UNCHANGED <<task, next, finished>>

\* It takes nothing: less than a record is there, or it is not in a state to.
UnwrapsNothing ==
    /\ pc = "unwrap"
    /\ \/ Wanting /\ inbound = "open" /\ TooLittle /\ Unwraps("BUFFER_UNDERFLOW", 0, FALSE)
       \/ ~Wanting /\ Unwraps(IF inbound = "done" THEN "CLOSED" ELSE "OK", 0, FALSE)
    /\ UNCHANGED <<hs, task, next, inbound, finished>>

\* A SSLException: cells that are no record, a record the engine refuses, or the
\* failure of a task.  compact() is skipped.
UnwrapThrows ==
    /\ pc = "unwrap" /\ Wanting
    /\ inbound = "sick" \/ ~TooLittle
    /\ pc' = "switch"
    /\ inbound' = "done" /\ CloseOutbound
    /\ UNCHANGED <<peerVars, status, bufVars, answer, consumed, task, next, roomy,
                   finished, alert>>

\* compact(), and the switch on the status.  BUFFER_OVERFLOW does not occur: the
\* local peerAppData holds any record.
HandlesStatus ==
    /\ pc = "unwrapped"
    /\ peerBT' = IF status = "BUFFER_UNDERFLOW" THEN Underflowed(Compact) ELSE Compact
    /\ IF status # "CLOSED" THEN pc' = "switch" /\ UNCHANGED <<hs, outbound>>
       ELSE IF outbound = "done" THEN pc' = "returned" /\ UNCHANGED <<hs, outbound>>
       ELSE pc' = "switch" /\ CloseOutbound
    /\ UNCHANGED <<peerVars, status, taken, mySize, answer, consumed, task, next,
                   inbound, roomy, finished, alert>>

-----------------------------------------------------------------------------
(* NEED_WRAP and NEED_TASK.                                                *)

Cramped == roomy /\ mySize < PacketSize

WrapOverflows ==
    /\ Case("NEED_WRAP") /\ inbound # "sick" /\ Cramped
    /\ mySize' = Enlarged(mySize)
    /\ UNCHANGED <<peerVars, pc, status, taken, peerBT, answer, sslVars, alert>>

WrapThrows ==
    /\ Case("NEED_WRAP") /\ inbound = "sick"
    /\ inbound' = "done" /\ CloseOutbound
    /\ UNCHANGED <<peerVars, pc, status, bufVars, answer, consumed, task, next, roomy,
                   finished, alert>>

\* A flight, or the alert of a closed engine.
Wraps ==
    /\ Case("NEED_WRAP") /\ inbound # "sick" /\ ~Cramped
    /\ pc' = "write"
    /\ IF outbound = "closing"
       THEN status' = "CLOSED" /\ outbound' = "done" /\ hs' = "NOT_HANDSHAKING"
       ELSE status' = "OK" /\ hs' = "NEED_UNWRAP" /\ UNCHANGED outbound
    /\ UNCHANGED <<peerVars, bufVars, answer, consumed, task, next, inbound, roomy,
                   finished, alert>>

\* An IOException of mmOutStream.write() leaves doHandshake ...
WritesFlight ==
    /\ pc = "write" /\ status = "OK"
    /\ \/ open /\ pc' = "switch" /\ flights' = flights + 1
       \/ ~open /\ pc' = "thrown" /\ UNCHANGED flights
    /\ UNCHANGED <<script, sent, open, status, bufVars, answer, sslVars, alert>>

\* ... but is caught when the alert is written; peerBTData is then not cleared.
WritesAlert ==
    /\ pc = "write" /\ status = "CLOSED"
    /\ pc' = "switch"
    /\ \/ open /\ alert' = "written" /\ peerBT' = [peerBT EXCEPT !.pos = 0, !.lim = peerBT.cap]
       \/ ~open /\ alert' = "lost" /\ UNCHANGED peerBT
    /\ UNCHANGED <<peerVars, status, taken, mySize, answer, sslVars>>

\* The task goes to the executor, once, and the loop polls the engine's status.
Delegates ==
    /\ Case("NEED_TASK") /\ task = "wanted"
    /\ task' = "running"
    /\ UNCHANGED <<peerVars, pc, status, bufVars, answer, hs, consumed, next, inbound,
                   outbound, roomy, finished, alert>>

\* A task may fail: the next wrap or unwrap throws.
RunsTask ==
    /\ task = "running"
    /\ task' = "none" /\ hs' = next
    /\ inbound' \in {"open", "sick"}
    /\ UNCHANGED <<peerVars, pc, status, bufVars, answer, consumed, next, outbound, roomy,
                   finished, alert>>

-----------------------------------------------------------------------------
Thread == \/ Done \/ Reads \/ ReadThrows \/ ReadsEnd
          \/ UnwrapsRecord \/ UnwrapsClose \/ UnwrapsNothing \/ UnwrapThrows \/ HandlesStatus
          \/ WrapOverflows \/ WrapThrows \/ Wraps \/ WritesFlight \/ WritesAlert \/ Delegates

Next == Thread \/ RunsTask \/ PeerSends \/ PeerDisconnects

Spec == Init /\ [][Next]_vars

\* The thread and the executor run; the peer need neither send nor disconnect.
FairSpec == Spec /\ WF_vars(Thread) /\ WF_vars(RunsTask)

-----------------------------------------------------------------------------
(* Properties.                                                             *)

\* Whenever a read returns there is room in peerBTData for the whole array:
\* flip(), compact() and clear() leave it empty on every way round the loop, the
\* exceptions that skip compact() included.
PutHasRoom == pc # "crashed"

\* doHandshake returns true only when the handshake was completed, or the engine
\* was closed and its alert sent off: never in the middle of it.
NoEarlySuccess == answer => finished \/ alert # "none"

\* "Will try to properly close connection..." (BluetoothConnectionService.java:350):
\* after a failure of the engine doHandshake does not return before it has tried
\* to send the alert.
AlertBeforeReturn == pc = "returned" /\ inbound = "done" => alert # "none"

AwaitsPeer == Case("NEED_UNWRAP") /\ open /\ taken = sent

\* unwrap() is called again and again and takes nothing.
Spins == pc = "unwrap" /\ Remaining > 0 /\ (~Wanting \/ TooLittle)

\* doHandshake ends, or waits for the peer, or hangs in the loop around unwrap():
\* waiting for delegated tasks and enlarging buffers always come to an end.
HangsOnlyInUnwrapLoop == []<>(Ended \/ AwaitsPeer \/ Spins)
===============================================================================
