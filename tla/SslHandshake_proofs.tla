-------------------------- MODULE SslHandshake_proofs --------------------------
(***************************************************************************)
(* Proofs about SslHandshake, for buffers of any size and any peer.        *)
(***************************************************************************)
EXTENDS SslHandshake, TLAPS

BufferOK ==
    /\ peerBT \in [pos : Nat, lim : Nat, cap : Nat]
    /\ peerBT.pos <= peerBT.lim /\ peerBT.lim <= peerBT.cap
    /\ Cap <= peerBT.cap

StateOK ==
    /\ script \in Scripts
    /\ pc \in Steps /\ hs \in Status
    /\ inbound \in {"open", "sick", "done"}
    /\ outbound \in {"open", "closing", "done"}
    /\ answer \in BOOLEAN /\ finished \in BOOLEAN

Emptied == peerBT.pos = 0 /\ peerBT.lim = peerBT.cap

\* peerBTData is empty whenever the loop may read again; after an exception that
\* skipped compact() it may not be, but then the engine's inbound is done and it
\* asks for nothing but the alert.
BufferInv ==
    /\ pc = "unwrapped" => Remaining = 0
    /\ pc \in {"switch", "write"} /\ inbound # "done" => Emptied
    /\ pc = "crashed" => FALSE

\* What was read and not consumed is in peerBTData, and nothing else is: before
\* the loop reads again the engine has consumed all it read.
CellsInv ==
    /\ taken \in Nat /\ consumed \in Nat /\ consumed <= taken
    /\ pc \in {"unwrap", "unwrapped"} => taken - consumed <= Remaining
    /\ pc \in {"switch", "write"} /\ inbound # "done" => taken = consumed

\* How far the engine is closed.
EngineInv ==
    /\ inbound # "done" => outbound = "open"
    /\ inbound = "done" => hs \in {"NEED_WRAP", "NOT_HANDSHAKING"}
    /\ pc = "switch" /\ hs = "NEED_WRAP" /\ inbound = "done" => outbound = "closing"
    /\ pc = "unwrapped" => (status = "CLOSED" <=> inbound = "done") /\ outbound = "open"
    /\ pc = "unwrap" /\ inbound = "done" => outbound = "open" /\ hs = "NEED_WRAP"
    /\ pc = "write" /\ inbound = "done" => status = "CLOSED" /\ hs = "NOT_HANDSHAKING"
    /\ pc = "write" /\ inbound # "done" => status = "OK" /\ hs = "NEED_UNWRAP"

\* A delegated task exists only while the engine asks for it.
TaskInv ==
    /\ task # "none" => hs = "NEED_TASK" /\ inbound # "done"
    /\ task = "running" => pc = "switch"
    /\ hs = "NEED_TASK" => next \in {"NEED_WRAP", "NEED_UNWRAP"} /\ inbound # "done"

\* The loop's condition fails only after the handshake or its alert.
EndInv ==
    /\ pc \in {"switch", "unwrap", "unwrapped"} /\ hs = "NOT_HANDSHAKING"
           => finished \/ alert # "none"
    /\ pc = "returned" => finished \/ alert # "none"
    /\ answer => pc = "returned"
    /\ pc = "returned" /\ inbound = "done" => alert # "none"
    /\ pc = "switch" /\ hs = "NOT_HANDSHAKING" /\ inbound = "done" => alert # "none"

IInv == BufferOK /\ StateOK /\ BufferInv /\ CellsInv /\ EngineInv /\ TaskInv /\ EndInv

-----------------------------------------------------------------------------
LEMMA InitHolds == Init => IInv
<1> SUFFICES ASSUME Init PROVE IInv
  OBVIOUS
<1> USE HandshakeAssumption DEF Init
<1>1. BufferOK /\ BufferInv /\ CellsInv
  BY DEF BufferOK, BufferInv, CellsInv, Emptied
<1>2. StateOK /\ EngineInv /\ TaskInv /\ EndInv
  BY DEF StateOK, EngineInv, TaskInv, EndInv, Steps, Status
<1> QED
  BY <1>1, <1>2 DEF IInv

LEMMA DoneKeeps == IInv /\ Done => IInv'
<1> SUFFICES ASSUME IInv, Done PROVE IInv'
  OBVIOUS
<1> USE HandshakeAssumption DEF IInv, Done, Finished, peerVars, bufVars, sslVars
<1>1. BufferOK' /\ BufferInv' /\ CellsInv'
  BY DEF BufferOK, StateOK, BufferInv, CellsInv, EngineInv, TaskInv, Emptied, Remaining
<1>2. StateOK'
  BY DEF StateOK, TaskInv, Steps, Status
<1>3. EngineInv' /\ TaskInv'
  BY DEF StateOK, EngineInv, TaskInv, Status
<1>4. EndInv'
  BY DEF StateOK, EngineInv, TaskInv, EndInv
<1> QED
  BY <1>1, <1>2, <1>3, <1>4

LEMMA PeerDisconnectsKeeps == IInv /\ PeerDisconnects => IInv'
<1> SUFFICES ASSUME IInv, PeerDisconnects PROVE IInv'
  OBVIOUS
<1> USE HandshakeAssumption DEF IInv, PeerDisconnects, peerVars, bufVars, sslVars
<1>1. BufferOK' /\ BufferInv' /\ CellsInv'
  BY DEF BufferOK, StateOK, BufferInv, CellsInv, EngineInv, TaskInv, Emptied, Remaining
<1>2. StateOK'
  BY DEF StateOK, TaskInv, Steps, Status
<1>3. EngineInv' /\ TaskInv'
  BY DEF StateOK, EngineInv, TaskInv, Status
<1>4. EndInv'
  BY DEF StateOK, EngineInv, TaskInv, EndInv
<1> QED
  BY <1>1, <1>2, <1>3, <1>4

LEMMA ReadThrowsKeeps == IInv /\ ReadThrows => IInv'
<1> SUFFICES ASSUME IInv, ReadThrows PROVE IInv'
  OBVIOUS
<1> USE HandshakeAssumption DEF IInv, ReadThrows, Case, peerVars, bufVars, sslVars
<1>1. BufferOK' /\ BufferInv' /\ CellsInv'
  BY DEF BufferOK, StateOK, BufferInv, CellsInv, EngineInv, TaskInv, Emptied, Remaining
<1>2. StateOK'
  BY DEF StateOK, TaskInv, Steps, Status
<1>3. EngineInv' /\ TaskInv'
  BY DEF StateOK, EngineInv, TaskInv, Status
<1>4. EndInv'
  BY DEF StateOK, EngineInv, TaskInv, EndInv
<1> QED
  BY <1>1, <1>2, <1>3, <1>4

LEMMA ReadsEndKeeps == IInv /\ ReadsEnd => IInv'
<1> SUFFICES ASSUME IInv, ReadsEnd PROVE IInv'
  OBVIOUS
<1> USE HandshakeAssumption DEF IInv, ReadsEnd, Case, CloseOutbound, peerVars, bufVars, sslVars
<1>1. BufferOK' /\ BufferInv' /\ CellsInv'
  BY DEF BufferOK, StateOK, BufferInv, CellsInv, EngineInv, TaskInv, Emptied, Remaining
<1>2. StateOK'
  BY DEF StateOK, TaskInv, Steps, Status
<1>3. EngineInv' /\ TaskInv'
  BY DEF StateOK, EngineInv, TaskInv, Status
<1>4. EndInv'
  BY DEF StateOK, EngineInv, TaskInv, EndInv
<1> QED
  BY <1>1, <1>2, <1>3, <1>4

LEMMA UnwrapsNothingKeeps == IInv /\ UnwrapsNothing => IInv'
<1> SUFFICES ASSUME IInv, UnwrapsNothing PROVE IInv'
  OBVIOUS
<1> USE HandshakeAssumption DEF IInv
<1> DEFINE Left == peerBT.lim - peerBT.pos
<1>1. UNCHANGED <<peerVars, taken, consumed, answer, outbound, alert, hs, task, next, inbound, finished>>
  <2>1. consumed' = consumed
    <3>1. consumed' = consumed + 0
      BY DEF UnwrapsNothing, Unwraps
    <3> QED
      BY <3>1 DEF CellsInv
  <2> QED
    BY <2>1 DEF UnwrapsNothing, Unwraps
<1>2. pc = "unwrap" /\ pc' = IF Left > 0 THEN "unwrap" ELSE "unwrapped"
  <2>1. Left \in Nat /\ Left - 0 = Left
    BY DEF BufferOK
  <2> QED
    BY <2>1 DEF UnwrapsNothing, Unwraps, LoopsOn, Remaining
<1>3. peerBT' = peerBT
  <2>1. peerBT' = [peerBT EXCEPT !.pos = peerBT.pos + 0]
    BY DEF UnwrapsNothing, Unwraps
  <2>2. peerBT.pos + 0 = peerBT.pos
    BY DEF BufferOK
  <2> QED
    BY <2>1, <2>2 DEF BufferOK
<1>4. inbound = "done" <=> status' = "CLOSED"
  BY DEF UnwrapsNothing, Unwraps, Wanting
<1>5. BufferOK' /\ BufferInv' /\ CellsInv'
  BY <1>1, <1>2, <1>3 DEF BufferOK, BufferInv, CellsInv, Remaining
<1>6. StateOK' /\ EngineInv' /\ TaskInv' /\ EndInv'
  BY <1>1, <1>2, <1>4 DEF StateOK, EngineInv, TaskInv, EndInv, Steps, peerVars
<1> QED
  BY <1>5, <1>6

LEMMA UnwrapThrowsKeeps == IInv /\ UnwrapThrows => IInv'
<1> SUFFICES ASSUME IInv, UnwrapThrows PROVE IInv'
  OBVIOUS
<1> USE HandshakeAssumption DEF IInv, UnwrapThrows, CloseOutbound, Wanting, peerVars, bufVars, sslVars
<1>1. BufferOK' /\ BufferInv' /\ CellsInv'
  BY DEF BufferOK, StateOK, BufferInv, CellsInv, EngineInv, TaskInv, Emptied, Remaining
<1>2. StateOK'
  BY DEF StateOK, TaskInv, Steps, Status
<1>3. EngineInv' /\ TaskInv'
  BY DEF StateOK, EngineInv, TaskInv, Status
<1>4. EndInv'
  BY DEF StateOK, EngineInv, TaskInv, EndInv
<1> QED
  BY <1>1, <1>2, <1>3, <1>4

\* What a call of enlargeBuffer returns is larger than what it was given.
LEMMA EnlargedGrows == \A cap \in Nat : cap >= Cap => Enlarged(cap) \in Nat /\ Enlarged(cap) > cap
BY HandshakeAssumption DEF Enlarged

LEMMA HandlesStatusKeeps == IInv /\ HandlesStatus => IInv'
<1> SUFFICES ASSUME IInv, HandlesStatus PROVE IInv'
  OBVIOUS
<1> USE DEF IInv, HandlesStatus
<1>1. Compact = [pos |-> 0, lim |-> peerBT.cap, cap |-> peerBT.cap]
  <2>1. Remaining = 0
    BY DEF BufferInv
  <2>2. Compact = [peerBT EXCEPT !.pos = 0, !.lim = peerBT.cap]
    BY <2>1 DEF Compact
  <2> QED
    BY <2>2 DEF BufferOK
<1>2. \E n \in Nat : n >= Cap /\ peerBT' = [pos |-> 0, lim |-> n, cap |-> n]
  <2>1. peerBT.cap \in Nat /\ peerBT.cap >= Cap
    BY HandshakeAssumption DEF BufferOK
  <2>2. Enlarged(peerBT.cap) \in Nat /\ Enlarged(peerBT.cap) >= Cap
    BY <2>1, EnlargedGrows, HandshakeAssumption
  <2> QED
    BY <1>1, <2>1, <2>2 DEF Underflowed
<1>3. BufferOK' /\ Emptied'
  <2>1. PICK n \in Nat : n >= Cap /\ peerBT' = [pos |-> 0, lim |-> n, cap |-> n]
    BY <1>2
  <2> QED
    BY <2>1, HandshakeAssumption DEF BufferOK, Emptied
<1>4. BufferInv' /\ CellsInv'
  BY <1>3 DEF BufferInv, CellsInv, Remaining, BufferOK, EngineInv, CloseOutbound
<1>5. StateOK'
  BY DEF StateOK, Steps, Status, CloseOutbound, peerVars
<1>6. EngineInv' /\ TaskInv'
  <2>1. UNCHANGED <<task, next, inbound>> /\ task # "running"
    BY DEF TaskInv
  <2>2. CASE status # "CLOSED"
    <3>1. pc' = "switch" /\ UNCHANGED <<hs, outbound>> /\ inbound # "done"
      BY <2>2 DEF EngineInv
    <3> QED
      BY <2>1, <3>1 DEF EngineInv, TaskInv
  <2>3. CASE status = "CLOSED" /\ outbound = "done"
    <3>1. pc' = "returned" /\ UNCHANGED <<hs, outbound>>
      BY <2>3
    <3> QED
      BY <2>1, <3>1 DEF EngineInv, TaskInv
  <2>4. CASE status = "CLOSED" /\ outbound # "done"
    <3>1. pc' = "switch" /\ CloseOutbound
      BY <2>4
    <3> QED
      BY <2>1, <2>4, <3>1 DEF EngineInv, TaskInv, CloseOutbound, StateOK
  <2> QED
    BY <2>2, <2>3, <2>4
<1>7. EndInv'
  BY DEF StateOK, EngineInv, TaskInv, EndInv, CloseOutbound
<1> QED
  BY <1>3, <1>4, <1>5, <1>6, <1>7

LEMMA WrapOverflowsKeeps == IInv /\ WrapOverflows => IInv'
<1> SUFFICES ASSUME IInv, WrapOverflows PROVE IInv'
  OBVIOUS
<1> USE HandshakeAssumption DEF IInv, WrapOverflows, Case, Cramped, Enlarged, peerVars, bufVars, sslVars
<1>1. BufferOK' /\ BufferInv' /\ CellsInv'
  BY DEF BufferOK, StateOK, BufferInv, CellsInv, EngineInv, TaskInv, Emptied, Remaining
<1>2. StateOK'
  BY DEF StateOK, TaskInv, Steps, Status
<1>3. EngineInv' /\ TaskInv'
  BY DEF StateOK, EngineInv, TaskInv, Status
<1>4. EndInv'
  BY DEF StateOK, EngineInv, TaskInv, EndInv
<1> QED
  BY <1>1, <1>2, <1>3, <1>4

LEMMA WrapThrowsKeeps == IInv /\ WrapThrows => IInv'
<1> SUFFICES ASSUME IInv, WrapThrows PROVE IInv'
  OBVIOUS
<1> USE HandshakeAssumption DEF IInv, WrapThrows, Case, CloseOutbound, peerVars, bufVars, sslVars
<1>1. BufferOK' /\ BufferInv' /\ CellsInv'
  BY DEF BufferOK, StateOK, BufferInv, CellsInv, EngineInv, TaskInv, Emptied, Remaining
<1>2. StateOK'
  BY DEF StateOK, TaskInv, Steps, Status
<1>3. EngineInv' /\ TaskInv'
  BY DEF StateOK, EngineInv, TaskInv, Status
<1>4. EndInv'
  BY DEF StateOK, EngineInv, TaskInv, EndInv
<1> QED
  BY <1>1, <1>2, <1>3, <1>4

LEMMA WrapsKeeps == IInv /\ Wraps => IInv'
<1> SUFFICES ASSUME IInv, Wraps PROVE IInv'
  OBVIOUS
<1> USE HandshakeAssumption DEF IInv, Wraps, Case, peerVars, bufVars, sslVars
<1>1. BufferOK' /\ BufferInv' /\ CellsInv'
  BY DEF BufferOK, StateOK, BufferInv, CellsInv, EngineInv, TaskInv, Emptied, Remaining
<1>2. StateOK'
  BY DEF StateOK, TaskInv, Steps, Status
<1>3. EngineInv' /\ TaskInv'
  BY DEF StateOK, EngineInv, TaskInv, Status
<1>4. EndInv'
  BY DEF StateOK, EngineInv, TaskInv, EndInv
<1> QED
  BY <1>1, <1>2, <1>3, <1>4

LEMMA WritesFlightKeeps == IInv /\ WritesFlight => IInv'
<1> SUFFICES ASSUME IInv, WritesFlight PROVE IInv'
  OBVIOUS
<1> USE HandshakeAssumption DEF IInv, WritesFlight, peerVars, bufVars, sslVars
<1>1. BufferOK' /\ BufferInv' /\ CellsInv'
  BY DEF BufferOK, StateOK, BufferInv, CellsInv, EngineInv, TaskInv, Emptied, Remaining
<1>2. StateOK'
  BY DEF StateOK, TaskInv, Steps, Status
<1>3. EngineInv' /\ TaskInv'
  BY DEF StateOK, EngineInv, TaskInv, Status
<1>4. EndInv'
  BY DEF StateOK, EngineInv, TaskInv, EndInv
<1> QED
  BY <1>1, <1>2, <1>3, <1>4

LEMMA WritesAlertKeeps == IInv /\ WritesAlert => IInv'
<1> SUFFICES ASSUME IInv, WritesAlert PROVE IInv'
  OBVIOUS
<1> USE HandshakeAssumption DEF IInv, WritesAlert, peerVars, bufVars, sslVars
<1>1. BufferOK' /\ BufferInv' /\ CellsInv'
  <2>1. inbound = "done" /\ inbound' = inbound /\ pc' = "switch"
    BY DEF StateOK, EngineInv
  <2>2. BufferOK'
    <3>1. CASE peerBT' = peerBT
      BY <3>1 DEF BufferOK
    <3>2. CASE peerBT' = [peerBT EXCEPT !.pos = 0, !.lim = peerBT.cap]
      <4>1. peerBT' = [pos |-> 0, lim |-> peerBT.cap, cap |-> peerBT.cap]
        BY <3>2 DEF BufferOK
      <4> QED
        BY <4>1 DEF BufferOK
    <3> QED
      BY <3>1, <3>2
  <2>3. BufferInv' /\ CellsInv'
    BY <2>1 DEF BufferInv, CellsInv
  <2> QED
    BY <2>2, <2>3
<1>2. StateOK'
  BY DEF StateOK, TaskInv, Steps, Status
<1>3. EngineInv' /\ TaskInv'
  BY DEF StateOK, EngineInv, TaskInv, Status
<1>4. EndInv'
  BY DEF StateOK, EngineInv, TaskInv, EndInv
<1> QED
  BY <1>1, <1>2, <1>3, <1>4

LEMMA DelegatesKeeps == IInv /\ Delegates => IInv'
<1> SUFFICES ASSUME IInv, Delegates PROVE IInv'
  OBVIOUS
<1> USE HandshakeAssumption DEF IInv, Delegates, Case, peerVars, bufVars, sslVars
<1>1. BufferOK' /\ BufferInv' /\ CellsInv'
  BY DEF BufferOK, StateOK, BufferInv, CellsInv, EngineInv, TaskInv, Emptied, Remaining
<1>2. StateOK'
  BY DEF StateOK, TaskInv, Steps, Status
<1>3. EngineInv' /\ TaskInv'
  BY DEF StateOK, EngineInv, TaskInv, Status
<1>4. EndInv'
  BY DEF StateOK, EngineInv, TaskInv, EndInv
<1> QED
  BY <1>1, <1>2, <1>3, <1>4

LEMMA RunsTaskKeeps == IInv /\ RunsTask => IInv'
<1> SUFFICES ASSUME IInv, RunsTask PROVE IInv'
  OBVIOUS
<1> USE HandshakeAssumption DEF IInv, RunsTask, peerVars, bufVars, sslVars
<1>1. BufferOK' /\ BufferInv' /\ CellsInv'
  BY DEF BufferOK, StateOK, BufferInv, CellsInv, EngineInv, TaskInv, Emptied, Remaining
<1>2. StateOK'
  BY DEF StateOK, TaskInv, Steps, Status
<1>3. EngineInv' /\ TaskInv'
  BY DEF StateOK, EngineInv, TaskInv, Status
<1>4. EndInv'
  BY DEF StateOK, EngineInv, TaskInv, EndInv
<1> QED
  BY <1>1, <1>2, <1>3, <1>4

LEMMA PeerSendsKeeps == IInv /\ PeerSends => IInv'
<1> SUFFICES ASSUME IInv, PeerSends PROVE IInv'
  OBVIOUS
<1> USE DEF IInv, PeerSends, bufVars, sslVars
<1>1. BufferOK' /\ BufferInv' /\ CellsInv'
  BY DEF BufferOK, BufferInv, CellsInv, Emptied, Remaining
<1>2. StateOK'
  BY DEF StateOK
<1>3. EngineInv' /\ TaskInv' /\ EndInv'
  BY DEF EngineInv, TaskInv, EndInv
<1> QED
  BY <1>1, <1>2, <1>3

\* A read finds peerBTData empty: there is room for the whole array, and what was
\* read is what remains.
LEMMA ReadsKeeps == IInv /\ Reads => IInv'
<1> SUFFICES ASSUME IInv, Reads PROVE IInv'
  OBVIOUS
<1> USE DEF IInv
<1>1. pc = "switch" /\ hs = "NEED_UNWRAP" /\ inbound # "done"
  BY DEF Reads, Case, EngineInv
<1>2. peerBT.pos = 0 /\ Remaining >= Cap /\ taken = consumed
  BY <1>1, HandshakeAssumption DEF BufferOK, BufferInv, CellsInv, Emptied, Remaining
<1>3. PICK n \in 1..Cap : taken' = taken + n
  BY DEF Reads
<1>4. pc' = "unwrap" /\ peerBT' = [peerBT EXCEPT !.pos = 0, !.lim = peerBT.pos + Cap]
  BY <1>2, HandshakeAssumption DEF Reads, BufferOK, Remaining
<1>5. UNCHANGED <<peerVars, answer, sslVars, alert>>
  BY DEF Reads
<1>6. BufferOK' /\ BufferInv' /\ CellsInv'
  <2>1. peerBT' = [pos |-> 0, lim |-> Cap, cap |-> peerBT.cap]
    <3>1. peerBT.pos + Cap = Cap
      BY <1>2, HandshakeAssumption
    <3> QED
      BY <1>4, <3>1 DEF BufferOK
  <2> QED
    BY <2>1, <1>2, <1>3, <1>4, <1>5, HandshakeAssumption
    DEF BufferOK, BufferInv, CellsInv, Remaining, sslVars
<1>7. StateOK' /\ EngineInv' /\ TaskInv' /\ EndInv'
  <2>1. task # "running"
    BY <1>1 DEF TaskInv
  <2> QED
    BY <2>1, <1>1, <1>4, <1>5
    DEF StateOK, EngineInv, TaskInv, EndInv, Steps, peerVars, sslVars
<1> QED
  BY <1>6, <1>7

\* A record has at least a cell, and a whole one lies within what remains.
LEMMA RecordFits ==
    ASSUME IInv, NEW r \in script, pc = "unwrap", Whole(r)
    PROVE  r.to - consumed \in 1..Remaining /\ consumed + (r.to - consumed) <= taken
<1> USE DEF IInv
<1>1. r \in Records /\ r.from + HeaderLen <= r.to + 1
  BY HandshakeAssumption DEF StateOK
<1>2. r.from = consumed + 1 /\ r.to <= taken /\ r.to \in Nat /\ r.from \in Nat
  BY <1>1 DEF Whole, Following, Records
<1>3. taken - consumed <= Remaining /\ taken \in Nat /\ consumed \in Nat /\ Remaining \in Nat
  BY DEF CellsInv, BufferOK, Remaining
<1> QED
  BY <1>1, <1>2, <1>3, HandshakeAssumption

\* What taking n cells does to the buffer, whatever the engine says of them.
LEMMA UnwrapsKeepsBuffer ==
    ASSUME IInv, pc = "unwrap", NEW st, NEW produced \in BOOLEAN, NEW n \in 1..Remaining,
           consumed + n <= taken, Unwraps(st, n, produced)
    PROVE  BufferOK' /\ BufferInv' /\ CellsInv'
<1> USE DEF IInv
<1>1. /\ consumed' = consumed + n /\ taken' = taken
      /\ peerBT' = [peerBT EXCEPT !.pos = peerBT.pos + n]
      /\ pc' = IF produced \/ Remaining - n > 0 THEN "unwrap" ELSE "unwrapped"
  BY DEF Unwraps, LoopsOn
<1>2. peerBT' = [pos |-> peerBT.pos + n, lim |-> peerBT.lim, cap |-> peerBT.cap]
  BY <1>1 DEF BufferOK
<1>3. Remaining \in Nat /\ Remaining' = Remaining - n
  BY <1>2 DEF BufferOK, Remaining
<1>4. BufferOK'
  BY <1>2 DEF BufferOK, Remaining
<1>5. BufferInv' /\ CellsInv'
  BY <1>1, <1>3 DEF BufferInv, CellsInv
<1> QED
  BY <1>4, <1>5

LEMMA UnwrapsRecordKeeps == IInv /\ UnwrapsRecord => IInv'
<1> SUFFICES ASSUME IInv, UnwrapsRecord PROVE IInv'
  OBVIOUS
<1>1. PICK r \in script :
        /\ pc = "unwrap" /\ Wanting /\ inbound = "open" /\ Whole(r) /\ r.kind # "close"
        /\ Unwraps("OK", r.to - consumed, r.kind = "data")
        /\ \/ /\ hs' = After(r)
              /\ finished' = (After(r) = "NOT_HANDSHAKING")
              /\ UNCHANGED <<task, next>>
           \/ /\ After(r) # "NOT_HANDSHAKING"
              /\ hs' = "NEED_TASK" /\ task' = "wanted" /\ next' = After(r)
              /\ UNCHANGED finished
        /\ UNCHANGED inbound
  BY DEF UnwrapsRecord
<1>2. BufferOK' /\ BufferInv' /\ CellsInv'
  <2>1. r.to - consumed \in 1..Remaining /\ consumed + (r.to - consumed) <= taken
    BY <1>1, RecordFits
  <2> QED
    BY <1>1, <2>1, UnwrapsKeepsBuffer
<1>3. /\ UNCHANGED <<peerVars, answer, outbound, alert>> /\ status' = "OK"
      /\ pc' \in {"unwrap", "unwrapped"}
  BY <1>1 DEF Unwraps
<1>4. After(r) \in {"NEED_UNWRAP", "NEED_WRAP", "NOT_HANDSHAKING"}
  BY DEF After
<1>5. task = "none"
  BY <1>1 DEF IInv, TaskInv, Wanting
<1>6. StateOK' /\ EngineInv' /\ TaskInv' /\ EndInv'
  <2> USE DEF IInv, StateOK, Steps, Status
  <2>1. hs' \in Status /\ finished' \in BOOLEAN
    BY <1>1, <1>4
  <2>2. StateOK' /\ EngineInv'
    BY <1>1, <1>3, <2>1 DEF peerVars, EngineInv
  <2>3. TaskInv'
    BY <1>1, <1>3, <1>4, <1>5 DEF TaskInv
  <2>4. EndInv'
    BY <1>1, <1>3, <1>4 DEF EndInv
  <2> QED
    BY <2>2, <2>3, <2>4
<1> QED
  BY <1>2, <1>6 DEF IInv

LEMMA UnwrapsCloseKeeps == IInv /\ UnwrapsClose => IInv'
<1> SUFFICES ASSUME IInv, UnwrapsClose PROVE IInv'
  OBVIOUS
<1>1. PICK r \in script :
        /\ pc = "unwrap" /\ Wanting /\ inbound = "open" /\ Whole(r)
        /\ Unwraps("CLOSED", r.to - consumed, FALSE)
        /\ inbound' = "done" /\ hs' = "NEED_WRAP"
        /\ UNCHANGED <<task, next, finished>>
  BY DEF UnwrapsClose
<1>2. BufferOK' /\ BufferInv' /\ CellsInv'
  <2>1. r.to - consumed \in 1..Remaining /\ consumed + (r.to - consumed) <= taken
    BY <1>1, RecordFits
  <2> QED
    BY <1>1, <2>1, UnwrapsKeepsBuffer
<1>3. /\ UNCHANGED <<peerVars, answer, outbound, alert>> /\ status' = "CLOSED"
      /\ pc' \in {"unwrap", "unwrapped"}
  BY <1>1 DEF Unwraps
<1>4. task = "none"
  BY <1>1 DEF IInv, TaskInv, Wanting
<1>5. StateOK' /\ EngineInv' /\ TaskInv' /\ EndInv'
  BY <1>1, <1>3, <1>4
  DEF IInv, StateOK, EngineInv, TaskInv, EndInv, Steps, Status, peerVars
<1> QED
  BY <1>2, <1>5 DEF IInv

-----------------------------------------------------------------------------
LEMMA StepKeeps == IInv /\ [Next]_vars => IInv'
<1> SUFFICES ASSUME IInv, [Next]_vars PROVE IInv'
  OBVIOUS
<1>1. CASE Thread
  BY <1>1, DoneKeeps, ReadsKeeps, ReadThrowsKeeps, ReadsEndKeeps, UnwrapsRecordKeeps,
     UnwrapsCloseKeeps, UnwrapsNothingKeeps, UnwrapThrowsKeeps, HandlesStatusKeeps,
     WrapOverflowsKeeps, WrapThrowsKeeps, WrapsKeeps, WritesFlightKeeps, WritesAlertKeeps,
     DelegatesKeeps DEF Thread
<1>2. CASE RunsTask \/ PeerSends \/ PeerDisconnects
  BY <1>2, RunsTaskKeeps, PeerSendsKeeps, PeerDisconnectsKeeps
<1>3. CASE UNCHANGED vars
  BY <1>3 DEF vars, peerVars, bufVars, sslVars, IInv, BufferOK, StateOK, BufferInv, CellsInv,
     EngineInv, TaskInv, EndInv, Emptied, Remaining
<1> QED
  BY <1>1, <1>2, <1>3 DEF Next

LEMMA Inductive == Spec => []IInv
BY InitHolds, StepKeeps, PTL DEF Spec

\* For buffers of any size, whatever the peer sends in whatever pieces, there is
\* room for the whole array whenever a read returns (PutHasRoom of the run).
THEOREM RoomForReads == Spec => []PutHasRoom
<1>1. IInv => PutHasRoom
  BY DEF IInv, BufferInv, PutHasRoom
<1> QED
  BY <1>1, Inductive, PTL

\* doHandshake never returns true in the middle of the handshake: only when the
\* engine completed it, or was closed and its alert sent off (NoEarlySuccess).
THEOREM NoFalseSuccess == Spec => []NoEarlySuccess
<1>1. IInv => NoEarlySuccess
  BY DEF IInv, EndInv, NoEarlySuccess
<1> QED
  BY <1>1, Inductive, PTL

\* After a failure of the engine doHandshake tries to send the alert before it
\* returns (AlertBeforeReturn).
THEOREM AlertSent == Spec => []AlertBeforeReturn
<1>1. IInv => AlertBeforeReturn
  BY DEF IInv, EndInv, AlertBeforeReturn
<1> QED
  BY <1>1, Inductive, PTL

\* When the loop reads again after anything but a failure, the engine has consumed
\* every cell that was read: compact() and the loop around unwrap() lose none.
THEOREM NothingLeftBehind ==
    Spec => [](Case("NEED_UNWRAP") => taken = consumed /\ Remaining = peerBT.cap)
<1>1. IInv => (Case("NEED_UNWRAP") => taken = consumed /\ Remaining = peerBT.cap)
  BY DEF IInv, Case, BufferOK, BufferInv, CellsInv, EngineInv, Emptied, Remaining
<1> QED
  BY <1>1, Inductive, PTL

===============================================================================
