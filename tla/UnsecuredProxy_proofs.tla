------------------------- MODULE UnsecuredProxy_proofs -------------------------
(***************************************************************************)
(* Proofs about UnsecuredProxy for every buffer size, message size, number *)
(* of bytes and frames, and queue capacity: what readGeonet hands the app  *)
(* and what writeGeonet puts on lo.  The two directions only share lo, and *)
(* have an inductive invariant each.                                       *)
(***************************************************************************)
EXTENDS UnsecuredProxy, TLAPS

-----------------------------------------------------------------------------
(* The packet socket.                                                      *)

\* A frame on lo is added to the queue once, not at all, or, before bind(),
\* twice; what waits stays where it is.
LEMMA OnLoAppends ==
    ASSUME queue \in Seq(Frames), NEW f \in Frames, OnLo(f)
    PROVE  /\ queue' \in Seq(Frames)
           /\ Len(queue') \in Len(queue)..(Len(queue) + 2)
           /\ Len(queue') = Len(queue) + 2 => rpc = "bind"
           /\ \A i \in 1..Len(queue') : queue'[i] = IF i <= Len(queue) THEN queue[i] ELSE f
<1>1. CASE queue' = queue
  BY <1>1
<1>2. CASE queue' = Append(queue, f)
  BY <1>2
<1>3. CASE queue' = queue \o <<f, f>> /\ rpc = "bind"
  <2>1. <<f, f>> \in Seq(Frames) /\ Len(<<f, f>>) = 2 /\ <<f, f>>[1] = f /\ <<f, f>>[2] = f
    OBVIOUS
  <2> QED BY <1>3, <2>1
<1> QED BY <1>1, <1>2, <1>3 DEF OnLo, Copies

\* What the writer and the others put on lo are frames.
LEMMA FramesOnLo ==
    /\ [hdr |-> ZeroHeader, id |-> 0, big |-> FALSE] \in Frames
    /\ \A h \in Headers, n \in 0..MaxCar, b \in BOOLEAN :
           [hdr |-> h, id |-> n, big |-> b] \in Frames
    /\ ZeroHeader \in Headers /\ TaggedHeader \in Headers
  BY ProxyAssumption DEF Frames, ZeroHeader, TaggedHeader, Headers, Macs, EtherTypes,
     OwnMac, TaggedMac, OtherMac, GeoNetType, NoType, OtherType

-----------------------------------------------------------------------------
(* Type correctness.                                                       *)

LEMMA InitType == Init => TypeOK
  BY ProxyAssumption, FramesOnLo DEF Init, TypeOK, Buffers, ZeroBuf, Cells, NoFrame

LEMMA NextType == TypeOK /\ [Next]_vars => TypeOK'
<1> SUFFICES ASSUME TypeOK, [Next]_vars PROVE TypeOK'
  OBVIOUS
<1> USE ProxyAssumption, FramesOnLo DEF TypeOK, appVars, writerVars, loVars, readerVars
<1>1. CASE AppWrites
  BY <1>1 DEF AppWrites
<1>2. CASE AppDisconnects
  BY <1>2 DEF AppDisconnects
<1>3. CASE CarSends
  <2>1. PICK h \in CarHeaders, big \in BOOLEAN :
            /\ carSent < MaxCar /\ carSent' = carSent + 1
            /\ early' = IF rpc = "bind" THEN carSent + 1 ELSE early
            /\ OnLo([hdr |-> h, id |-> carSent + 1, big |-> big])
            /\ UNCHANGED <<appVars, writerVars, readerVars, routed>>
    BY <1>3 DEF CarSends
  <2>2. [hdr |-> h, id |-> carSent + 1, big |-> big] \in Frames
    BY <2>1
  <2>3. queue' \in Seq(Frames)
    BY <2>1, <2>2, OnLoAppends
  <2> QED BY <2>1, <2>3
<1>4. CASE WriterReads
  <2>1. PICK n \in Cells : /\ taken + n <= written /\ bytes_read' = n
                           /\ buf' = Filled(taken, n) /\ taken' = taken + n
                           /\ wpc' = "send"
                           /\ UNCHANGED <<written, connected, header, frames, lost,
                                          loVars, readerVars, routed>>
    BY <1>4 DEF WriterReads
  <2>2. buf' \in Buffers
    BY <2>1 DEF Filled, Buffers, Cells
  <2> QED BY <2>1, <2>2 DEF Cells
<1>5. CASE WriterReadsNothing
  BY <1>5 DEF WriterReadsNothing, ZeroBuf, Buffers, Cells
<1>6. CASE WriterSends
  <2>1. /\ wpc' = "read" /\ header' = ZeroHeader
        /\ UNCHANGED <<appVars, buf, bytes_read, carSent, early, readerVars>>
    BY <1>6 DEF WriterSends
  <2>2. CASE /\ frames' = Append(frames, [hdr |-> header', data |-> buf])
             /\ OnLo([hdr |-> header', id |-> 0, big |-> FALSE])
             /\ routed' = IF RouterIndicates(header') THEN Append(routed, header') ELSE routed
             /\ UNCHANGED lost
    <3>1. queue' \in Seq(Frames)
      BY <2>1, <2>2, OnLoAppends
    <3>2. [hdr |-> header', data |-> buf] \in [hdr : Headers, data : Buffers]
      BY <2>1
    <3>3. frames' \in Seq([hdr : Headers, data : Buffers])
      BY <2>2, <3>2
    <3>4. routed' \in Seq(Headers)
      BY <2>1, <2>2
    <3> QED BY <2>1, <2>2, <3>1, <3>3, <3>4
  <2>3. CASE /\ lost' = lost \cup {buf[i] : i \in {j \in Cells : buf[j] # 0}}
             /\ UNCHANGED <<frames, queue, routed>>
    <3>1. \A a \in Cells : buf[a] # 0 => buf[a] \in 1..MaxBytes
      BY DEF Buffers
    <3>2. lost' \subseteq 1..MaxBytes
      BY <2>3, <3>1
    <3> QED BY <2>1, <2>3, <3>2
  <2> QED BY <1>6, <2>2, <2>3 DEF WriterSends
<1>7. CASE WriterKilled
  BY <1>7 DEF WriterKilled
<1>8. CASE ReaderBinds
  BY <1>8 DEF ReaderBinds
<1>9. CASE ReaderReceives
  <2>1. Tail(queue) \in Seq(Frames) /\ Head(queue) \in Frames
    BY <1>9 DEF ReaderReceives
  <2>2. rpc' \in {"recv", "write"} /\ cur' \in Frames
    BY <1>9, <2>1 DEF ReaderReceives
  <2>3. UNCHANGED <<appVars, writerVars, carSent, early, toApp, routed>> /\ queue' = Tail(queue)
    BY <1>9 DEF ReaderReceives
  <2> QED BY <2>1, <2>2, <2>3
<1>10. CASE ReaderWrites
  <2>1. cur.id \in 0..MaxCar
    BY DEF Frames
  <2>2. toApp' \in Seq(0..MaxCar)
    <3>1. \A n \in 0..MaxCar : Append(toApp, n) \in Seq(0..MaxCar)
      OBVIOUS
    <3>2. toApp' = Append(toApp, cur.id) \/ toApp' = toApp
      BY <1>10 DEF ReaderWrites
    <3> QED BY <2>1, <3>1, <3>2
  <2>3. rpc' = "recv" /\ UNCHANGED <<appVars, writerVars, loVars, cur, routed>>
    BY <1>10 DEF ReaderWrites
  <2> QED BY <2>2, <2>3
<1>11. CASE ReaderEnds
  BY <1>11 DEF ReaderEnds
<1>12. CASE UNCHANGED vars
  BY <1>12 DEF vars
<1> QED BY <1>1, <1>2, <1>3, <1>4, <1>5, <1>6, <1>7, <1>8, <1>9, <1>10, <1>11, <1>12
        DEF Next, App, Writer, Reader

\* The state of both processes, of the stream and of lo keeps its type.
THEOREM TypeCorrect == Spec => []TypeOK
  BY InitType, NextType, PTL DEF Spec

-----------------------------------------------------------------------------
(* From lo to the app.  A frame of the others moves from the queue to cur to *)
(* toApp; the order of their numbers holds along that whole way, and two     *)
(* copies of one frame are next to each other wherever they are.             *)

\* Numbers in use.
IdsSent ==
    /\ \A j \in 1..Len(queue) : queue[j].id <= carSent
    /\ cur.id <= carSent
    /\ \A m \in 1..Len(toApp) : toApp[m] <= carSent

\* A frame of writeGeonet has the header memset made, so it is never relayed.
OwnFrames ==
    /\ \A j \in 1..Len(queue) : queue[j].id = 0 => queue[j].hdr = ZeroHeader
    /\ rpc = "write" => cur.id # 0

\* k precedes l, or is its twin from before bind().
Twin(k, l) == k = l /\ k <= early

QueueOrder ==
    \A i, j \in 1..Len(queue) : i < j /\ queue[i].id # 0 /\ queue[j].id # 0 =>
        \/ queue[i].id < queue[j].id
        \/ Twin(queue[i].id, queue[j].id) /\ j = i + 1

CurOrder ==
    rpc = "write" => \A j \in 1..Len(queue) : queue[j].id # 0 =>
        cur.id < queue[j].id \/ (Twin(cur.id, queue[j].id) /\ j = 1)

DoneOrder ==
    \A m \in 1..Len(toApp), j \in 1..Len(queue) : queue[j].id # 0 =>
        \/ toApp[m] < queue[j].id
        \/ Twin(toApp[m], queue[j].id) /\ j = 1 /\ m = Len(toApp) /\ rpc # "write"

DoneCurOrder ==
    rpc = "write" => \A m \in 1..Len(toApp) :
        toApp[m] < cur.id \/ (Twin(toApp[m], cur.id) /\ m = Len(toApp))

ReaderInv == /\ IdsSent /\ OwnFrames /\ QueueOrder /\ CurOrder /\ DoneOrder /\ DoneCurOrder
             /\ EchoFree /\ DeliveredInOrder

LEMMA InitReader == Init => ReaderInv
  BY DEF Init, ReaderInv, IdsSent, OwnFrames, QueueOrder, CurOrder, DoneOrder, DoneCurOrder,
     EchoFree, DeliveredInOrder, NoFrame

LEMMA IdsAreNumbers ==
    ASSUME TypeOK
    PROVE  /\ cur.id \in Nat
           /\ \A j \in 1..Len(queue) : queue[j].id \in Nat
           /\ \A m \in 1..Len(toApp) : toApp[m] \in Nat
<1>1. \A f \in Frames : f.id \in Nat
  BY ProxyAssumption DEF Frames
<1>2. \A j \in 1..Len(queue) : queue[j] \in Frames
  BY DEF TypeOK
<1>3. \A m \in 1..Len(toApp) : toApp[m] \in Nat
  BY ProxyAssumption DEF TypeOK
<1> QED BY <1>1, <1>2, <1>3 DEF TypeOK

\* The variables the invariant speaks of.
readerView == <<queue, cur, toApp, rpc, carSent, early>>

LEMMA ReaderStutters == TypeOK /\ ReaderInv /\ UNCHANGED readerView => ReaderInv'
  BY DEF readerView, ReaderInv, IdsSent, OwnFrames, QueueOrder, CurOrder, DoneOrder,
     DoneCurOrder, EchoFree, DeliveredInOrder, Twin

\* A step that only changes where the reader is, and does not start a write.
LEMMA ReaderMoves ==
    ASSUME TypeOK, ReaderInv, UNCHANGED <<queue, cur, toApp, carSent, early>>, rpc' # "write"
    PROVE  ReaderInv'
  BY DEF ReaderInv, IdsSent, OwnFrames, QueueOrder, CurOrder, DoneOrder,
     DoneCurOrder, EchoFree, DeliveredInOrder, Twin

LEMMA CarSendsReader == TypeOK /\ ReaderInv /\ CarSends => ReaderInv'
<1> SUFFICES ASSUME TypeOK, ReaderInv, CarSends PROVE ReaderInv'
  OBVIOUS
<1> USE DEF ReaderInv
<1>1. PICK h \in CarHeaders, big \in BOOLEAN :
          /\ carSent < MaxCar /\ carSent' = carSent + 1
          /\ early' = IF rpc = "bind" THEN carSent + 1 ELSE early
          /\ OnLo([hdr |-> h, id |-> carSent + 1, big |-> big])
          /\ UNCHANGED <<rpc, cur, toApp>>
  BY DEF CarSends, readerVars
<1> DEFINE f == [hdr |-> h, id |-> carSent + 1, big |-> big]
<1>2. f \in Frames /\ f.id = carSent + 1 /\ carSent \in Nat
  BY <1>1, ProxyAssumption, FramesOnLo DEF TypeOK
<1> HIDE DEF f
<1>3. /\ Len(queue) \in Nat /\ Len(queue') \in Len(queue)..(Len(queue) + 2)
      /\ Len(queue') = Len(queue) + 2 => rpc = "bind"
      /\ \A i \in 1..Len(queue) : queue'[i] = queue[i] /\ queue[i].id \in Nat
      /\ \A i \in (Len(queue) + 1)..Len(queue') : queue'[i] = f
  <2>1. OnLo(f) /\ queue \in Seq(Frames)
    BY <1>1 DEF f, TypeOK
  <2> QED BY <1>2, <2>1, OnLoAppends, IdsAreNumbers
<1>4. early \in Nat /\ early' \in Nat /\ early <= early' /\ early <= carSent
  BY <1>1 DEF TypeOK
<1>5. cur.id \in Nat /\ \A m \in 1..Len(toApp) : toApp[m] \in Nat
  BY IdsAreNumbers
<1>6. IdsSent'
  <2>1. \A j \in 1..Len(queue') : queue'[j].id <= carSent'
    BY <1>1, <1>2, <1>3 DEF IdsSent
  <2>2. cur.id <= carSent' /\ \A m \in 1..Len(toApp) : toApp[m] <= carSent'
    BY <1>1, <1>2, <1>5 DEF IdsSent
  <2> QED BY <1>1, <2>1, <2>2 DEF IdsSent
<1>7. OwnFrames'
  BY <1>1, <1>2, <1>3 DEF OwnFrames
<1>8. QueueOrder'
  <2> SUFFICES ASSUME NEW i \in 1..Len(queue'), NEW j \in 1..Len(queue'), i < j,
                      queue'[i].id # 0, queue'[j].id # 0
               PROVE  \/ queue'[i].id < queue'[j].id
                      \/ queue'[i].id = queue'[j].id /\ queue'[i].id <= early' /\ j = i + 1
    BY DEF QueueOrder, Twin
  <2>1. CASE j <= Len(queue)
    BY <1>3, <1>4, <2>1 DEF QueueOrder, Twin
  <2>2. CASE i <= Len(queue) /\ j > Len(queue)
    BY <1>2, <1>3, <2>2 DEF IdsSent
  <2>3. CASE i > Len(queue)
    BY <1>1, <1>2, <1>3, <2>3
  <2> QED BY <1>3, <2>1, <2>2, <2>3
<1>9. CurOrder'
  <2> SUFFICES ASSUME rpc = "write", NEW j \in 1..Len(queue'), queue'[j].id # 0
               PROVE  \/ cur.id < queue'[j].id
                      \/ cur.id = queue'[j].id /\ cur.id <= early' /\ j = 1
    BY <1>1 DEF CurOrder, Twin
  <2>1. CASE j <= Len(queue)
    BY <1>3, <1>4, <1>5, <2>1 DEF CurOrder, Twin
  <2>2. CASE j > Len(queue)
    BY <1>2, <1>3, <1>5, <2>2 DEF IdsSent
  <2> QED BY <1>3, <2>1, <2>2
<1>10. DoneOrder'
  <2> SUFFICES ASSUME NEW m \in 1..Len(toApp), NEW j \in 1..Len(queue'), queue'[j].id # 0
               PROVE  \/ toApp[m] < queue'[j].id
                      \/ /\ toApp[m] = queue'[j].id /\ toApp[m] <= early'
                         /\ j = 1 /\ m = Len(toApp) /\ rpc # "write"
    BY <1>1 DEF DoneOrder, Twin
  <2>1. CASE j <= Len(queue)
    BY <1>3, <1>4, <1>5, <2>1 DEF DoneOrder, Twin
  <2>2. CASE j > Len(queue)
    BY <1>2, <1>3, <1>5, <2>2 DEF IdsSent
  <2> QED BY <1>3, <2>1, <2>2
<1>11. DoneCurOrder' /\ EchoFree' /\ DeliveredInOrder'
  BY <1>1, <1>4, <1>5 DEF DoneCurOrder, EchoFree, DeliveredInOrder, Twin
<1> QED BY <1>6, <1>7, <1>8, <1>9, <1>10, <1>11

LEMMA WriterSendsReader == TypeOK /\ ReaderInv /\ WriterSends => ReaderInv'
<1> SUFFICES ASSUME TypeOK, ReaderInv, WriterSends PROVE ReaderInv'
  OBVIOUS
<1> USE DEF ReaderInv
<1> DEFINE f == [hdr |-> ZeroHeader, id |-> 0, big |-> FALSE]
<1>1. UNCHANGED <<rpc, cur, toApp, carSent, early>> /\ (OnLo(f) \/ UNCHANGED queue)
  BY DEF WriterSends, readerVars
<1>2. CASE UNCHANGED queue
  BY <1>1, <1>2, ReaderStutters DEF readerView
<1>3. CASE OnLo(f)
  <2>1. f \in Frames /\ f.id = 0 /\ f.hdr = ZeroHeader
    BY FramesOnLo
  <2> HIDE DEF f
  <2>2. /\ Len(queue) \in Nat /\ Len(queue') \in Len(queue)..(Len(queue) + 2)
        /\ \A i \in 1..Len(queue) : queue'[i] = queue[i]
        /\ \A i \in (Len(queue) + 1)..Len(queue') : queue'[i] = f
    BY <1>3, <2>1, OnLoAppends DEF TypeOK
  <2>3. carSent \in Nat
    BY DEF TypeOK
  <2>4. \A i \in 1..Len(queue') : queue'[i].id # 0 => i \in 1..Len(queue)
    BY <2>1, <2>2
  <2>5. IdsSent' /\ OwnFrames'
    BY <1>1, <2>1, <2>2, <2>3 DEF IdsSent, OwnFrames
  <2>6. QueueOrder'
    BY <1>1, <2>2, <2>4 DEF QueueOrder, Twin
  <2>7. CurOrder' /\ DoneOrder'
    <3>1. CurOrder'
      BY <1>1, <2>2, <2>4 DEF CurOrder, Twin
    <3>2. DoneOrder'
      BY <1>1, <2>2, <2>4 DEF DoneOrder, Twin
    <3> QED BY <3>1, <3>2
  <2>8. DoneCurOrder' /\ EchoFree' /\ DeliveredInOrder'
    BY <1>1 DEF DoneCurOrder, EchoFree, DeliveredInOrder, Twin
  <2> QED BY <2>5, <2>6, <2>7, <2>8
<1> QED BY <1>1, <1>2, <1>3

LEMMA ReaderReceivesReader == TypeOK /\ ReaderInv /\ ReaderReceives => ReaderInv'
<1> SUFFICES ASSUME TypeOK, ReaderInv, ReaderReceives PROVE ReaderInv'
  OBVIOUS
<1> USE DEF ReaderInv
<1>1. /\ rpc = "recv" /\ queue # <<>> /\ queue' = Tail(queue)
      /\ UNCHANGED <<carSent, early, toApp>>
  BY DEF ReaderReceives
<1>2. /\ Len(queue) \in Nat \ {0} /\ Len(queue') = Len(queue) - 1
      /\ \A j \in 1..Len(queue') : queue'[j] = queue[j + 1] /\ j + 1 \in 1..Len(queue)
      /\ Head(queue) = queue[1] /\ 1 \in 1..Len(queue)
  BY <1>1 DEF TypeOK
<1>3. IdsSent' /\ OwnFrames'
  <2>1. CASE rpc' = "write" /\ cur' = queue[1] /\ ReaderRelays(queue[1].hdr)
    <3>1. queue[1].hdr # ZeroHeader
      BY <2>1 DEF ReaderRelays, ZeroHeader, NoType, GeoNetType
    <3> QED BY <1>1, <1>2, <2>1, <3>1 DEF IdsSent, OwnFrames
  <2>2. CASE UNCHANGED <<rpc, cur>>
    BY <1>1, <1>2, <2>2 DEF IdsSent, OwnFrames
  <2> QED BY <1>2, <2>1, <2>2 DEF ReaderReceives
<1>4. QueueOrder'
  BY <1>1, <1>2 DEF QueueOrder, Twin
<1>5. \A m \in 1..Len(toApp), j \in 1..Len(queue') :
          queue'[j].id # 0 => toApp[m] < queue'[j].id
  BY <1>2 DEF DoneOrder
<1>6. DoneOrder'
  BY <1>1, <1>5 DEF DoneOrder
<1>7. CurOrder' /\ DoneCurOrder'
  <2>1. CASE rpc' = "write" /\ cur' = queue[1]
    <3>1. queue[1].id # 0
      BY <1>3, <2>1 DEF OwnFrames
    <3>2. \A j \in 1..Len(queue') : queue'[j].id # 0 =>
              queue[1].id < queue'[j].id \/ (Twin(queue[1].id, queue'[j].id) /\ j = 1)
      BY <1>2, <3>1 DEF QueueOrder
    <3>3. CurOrder'
      BY <1>1, <2>1, <3>2 DEF CurOrder, Twin
    <3>4. \A m \in 1..Len(toApp) :
              toApp[m] < queue[1].id \/ (Twin(toApp[m], queue[1].id) /\ m = Len(toApp))
      BY <1>2, <3>1 DEF DoneOrder
    <3>5. DoneCurOrder'
      BY <1>1, <2>1, <3>4 DEF DoneCurOrder, Twin
    <3> QED BY <3>3, <3>5
  <2>2. CASE UNCHANGED <<rpc, cur>>
    BY <1>1, <2>2 DEF CurOrder, DoneCurOrder
  <2> QED BY <1>2, <2>1, <2>2 DEF ReaderReceives
<1>8. EchoFree' /\ DeliveredInOrder'
  BY <1>1 DEF EchoFree, DeliveredInOrder
<1> QED BY <1>3, <1>4, <1>6, <1>7, <1>8

LEMMA ReaderWritesReader == TypeOK /\ ReaderInv /\ ReaderWrites => ReaderInv'
<1> SUFFICES ASSUME TypeOK, ReaderInv, ReaderWrites PROVE ReaderInv'
  OBVIOUS
<1> USE DEF ReaderInv
<1>1. /\ rpc = "write" /\ rpc' = "recv" /\ UNCHANGED <<queue, cur, carSent, early>>
      /\ toApp' = Append(toApp, cur.id) \/ toApp' = toApp
  BY DEF ReaderWrites, loVars
<1>2. CASE toApp' = toApp
  BY <1>1, <1>2, ReaderMoves
<1>3. CASE toApp' = Append(toApp, cur.id)
  <2>1. /\ Len(toApp) \in Nat /\ Len(toApp') = Len(toApp) + 1
        /\ \A m \in 1..Len(toApp) : toApp'[m] = toApp[m]
        /\ toApp'[Len(toApp) + 1] = cur.id
    BY <1>3 DEF TypeOK
  <2>2. IdsSent' /\ OwnFrames' /\ QueueOrder' /\ CurOrder' /\ DoneCurOrder'
    <3>1. IdsSent'
      BY <1>1, <2>1 DEF IdsSent
    <3>2. OwnFrames' /\ QueueOrder'
      BY <1>1 DEF OwnFrames, QueueOrder, Twin
    <3>3. CurOrder' /\ DoneCurOrder'
      BY <1>1 DEF CurOrder, DoneCurOrder
    <3> QED BY <3>1, <3>2, <3>3
  <2>3. DoneOrder'
    BY <1>1, <2>1 DEF DoneOrder, CurOrder, Twin
  <2>4. EchoFree'
    BY <1>1, <2>1 DEF EchoFree, OwnFrames
  <2>5. DeliveredInOrder'
    BY <1>1, <2>1 DEF DeliveredInOrder, DoneCurOrder, Twin
  <2> QED BY <2>2, <2>3, <2>4, <2>5
<1> QED BY <1>1, <1>2, <1>3

LEMMA NextReader == TypeOK /\ ReaderInv /\ [Next]_vars => ReaderInv'
<1> SUFFICES ASSUME TypeOK, ReaderInv, [Next]_vars PROVE ReaderInv'
  OBVIOUS
<1>1. CASE AppWrites \/ AppDisconnects \/ WriterReads \/ WriterReadsNothing \/ WriterKilled
           \/ UNCHANGED vars
  <2>1. UNCHANGED readerView
    BY <1>1 DEF AppWrites, AppDisconnects, WriterReads, WriterReadsNothing, WriterKilled,
       vars, readerView, appVars, writerVars, loVars, readerVars
  <2> QED BY <2>1, ReaderStutters
<1>2. CASE ReaderBinds \/ ReaderEnds
  BY <1>2, ReaderMoves DEF ReaderBinds, ReaderEnds, loVars
<1> QED BY <1>1, <1>2, CarSendsReader, WriterSendsReader, ReaderReceivesReader,
        ReaderWritesReader DEF Next, App, Writer, Reader

LEMMA ReaderAlways == Spec => []ReaderInv
  BY InitType, NextType, InitReader, NextReader, PTL DEF Spec

\* readGeonet never relays a frame writeGeonet sent, bound or not, and what it
\* relays is in the order it was on lo, without repetition but for the twin of
\* a frame from before bind().
THEOREM RelaysInOrder == Spec => []LoRelayed
  BY ReaderAlways, PTL DEF ReaderInv, LoRelayed

-----------------------------------------------------------------------------
(* From the app to lo.  The bytes in the frames were taken from the stream,  *)
(* those in a buffer about to be sent come after all of them.                *)

\* Bytes of the frames and of the buffer are in stream order and were taken.
BytesTaken ==
    /\ \A j \in 1..Len(frames), a \in Cells : Sent(j, a) \in 0..taken
    /\ wpc = "send" =>
         \A a \in Cells : buf[a] # 0 =>
           /\ buf[a] <= taken
           /\ \A j \in 1..Len(frames), b \in Cells : Sent(j, b) < buf[a]
           /\ \A b \in Cells : b > a /\ buf[b] # 0 => buf[a] < buf[b]

WriterInv == BytesTaken /\ FramesInStreamOrder /\ ReadBytesAccounted

LEMMA InitWriter == Init => WriterInv
  BY DEF Init, WriterInv, BytesTaken, FramesInStreamOrder, ReadBytesAccounted

\* A step that neither takes bytes nor makes a frame, nor starts a send.
LEMMA WriterKeeps ==
    ASSUME TypeOK, WriterInv, UNCHANGED <<taken, frames, lost>>,
           \/ UNCHANGED <<wpc, buf>>
           \/ wpc' = "ended" /\ UNCHANGED buf
           \/ wpc = "read" /\ wpc' = "read"
    PROVE  WriterInv'
<1> USE DEF WriterInv, Sent
<1>1. BytesTaken'
  BY DEF BytesTaken
<1>2. FramesInStreamOrder'
  BY DEF FramesInStreamOrder
<1>3. ReadBytesAccounted'
  BY DEF ReadBytesAccounted
<1> QED BY <1>1, <1>2, <1>3

LEMMA WriterReadsWriter == TypeOK /\ WriterInv /\ WriterReads => WriterInv'
<1> SUFFICES ASSUME TypeOK, WriterInv, WriterReads PROVE WriterInv'
  OBVIOUS
<1> USE DEF WriterInv
<1>1. PICK n \in Cells : /\ wpc = "read" /\ wpc' = "send" /\ taken' = taken + n
                         /\ buf' = Filled(taken, n) /\ UNCHANGED <<frames, lost>>
  BY DEF WriterReads
<1>2. n \in Nat \ {0} /\ n <= BufSize /\ taken \in Nat /\ BufSize \in Nat
  BY ProxyAssumption DEF Cells, TypeOK
<1>3. \A a \in Cells : a \in Nat \ {0} /\ buf'[a] = IF a <= n THEN taken + a ELSE 0
  BY <1>1 DEF Filled, Cells
<1>4. \A j \in 1..Len(frames), a \in Cells : Sent(j, a)' = Sent(j, a) /\ Sent(j, a) \in 0..taken
  BY <1>1 DEF BytesTaken, Sent
<1>5. Len(frames') = Len(frames)
  BY <1>1
<1>6. BytesTaken'
  BY <1>1, <1>2, <1>3, <1>4, <1>5 DEF BytesTaken
<1>7. FramesInStreamOrder'
  BY <1>1, <1>4, <1>5 DEF FramesInStreamOrder
<1>8. ReadBytesAccounted'
  <2> SUFFICES ASSUME NEW p \in 1..taken'
               PROVE  \/ p \in lost'
                      \/ wpc' # "read" /\ \E a \in Cells : buf'[a] = p
                      \/ \E j \in 1..Len(frames'), a \in Cells : Sent(j, a)' = p
    BY DEF ReadBytesAccounted
  <2>1. CASE p <= taken
    <3>1. p \in lost \/ \E j \in 1..Len(frames), a \in Cells : Sent(j, a) = p
      BY <1>1, <1>2, <2>1 DEF ReadBytesAccounted
    <3> QED BY <1>1, <1>4, <1>5, <3>1
  <2>2. CASE p > taken
    <3>1. p - taken \in Cells /\ p - taken <= n
      BY <1>1, <1>2, <2>2 DEF Cells
    <3>2. buf'[p - taken] = p
      BY <1>2, <1>3, <3>1
    <3> QED BY <1>1, <3>1, <3>2
  <2> QED BY <1>1, <1>2, <2>1, <2>2
<1> QED BY <1>6, <1>7, <1>8

LEMMA WriterSendsWriter == TypeOK /\ WriterInv /\ WriterSends => WriterInv'
<1> SUFFICES ASSUME TypeOK, WriterInv, WriterSends PROVE WriterInv'
  OBVIOUS
<1> USE DEF WriterInv
<1>1. wpc = "send" /\ wpc' = "read" /\ UNCHANGED <<taken, buf>>
  BY DEF WriterSends, appVars
<1>2. CASE frames' = Append(frames, [hdr |-> header', data |-> buf]) /\ UNCHANGED lost
  <2>0. PICK last \in Nat : last = Len(frames) + 1
    BY DEF TypeOK
  <2>1. /\ 1..Len(frames) = 1..(last - 1) /\ 1..Len(frames') = 1..last
        /\ \A j \in 1..(last - 1) : frames'[j] = frames[j]
        /\ frames'[last] = [hdr |-> header', data |-> buf] /\ last \in 1..last
    BY <1>2, <2>0 DEF TypeOK
  <2>2. /\ \A j \in 1..(last - 1), a \in Cells : Sent(j, a)' = Sent(j, a)
        /\ \A a \in Cells : Sent(last, a)' = buf[a]
    BY <2>1 DEF Sent
  <2>3. /\ taken \in Nat /\ \A a \in Cells : a \in Nat /\ buf[a] \in 0..MaxBytes
        /\ \A j \in 1..(last - 1), a \in Cells : Sent(j, a) \in 0..taken
    <3>1. taken \in Nat /\ buf \in [Cells -> 0..MaxBytes]
      BY ProxyAssumption DEF TypeOK, Buffers
    <3>2. \A a \in Cells : a \in Nat
      BY ProxyAssumption DEF Cells
    <3>3. \A j \in 1..(last - 1), a \in Cells : Sent(j, a) \in 0..taken
      BY <2>1 DEF BytesTaken
    <3> QED BY <3>1, <3>2, <3>3
  <2>4. \A a \in Cells : buf[a] \in 0..taken
    BY <1>1, <2>3, ProxyAssumption DEF BytesTaken
  <2>5. BytesTaken'
    <3>1. \A j \in 1..Len(frames'), a \in Cells : Sent(j, a)' \in 0..taken'
      BY <1>1, <2>0, <2>1, <2>2, <2>3, <2>4
    <3> QED BY <1>1, <3>1 DEF BytesTaken
  <2>6. FramesInStreamOrder'
    <3> SUFFICES ASSUME NEW j \in 1..Len(frames'), NEW k \in 1..Len(frames'),
                        NEW a \in Cells, NEW b \in Cells,
                        j < k \/ (j = k /\ a < b), Sent(j, a)' # 0, Sent(k, b)' # 0
                 PROVE  Sent(j, a)' < Sent(k, b)'
      BY DEF FramesInStreamOrder
    <3>0. j \in 1..last /\ k \in 1..last
      BY <2>1
    <3>1. CASE k # last
      <4>1. j \in 1..(last - 1) /\ k \in 1..(last - 1)
        BY <2>0, <3>0, <3>1
      <4> QED BY <2>1, <2>2, <4>1 DEF FramesInStreamOrder
    <3>2. CASE k = last /\ j # last
      <4>1. j \in 1..(last - 1)
        BY <2>0, <3>0, <3>2
      <4>2. Sent(j, a)' = Sent(j, a) /\ Sent(k, b)' = buf[b]
        BY <2>2, <3>2, <4>1
      <4> QED BY <1>1, <2>1, <4>1, <4>2 DEF BytesTaken
    <3>3. CASE k = last /\ j = last
      <4>1. buf[a] # 0 /\ buf[b] # 0 /\ Sent(j, a)' = buf[a] /\ Sent(k, b)' = buf[b] /\ b > a
        BY <2>0, <2>2, <2>3, <3>3
      <4> QED BY <1>1, <4>1 DEF BytesTaken
    <3> QED BY <3>1, <3>2, <3>3
  <2>7. ReadBytesAccounted'
    <3> SUFFICES ASSUME NEW p \in 1..taken
                 PROVE  \/ p \in lost'
                        \/ \E j \in 1..Len(frames'), a \in Cells : Sent(j, a)' = p
      BY <1>1 DEF ReadBytesAccounted
    <3>1. CASE p \in lost
      BY <1>2, <3>1
    <3>2. CASE \E a \in Cells : buf[a] = p
      BY <2>1, <2>2, <3>2
    <3>3. CASE \E j \in 1..Len(frames), a \in Cells : Sent(j, a) = p
      <4>1. 1..(last - 1) \subseteq 1..last
        BY <2>0
      <4> QED BY <2>1, <2>2, <3>3, <4>1
    <3> QED BY <1>1, <3>1, <3>2, <3>3 DEF ReadBytesAccounted
  <2> QED BY <2>5, <2>6, <2>7
<1>3. CASE /\ lost' = lost \cup {buf[i] : i \in {j \in Cells : buf[j] # 0}}
           /\ UNCHANGED frames
  <2>1. BytesTaken' /\ FramesInStreamOrder'
    BY <1>1, <1>3 DEF BytesTaken, FramesInStreamOrder, Sent
  <2>2. \A a \in Cells, p \in 1..taken : buf[a] = p => p \in lost'
    BY <1>3 DEF TypeOK
  <2>3. ReadBytesAccounted'
    BY <1>1, <1>3, <2>2 DEF ReadBytesAccounted, Sent
  <2> QED BY <2>1, <2>3
<1> QED BY <1>2, <1>3 DEF WriterSends

LEMMA NextWriter == TypeOK /\ WriterInv /\ [Next]_vars => WriterInv'
<1> SUFFICES ASSUME TypeOK, WriterInv, [Next]_vars PROVE WriterInv'
  OBVIOUS
<1>1. CASE App \/ CarSends \/ WriterKilled \/ Reader \/ ReaderEnds \/ WriterReadsNothing
           \/ UNCHANGED vars
  <2>1. /\ UNCHANGED <<taken, frames, lost>>
        /\ \/ UNCHANGED <<wpc, buf>>
           \/ wpc' = "ended" /\ UNCHANGED buf
           \/ wpc = "read" /\ wpc' = "read"
    BY <1>1 DEF App, AppWrites, AppDisconnects, CarSends, WriterKilled, WriterReadsNothing,
       Reader, ReaderBinds, ReaderReceives, ReaderWrites, ReaderEnds, vars, appVars, writerVars
  <2> QED BY <2>1, WriterKeeps
<1> QED BY <1>1, WriterReadsWriter, WriterSendsWriter DEF Next, Writer

LEMMA WriterAlways == Spec => []WriterInv
  BY InitType, NextType, InitWriter, NextWriter, PTL DEF Spec

\* writeGeonet's frames carry the app's bytes in stream order, none twice and
\* none left over from an older message, and no byte that was read is cut off:
\* it is in a frame, in the buffer about to be sent, or its sendto() failed.
THEOREM FramesTheStream == Spec => []StreamFramed
  BY WriterAlways, PTL DEF WriterInv, StreamFramed
===============================================================================
