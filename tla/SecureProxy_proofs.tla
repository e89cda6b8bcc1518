------------------------- MODULE SecureProxy_proofs -------------------------
(***************************************************************************)
(* Proofs about SecureProxy for any numbers of sessions, messages and      *)
(* frames and any size of the packet socket's queue: both directions       *)
(* implement RelayChannel, so nothing is made up, repeated or reordered,   *)
(* and no frame of zeros precedes the first message.                       *)
(*                                                                         *)
(* The order of a channel is not inductive by itself.  ToAppOrder adds how *)
(* the frame in readGeonet's hand stands between the records on their way  *)
(* to the client and the frames still queued, ToCarOrder how the message   *)
(* in writeGeonet's buffer and the number it has read stand before those   *)
(* in the stream, and BufCleared that the buffer is empty whenever a       *)
(* bytes_read of an earlier message could send it.                         *)
(***************************************************************************)
EXTENDS SecureProxy, SequenceTheorems, TLAPS

\* The numbers of the data records of a stream rise.
Rising(s) ==
    \A i, j \in DOMAIN s :
        i < j /\ s[i].kind = "data" /\ s[j].kind = "data" => s[i].data < s[j].data

Frames == [hdr : Headers, id : 1..MaxCar, big : BOOLEAN]

ToCarOrder ==
    /\ Rising(c2s)
    /\ \A x \in DataIn(c2s) : got < x /\ x <= said
    /\ got <= said
    /\ step[W] = "ready" => \A x \in DataIn(c2s) : buf < x
    /\ buf <= said

BufCleared == step[W] \in {"hello", "fin", "failed", "use"} => buf = 0

BytesCounted == bytes_read > 0 \/ zeros > 0 => got > 0

ToAppOrder ==
    /\ Rising(s2c)
    /\ \A x \in DataIn(s2c) : x \in 1..cur
    /\ step[R] \in {"hello", "fin", "failed", "use"} =>
           cur > 0 /\ \A x \in DataIn(s2c) : x < cur
    /\ cur <= carSent
    /\ \A i \in DOMAIN queue : cur < queue[i].id /\ queue[i].id <= carSent
    /\ \A i, j \in DOMAIN queue : i < j => queue[i].id < queue[j].id

-----------------------------------------------------------------------------
(* Streams of records.                                                     *)

\* What Rec and Data build are records.
LEMMA RecordsMade ==
    ASSUME SecureAssumption
    PROVE  /\ \A k \in Kinds, s \in 0..MaxSessions :
                 Rec(k, s) \in Records /\ Rec(k, s).kind = k /\ Rec(k, s).sess = s
           /\ \A s \in 0..MaxSessions, d \in 0..(MaxMsgs + MaxCar) :
                 /\ Data(s, d) \in Records /\ Data(s, d).kind = "data"
                 /\ Data(s, d).data = d
           /\ Alert \in Records /\ Alert.kind = "alert"
<1>1. 0 \in 0..(MaxMsgs + MaxCar) /\ 0 \in 0..MaxSessions
  BY DEF SecureAssumption
<1>2. "data" \in Kinds /\ "alert" \in Kinds
  BY DEF Kinds
<1> QED
  BY <1>1, <1>2 DEF Rec, Data, Alert, Records

\* The data in a stream to which a record is appended.
LEMMA DataAppended ==
    ASSUME NEW s \in Seq(Records), NEW r \in Records
    PROVE  DataIn(Append(s, r)) = DataIn(s) \union IF r.kind = "data" THEN {r.data} ELSE {}
<1> DEFINE t == Append(s, r)
<1>1. /\ DOMAIN t = 1..(Len(s) + 1) /\ DOMAIN s = 1..Len(s) /\ Len(s) \in Nat
      /\ \A i \in 1..Len(s) : t[i] = s[i]
      /\ t[Len(s) + 1] = r
  OBVIOUS
<1> HIDE DEF t
<1>2. ASSUME NEW x \in DataIn(t)
      PROVE  x \in DataIn(s) \/ (r.kind = "data" /\ x = r.data)
  <2>1. PICK i \in DOMAIN t : t[i].kind = "data" /\ x = t[i].data
    BY DEF DataIn
  <2>2. CASE i = Len(s) + 1
    BY <1>1, <2>1, <2>2
  <2>3. CASE i # Len(s) + 1
    <3>1. i \in DOMAIN s /\ t[i] = s[i]
      BY <1>1, <2>3
    <3> QED
      BY <2>1, <3>1 DEF DataIn
  <2> QED
    BY <2>2, <2>3
<1>3. ASSUME NEW x \in DataIn(s)
      PROVE  x \in DataIn(t)
  <2>1. PICK i \in DOMAIN s : s[i].kind = "data" /\ x = s[i].data
    BY DEF DataIn
  <2>2. i \in DOMAIN t /\ t[i] = s[i]
    BY <1>1
  <2> QED
    BY <2>1, <2>2 DEF DataIn
<1>4. ASSUME r.kind = "data"
      PROVE  r.data \in DataIn(t)
  <2>1. Len(s) + 1 \in DOMAIN t
    BY <1>1
  <2> QED
    BY <1>1, <1>4, <2>1 DEF DataIn
<1> QED
  BY <1>2, <1>3, <1>4 DEF t

\* Appending data greater than all the data in a rising stream keeps it rising,
\* and so does appending anything else.
LEMMA RisingAppended ==
    ASSUME NEW s \in Seq(Records), NEW r \in Records, Rising(s),
           r.kind = "data" => \A x \in DataIn(s) : x < r.data
    PROVE  Rising(Append(s, r))
<1> DEFINE t == Append(s, r)
<1>1. /\ DOMAIN t = 1..(Len(s) + 1) /\ DOMAIN s = 1..Len(s) /\ Len(s) \in Nat
      /\ \A i \in 1..Len(s) : t[i] = s[i]
      /\ t[Len(s) + 1] = r
  OBVIOUS
<1> HIDE DEF t
<1> SUFFICES ASSUME NEW i \in DOMAIN t, NEW j \in DOMAIN t, i < j,
                    t[i].kind = "data", t[j].kind = "data"
             PROVE  t[i].data < t[j].data
  BY DEF Rising, t
<1>2. i \in DOMAIN s /\ t[i] = s[i]
  BY <1>1
<1>3. CASE j = Len(s) + 1
  <2>1. s[i].data \in DataIn(s)
    BY <1>2 DEF DataIn
  <2> QED
    BY <1>1, <1>2, <1>3, <2>1
<1>4. CASE j # Len(s) + 1
  <2>1. j \in DOMAIN s /\ t[j] = s[j]
    BY <1>1, <1>4
  <2> QED
    BY <1>2, <2>1 DEF Rising
<1> QED
  BY <1>3, <1>4

\* A stream without its head: the data but for the head's, still rising, and all
\* of it greater than the head's.
LEMMA HeadTaken ==
    ASSUME NEW s \in Seq(Records), s # <<>>
    PROVE  /\ DataIn(s) = DataIn(Tail(s)) \union
                              IF Head(s).kind = "data" THEN {Head(s).data} ELSE {}
           /\ Rising(s) => /\ Rising(Tail(s))
                           /\ Head(s).kind = "data" =>
                                  \A x \in DataIn(Tail(s)) : Head(s).data < x
<1> DEFINE t == Tail(s)
<1>1. /\ DOMAIN s = 1..Len(s) /\ DOMAIN t = 1..(Len(s) - 1) /\ Len(s) \in Nat \ {0}
      /\ \A i \in DOMAIN t : t[i] = s[i + 1]
      /\ Head(s) = s[1]
  OBVIOUS
<1> HIDE DEF t
<1>2. ASSUME NEW x \in DataIn(s)
      PROVE  x \in DataIn(t) \/ (Head(s).kind = "data" /\ x = Head(s).data)
  <2>1. PICK i \in DOMAIN s : s[i].kind = "data" /\ x = s[i].data
    BY DEF DataIn
  <2>2. CASE i = 1
    BY <1>1, <2>1, <2>2
  <2>3. CASE i # 1
    <3>1. i - 1 \in DOMAIN t /\ t[i - 1] = s[i]
      BY <1>1, <2>3
    <3> QED
      BY <2>1, <3>1 DEF DataIn
  <2> QED
    BY <2>2, <2>3
<1>3. \A x \in DataIn(t) : \E i \in DOMAIN s : i > 1 /\ s[i].kind = "data" /\ x = s[i].data
  <2> TAKE x \in DataIn(t)
  <2>1. PICK i \in DOMAIN t : t[i].kind = "data" /\ x = t[i].data
    BY DEF DataIn
  <2>2. i + 1 \in DOMAIN s /\ i + 1 > 1 /\ t[i] = s[i + 1]
    BY <1>1
  <2> QED
    BY <2>1, <2>2
<1>4. ASSUME NEW x \in DataIn(t)
      PROVE  x \in DataIn(s)
  BY <1>3, <1>4 DEF DataIn
<1>5. 1 \in DOMAIN s
  BY <1>1
<1>6. ASSUME Head(s).kind = "data"
      PROVE  Head(s).data \in DataIn(s)
  BY <1>1, <1>5, <1>6 DEF DataIn
<1>7. ASSUME Rising(s)
      PROVE  Rising(t)
  <2> SUFFICES ASSUME NEW i \in DOMAIN t, NEW j \in DOMAIN t, i < j,
                      t[i].kind = "data", t[j].kind = "data"
               PROVE  t[i].data < t[j].data
    BY DEF Rising
  <2>1. /\ i + 1 \in DOMAIN s /\ j + 1 \in DOMAIN s /\ i + 1 < j + 1
        /\ t[i] = s[i + 1] /\ t[j] = s[j + 1]
    BY <1>1
  <2> QED
    BY <1>7, <2>1 DEF Rising
<1>8. ASSUME Rising(s), Head(s).kind = "data", NEW x \in DataIn(t)
      PROVE  Head(s).data < x
  <2>1. PICK i \in DOMAIN s : i > 1 /\ s[i].kind = "data" /\ x = s[i].data
    BY <1>3, <1>8
  <2> QED
    BY <1>1, <1>5, <1>8, <2>1 DEF Rising
<1> QED
  BY <1>2, <1>4, <1>6, <1>7, <1>8 DEF t

\* No data in no records.
LEMMA NoData == DataIn(<<>>) = {} /\ Rising(<<>>)
<1>1. DOMAIN <<>> = {}
  OBVIOUS
<1> QED
  BY <1>1 DEF DataIn, Rising
-----------------------------------------------------------------------------
(* The type invariant.  It needs the order: the numbers in the buffers and *)
(* in the histories are those of messages that were sent.                  *)

Order == ToCarOrder /\ BufCleared /\ BytesCounted /\ ToAppOrder

\* A stream stays one when the client leaves, when the proxy writes a record and
\* when the head is taken.
LEMMA Streams ==
    ASSUME SecureAssumption, TypeOK
    PROVE  /\ \A k \in Kinds, s \in 0..MaxSessions : Append(c2s, Rec(k, s)) \in Seq(Records)
           /\ \A r \in Records : ToClient(r) => s2c' \in Seq(Records)
           /\ c2s # <<>> => Tail(c2s) \in Seq(Records) /\ Head(c2s) \in Records
           /\ s2c # <<>> => Tail(s2c) \in Seq(Records) /\ Head(s2c) \in Records
           /\ \A p \in Procs : sess[p] \in 0..MaxSessions
           /\ csess \in 0..MaxSessions
<1>1. c2s \in Seq(Records) /\ s2c \in Seq(Records) /\ sess \in [Procs -> 0..MaxSessions]
      /\ csess \in 0..MaxSessions
  BY DEF TypeOK
<1>2. \A k \in Kinds, s \in 0..MaxSessions : Append(c2s, Rec(k, s)) \in Seq(Records)
  BY <1>1, RecordsMade
<1>3. \A r \in Records : ToClient(r) => s2c' \in Seq(Records)
  BY <1>1 DEF ToClient
<1>4. /\ c2s # <<>> => Tail(c2s) \in Seq(Records) /\ Head(c2s) \in Records
      /\ s2c # <<>> => Tail(s2c) \in Seq(Records) /\ Head(s2c) \in Records
  BY <1>1
<1> QED
  BY <1>1, <1>2, <1>3, <1>4

\* The fields of a record.
LEMMA RecordFields ==
    ASSUME NEW r \in Records
    PROVE  r.kind \in Kinds /\ r.sess \in 0..MaxSessions /\ r.data \in 0..(MaxMsgs + MaxCar)
BY DEF Records

\* A process that goes on is somewhere again.
LEMMA GoesTyped ==
    ASSUME TypeOK, NEW p \in Procs, NEW to \in Steps, Goes(p, to)
    PROVE  /\ step' \in [Procs -> Steps] /\ step'[p] = to
           /\ \A q \in Procs \ {p} : step'[q] = step[q]
BY DEF TypeOK, Goes

\* Each step of the client keeps the types.
LEMMA ClientTyped ==
    ASSUME SecureAssumption, TypeOK, Order, Client
    PROVE  TypeOK'
<1> USE DEF ClientSame, partVars, clientVars, writerVars, readerVars
<1>0. /\ "hello" \in Kinds /\ "fin" \in Kinds /\ "close" \in Kinds
      /\ csess \in 0..MaxSessions /\ MaxSessions \in Nat /\ MaxMsgs \in Nat /\ MaxCar \in Nat
      /\ said \in 0..MaxMsgs
  BY DEF Kinds, TypeOK, SecureAssumption
<1>1. CASE ClientStarts
  <2>1. csess' \in 0..MaxSessions /\ c2s' \in Seq(Records)
    BY <1>0, <1>1, Streams DEF ClientStarts
  <2> QED
    BY <1>1, <2>1 DEF ClientStarts, TypeOK
<1>2. CASE ClientSays
  <2>1. said' \in 0..MaxMsgs /\ said' \in 0..(MaxMsgs + MaxCar)
    BY <1>0, <1>2 DEF ClientSays
  <2>2. c2s' \in Seq(Records)
    BY <1>0, <1>2, <2>1, RecordsMade DEF ClientSays, TypeOK
  <2> QED
    BY <1>2, <2>1, <2>2 DEF ClientSays, TypeOK
<1>3. CASE ClientTakes
  <2>1. s2c' \in Seq(Records) /\ Head(s2c) \in Records
    BY <1>3, Streams DEF ClientTakes
  <2>2. c2s' \in Seq(Records) /\ cst' \in {"idle", "hello", "fin", "open"}
    BY <1>0, <1>3, Streams DEF ClientTakes, Leaves, TypeOK
  <2>3. appGot' \in Seq(1..MaxCar)
    <3>1. CASE Head(s2c).kind = "data" /\ appGot' = Append(appGot, Head(s2c).data)
      <4>1. Head(s2c).data \in DataIn(s2c)
        BY <1>3, <3>1, HeadTaken DEF TypeOK, ClientTakes
      <4>2. Head(s2c).data \in 1..MaxCar
        BY <1>0, <4>1 DEF Order, ToAppOrder, TypeOK
      <4> QED
        BY <3>1, <4>2 DEF TypeOK
    <3>2. CASE appGot' = appGot
      BY <3>2 DEF TypeOK
    <3> QED
      BY <1>3, <3>1, <3>2 DEF ClientTakes
  <2> QED
    BY <1>3, <2>1, <2>2, <2>3 DEF ClientTakes, TypeOK
<1>4. CASE ClientCloses
  <2>1. c2s' \in Seq(Records) /\ cst' = "idle"
    BY <1>0, <1>4, Streams DEF ClientCloses, Leaves, TypeOK
  <2> QED
    BY <1>4, <2>1 DEF ClientCloses, TypeOK
<1>5. CASE Disconnects
  <2>1. s2c' \in Seq(Records) /\ cst' = "idle"
    BY <1>5 DEF Disconnects
  <2> QED
    BY <1>5, <2>1 DEF Disconnects, TypeOK
<1> QED
  BY <1>1, <1>2, <1>3, <1>4, <1>5 DEF Client

\* Each step of SSL_accept keeps the types.
LEMMA AcceptTyped ==
    ASSUME SecureAssumption, TypeOK, NEW p \in Procs, Accept(p)
    PROVE  TypeOK'
<1> USE DEF partVars, clientVars, writerVars, readerVars
<1>0. {"hello", "fin"} \subseteq Kinds /\ {"fin", "use", "failed"} \subseteq Steps
  BY DEF Kinds, Steps
<1>1. CASE Accepts(p)
  <2>1. c2s' \in Seq(Records) /\ Head(c2s).sess \in 0..MaxSessions
    BY <1>1, Streams, RecordFields DEF Accepts, TakesBody
  <2>2. Rec(step[p], Head(c2s).sess) \in Records
    BY <1>0, <1>1, <2>1, RecordsMade DEF Accepts
  <2>3. s2c' \in Seq(Records)
    BY <1>1, <2>2, Streams DEF Accepts
  <2>4. step' \in [Procs -> Steps]
    BY <1>0, <1>1, GoesTyped DEF Accepts
  <2>5. sess' \in [Procs -> 0..MaxSessions]
    BY <1>1, <2>1 DEF Accepts, TypeOK
  <2> QED
    BY <1>1, <2>1, <2>3, <2>4, <2>5 DEF Accepts, TakesBody, Cuts, TypeOK
<1>2. CASE AcceptFails(p)
  <2>1. step' \in [Procs -> Steps]
    BY <1>0, <1>2, GoesTyped DEF AcceptFails
  <2>2. c2s' \in Seq(Records)
    BY <1>2, Streams DEF AcceptFails, TakesBody, AtEnd, TypeOK
  <2>3. s2c' \in Seq(Records)
    BY <1>2, RecordsMade, Streams DEF AcceptFails, TypeOK
  <2> QED
    BY <1>2, <2>1, <2>2, <2>3 DEF AcceptFails, TakesBody, AtEnd, Cuts, TypeOK
<1>3. CASE TakesHeader(p)
  BY <1>3 DEF TakesHeader, Cuts, TypeOK
<1>4. CASE Strays(p)
  <2>1. step' \in [Procs -> Steps]
    BY <1>0, <1>4, GoesTyped DEF Strays, TypeOK
  <2>2. c2s' \in Seq(Records)
    BY <1>4, Streams DEF Strays, TypeOK
  <2>3. s2c' \in Seq(Records)
    BY <1>4, RecordsMade, Streams DEF Strays, TypeOK
  <2>4. cut' \in Cuts /\ lost' \subseteq Procs /\ split' \in BOOLEAN
    BY <1>4 DEF Strays, Cuts, TypeOK
  <2>5. bytes_read' \in {0, 1}
    BY <1>4 DEF Strays, TypeOK
  <2> QED
    BY <1>4, <2>1, <2>2, <2>3, <2>4, <2>5 DEF Strays, TypeOK
<1> QED
  BY <1>1, <1>2, <1>3, <1>4 DEF Accept

\* Each step of writeGeonet keeps the types.
LEMMA WriterTyped ==
    ASSUME SecureAssumption, TypeOK, Order, WriterReads \/ WriterFrames \/ WriterShuts
    PROVE  TypeOK'
<1> USE DEF WriterSame, partVars, clientVars, readerVars
<1>0. /\ "close" \in Kinds /\ {"ready", "failed", "shut", "hello"} \subseteq Steps
      /\ W \in Procs /\ MaxMsgs \in Nat /\ MaxCar \in Nat /\ said \in 0..MaxMsgs
      /\ got \in 0..MaxMsgs /\ ZeroCap \in Nat \ {0}
  BY DEF Kinds, Steps, Procs, TypeOK, SecureAssumption
<1>1. CASE WriterReads
  <2>1. c2s' \in Seq(Records)
    BY <1>1, Streams DEF WriterReads, TakesBody, AtEnd, TypeOK
  <2>2. step' \in [Procs -> Steps]
    BY <1>0, <1>1, GoesTyped DEF WriterReads
  <2>3. s2c' \in Seq(Records)
    BY <1>0, <1>1, Streams, RecordsMade DEF WriterReads, TypeOK
  <2>4. buf' \in 0..MaxMsgs /\ got' \in 0..MaxMsgs
    <3>1. CASE c2s # <<>> /\ Head(c2s).kind = "data" /\ buf' = Head(c2s).data /\ got' = got + 1
      <4>1. Head(c2s).data \in DataIn(c2s) /\ Head(c2s) \in Records
        BY <3>1, HeadTaken DEF TypeOK
      <4>2. got < Head(c2s).data /\ Head(c2s).data <= said /\ Head(c2s).data \in Nat
        BY <1>0, <4>1, RecordFields DEF Order, ToCarOrder
      <4> QED
        BY <1>0, <3>1, <4>2
    <3>2. CASE UNCHANGED <<buf, got>>
      BY <3>2 DEF TypeOK
    <3> QED
      BY <1>1, <3>1, <3>2 DEF WriterReads, TakesBody
  <2>5. cut' \in Cuts /\ lost' \subseteq Procs /\ split' \in BOOLEAN
    BY <1>1 DEF WriterReads, TakesBody, AtEnd, Cuts, TypeOK
  <2> QED
    BY <1>1, <2>1, <2>2, <2>3, <2>4, <2>5 DEF WriterReads, TypeOK
<1>2. CASE WriterFrames
  <2>1. step' \in [Procs -> Steps]
    BY <1>0, <1>2, GoesTyped DEF WriterFrames
  <2>2. buf' \in 0..MaxMsgs
    BY <1>0, <1>2 DEF WriterFrames, ClearedBuf, TypeOK
  <2>3. frames' \in Seq(1..MaxMsgs)
    <3>1. CASE buf # 0 /\ frames' = Append(frames, buf)
      <4>1. buf \in 1..MaxMsgs
        BY <3>1 DEF TypeOK
      <4> QED
        BY <3>1, <4>1 DEF TypeOK
    <3>2. CASE frames' = frames
      BY <3>2 DEF TypeOK
    <3> QED
      BY <1>2, <3>1, <3>2 DEF WriterFrames
  <2>4. zeros' \in 0..ZeroCap
    BY <1>0, <1>2 DEF WriterFrames, Capped, TypeOK
  <2> QED
    BY <1>2, <2>1, <2>2, <2>3, <2>4 DEF WriterFrames, TypeOK
<1>3. CASE WriterShuts
  <2>1. s2c' \in Seq(Records)
    BY <1>0, <1>3, Streams, RecordsMade DEF WriterShuts
  <2>2. step' \in [Procs -> Steps]
    BY <1>0, <1>3, GoesTyped DEF WriterShuts
  <2> QED
    BY <1>0, <1>3, <2>1, <2>2 DEF WriterShuts, ClearedBuf, TypeOK
<1> QED
  BY <1>1, <1>2, <1>3

\* Each step of readGeonet, of the car and each end keeps the types.
LEMMA ReaderTyped ==
    ASSUME SecureAssumption, TypeOK, Order,
           \/ ReaderReceives \/ ReaderWrites \/ ReaderShuts \/ ReaderGivesUp
           \/ CarSends \/ \E p \in Procs : Ends(p)
    PROVE  TypeOK'
<1> USE DEF ReaderSame, partVars, clientVars, writerVars, readerVars
<1>0. /\ "close" \in Kinds /\ {"hello", "shut", "recv", "ended"} \subseteq Steps /\ R \in Procs
      /\ MaxMsgs \in Nat /\ MaxCar \in Nat /\ carSent \in 0..MaxCar /\ cur \in 0..MaxCar
      /\ queue \in Seq(Frames)
  BY DEF Kinds, Steps, Procs, TypeOK, SecureAssumption, Frames
<1>1. CASE ReaderReceives
  <2>1. queue' \in Seq(Frames) /\ Head(queue) \in Frames
    BY <1>0, <1>1 DEF ReaderReceives
  <2>2. cur' \in 0..MaxCar
    BY <1>0, <1>1, <2>1 DEF ReaderReceives, Frames
  <2>3. step' \in [Procs -> Steps]
    BY <1>0, <1>1, GoesTyped DEF ReaderReceives, TypeOK
  <2> QED
    BY <1>1, <2>1, <2>2, <2>3 DEF ReaderReceives, TypeOK, Frames
<1>2. CASE ReaderWrites
  <2>1. step' \in [Procs -> Steps]
    BY <1>0, <1>2, GoesTyped DEF ReaderWrites
  <2>2. cur \in 0..(MaxMsgs + MaxCar)
    BY <1>0
  <2>3. s2c' \in Seq(Records)
    BY <1>0, <1>2, <2>2, Streams, RecordsMade DEF ReaderWrites
  <2> QED
    BY <1>2, <2>1, <2>3 DEF ReaderWrites, TypeOK
<1>3. CASE ReaderShuts
  <2>1. step' \in [Procs -> Steps]
    BY <1>0, <1>3, GoesTyped DEF ReaderShuts
  <2>2. s2c' \in Seq(Records)
    BY <1>0, <1>3, Streams, RecordsMade DEF ReaderShuts
  <2> QED
    BY <1>3, <2>1, <2>2 DEF ReaderShuts, TypeOK
<1>4. CASE ReaderGivesUp
  <2>1. step' \in [Procs -> Steps]
    BY <1>0, <1>4, GoesTyped DEF ReaderGivesUp
  <2> QED
    BY <1>4, <2>1 DEF ReaderGivesUp, TypeOK
<1>5. CASE CarSends
  <2>1. PICK h \in CarHeaders, big \in BOOLEAN :
           /\ carSent < MaxCar /\ carSent' = carSent + 1
           /\ queue' = IF BoundSocketTakes(h) /\ Len(queue) < QueueCap
                       THEN Append(queue, [hdr |-> h, id |-> carSent', big |-> big])
                       ELSE queue
    BY <1>5 DEF CarSends
  <2>2. carSent' \in 1..MaxCar
    BY <1>0, <2>1
  <2>3. [hdr |-> h, id |-> carSent', big |-> big] \in Frames
    BY <2>2 DEF Frames, SecureAssumption
  <2>4. queue' \in Seq(Frames)
    BY <1>0, <2>1, <2>3
  <2> QED
    BY <1>5, <2>2, <2>4 DEF CarSends, TypeOK, Frames
<1>6. ASSUME NEW p \in Procs, Ends(p)
      PROVE  TypeOK'
  <2>1. step' \in [Procs -> Steps]
    BY <1>0, <1>6, GoesTyped DEF Ends
  <2> QED
    BY <1>6, <2>1 DEF Ends, TypeOK
<1> QED
  BY <1>1, <1>2, <1>3, <1>4, <1>5, <1>6

\* Every step keeps the types.
LEMMA StepTyped ==
    ASSUME SecureAssumption, TypeOK, Order, [Next]_vars
    PROVE  TypeOK'
<1>1. W \in Procs /\ R \in Procs
  BY DEF Procs
<1>2. CASE Next
  BY <1>1, <1>2, ClientTyped, AcceptTyped, WriterTyped, ReaderTyped DEF Next, Writer, Reader
<1>3. CASE UNCHANGED vars
  BY <1>3 DEF vars, partVars, clientVars, writerVars, readerVars, TypeOK
<1> QED
  BY <1>2, <1>3
-----------------------------------------------------------------------------
(* App to car.                                                             *)

\* What most steps do on the app's side: nothing of the client's is added.
CarQuiet ==
    /\ UNCHANGED <<got, said, buf, frames>>
    /\ step'[W] = "ready" => step[W] = "ready" \/ buf = 0
    /\ \/ c2s' = c2s
       \/ c2s # <<>> /\ c2s' = Tail(c2s)
       \/ \E k \in Kinds \ {"data"} : c2s' = Append(c2s, Rec(k, csess'))

\* The numbers on the app's side are natural.
LEMMA CarNumbers ==
    ASSUME SecureAssumption, TypeOK
    PROVE  /\ c2s \in Seq(Records) /\ said \in Nat /\ got \in Nat /\ buf \in Nat
           /\ \A x \in DataIn(c2s) : x \in Nat
<1>1. \A i \in DOMAIN c2s : c2s[i] \in Records
  BY DEF TypeOK
<1>2. \A x \in DataIn(c2s) : x \in 0..(MaxMsgs + MaxCar)
  BY <1>1, RecordFields DEF DataIn
<1> QED
  BY <1>2 DEF TypeOK, SecureAssumption

\* Then the order is kept, and the channel may at most have lost something.
LEMMA CarQuietKeeps ==
    ASSUME SecureAssumption, TypeOK, TypeOK', ToCarOrder, CarQuiet
    PROVE  ToCarOrder' /\ [ToCar!Next]_(ToCar!channel)
<1>0. c2s \in Seq(Records) /\ buf \in Nat /\ buf' = buf
  BY DEF TypeOK, CarQuiet
<1>1. DataIn(c2s') \subseteq DataIn(c2s) /\ Rising(c2s')
  <2>1. CASE c2s' = c2s
    BY <2>1 DEF ToCarOrder
  <2>2. CASE c2s # <<>> /\ c2s' = Tail(c2s)
    BY <1>0, <2>2, HeadTaken DEF ToCarOrder
  <2>3. ASSUME NEW k \in Kinds \ {"data"}, c2s' = Append(c2s, Rec(k, csess'))
        PROVE  DataIn(c2s') \subseteq DataIn(c2s) /\ Rising(c2s')
    <3>1. csess' \in 0..MaxSessions
      BY DEF TypeOK
    <3>2. Rec(k, csess') \in Records /\ Rec(k, csess').kind # "data"
      BY <3>1, RecordsMade
    <3> QED
      BY <1>0, <2>3, <3>2, DataAppended, RisingAppended DEF ToCarOrder
  <2> QED
    BY <2>1, <2>2, <2>3 DEF CarQuiet
<1>2. \A x \in DataIn(c2s') : x \in DataIn(c2s)
  BY <1>1
<1>3. \A x \in DataIn(c2s) : x > 0
  BY CarNumbers DEF ToCarOrder
<1>4. ToCarOrder'
  BY <1>0, <1>1, <1>2, <1>3 DEF ToCarOrder, CarQuiet
<1>5. ToCar!Lose
  BY <1>0, <1>1 DEF ToCar!Lose, InBuf, CarQuiet
<1> QED
  BY <1>4, <1>5 DEF ToCar!Next

\* The client's message joins the stream behind all others: Offer.
LEMMA CarSays ==
    ASSUME SecureAssumption, TypeOK, ToCarOrder, ClientSays
    PROVE  ToCarOrder' /\ ToCar!Offer
<1> USE DEF ClientSame, partVars, writerVars
<1> DEFINE r == Data(csess, said + 1)
<1>0. /\ said' = said + 1 /\ c2s' = Append(c2s, r)
      /\ UNCHANGED <<step, buf, got, frames>> /\ said < MaxMsgs
  BY DEF ClientSays
<1>1. r \in Records /\ r.kind = "data" /\ r.data = said + 1
  <2>1. said + 1 \in 0..(MaxMsgs + MaxCar) /\ csess \in 0..MaxSessions
    BY <1>0 DEF TypeOK, SecureAssumption
  <2> QED
    BY <2>1, RecordsMade
<1> HIDE DEF r
<1>2. DataIn(c2s') = DataIn(c2s) \union {said + 1}
  BY <1>0, <1>1, DataAppended DEF TypeOK
<1>3. Rising(c2s')
  BY <1>0, <1>1, CarNumbers, RisingAppended DEF ToCarOrder
<1>4. ToCarOrder'
  BY <1>0, <1>2, <1>3, CarNumbers DEF ToCarOrder
<1>5. ToCar!Offer
  <2>1. InBuf' = InBuf
    BY <1>0 DEF InBuf
  <2> QED
    BY <1>0, <1>2, <2>1, CarNumbers DEF ToCar!Offer
<1> QED
  BY <1>4, <1>5

\* SSL_read takes a message from the stream to the buffer: nothing changes.
LEMMA CarReads ==
    ASSUME SecureAssumption, TypeOK, ToCarOrder, BufCleared, step[W] = "use",
           c2s # <<>>, Head(c2s).kind = "data", c2s' = Tail(c2s),
           buf' = Head(c2s).data, got' = got + 1, Goes(W, "ready"),
           UNCHANGED <<said, frames>>
    PROVE  ToCarOrder' /\ UNCHANGED ToCar!channel
<1> DEFINE d == Head(c2s).data
<1>0. step'[W] = "ready"
  BY GoesTyped DEF Procs, Steps
<1>1. /\ DataIn(c2s) = DataIn(c2s') \union {d} /\ Rising(c2s')
      /\ \A x \in DataIn(c2s') : d < x
  BY HeadTaken, CarNumbers DEF ToCarOrder
<1>2. d \in Nat /\ got < d /\ d <= said
  BY <1>1, CarNumbers DEF ToCarOrder
<1> HIDE DEF d
<1>3. buf' = d
  BY DEF d
<1>4. /\ DataIn(c2s') \subseteq DataIn(c2s) /\ \A x \in DataIn(c2s') : x \in Nat
  BY <1>1, CarNumbers
<1>5. ToCarOrder'
  BY <1>0, <1>1, <1>2, <1>3, <1>4, CarNumbers DEF ToCarOrder
<1>6. InBuf = {} /\ InBuf' = {d}
  BY <1>0, <1>2, <1>3, CarNumbers DEF InBuf
<1> QED
  BY <1>1, <1>5, <1>6 DEF ToCar!channel

\* writeGeonet puts its buffer on lo, or not: the first message waiting is
\* delivered, or lost, or there was none.
LEMMA CarFrames ==
    ASSUME SecureAssumption, TypeOK, ToCarOrder, BufCleared, WriterFrames \/ WriterShuts
    PROVE  ToCarOrder' /\ [ToCar!Next]_(ToCar!channel)
<1> USE DEF WriterSame, partVars, clientVars
<1>0. /\ UNCHANGED <<c2s, said, got>> /\ step'[W] # "ready"
      /\ buf' = buf \/ buf' = 0
  BY GoesTyped DEF WriterFrames, WriterShuts, ClearedBuf, Procs, Steps
<1>1. ToCarOrder'
  BY <1>0, CarNumbers DEF ToCarOrder
<1>2. InBuf' = {}
  BY <1>0 DEF InBuf
<1>3. CASE frames' = frames
  <2>1. ToCar!Lose
    BY <1>0, <1>2, <1>3 DEF ToCar!Lose
  <2> QED
    BY <1>1, <2>1 DEF ToCar!Next
<1>4. CASE WriterFrames /\ frames' # frames
  <2>1. step[W] = "ready" /\ buf # 0 /\ frames' = Append(frames, buf)
    BY <1>4 DEF WriterFrames, BufCleared
  <2>2. /\ InBuf = {buf} /\ \A x \in InBuf \union DataIn(c2s) : buf <= x
        /\ buf \notin DataIn(c2s)
    BY <2>1, CarNumbers DEF InBuf, ToCarOrder
  <2>3. ToCar!Deliver
    BY <1>0, <1>2, <2>1, <2>2 DEF ToCar!Deliver
  <2> QED
    BY <1>1, <2>3 DEF ToCar!Next
<1> QED
  BY <1>3, <1>4 DEF WriterFrames, WriterShuts

\* Every step keeps the order of the app's messages and is one of the channel.
LEMMA CarStep ==
    ASSUME SecureAssumption, TypeOK, TypeOK', ToCarOrder, BufCleared, [Next]_vars
    PROVE  ToCarOrder' /\ [ToCar!Next]_(ToCar!channel)
<1> USE DEF partVars, clientVars, writerVars, readerVars, ClientSame, WriterSame, ReaderSame
<1>0. W \in Procs /\ R \in Procs /\ W # R /\ Procs = {W, R} /\ {"close", "hello", "fin"} \subseteq Kinds \ {"data"}
  BY DEF Procs, W, R, Kinds
<1>1. CASE ClientSays
  BY <1>1, CarSays DEF ToCar!Next
<1>2. CASE WriterReads
  <2> USE DEF TakesBody, AtEnd
  <2>1. CASE /\ c2s # <<>> /\ Head(c2s).kind = "data" /\ c2s' = Tail(c2s)
             /\ buf' = Head(c2s).data /\ got' = got + 1 /\ Goes(W, "ready")
    BY <1>2, <2>1, CarReads DEF WriterReads
  <2>2. CASE /\ c2s' = c2s \/ (c2s # <<>> /\ c2s' = Tail(c2s))
             /\ UNCHANGED <<buf, got>>
    <3>1. CarQuiet
      BY <1>2, <2>2 DEF WriterReads, CarQuiet, BufCleared
    <3> QED
      BY <3>1, CarQuietKeeps
  <2> QED
    BY <1>2, <2>1, <2>2 DEF WriterReads
<1>3. CASE WriterFrames \/ WriterShuts
  BY <1>3, CarFrames
<1>4. CASE ClientStarts \/ ClientTakes \/ ClientCloses \/ Disconnects
  <2>1. CarQuiet
    BY <1>0, <1>4 DEF ClientStarts, ClientTakes, ClientCloses, Disconnects, Leaves, CarQuiet
  <2> QED
    BY <2>1, CarQuietKeeps
<1>5. ASSUME NEW p \in Procs, Accept(p) \/ Ends(p)
      PROVE  ToCarOrder' /\ [ToCar!Next]_(ToCar!channel)
  <2>1. step'[W] = "ready" => step[W] = "ready"
    <3>1. CASE step' = step
      BY <3>1
    <3>2. CASE step' # step
      <4>1. PICK to \in {"fin", "use", "failed", "ended"} : Goes(p, to)
        BY <1>5, <3>2 DEF Accept, TakesHeader, Strays, Accepts, AcceptFails, Ends
      <4>2. step'[p] # "ready" /\ \A q \in Procs \ {p} : step'[q] = step[q]
        BY <4>1, GoesTyped DEF Steps
      <4> QED
        BY <1>0, <4>2
    <3> QED
      BY <3>1, <3>2
  <2>2. c2s' = c2s \/ (c2s # <<>> /\ c2s' = Tail(c2s))
    BY <1>5 DEF Accept, TakesHeader, Strays, Accepts, AcceptFails, TakesBody, AtEnd, Ends
  <2>3. UNCHANGED <<got, said, buf, frames>>
    BY <1>5 DEF Accept, TakesHeader, Strays, Accepts, AcceptFails, Ends
  <2>4. CarQuiet
    BY <2>1, <2>2, <2>3 DEF CarQuiet
  <2> QED
    BY <2>4, CarQuietKeeps
<1>6. CASE ReaderReceives \/ ReaderWrites \/ ReaderShuts \/ ReaderGivesUp \/ CarSends
  <2>1. step'[W] = step[W]
    BY <1>0, <1>6, GoesTyped
       DEF ReaderReceives, ReaderWrites, ReaderShuts, ReaderGivesUp, CarSends, Steps
  <2>2. CarQuiet
    BY <1>6, <2>1 DEF ReaderReceives, ReaderWrites, ReaderShuts, ReaderGivesUp, CarSends, CarQuiet
  <2> QED
    BY <2>2, CarQuietKeeps
<1>7. CASE UNCHANGED vars
  <2>1. CarQuiet
    BY <1>7 DEF vars, CarQuiet
  <2> QED
    BY <2>1, CarQuietKeeps
<1> QED
  BY <1>0, <1>1, <1>2, <1>3, <1>4, <1>5, <1>6, <1>7 DEF Next, Client, Writer, Reader
-----------------------------------------------------------------------------
(* The buffer and the count of bytes.                                      *)

\* Every step keeps the buffer cleared until a message is read into it.
LEMMA BufStep ==
    ASSUME SecureAssumption, TypeOK, BufCleared, [Next]_vars
    PROVE  BufCleared'
<1> USE DEF partVars, clientVars, writerVars, readerVars, ClientSame, WriterSame, ReaderSame
<1>0. W \in Procs /\ R \in Procs /\ W # R /\ Procs = {W, R}
  BY DEF Procs, W, R
<1>1. CASE Client \/ CarSends \/ UNCHANGED vars
  BY <1>1 DEF Client, ClientStarts, ClientSays, ClientTakes, ClientCloses, Disconnects,
              CarSends, vars, BufCleared
<1>2. ASSUME NEW p \in Procs, Accept(p) \/ Ends(p)
      PROVE  BufCleared'
  <2>1. buf' = buf
    BY <1>2 DEF Accept, TakesHeader, Strays, Accepts, AcceptFails, Ends
  <2>2. CASE Accept(W)
    <3>1. step[W] \in {"hello", "fin", "use"}
      BY <2>2 DEF Accept, TakesHeader, Strays, Accepts, AcceptFails, Reading
    <3> QED
      BY <2>1, <3>1 DEF BufCleared
  <2>3. CASE Ends(W)
    <3>1. step'[W] = "ended"
      BY <1>0, <2>3, GoesTyped DEF Ends, Steps
    <3> QED
      BY <3>1 DEF BufCleared
  <2>4. CASE p = R
    <3>1. step' = step \/ \E to \in Steps : Goes(p, to)
      BY <1>2 DEF Accept, TakesHeader, Strays, Accepts, AcceptFails, Ends, Steps
    <3>2. step'[W] = step[W]
      BY <1>0, <2>4, <3>1, GoesTyped
    <3> QED
      BY <2>1, <3>2 DEF BufCleared
  <2> QED
    BY <1>0, <1>2, <2>2, <2>3, <2>4
<1>3. CASE WriterReads
  <2>1. step'[W] = "ready" \/ (step[W] = "use" /\ buf' = buf)
    BY <1>0, <1>3, GoesTyped DEF WriterReads, Steps
  <2> QED
    BY <2>1 DEF BufCleared
<1>4. CASE WriterFrames \/ WriterShuts
  <2>1. step'[W] = "shut" \/ buf' = 0
    BY <1>0, <1>4, GoesTyped DEF WriterFrames, WriterShuts, ClearedBuf, Steps
  <2> QED
    BY <2>1 DEF BufCleared
<1>5. CASE ReaderReceives \/ ReaderWrites \/ ReaderShuts \/ ReaderGivesUp
  <2>1. step'[W] = step[W] /\ buf' = buf
    BY <1>0, <1>5, GoesTyped DEF ReaderReceives, ReaderWrites, ReaderShuts, ReaderGivesUp, Steps
  <2> QED
    BY <2>1 DEF BufCleared
<1> QED
  BY <1>0, <1>1, <1>2, <1>3, <1>4, <1>5 DEF Next, Writer, Reader

\* Every step counts a message before bytes_read says that there is one.
LEMMA BytesStep ==
    ASSUME SecureAssumption, TypeOK, BytesCounted, [Next]_vars
    PROVE  BytesCounted'
<1> USE DEF partVars, clientVars, writerVars, readerVars, ClientSame, WriterSame, ReaderSame
<1>0. got \in Nat /\ bytes_read \in {0, 1}
  BY DEF TypeOK
<1>1. CASE WriterReads
  BY <1>0, <1>1 DEF WriterReads, BytesCounted
<1>2. CASE WriterFrames
  BY <1>0, <1>2 DEF WriterFrames, SendsFrame, BytesCounted
<1>3. CASE UNCHANGED <<bytes_read, zeros, got>>
  BY <1>3 DEF BytesCounted
<1>4. ASSUME NEW p \in Procs, Strays(p)
      PROVE  BytesCounted'
  BY <1>0, <1>4 DEF Strays, BytesCounted
<1>5. \/ UNCHANGED <<bytes_read, zeros, got>> \/ WriterReads \/ WriterFrames
      \/ \E p \in Procs : Strays(p)
  BY DEF Next, Client, ClientStarts, ClientSays, ClientTakes, ClientCloses, Disconnects,
         CarSends, Writer, WriterShuts, Accept, TakesHeader, Accepts, AcceptFails, Ends,
         Procs, Reader, ReaderReceives, ReaderWrites, ReaderShuts, ReaderGivesUp, vars
<1> QED
  BY <1>1, <1>2, <1>3, <1>4, <1>5

-----------------------------------------------------------------------------
(* Car to app.                                                             *)

Holding == step[R] \in {"hello", "fin", "failed", "use"}

\* What most steps do on the car's side: nothing is added, perhaps a record of
\* the proxy's is taken or one without data written, or the frame in hand dropped.
AppQuiet ==
    /\ UNCHANGED <<carSent, queue, cur, appGot>>
    /\ Holding' => Holding
    /\ \/ s2c' = s2c
       \/ s2c # <<>> /\ s2c' = Tail(s2c)
       \/ s2c' = <<>>
       \/ \E k \in Kinds \ {"data"}, s \in 0..MaxSessions : ToClient(Rec(k, s))

\* The numbers on the car's side are natural.
LEMMA AppNumbers ==
    ASSUME SecureAssumption, TypeOK
    PROVE  /\ s2c \in Seq(Records) /\ carSent \in Nat /\ cur \in Nat
           /\ \A x \in DataIn(s2c) : x \in Nat
           /\ queue \in Seq(Frames) /\ \A i \in DOMAIN queue : queue[i].id \in Nat \ {0}
<1>1. \A i \in DOMAIN s2c : s2c[i] \in Records
  BY DEF TypeOK
<1>2. \A x \in DataIn(s2c) : x \in 0..(MaxMsgs + MaxCar)
  BY <1>1, RecordFields DEF DataIn
<1>3. queue \in Seq(Frames)
  BY DEF TypeOK, Frames
<1>4. \A i \in DOMAIN queue : queue[i] \in Frames
  BY <1>3
<1>5. \A i \in DOMAIN queue : queue[i].id \in Nat \ {0}
  BY <1>4 DEF Frames
<1> QED
  BY <1>2, <1>3, <1>5 DEF TypeOK, SecureAssumption

\* Then the order is kept, and the channel may at most have lost something.
LEMMA AppQuietKeeps ==
    ASSUME SecureAssumption, TypeOK, ToAppOrder, AppQuiet
    PROVE  ToAppOrder' /\ [ToApp!Next]_(ToApp!channel)
<1>1. DataIn(s2c') \subseteq DataIn(s2c) /\ Rising(s2c')
  <2>1. CASE s2c' = s2c
    BY <2>1 DEF ToAppOrder
  <2>2. CASE s2c # <<>> /\ s2c' = Tail(s2c)
    BY <2>2, AppNumbers, HeadTaken DEF ToAppOrder
  <2>3. ASSUME NEW k \in Kinds \ {"data"}, NEW s \in 0..MaxSessions, ToClient(Rec(k, s))
        PROVE  DataIn(s2c') \subseteq DataIn(s2c) /\ Rising(s2c')
    <3>1. Rec(k, s) \in Records /\ Rec(k, s).kind # "data"
      BY RecordsMade
    <3>2. s2c' = s2c \/ s2c' = Append(s2c, Rec(k, s))
      BY <2>3 DEF ToClient
    <3> QED
      BY <2>1, <3>1, <3>2, AppNumbers, DataAppended, RisingAppended DEF ToAppOrder
  <2>4. CASE s2c' = <<>>
    BY <2>4, NoData
  <2> QED
    BY <2>1, <2>2, <2>3, <2>4 DEF AppQuiet
<1>2. ToAppOrder'
  BY <1>1 DEF ToAppOrder, AppQuiet, Holding
<1>3. InHand' \subseteq InHand /\ Relayable' = Relayable
  BY DEF InHand, Relayable, AppQuiet, Holding
<1>4. ToApp!Lose
  BY <1>1, <1>3 DEF ToApp!Lose, AppQuiet
<1> QED
  BY <1>2, <1>4 DEF ToApp!Next

\* The client takes a frame it expects, the first waiting: Deliver.
LEMMA AppTakes ==
    ASSUME SecureAssumption, TypeOK, ToAppOrder, s2c # <<>>, Head(s2c).kind = "data",
           s2c' = Tail(s2c), appGot' = Append(appGot, Head(s2c).data),
           UNCHANGED <<carSent, queue, cur, step>>
    PROVE  ToAppOrder' /\ ToApp!Deliver
<1> DEFINE d == Head(s2c).data
<1>1. /\ DataIn(s2c) = DataIn(s2c') \union {d} /\ Rising(s2c')
      /\ \A x \in DataIn(s2c') : d < x
  BY HeadTaken, AppNumbers DEF ToAppOrder
<1>2. appGot' = Append(appGot, d)
  OBVIOUS
<1> HIDE DEF d
<1>3. ToAppOrder'
  BY <1>1, AppNumbers DEF ToAppOrder
<1>4. InHand' = InHand /\ Relayable' = Relayable
  BY DEF InHand, Relayable
<1>5. d \in Nat /\ d <= cur /\ (Holding => d < cur)
  BY <1>1, AppNumbers DEF ToAppOrder, Holding
<1>6. \A x \in InHand : d < x
  BY <1>5 DEF InHand, Holding
<1>7. \A x \in Relayable : d < x
  BY <1>5, AppNumbers DEF Relayable, ToAppOrder
<1>8. \A x \in DataIn(s2c) : x \in Nat
  BY AppNumbers
<1>9. d \notin DataIn(s2c') /\ \A x \in DataIn(s2c) : d <= x
  BY <1>1, <1>5, <1>8
<1>10. d \notin InHand /\ d \notin Relayable
  BY <1>5, <1>6, <1>7
<1>11. \A x \in InHand \union Relayable : d <= x
  <2>1. \A x \in InHand \union Relayable : x \in Nat
    BY AppNumbers DEF InHand, Relayable
  <2> QED
    BY <1>5, <1>6, <1>7, <2>1
<1>12. ToApp!Deliver
  BY <1>1, <1>2, <1>4, <1>9, <1>10, <1>11 DEF ToApp!Deliver
<1> QED
  BY <1>3, <1>12

\* A frame of the car reaches the queue behind all others, or not: Offer.
LEMMA AppOffered ==
    ASSUME SecureAssumption, TypeOK, ToAppOrder, CarSends
    PROVE  ToAppOrder' /\ ToApp!Offer
<1> USE DEF partVars, clientVars, writerVars
<1>1. PICK h \in CarHeaders, big \in BOOLEAN :
         /\ carSent' = carSent + 1
         /\ queue' = IF BoundSocketTakes(h) /\ Len(queue) < QueueCap
                     THEN Append(queue, [hdr |-> h, id |-> carSent', big |-> big])
                     ELSE queue
  BY DEF CarSends
<1>2. UNCHANGED <<s2c, step, cur, appGot>>
  BY DEF CarSends
<1>3. InHand' = InHand
  BY <1>2 DEF InHand
<1>4. CASE queue' = queue
  <2>1. Relayable' = Relayable
    BY <1>4 DEF Relayable
  <2> QED
    BY <1>1, <1>2, <1>3, <1>4, <2>1, AppNumbers DEF ToAppOrder, ToApp!Offer
<1>5. ASSUME NEW f, f.id = carSent + 1, queue' = Append(queue, f)
      PROVE  ToAppOrder' /\ ToApp!Offer
  <2>1. /\ DOMAIN queue = 1..Len(queue) /\ DOMAIN queue' = 1..(Len(queue) + 1)
        /\ \A i \in DOMAIN queue : queue'[i] = queue[i]
        /\ queue'[Len(queue) + 1] = f /\ Len(queue) \in Nat
    BY <1>5, AppNumbers
  <2>2. ToAppOrder'
    <3>1. \A i \in DOMAIN queue' : cur < queue'[i].id /\ queue'[i].id <= carSent'
      BY <1>1, <1>5, <2>1, AppNumbers DEF ToAppOrder
    <3>2. \A i, j \in DOMAIN queue' : i < j => queue'[i].id < queue'[j].id
      BY <1>5, <2>1, AppNumbers DEF ToAppOrder
    <3> QED
      BY <1>1, <1>2, <3>1, <3>2, AppNumbers DEF ToAppOrder
  <2>3. Relayable \subseteq Relayable'
    BY <2>1 DEF Relayable
  <2>4. \A x \in Relayable' : x \in Relayable \/ x = carSent + 1
    <3> TAKE x \in Relayable'
    <3>1. PICK i \in DOMAIN queue' : Relays(queue'[i]) /\ x = queue'[i].id
      BY DEF Relayable
    <3>2. i \in DOMAIN queue \/ queue'[i] = f
      BY <2>1
    <3> QED
      BY <1>5, <2>1, <3>1, <3>2 DEF Relayable
  <2>5. carSent + 1 \in (carSent + 1)..carSent' /\ carSent' > carSent
    BY <1>1, AppNumbers
  <2>6. ToApp!Offer
    BY <1>2, <1>3, <2>3, <2>4, <2>5 DEF ToApp!Offer
  <2> QED
    BY <2>2, <2>6
<1> QED
  BY <1>1, <1>4, <1>5

\* readGeonet takes the head of the queue in hand, or drops it: the number in
\* hand is greater than any on its way, less than any in the queue.
LEMMA AppReceived ==
    ASSUME SecureAssumption, TypeOK, ToAppOrder, ReaderReceives
    PROVE  ToAppOrder' /\ [ToApp!Next]_(ToApp!channel)
<1> USE DEF ReaderSame, partVars, clientVars, writerVars
<1> DEFINE f == Head(queue)
<1>1. /\ UNCHANGED <<s2c, carSent, appGot>> /\ step[R] = "recv"
      /\ queue # <<>> /\ queue' = Tail(queue)
  BY DEF ReaderReceives
<1>2. /\ DOMAIN queue = 1..Len(queue) /\ DOMAIN queue' = 1..(Len(queue) - 1)
      /\ \A i \in DOMAIN queue' : queue'[i] = queue[i + 1]
      /\ f = queue[1] /\ 1 \in DOMAIN queue /\ Len(queue) \in Nat
      /\ \A i \in DOMAIN queue' : i + 1 \in DOMAIN queue
  BY <1>1, AppNumbers
<1> HIDE DEF f
<1>3. InHand = {}
  BY <1>1 DEF InHand
<1>4. /\ cur < f.id /\ f.id <= carSent /\ f.id \in Nat
      /\ \A i \in DOMAIN queue' : f.id < queue'[i].id /\ queue'[i].id \in Nat
                                  /\ queue'[i].id <= carSent
  BY <1>2, AppNumbers DEF ToAppOrder
<1>5. \A i, j \in DOMAIN queue' : i < j => queue'[i].id < queue'[j].id
  BY <1>2 DEF ToAppOrder
<1>6. Relayable' \subseteq Relayable
  BY <1>2 DEF Relayable
<1>7. CASE Relays(f)
  <2>1. step'[R] = "hello" /\ cur' = f.id
    BY <1>7, GoesTyped DEF ReaderReceives, f, Procs, Steps
  <2>2. ToAppOrder'
    BY <1>1, <1>4, <1>5, <2>1, AppNumbers DEF ToAppOrder
  <2>3. InHand' = {f.id} /\ f.id \in Relayable
    BY <1>2, <1>7, <2>1 DEF InHand, Relayable
  <2>4. ToApp!Lose
    BY <1>1, <1>6, <2>3 DEF ToApp!Lose
  <2> QED
    BY <2>2, <2>4 DEF ToApp!Next
<1>8. CASE ~Relays(f)
  <2>1. step' = step /\ cur' = cur
    BY <1>8 DEF ReaderReceives, f
  <2>2. ToAppOrder'
    BY <1>1, <1>4, <1>5, <2>1, AppNumbers DEF ToAppOrder
  <2>3. InHand' = {}
    BY <1>3, <2>1 DEF InHand
  <2>4. ToApp!Lose
    BY <1>1, <1>6, <2>3 DEF ToApp!Lose
  <2> QED
    BY <2>2, <2>4 DEF ToApp!Next
<1> QED
  BY <1>7, <1>8

\* readGeonet writes the frame in hand behind all the records: nothing changes
\* while the client is there, and after that the frame is lost.
LEMMA AppWritten ==
    ASSUME SecureAssumption, TypeOK, ToAppOrder, ReaderWrites
    PROVE  ToAppOrder' /\ [ToApp!Next]_(ToApp!channel)
<1> USE DEF ReaderSame, partVars, clientVars, writerVars, readerVars
<1>1. /\ UNCHANGED <<carSent, queue, cur, appGot>> /\ step[R] = "use" /\ step'[R] = "shut"
  BY GoesTyped DEF ReaderWrites, Procs, Steps
<1>2. cur > 0 /\ InHand = {cur} /\ InHand' = {} /\ \A x \in DataIn(s2c) : x < cur
  BY <1>1 DEF InHand, ToAppOrder
<1>3. Relayable' = Relayable
  BY <1>1 DEF Relayable
<1>4. /\ DataIn(s2c') \subseteq DataIn(s2c) \union {cur} /\ Rising(s2c')
  <2>1. CASE s2c' = s2c
    BY <2>1 DEF ToAppOrder
  <2>2. CASE s2c' = Append(s2c, Data(sess[R], cur))
    <3>1. cur \in 0..(MaxMsgs + MaxCar) /\ sess[R] \in 0..MaxSessions
      BY DEF TypeOK, SecureAssumption, Procs
    <3>2. /\ Data(sess[R], cur) \in Records /\ Data(sess[R], cur).kind = "data"
          /\ Data(sess[R], cur).data = cur
      BY <3>1, RecordsMade
    <3> QED
      BY <1>2, <2>2, <3>2, AppNumbers, DataAppended, RisingAppended DEF ToAppOrder
  <2> QED
    BY <2>1, <2>2 DEF ReaderWrites, ToClient
<1>5. ToAppOrder'
  BY <1>1, <1>2, <1>4, AppNumbers DEF ToAppOrder
<1>6. ToApp!Lose
  BY <1>1, <1>2, <1>3, <1>4 DEF ToApp!Lose
<1> QED
  BY <1>5, <1>6 DEF ToApp!Next

\* Every step keeps the order of the car's messages and is one of the channel.
LEMMA AppStep ==
    ASSUME SecureAssumption, TypeOK, ToAppOrder, [Next]_vars
    PROVE  ToAppOrder' /\ [ToApp!Next]_(ToApp!channel)
<1> USE DEF partVars, clientVars, writerVars, readerVars, ClientSame, WriterSame, ReaderSame
<1>0. W \in Procs /\ R \in Procs /\ W # R /\ Procs = {W, R}
      /\ {"close", "hello", "fin", "alert"} \subseteq Kinds \ {"data"}
      /\ \A p \in Procs : sess[p] \in 0..MaxSessions
  BY DEF Procs, W, R, Kinds, TypeOK
<1>1. CASE CarSends
  BY <1>1, AppOffered DEF ToApp!Next
<1>2. CASE ReaderReceives
  BY <1>2, AppReceived
<1>3. CASE ReaderWrites
  BY <1>3, AppWritten
<1>4. CASE ClientTakes
  <2>1. CASE Head(s2c).kind = "data" /\ appGot' = Append(appGot, Head(s2c).data)
    BY <1>4, <2>1, AppTakes DEF ClientTakes, ToApp!Next
  <2>2. CASE appGot' = appGot
    <3>1. AppQuiet
      BY <1>4, <2>2 DEF ClientTakes, AppQuiet, Holding
    <3> QED
      BY <3>1, AppQuietKeeps
  <2> QED
    BY <1>4, <2>1, <2>2 DEF ClientTakes
<1>5. CASE ClientStarts \/ ClientSays \/ ClientCloses \/ Disconnects \/ UNCHANGED vars
  <2>1. AppQuiet
    BY <1>5 DEF ClientStarts, ClientSays, ClientCloses, Disconnects, vars, AppQuiet, Holding
  <2> QED
    BY <2>1, AppQuietKeeps
<1>6. ASSUME NEW p \in Procs, Accept(p) \/ Ends(p)
      PROVE  ToAppOrder' /\ [ToApp!Next]_(ToApp!channel)
  <2>1. Holding' => Holding
    <3>1. CASE p = W
      <4>1. step' = step \/ \E to \in Steps : Goes(W, to)
        BY <1>6, <3>1 DEF Accept, TakesHeader, Strays, Accepts, AcceptFails, Ends, Steps
      <4>2. step'[R] = step[R]
        BY <1>0, <4>1, GoesTyped
      <4> QED
        BY <4>2 DEF Holding
    <3>2. CASE p = R /\ Accept(R)
      BY <3>2 DEF Accept, TakesHeader, Strays, Accepts, AcceptFails, Reading, Holding
    <3>3. CASE p = R /\ Ends(R)
      <4>1. step'[R] = "ended"
        BY <1>0, <3>3, GoesTyped DEF Ends, Steps
      <4> QED
        BY <4>1 DEF Holding
    <3> QED
      BY <1>0, <1>6, <3>1, <3>2, <3>3
  <2>2. \/ s2c' = s2c
        \/ \E k \in Kinds \ {"data"}, s \in 0..MaxSessions : ToClient(Rec(k, s))
    <3>1. /\ c2s # <<>> => Head(c2s).sess \in 0..MaxSessions
          /\ Alert = Rec("alert", 0) /\ 0 \in 0..MaxSessions
      BY Streams, RecordFields DEF Alert, SecureAssumption
    <3>2. CASE Accepts(p)
      BY <1>0, <3>1, <3>2 DEF Accepts, TakesBody
    <3>3. CASE AcceptFails(p) \/ Strays(p)
      BY <1>0, <3>1, <3>3 DEF AcceptFails, Strays
    <3>4. CASE Ends(p) \/ TakesHeader(p)
      BY <3>4 DEF Ends, TakesHeader
    <3> QED
      BY <1>6, <3>2, <3>3, <3>4 DEF Accept
  <2>3. AppQuiet
    BY <1>6, <2>1, <2>2
       DEF Accept, TakesHeader, Strays, Accepts, AcceptFails, Ends, AppQuiet
  <2> QED
    BY <2>3, AppQuietKeeps
<1>7. CASE WriterReads \/ WriterFrames \/ WriterShuts
  <2>1. step'[R] = step[R]
    BY <1>0, <1>7, GoesTyped DEF WriterReads, WriterFrames, WriterShuts, Steps
  <2>2. \/ s2c' = s2c
        \/ \E k \in Kinds \ {"data"}, s \in 0..MaxSessions : ToClient(Rec(k, s))
    <3>1. Alert = Rec("alert", 0) /\ 0 \in 0..MaxSessions
      BY DEF Alert, SecureAssumption
    <3> QED
      BY <1>0, <1>7, <3>1 DEF WriterReads, WriterFrames, WriterShuts
  <2>3. AppQuiet
    BY <1>7, <2>1, <2>2 DEF WriterReads, WriterFrames, WriterShuts, AppQuiet, Holding
  <2> QED
    BY <2>3, AppQuietKeeps
<1>8. CASE ReaderShuts \/ ReaderGivesUp
  <2>1. step'[R] = "recv"
    BY <1>0, <1>8, GoesTyped DEF ReaderShuts, ReaderGivesUp, Steps
  <2>2. AppQuiet
    BY <1>0, <1>8, <2>1 DEF ReaderShuts, ReaderGivesUp, AppQuiet, Holding
  <2> QED
    BY <2>2, AppQuietKeeps
<1> QED
  BY <1>0, <1>1, <1>2, <1>3, <1>4, <1>5, <1>6, <1>7, <1>8 DEF Next, Client, Writer, Reader
-----------------------------------------------------------------------------
(* The theorems.                                                           *)

Inv == TypeOK /\ Order

\* The invariant holds at first and is kept by every step, which is a step of both
\* channels.
LEMMA InitInv ==
    ASSUME SecureAssumption, Init
    PROVE  Inv /\ ToApp!Init /\ ToCar!Init
<1>1. /\ W # R /\ {"hello", "recv"} \subseteq Steps /\ step[W] = "hello" /\ step[R] = "recv"
      /\ step \in [Procs -> Steps] /\ sess \in [Procs -> 0..MaxSessions]
  BY DEF W, R, Procs, Steps, Init, SecureAssumption
<1>2. TypeOK
  <2>1. cut \in Cuts /\ lost \subseteq Procs /\ split \in BOOLEAN
    BY DEF Init, Cuts
  <2> QED
    BY <1>1, <2>1 DEF Init, TypeOK, SecureAssumption
<1>3. DataIn(c2s) = {} /\ DataIn(s2c) = {} /\ Rising(c2s) /\ Rising(s2c)
  BY NoData DEF Init
<1>4. DOMAIN queue = {}
  BY DEF Init
<1>5. Order
  BY <1>1, <1>3, <1>4 DEF Init, Order, ToCarOrder, BufCleared, BytesCounted, ToAppOrder
<1>6. InBuf = {} /\ InHand = {} /\ Relayable = {}
  BY <1>1, <1>4 DEF InBuf, InHand, Relayable
<1>7. ToApp!Init /\ ToCar!Init
  BY <1>3, <1>6 DEF Init, ToApp!Init, ToCar!Init
<1> QED
  BY <1>2, <1>5, <1>7 DEF Inv

\* A step keeps the invariant and is a step, or a stutter, of both channels.
LEMMA StepInv ==
    ASSUME SecureAssumption, Inv, [Next]_vars
    PROVE  Inv' /\ [ToApp!Next]_(ToApp!channel) /\ [ToCar!Next]_(ToCar!channel)
<1>1. TypeOK'
  BY StepTyped DEF Inv
<1>2. ToCarOrder' /\ [ToCar!Next]_(ToCar!channel)
  BY <1>1, CarStep DEF Inv, Order
<1>3. ToAppOrder' /\ [ToApp!Next]_(ToApp!channel)
  BY AppStep DEF Inv, Order
<1>4. BufCleared' /\ BytesCounted'
  BY BufStep, BytesStep DEF Inv, Order
<1> QED
  BY <1>1, <1>2, <1>3, <1>4 DEF Inv, Order

\* The invariant holds of every behaviour.
LEMMA Invariant ==
    ASSUME SecureAssumption
    PROVE  Spec => []Inv
<1>1. Init => Inv
  BY InitInv
<1>2. Inv /\ [Next]_vars => Inv'
  BY StepInv
<1> QED
  BY <1>1, <1>2, PTL DEF Spec

\* Every variable keeps its type: no message, session or frame is numbered that was
\* not begun, whatever records the two processes take from each other (proxy.c's
\* writeGeonet and readGeonet).
THEOREM TypeCorrect ==
    ASSUME SecureAssumption
    PROVE  Spec => []TypeOK
<1>1. Inv => TypeOK
  BY DEF Inv
<1> QED
  BY <1>1, Invariant, PTL

\* writeGeonet puts no frame of zeros on lo before SSL_read returned a first
\* message, whatever handshakes fail: bytes_read starts as 0 (proxy.c:296).
THEOREM NoZerosAtFirst ==
    ASSUME SecureAssumption
    PROVE  Spec => []ZerosNeedAMessage
<1>1. Inv => ZerosNeedAMessage
  BY DEF Inv, Order, BytesCounted, ZerosNeedAMessage
<1> QED
  BY <1>1, Invariant, PTL

\* Each direction of the proxy is a lossy channel that keeps the order, though both
\* processes read one stream and buf and bytes_read outlive a message.
THEOREM RelaysAreChannels ==
    ASSUME SecureAssumption
    PROVE  Spec => ImplementsChannels
<1>1. Init => ToApp!Init /\ ToCar!Init
  BY InitInv
<1>2. Inv /\ [Next]_vars => [ToApp!Next]_(ToApp!channel) /\ [ToCar!Next]_(ToCar!channel)
  BY StepInv
<1> QED
  BY <1>1, <1>2, Invariant, PTL DEF Spec, ImplementsChannels, ToApp!Spec, ToCar!Spec

\* A rising sequence of numbers with a greater one appended rises.
LEMMA RisesOn ==
    ASSUME NEW d \in Seq(Nat), NEW x \in Nat,
           \A i, j \in DOMAIN d : i < j => d[i] < d[j],
           \A i \in DOMAIN d : d[i] < x
    PROVE  /\ \A i, j \in DOMAIN Append(d, x) :
                 i < j => Append(d, x)[i] < Append(d, x)[j]
           /\ \A i \in DOMAIN Append(d, x) : Append(d, x)[i] = x \/ \E j \in DOMAIN d :
                 Append(d, x)[i] = d[j]
<1> DEFINE e == Append(d, x)
<1>1. /\ DOMAIN e = 1..(Len(d) + 1) /\ DOMAIN d = 1..Len(d) /\ Len(d) \in Nat
      /\ \A i \in DOMAIN d : e[i] = d[i]
      /\ e[Len(d) + 1] = x
  OBVIOUS
<1> HIDE DEF e
<1>2. \A i, j \in DOMAIN e : i < j => e[i] < e[j]
  <2> TAKE i, j \in DOMAIN e
  <2>1. CASE i < j
    <3>1. i \in DOMAIN d /\ (j \in DOMAIN d \/ j = Len(d) + 1)
      BY <1>1, <2>1
    <3> QED
      BY <1>1, <3>1
  <2> QED
    BY <2>1
<1>3. \A i \in DOMAIN e : e[i] = x \/ \E j \in DOMAIN d : e[i] = d[j]
  <2> TAKE i \in DOMAIN e
  <2>1. i \in DOMAIN d \/ i = Len(d) + 1
    BY <1>1
  <2> QED
    BY <1>1, <2>1
<1> QED
  BY <1>2, <1>3 DEF e

\* The app gets the messages of the car once each and in the order they were on
\* lo, and what is still on its way was sent after all of them.
THEOREM AppGetsInOrder ==
    ASSUME SecureAssumption
    PROVE  Spec => []ToApp!InOrder
<1>1. ToApp!Init => ToApp!InOrder
  BY DEF ToApp!Init, ToApp!InOrder
<1>2. ASSUME Inv, ToApp!InOrder, [ToApp!Next]_(ToApp!channel), TypeOK'
      PROVE  ToApp!InOrder'
  <2> DEFINE Waiting == DataIn(s2c) \union InHand \union Relayable
  <2>0. appGot \in Seq(Nat) /\ carSent \in Nat /\ carSent' \in Nat
    <3>1. appGot \in Seq(1..MaxCar) /\ MaxCar \in Nat /\ carSent \in 0..MaxCar /\ carSent' \in 0..MaxCar
      BY <1>2 DEF Inv, TypeOK, SecureAssumption
    <3>2. \A i \in 1..Len(appGot) : appGot[i] \in Nat
      BY <3>1
    <3> QED
      BY <3>1, <3>2
  <2>1. ASSUME ToApp!Offer PROVE ToApp!InOrder'
    <3> SUFFICES ASSUME NEW x \in Waiting'
                 PROVE  x \in 1..carSent' /\ \A i \in DOMAIN appGot : appGot[i] < x
      BY <1>2, <2>0, <2>1 DEF ToApp!Offer, ToApp!InOrder
    <3>1. x \in Waiting \/ x \in (carSent + 1)..carSent'
      BY <2>1 DEF ToApp!Offer
    <3>2. carSent' > carSent
      BY <2>1 DEF ToApp!Offer
    <3> QED
      BY <1>2, <2>0, <3>1, <3>2 DEF ToApp!InOrder
  <2>2. ASSUME ToApp!Deliver PROVE ToApp!InOrder'
    <3>1. PICK first \in Waiting :
             /\ \A x \in Waiting : first <= x
             /\ appGot' = Append(appGot, first)
             /\ Waiting' = Waiting \ {first}
      BY <2>2 DEF ToApp!Deliver
    <3>2. /\ carSent' = carSent /\ first \in Nat /\ first \in 1..carSent
          /\ \A x \in Waiting : x \in 1..carSent
          /\ \A i \in DOMAIN appGot : appGot[i] < first
      BY <1>2, <2>2, <2>0 DEF ToApp!Deliver, ToApp!InOrder
    <3>3. /\ \A i, j \in DOMAIN appGot' : i < j => appGot'[i] < appGot'[j]
          /\ \A i \in DOMAIN appGot' : appGot'[i] = first \/ \E j \in DOMAIN appGot :
                appGot'[i] = appGot[j]
      BY <1>2, <2>0, <3>1, <3>2, RisesOn DEF ToApp!InOrder
    <3>4. \A x \in Waiting' : x \in Waiting /\ x > first
      <4> SUFFICES ASSUME NEW x \in Waiting' PROVE x \in Waiting /\ x > first
        OBVIOUS
      <4>1. x \in Waiting /\ x # first
        BY <3>1
      <4>2. first <= x
        BY <3>1, <4>1
      <4>3. x \in Nat
        BY <3>2, <4>1
      <4> HIDE DEF Waiting
      <4> QED
        BY <3>2, <4>1, <4>2, <4>3
    <3>5. \A j \in DOMAIN appGot, x \in Waiting' : appGot[j] < x
      BY <1>2, <3>4 DEF ToApp!InOrder
    <3>6. /\ \A x \in Waiting' : x \in 1..carSent'
          /\ \A i \in DOMAIN appGot', x \in Waiting' : appGot'[i] < x
          /\ \A i \in DOMAIN appGot' : appGot'[i] \in 1..carSent'
      BY <1>2, <3>2, <3>3, <3>4, <3>5 DEF ToApp!InOrder
    <3> HIDE DEF Waiting
    <3> QED
      BY <3>3, <3>6 DEF ToApp!InOrder, Waiting
  <2>3. ASSUME ToApp!Lose PROVE ToApp!InOrder'
    BY <1>2, <2>3 DEF ToApp!Lose, ToApp!InOrder
  <2>4. ASSUME UNCHANGED ToApp!channel PROVE ToApp!InOrder'
    BY <1>2, <2>4 DEF ToApp!channel, ToApp!InOrder
  <2> QED
    BY <1>2, <2>1, <2>2, <2>3, <2>4 DEF ToApp!Next
<1>3. Inv => TypeOK
  BY DEF Inv
<1> QED
  BY <1>1, <1>2, <1>3, Invariant, RelaysAreChannels, PTL DEF ImplementsChannels, ToApp!Spec

\* The car gets the messages of the app once each and in the order they were
\* sent, and what is still in the stream or the buffer was sent after them.
THEOREM CarGetsInOrder ==
    ASSUME SecureAssumption
    PROVE  Spec => []ToCar!InOrder
<1>1. ToCar!Init => ToCar!InOrder
  BY DEF ToCar!Init, ToCar!InOrder
<1>2. ASSUME Inv, ToCar!InOrder, [ToCar!Next]_(ToCar!channel), TypeOK'
      PROVE  ToCar!InOrder'
  <2> DEFINE Waiting == InBuf \union DataIn(c2s)
  <2>0. frames \in Seq(Nat) /\ said \in Nat /\ said' \in Nat
    <3>1. frames \in Seq(1..MaxMsgs) /\ MaxMsgs \in Nat /\ said \in 0..MaxMsgs /\ said' \in 0..MaxMsgs
      BY <1>2 DEF Inv, TypeOK, SecureAssumption
    <3>2. \A i \in 1..Len(frames) : frames[i] \in Nat
      BY <3>1
    <3> QED
      BY <3>1, <3>2
  <2>1. ASSUME ToCar!Offer PROVE ToCar!InOrder'
    <3> SUFFICES ASSUME NEW x \in Waiting'
                 PROVE  x \in 1..said' /\ \A i \in DOMAIN frames : frames[i] < x
      BY <1>2, <2>0, <2>1 DEF ToCar!Offer, ToCar!InOrder
    <3>1. x \in Waiting \/ x \in (said + 1)..said'
      BY <2>1 DEF ToCar!Offer
    <3>2. said' > said
      BY <2>1 DEF ToCar!Offer
    <3> QED
      BY <1>2, <2>0, <3>1, <3>2 DEF ToCar!InOrder
  <2>2. ASSUME ToCar!Deliver PROVE ToCar!InOrder'
    <3>1. PICK first \in Waiting :
             /\ \A x \in Waiting : first <= x
             /\ frames' = Append(frames, first)
             /\ Waiting' = Waiting \ {first}
      BY <2>2 DEF ToCar!Deliver
    <3>2. /\ said' = said /\ first \in Nat /\ first \in 1..said
          /\ \A x \in Waiting : x \in 1..said
          /\ \A i \in DOMAIN frames : frames[i] < first
      BY <1>2, <2>2, <2>0 DEF ToCar!Deliver, ToCar!InOrder
    <3>3. /\ \A i, j \in DOMAIN frames' : i < j => frames'[i] < frames'[j]
          /\ \A i \in DOMAIN frames' : frames'[i] = first \/ \E j \in DOMAIN frames :
                frames'[i] = frames[j]
      BY <1>2, <2>0, <3>1, <3>2, RisesOn DEF ToCar!InOrder
    <3>4. \A x \in Waiting' : x \in Waiting /\ x > first
      <4> SUFFICES ASSUME NEW x \in Waiting' PROVE x \in Waiting /\ x > first
        OBVIOUS
      <4>1. x \in Waiting /\ x # first
        BY <3>1
      <4>2. first <= x
        BY <3>1, <4>1
      <4>3. x \in Nat
        BY <3>2, <4>1
      <4> HIDE DEF Waiting
      <4> QED
        BY <3>2, <4>1, <4>2, <4>3
    <3>5. \A j \in DOMAIN frames, x \in Waiting' : frames[j] < x
      BY <1>2, <3>4 DEF ToCar!InOrder
    <3>6. /\ \A x \in Waiting' : x \in 1..said'
          /\ \A i \in DOMAIN frames', x \in Waiting' : frames'[i] < x
          /\ \A i \in DOMAIN frames' : frames'[i] \in 1..said'
      BY <1>2, <3>2, <3>3, <3>4, <3>5 DEF ToCar!InOrder
    <3> HIDE DEF Waiting
    <3> QED
      BY <3>3, <3>6 DEF ToCar!InOrder, Waiting
  <2>3. ASSUME ToCar!Lose PROVE ToCar!InOrder'
    BY <1>2, <2>3 DEF ToCar!Lose, ToCar!InOrder
  <2>4. ASSUME UNCHANGED ToCar!channel PROVE ToCar!InOrder'
    BY <1>2, <2>4 DEF ToCar!channel, ToCar!InOrder
  <2> QED
    BY <1>2, <2>1, <2>2, <2>3, <2>4 DEF ToCar!Next
<1>3. Inv => TypeOK
  BY DEF Inv
<1> QED
  BY <1>1, <1>2, <1>3, Invariant, RelaysAreChannels, PTL DEF ImplementsChannels, ToCar!Spec
===============================================================================
