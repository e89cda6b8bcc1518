----------------------------- MODULE Socktap_proofs -----------------------------
(***************************************************************************)
(* Proofs about Socktap: the stack of nested schedule() calls, the timer,  *)
(* and what a station that does not forward puts on the air.               *)
(***************************************************************************)
EXTENDS Socktap, TLAPS

\* Handlers are quicker than the intervals of the periodic callbacks.
Prompt == MaxStall < CamInterval /\ MaxStall < PosInterval

Periodic == {"cam", "pos"}
Interval(c) == IF c = "cam" THEN CamInterval ELSE PosInterval
Depth == 1 .. Len(stack)

\* Where an activation is while schedule() or request(), called by it, runs.
InSchedule(a) == <<a.fn, a.at>> \in {<<"pass_up", 2>>, <<"pass_up", 3>>, <<"pos", 2>>, <<"request", 2>>}
InRequest(a) == <<a.fn, a.at>> \in {<<"cam", 2>>, <<"cam", 3>>, <<"fwd", 2>>}

\* Who calls whom.
Nested ==
    \A i \in Depth :
        /\ stack[i].fn = "schedule" => stack[i].at = 1 /\ (i = Len(stack) \/ InSchedule(stack[i + 1]))
        /\ stack[i].fn = "request" => i < Len(stack) /\ InRequest(stack[i + 1])
        /\ stack[i].fn = "pass_up" => i = Len(stack)
        /\ stack[i].fn \in Callbacks => i < Len(stack) /\ stack[i + 1].fn = "schedule"

\* The runtime's clock lags by what the handler has taken, at most, once it
\* called schedule().
LagWithinHandler ==
    stack # <<>> => lag <= busy \/ (Len(stack) = 1 /\ stack[1].fn = "pass_up" /\ stack[1].at = 1)

\* A periodic callback is in the queue, unless it is about to put itself there.
Queued ==
    \A c \in Periodic :
        queue[c] # None \/ (stack # <<>> /\ stack[1].fn = c /\ stack[1].at = 1)

\* A callback that runs is not due again before its interval is over.
NotDueAgain ==
    \A i \in Depth :
        /\ stack[i].fn = "fwd" => queue["fwd"] = None
        /\ \A c \in Periodic :
              stack[i].fn = c => IF stack[i].at = 1 THEN queue[c] = None
                                 ELSE queue[c] # None /\ queue[c] >= Interval(c) - busy

\* The timer, when the last schedule() of a handler has returned.
Returning == stack = <<>> \/ (Len(stack) = 1 /\ stack[1].fn = "pass_up" /\ stack[1].at = 3)
TimerSet ==
    Returning /\ started /\ expired = 0 => armed /\ \A c \in Scheduled : expiry <= queue[c]

\* A station that does not forward: no callback of the router, and the one packet
\* in the buffers is that of the one request.
NoForwards == ~forwards => queue["fwd"] = None /\ \A i \in Depth : stack[i].fn # "fwd"
PacketOf(fn, at, g) == IF fn = "fwd" THEN Packet("fwd", 0)
                       ELSE IF at = 2 THEN Packet("cam", g) ELSE Packet("denm", g)
RequestsOwn ==
    \A i \in Depth : stack[i].fn = "request" =>
        stack[i].packet = PacketOf(stack[i + 1].fn, stack[i + 1].at, gen)
OwnBuffers ==
    ~forwards => \A i \in Depth :
        stack[i].fn = "request" /\ stack[i].at = 2 => buffers = stack[i].packet

\* The last packet sent, between and within two CAMs.
Quiet(g) == air.kind \in {"none", "denm"} /\ air.gen = g
InTurn(i) ==
    /\ stack[i].at = 1           => Quiet(gen)
    /\ stack[i].at = 2 /\ i > 1  => Quiet(1 - gen)
    /\ stack[i].at = 2 /\ i = 1  => air = Packet("cam", gen)
    /\ stack[i].at = 3 /\ i > 1  => air = Packet("cam", gen)
    /\ stack[i].at = 3 /\ i = 1  => air = Packet("denm", gen)
TakesTurns ==
    Promises =>
        /\ flow
        /\ (\A i \in Depth : stack[i].fn # "cam") => Quiet(gen)
        /\ \A i \in Depth : stack[i].fn = "cam" => InTurn(i)

-----------------------------------------------------------------------------
\* The stack.
LEMMA CallPushes ==
    ASSUME stack \in Seq(Activations), stack # <<>>, NEW a \in Activations, Calls(a),
           stack[1].at \in 1 .. 2
    PROVE  /\ stack' \in Seq(Activations) /\ Len(stack') = Len(stack) + 1
           /\ stack'[1] = a
           /\ stack'[2] = [stack[1] EXCEPT !.at = stack[1].at + 1]
           /\ \A i \in 2 .. Len(stack) : stack'[i + 1] = stack[i]
<1> DEFINE b == [stack[1] EXCEPT !.at = stack[1].at + 1]
<1>1. stack[1] \in Activations /\ Head(stack) = stack[1]
  OBVIOUS
<1>2. b \in Activations
  BY <1>1 DEF Activations
<1>3. stack' = <<a, b>> \o Tail(stack)
  BY <1>1 DEF Calls
<1> HIDE DEF b
<1>4. /\ Tail(stack) \in Seq(Activations) /\ Len(Tail(stack)) = Len(stack) - 1
      /\ \A i \in 1 .. Len(stack) - 1 : Tail(stack)[i] = stack[i + 1]
  OBVIOUS
<1>5. <<a, b>> \in Seq(Activations) /\ Len(<<a, b>>) = 2
  BY <1>2
<1>6. stack' \in Seq(Activations) /\ Len(stack') = Len(stack) + 1
  BY <1>3, <1>4, <1>5
<1>7. \A i \in 1 .. Len(stack) + 1 : stack'[i] = IF i <= 2 THEN <<a, b>>[i] ELSE Tail(stack)[i - 2]
  BY <1>3, <1>4, <1>5
<1>8. stack'[1] = a /\ stack'[2] = b
  BY <1>7, Len(stack) \in Nat \ {0}
<1>9. ASSUME NEW i \in 2 .. Len(stack) PROVE stack'[i + 1] = stack[i]
  <2>1. stack'[i + 1] = Tail(stack)[i - 1]
    BY <1>7
  <2> QED
    BY <1>4, <2>1
<1> QED
  BY <1>6, <1>8, <1>9 DEF b

\* A call puts its activation on the top of the stack.
LEMMA TriggerPushes ==
    ASSUME stack \in Seq(Activations), NEW a \in Activations, stack' = <<a>> \o stack
    PROVE  /\ stack' \in Seq(Activations) /\ Len(stack') = Len(stack) + 1
           /\ stack'[1] = a
           /\ \A i \in 1 .. Len(stack) : stack'[i + 1] = stack[i]
<1>1. <<a>> \in Seq(Activations) /\ Len(<<a>>) = 1
  OBVIOUS
<1>2. \A i \in 1 .. Len(stack) + 1 : stack'[i] = IF i <= 1 THEN <<a>>[i] ELSE stack[i - 1]
  BY <1>1
<1>3. \A i \in 1 .. Len(stack) : stack'[i + 1] = stack[i]
  BY <1>2
<1> QED
  BY <1>1, <1>2, <1>3

\* A return takes the top away and leaves the rest.
LEMMA ReturnPops ==
    ASSUME stack \in Seq(Activations), stack # <<>>, Returns
    PROVE  /\ stack' \in Seq(Activations) /\ Len(stack') = Len(stack) - 1
           /\ \A i \in 1 .. Len(stack) - 1 : stack'[i] = stack[i + 1]
  BY DEF Returns

\* What runs is the top of the stack.
LEMMA Top ==
    ASSUME stack \in Seq(Activations), NEW fn, NEW at, In(fn, at)
    PROVE  /\ stack # <<>> /\ Len(stack) \in Nat \ {0}
           /\ Head(stack) = stack[1] /\ stack[1] \in Activations
           /\ stack[1].fn = fn /\ stack[1].at = at
  BY DEF In

\* Every call the code makes is an activation.
LEMMA IsActivation ==
    /\ \A fn \in {"schedule", "cam", "pos", "fwd", "pass_up"} : Call(fn) \in Activations
    /\ \A k \in {"cam", "denm", "fwd"}, g \in {0, 1} : Request(Packet(k, g)) \in Activations
    /\ NoPacket \in Packets
    /\ \A a \in Activations : a.packet \in Packets
  BY DEF Call, Request, Activations, Packet, Packets, NoPacket

\* The next deadline is the least in the runtime queue.
LEMMA NextIsEarliest ==
    ASSUME \A c \in Callbacks : queue[c] \in Int, Scheduled # {}
    PROVE  /\ \E c \in Scheduled : NextDeadline = queue[c]
           /\ \A c \in Scheduled : NextDeadline <= queue[c]
<1> DEFINE D == {queue[c] : c \in Scheduled}
<1>1. \E c \in Scheduled : \A e \in Scheduled : queue[c] <= queue[e]
  <2> SUFFICES ASSUME \A c \in Scheduled : \E e \in Scheduled : queue[e] < queue[c]
               PROVE  FALSE
    BY DEF Scheduled
  <2>1. \A c \in Scheduled : c \in {"cam", "pos", "fwd"} /\ queue[c] \in Int
    BY DEF Scheduled, Callbacks
  <2>2. PICK c1 \in Scheduled : TRUE
    OBVIOUS
  <2>3. PICK c2 \in Scheduled : queue[c2] < queue[c1]
    OBVIOUS
  <2>4. PICK c3 \in Scheduled : queue[c3] < queue[c2]
    OBVIOUS
  <2>5. PICK c4 \in Scheduled : queue[c4] < queue[c3]
    OBVIOUS
  <2> QED
    BY <2>1, <2>3, <2>4, <2>5
<1>2. NextDeadline \in D /\ \A c \in Scheduled : NextDeadline <= queue[c]
  <2> HIDE DEF D
  <2> QED
    BY <1>1 DEF NextDeadline, D
<1> QED
  BY <1>2

-----------------------------------------------------------------------------
\* Types.
LEMMA TypeStep == ASSUME SocktapAssumption, TypeOK, [Next]_vars PROVE TypeOK'
<1> USE DEF SocktapAssumption
<1> DEFINE Clock == /\ queue' \in [Callbacks -> Deadlines \cup {None}]
                    /\ lag' \in 0..Latest
                    /\ armed' \in BOOLEAN /\ expiry' \in Deadlines /\ expired' \in 0..2
           Frames == stack' \in Seq(Activations) /\ Len(stack') <= MaxDepth
           Rest == /\ buffers' \in Packets /\ {forwards', require', flow'} \subseteq BOOLEAN
                   /\ air' \in Packets /\ gen' \in {0, 1}
                   /\ busy' \in 0..MaxStall /\ started' \in BOOLEAN
<1>0. /\ CamInterval \in Nat \ {0} /\ PosInterval \in Nat \ {0} /\ MaxStall \in Nat
      /\ MaxDepth \in Nat \ {0}
      /\ Longest \in Nat \ {0} /\ CamInterval <= Longest /\ PosInterval <= Longest
      /\ Latest = Longest + 2 * MaxStall /\ Latest \in Nat /\ None = Longest + 1
  BY DEF Longest, Latest, None
<1>1. /\ queue \in [Callbacks -> Deadlines \cup {None}] /\ lag \in 0..Latest
      /\ armed \in BOOLEAN /\ expiry \in Deadlines /\ expired \in 0..2
      /\ stack \in Seq(Activations) /\ Len(stack) <= MaxDepth
      /\ \A c \in Callbacks : queue[c] \in Int
  BY <1>0 DEF TypeOK, Deadlines
<1>2. /\ buffers \in Packets /\ {forwards, require, flow} \subseteq BOOLEAN
      /\ air \in Packets /\ gen \in {0, 1}
      /\ busy \in 0..MaxStall /\ started \in BOOLEAN
  BY DEF TypeOK
<1> SUFFICES Clock /\ Frames /\ Rest
  BY DEF TypeOK
<1>3. ASSUME NEW a \in Activations, NEW fn, NEW at \in 1 .. 2, In(fn, at), Calls(a)
      PROVE  Frames
  <2>1. stack # <<>> /\ stack[1].at \in 1 .. 2
    BY <1>1, <1>3, Top
  <2>2. stack' \in Seq(Activations) /\ Len(stack') = Len(stack) + 1
    BY <1>1, <1>3, <2>1, CallPushes
  <2> QED
    BY <1>0, <1>1, <1>3, <2>2 DEF Calls
<1>4. ASSUME stack # <<>>, Returns PROVE Frames
  BY <1>0, <1>1, <1>4, ReturnPops
<1>5. \A delay \in 0 .. Longest : After(delay) \in Deadlines
  BY <1>0, <1>1 DEF After, Deadlines
<1>6. \A d \in Deadlines : Earlier(d) \in Deadlines
  BY <1>0 DEF Earlier, Deadlines
<1>7. ASSUME NEW c \in Callbacks, NEW d \in Deadlines \cup {None}
      PROVE  [queue EXCEPT ![c] = d] \in [Callbacks -> Deadlines \cup {None}]
  BY <1>1
<1>8. 0 \in 0 .. Latest
  BY <1>0
<1>9. \A k \in {"cam", "denm", "fwd"}, g \in {0, 1} : Request(Packet(k, g)) \in Activations
  BY IsActivation
<1>10. \A fn \in {"schedule", "cam", "pos", "fwd", "pass_up"} : Call(fn) \in Activations
  BY IsActivation
<1> USE DEF timerVars, sendVars
<1>11. CASE Tick
  <2>1. queue' \in [Callbacks -> Deadlines \cup {None}]
    <3>1. \A c \in Scheduled : queue[c] \in Deadlines
      BY <1>1 DEF Scheduled
    <3> QED
      BY <1>6, <1>11, <3>1 DEF Tick
  <2>2. lag' \in 0 .. Latest /\ expiry' \in Deadlines
    BY <1>0, <1>1, <1>6, <1>11 DEF Tick
  <2>3. busy' \in 0 .. MaxStall
    BY <1>0, <1>2, <1>11 DEF Tick, MayStall
  <2> QED
    BY <1>1, <1>2, <1>11, <2>1, <2>2, <2>3 DEF Tick
<1>12. CASE TimerExpires
  <2>1. armed' = FALSE /\ expired' \in 0..2
    BY <1>1, <1>12 DEF TimerExpires
  <2> QED
    BY <1>1, <1>2, <1>12, <2>1 DEF TimerExpires
<1>13. CASE OnTimeout
  <2>1. stack' \in Seq(Activations) /\ Len(stack') = 1
    BY <1>10, <1>13 DEF OnTimeout
  <2> QED
    BY <1>0, <1>1, <1>2, <1>13, <2>1 DEF OnTimeout
<1>14. CASE OnRead
  <2>1. stack' \in Seq(Activations) /\ Len(stack') = 1
    BY <1>10, <1>14 DEF OnRead
  <2> QED
    BY <1>0, <1>1, <1>2, <1>14, <2>1 DEF OnRead
<1>15. ASSUME NEW c \in Callbacks, Triggers(c) PROVE Clock /\ Frames /\ Rest
  <2>1. Call(c) \in Activations
    BY <1>10 DEF Callbacks
  <2>2. stack' \in Seq(Activations) /\ Len(stack') = Len(stack) + 1
    BY <1>1, <1>15, <2>1, TriggerPushes DEF Triggers
  <2>3. queue' \in [Callbacks -> Deadlines \cup {None}]
    BY <1>7, <1>15 DEF Triggers
  <2> QED
    BY <1>0, <1>1, <1>2, <1>15, <2>2, <2>3 DEF Triggers
<1>16. CASE Arms
  <2>1. Frames
    BY <1>4, <1>16 DEF Arms, In
  <2>2. expiry' \in Deadlines
    <3>1. CASE Scheduled # {}
      <4>1. PICK c \in Scheduled : NextDeadline = queue[c]
        BY <1>1, <3>1, NextIsEarliest
      <4> QED
        BY <1>1, <1>16, <3>1, <4>1 DEF Arms, Scheduled
    <3> QED
      BY <1>1, <1>16, <3>1 DEF Arms
  <2> QED
    BY <1>1, <1>2, <1>16, <2>1, <2>2 DEF Arms
<1>17. CASE CamOnTimer
  <2>1. CASE In("cam", 1)
    <3>1. /\ queue' = [queue EXCEPT !["cam"] = After(CamInterval)]
          /\ gen' = 1 - gen /\ Calls(Request(Packet("cam", gen')))
          /\ UNCHANGED <<lag, timerVars, buffers, forwards, require, flow, air, busy, started>>
      BY <1>17, <2>1 DEF CamOnTimer, In
    <3>2. gen' \in {0, 1} /\ Frames
      BY <1>2, <1>3, <1>9, <2>1, <3>1
    <3>3. queue' \in [Callbacks -> Deadlines \cup {None}]
      BY <1>0, <1>5, <1>7, <3>1 DEF Callbacks
    <3> QED
      BY <1>1, <1>2, <3>1, <3>2, <3>3
  <2>2. CASE In("cam", 2)
    <3>1. Calls(Request(Packet("denm", gen)))
          /\ UNCHANGED <<queue, lag, timerVars, sendVars, busy, started>>
      BY <1>17, <2>2 DEF CamOnTimer, In
    <3>2. Frames
      BY <1>2, <1>3, <1>9, <2>2, <3>1
    <3> QED
      BY <1>1, <1>2, <3>1, <3>2
  <2>3. CASE In("cam", 3)
    <3>1. Returns /\ UNCHANGED <<queue, lag, timerVars, sendVars, busy, started>>
      BY <1>17, <2>3 DEF CamOnTimer, In
    <3>2. Frames
      BY <1>4, <2>3, <3>1 DEF In
    <3> QED
      BY <1>1, <1>2, <3>1, <3>2
  <2> QED
    BY <1>17, <2>1, <2>2, <2>3 DEF CamOnTimer
<1>18. CASE UpdatePosition
  <2>1. CASE In("pos", 1)
    <3>1. /\ queue' = [queue EXCEPT !["pos"] = After(PosInterval)]
          /\ Calls(Call("schedule")) /\ lag' = 0
          /\ UNCHANGED <<timerVars, sendVars, busy, started>>
      BY <1>18, <2>1 DEF UpdatePosition, In, CallsSchedule
    <3>2. Frames
      BY <1>3, <1>10, <2>1, <3>1
    <3>3. queue' \in [Callbacks -> Deadlines \cup {None}]
      BY <1>0, <1>5, <1>7, <3>1 DEF Callbacks
    <3> QED
      BY <1>1, <1>2, <1>8, <3>1, <3>2, <3>3
  <2>2. CASE In("pos", 2)
    <3>1. /\ Returns /\ flow' = Allowed
          /\ UNCHANGED <<queue, lag, timerVars, buffers, forwards, require, air, gen, busy, started>>
      BY <1>18, <2>2 DEF UpdatePosition, In
    <3>2. Frames
      BY <1>4, <2>2, <3>1 DEF In
    <3>3. flow' \in BOOLEAN
      BY <3>1 DEF Allowed, Accurate
    <3> QED
      BY <1>1, <1>2, <3>1, <3>2, <3>3
  <2> QED
    BY <1>18, <2>1, <2>2 DEF UpdatePosition
<1>19. CASE Forward
  <2>1. CASE In("fwd", 1)
    <3>1. Calls(Request(Packet("fwd", 0)))
          /\ UNCHANGED <<queue, lag, timerVars, sendVars, busy, started>>
      BY <1>19, <2>1 DEF Forward, In
    <3>2. Frames
      BY <1>3, <1>9, <2>1, <3>1
    <3> QED
      BY <1>1, <1>2, <3>1, <3>2
  <2>2. CASE In("fwd", 2)
    <3>1. Returns /\ UNCHANGED <<queue, lag, timerVars, sendVars, busy, started>>
      BY <1>19, <2>2 DEF Forward, In
    <3>2. Frames
      BY <1>4, <2>2, <3>1 DEF In
    <3> QED
      BY <1>1, <1>2, <3>1, <3>2
  <2> QED
    BY <1>19, <2>1, <2>2 DEF Forward
<1>20. CASE Suppresses
  <2>1. Frames
    BY <1>4, <1>20 DEF Suppresses, In
  <2> QED
    BY <1>1, <1>2, <1>20, <2>1 DEF Suppresses
<1>21. CASE Fills
  <2>1. In("request", 1) /\ Calls(Call("schedule"))
    BY <1>21 DEF Fills, CallsSchedule
  <2>2. Frames
    BY <1>3, <1>10, <2>1
  <2>3. Head(stack).packet \in Packets
    BY <1>1, <2>1, Top, IsActivation
  <2> QED
    BY <1>1, <1>2, <1>8, <1>21, <2>2, <2>3 DEF Fills, CallsSchedule
<1>22. CASE Sends
  <2>1. Frames
    BY <1>4, <1>22 DEF Sends, In
  <2> QED
    BY <1>1, <1>2, <1>22, <2>1 DEF Sends
<1>23. CASE PassUp
  <2>1. UNCHANGED <<timerVars, sendVars, busy, started>>
    BY <1>23 DEF PassUp
  <2>2. CASE In("pass_up", 3)
    <3>1. Returns /\ UNCHANGED <<queue, lag>>
      BY <1>23, <2>2 DEF PassUp, In
    <3>2. Frames
      BY <1>4, <2>2, <3>1 DEF In
    <3> QED
      BY <1>1, <1>2, <2>1, <3>1, <3>2
  <2>3. ASSUME NEW at \in 1 .. 2, In("pass_up", at) PROVE Clock /\ Frames /\ Rest
    <3>1. /\ Calls(Call("schedule")) /\ lag' = 0
          /\ \/ queue' = queue
             \/ \E d \in {0, 1} : queue' = [queue EXCEPT !["fwd"] = After(d)]
      BY <1>23, <2>3 DEF PassUp, In, CallsSchedule
    <3>2. Frames
      BY <1>3, <1>10, <2>3, <3>1
    <3>3. \A d \in {0, 1} : d \in 0 .. Longest
      BY <1>0
    <3>4. queue' \in [Callbacks -> Deadlines \cup {None}]
      BY <1>1, <1>5, <1>7, <3>1, <3>3 DEF Callbacks
    <3> QED
      BY <1>1, <1>2, <1>8, <2>1, <3>1, <3>2, <3>4
  <2> QED
    BY <1>23, <2>2, <2>3 DEF PassUp
<1>24. CASE UNCHANGED vars
  BY <1>1, <1>2, <1>24 DEF vars
<1> QED
  BY <1>11, <1>12, <1>13, <1>14, <1>15, <1>16, <1>17, <1>18, <1>19, <1>20, <1>21, <1>22, <1>23, <1>24
  DEF Next, Handler

\* Whatever is due when, the queue, the timer and the stack keep their types: no
\* callback is ever later than its interval (time_trigger.cpp, runtime.cpp).
THEOREM TypeCorrect == ASSUME SocktapAssumption PROVE Spec => []TypeOK
<1>1. Init => TypeOK
  <2> SUFFICES ASSUME Init PROVE TypeOK
    OBVIOUS
  <2>1. /\ CamInterval \in Deadlines /\ PosInterval \in Deadlines /\ 0 \in 0..Latest
        /\ 0 \in 0..MaxStall
    BY DEF SocktapAssumption, Deadlines, Latest, Longest
  <2>2. queue \in [Callbacks -> Deadlines \cup {None}]
    <3>1. queue = [c \in Callbacks |-> CASE c = "cam" -> CamInterval
                                         [] c = "pos" -> PosInterval
                                         [] c = "fwd" -> None]
      BY DEF Init
    <3>2. \A c \in Callbacks : queue[c] \in Deadlines \cup {None}
      BY <2>1, <3>1 DEF Callbacks
    <3> QED
      BY <3>1, <3>2
  <2>3. stack \in Seq(Activations) /\ Len(stack) <= MaxDepth
    BY DEF Init, SocktapAssumption
  <2>4. buffers \in Packets /\ air \in Packets
    BY IsActivation DEF Init
  <2>5. {forwards, require, flow} \subseteq BOOLEAN
    BY DEF Init, SocktapAssumption, Allowed, Accurate
  <2>6. lag \in 0..Latest /\ expiry \in Deadlines /\ busy \in 0..MaxStall
    BY <2>1 DEF Init
  <2>7. expired \in 0..2 /\ gen \in {0, 1}
    <3>1. expired = 0 /\ gen = 0
      BY DEF Init
    <3> QED
      BY <3>1
  <2>8. armed \in BOOLEAN /\ started \in BOOLEAN
    BY DEF Init
  <2> QED
    BY <2>2, <2>3, <2>4, <2>5, <2>6, <2>7, <2>8 DEF TypeOK
<1> QED
  BY <1>1, TypeStep, PTL DEF Spec

-----------------------------------------------------------------------------
(* What one step of a handler does to the stack and to the queue.          *)

CallSites == {<<"cam", 1, "request">>, <<"cam", 2, "request">>, <<"fwd", 1, "request">>,
              <<"pos", 1, "schedule">>, <<"request", 1, "schedule">>,
              <<"pass_up", 1, "schedule">>, <<"pass_up", 2, "schedule">>}
ReturnSites == {<<"cam", 3>>, <<"pos", 2>>, <<"fwd", 2>>, <<"request", 1>>, <<"request", 2>>,
                <<"pass_up", 3>>}

\* A periodic callback puts itself back, and a received packet may be forwarded.
Requeues ==
    \/ queue' = queue /\ <<stack[1].fn, stack[1].at>> \notin {<<"cam", 1>>, <<"pos", 1>>}
    \/ \E c \in Periodic : /\ stack[1].fn = c /\ stack[1].at = 1
                           /\ queue' = [queue EXCEPT ![c] = After(Interval(c))]
    \/ /\ stack[1].fn = "pass_up" /\ forwards /\ queue["fwd"] = None
       /\ \E d \in {0, 1} : queue' = [queue EXCEPT !["fwd"] = After(d)]

CallsOn(a) ==
    /\ Calls(a) /\ a \in Activations /\ a.at = 1
    /\ stack # <<>> /\ <<stack[1].fn, stack[1].at, a.fn>> \in CallSites
    /\ lag' = IF a.fn = "schedule" THEN 0 ELSE lag
    /\ Requeues /\ UNCHANGED <<timerVars, busy, started>>
    /\ gen' = IF stack[1].fn = "cam" /\ stack[1].at = 1 THEN 1 - gen ELSE gen
    /\ a.fn = "request" => a.packet = PacketOf(stack[1].fn, stack[1].at + 1, gen')
    /\ buffers' = IF stack[1].fn = "request" THEN stack[1].packet ELSE buffers
    /\ UNCHANGED <<forwards, require, flow, air>>

ReturnsOn ==
    /\ stack # <<>> /\ <<stack[1].fn, stack[1].at>> \in ReturnSites
    /\ Returns /\ UNCHANGED <<queue, lag, timerVars, busy, started>>
    /\ stack[1].fn = "request" /\ stack[1].at = 1 => ~flow
    /\ flow' = IF stack[1].fn = "pos" THEN Allowed ELSE flow
    /\ air' = IF stack[1].fn = "request" /\ stack[1].at = 2 THEN buffers ELSE air
    /\ UNCHANGED <<forwards, require, buffers, gen>>

\* What a handler can do next: a call, a return, arming the timer, a callback.
LEMMA HandlerSteps ==
    ASSUME TypeOK, Handler
    PROVE  (\E a : CallsOn(a)) \/ ReturnsOn \/ Arms \/ \E c \in Callbacks : Triggers(c)
<1>1. stack \in Seq(Activations) /\ gen \in {0, 1}
  BY DEF TypeOK
<1>2. \A fn, at : In(fn, at) => stack # <<>> /\ stack[1].fn = fn /\ stack[1].at = at
  BY <1>1, Top
<1>3. \A k \in {"cam", "denm", "fwd"}, g \in {0, 1} : Request(Packet(k, g)) \in Activations
  BY IsActivation
<1>4. Call("schedule") \in Activations
  BY IsActivation
<1>5. /\ \A p : Request(p).fn = "request" /\ Request(p).at = 1
      /\ Call("schedule").fn = "schedule" /\ Call("schedule").at = 1
  BY DEF Request, Call
<1> DEFINE Same == UNCHANGED <<timerVars, busy, started, forwards, require>>
<1>6. ASSUME NEW p, Request(p) \in Activations, Calls(Request(p)), lag' = lag, Requeues, Same,
             NEW fn, NEW at, In(fn, at), <<fn, at>> \in {<<"cam", 1>>, <<"cam", 2>>, <<"fwd", 1>>},
             gen' = IF fn = "cam" /\ at = 1 THEN 1 - gen ELSE gen, p = PacketOf(fn, at + 1, gen'),
             UNCHANGED <<buffers, flow, air>>
      PROVE  CallsOn(Request(p))
  <2>1. Request(p).packet = p
    BY DEF Request
  <2>2. <<stack[1].fn, stack[1].at>> = <<fn, at>> /\ stack # <<>> /\ fn # "request"
    BY <1>2, <1>6
  <2> QED
    BY <1>5, <1>6, <2>1, <2>2 DEF CallsOn, CallSites
<1>7. ASSUME Calls(Call("schedule")), lag' = 0, Requeues, Same, NEW fn, NEW at, In(fn, at),
             <<fn, at>> \in {<<"pos", 1>>, <<"request", 1>>, <<"pass_up", 1>>, <<"pass_up", 2>>},
             buffers' = IF fn = "request" THEN stack[1].packet ELSE buffers,
             UNCHANGED <<gen, flow, air>>
      PROVE  CallsOn(Call("schedule"))
  BY <1>2, <1>4, <1>5, <1>7 DEF CallsOn, CallSites
<1>8. ASSUME NEW fn, NEW at, In(fn, at), <<fn, at>> \in ReturnSites, Returns, Same,
             queue' = queue, lag' = lag, UNCHANGED <<buffers, gen>>,
             fn = "request" /\ at = 1 => ~flow,
             flow' = IF fn = "pos" THEN Allowed ELSE flow,
             air' = IF fn = "request" /\ at = 2 THEN buffers ELSE air
      PROVE  ReturnsOn
  BY <1>2, <1>8 DEF ReturnsOn
<1>9. ASSUME NEW fn, NEW at, In(fn, at), <<fn, at>> \notin {<<"cam", 1>>, <<"pos", 1>>},
             queue' = queue
      PROVE  Requeues
  BY <1>2, <1>9 DEF Requeues
<1>10. ASSUME NEW c \in Periodic, In(c, 1), queue' = [queue EXCEPT ![c] = After(Interval(c))]
       PROVE  Requeues
  BY <1>2, <1>10 DEF Requeues
<1> HIDE DEF Same
<1>11. CASE CamOnTimer
  <2>1. CASE In("cam", 1)
    <3>1. /\ queue' = [queue EXCEPT !["cam"] = After(CamInterval)]
          /\ gen' = 1 - gen /\ Calls(Request(Packet("cam", gen'))) /\ lag' = lag /\ Same
          /\ UNCHANGED <<buffers, flow, air>>
      BY <1>2, <1>11, <2>1 DEF CamOnTimer, Same
    <3>2. Requeues
      BY <1>10, <2>1, <3>1 DEF Periodic, Interval
    <3>3. gen' \in {0, 1} /\ Packet("cam", gen') = PacketOf("cam", 1 + 1, gen')
      BY <1>1, <3>1 DEF PacketOf
    <3> QED
      BY <1>3, <1>6, <2>1, <3>1, <3>2, <3>3
  <2>2. CASE In("cam", 2)
    <3>1. queue' = queue /\ Calls(Request(Packet("denm", gen))) /\ lag' = lag /\ Same
          /\ UNCHANGED <<buffers, flow, air, gen>>
      BY <1>2, <1>11, <2>2 DEF CamOnTimer, Same, sendVars
    <3>2. Packet("denm", gen) = PacketOf("cam", 2 + 1, gen')
      BY <3>1 DEF PacketOf
    <3> QED
      BY <1>1, <1>3, <1>6, <1>9, <2>2, <3>1, <3>2
  <2>3. CASE In("cam", 3)
    BY <1>2, <1>8, <1>11, <2>3 DEF CamOnTimer, ReturnSites, Same, sendVars
  <2> QED
    BY <1>11, <2>1, <2>2, <2>3 DEF CamOnTimer
<1>12. CASE UpdatePosition
  <2>1. CASE In("pos", 1)
    <3>1. /\ queue' = [queue EXCEPT !["pos"] = After(PosInterval)]
          /\ Calls(Call("schedule")) /\ lag' = 0 /\ Same /\ UNCHANGED <<buffers, gen, flow, air>>
      BY <1>2, <1>12, <2>1 DEF UpdatePosition, CallsSchedule, Same, sendVars
    <3>2. Requeues
      BY <1>10, <2>1, <3>1 DEF Periodic, Interval
    <3> QED
      BY <1>7, <2>1, <3>1, <3>2
  <2>2. CASE In("pos", 2)
    BY <1>2, <1>8, <1>12, <2>2 DEF UpdatePosition, ReturnSites, Same
  <2> QED
    BY <1>12, <2>1, <2>2 DEF UpdatePosition
<1>13. CASE Forward
  <2>1. CASE In("fwd", 1)
    <3>1. queue' = queue /\ Calls(Request(Packet("fwd", 0))) /\ lag' = lag /\ Same
          /\ UNCHANGED <<buffers, flow, air, gen>>
      BY <1>2, <1>13, <2>1 DEF Forward, Same, sendVars
    <3>2. Packet("fwd", 0) = PacketOf("fwd", 1 + 1, gen')
      BY DEF PacketOf
    <3> QED
      BY <1>3, <1>6, <1>9, <2>1, <3>1, <3>2
  <2>2. CASE In("fwd", 2)
    BY <1>2, <1>8, <1>13, <2>2 DEF Forward, ReturnSites, Same, sendVars
  <2> QED
    BY <1>13, <2>1, <2>2 DEF Forward
<1>14. CASE Suppresses
  BY <1>8, <1>14 DEF Suppresses, ReturnSites, Same, sendVars
<1>15. CASE Sends
  BY <1>8, <1>15 DEF Sends, ReturnSites, Same
<1>16. CASE Fills
  <2>1. /\ In("request", 1) /\ Calls(Call("schedule")) /\ lag' = 0 /\ queue' = queue /\ Same
        /\ buffers' = stack[1].packet /\ UNCHANGED <<gen, flow, air>>
    BY <1>1, <1>16, Top DEF Fills, CallsSchedule, Same
  <2> QED
    BY <1>7, <1>9, <2>1
<1>17. CASE PassUp
  <2>1. CASE In("pass_up", 1)
    BY <1>2, <1>7, <1>9, <1>17, <2>1 DEF PassUp, CallsSchedule, Same, sendVars
  <2>2. CASE In("pass_up", 2)
    <3>1. /\ Calls(Call("schedule")) /\ lag' = 0 /\ Same /\ UNCHANGED <<buffers, gen, flow, air>>
          /\ \/ queue' = queue
             \/ /\ forwards /\ queue["fwd"] = None
                /\ \E d \in {0, 1} : queue' = [queue EXCEPT !["fwd"] = After(d)]
      BY <1>2, <1>17, <2>2 DEF PassUp, CallsSchedule, Same, sendVars
    <3>2. Requeues
      BY <1>2, <1>9, <2>2, <3>1 DEF Requeues
    <3> QED
      BY <1>7, <2>2, <3>1, <3>2
  <2>3. CASE In("pass_up", 3)
    BY <1>2, <1>8, <1>17, <2>3 DEF PassUp, ReturnSites, Same, sendVars
  <2> QED
    BY <1>17, <2>1, <2>2, <2>3 DEF PassUp
<1> QED
  BY <1>11, <1>12, <1>13, <1>14, <1>15, <1>16, <1>17 DEF Handler

-----------------------------------------------------------------------------
(* Who calls whom.                                                         *)

\* The three ways a handler's stack changes, place by place.
LEMMA CallFrames ==
    ASSUME TypeOK, NEW a, CallsOn(a)
    PROVE  /\ Len(stack') = Len(stack) + 1 /\ Len(stack) \in Nat \ {0} /\ Len(stack') \in Nat
           /\ stack'[1] = a /\ stack[1] \in Activations
           /\ stack'[2].fn = stack[1].fn /\ stack'[2].at = stack[1].at + 1
           /\ stack'[2].packet = stack[1].packet
           /\ \A i \in 2 .. Len(stack) : stack'[i + 1] = stack[i]
           /\ \A i \in 3 .. Len(stack') : i - 1 \in 2 .. Len(stack) /\ stack'[i] = stack[i - 1]
<1>1. /\ stack \in Seq(Activations) /\ stack # <<>> /\ a \in Activations /\ Calls(a)
      /\ stack[1].at \in 1 .. 2
  BY DEF TypeOK, CallsOn, CallSites
<1>2. /\ Len(stack') = Len(stack) + 1 /\ stack'[1] = a
      /\ stack'[2] = [stack[1] EXCEPT !.at = stack[1].at + 1]
      /\ \A i \in 2 .. Len(stack) : stack'[i + 1] = stack[i]
  BY <1>1, CallPushes
<1>3. stack[1] \in Activations /\ Len(stack) \in Nat \ {0}
  BY <1>1
<1>4. /\ stack'[2].fn = stack[1].fn /\ stack'[2].at = stack[1].at + 1
      /\ stack'[2].packet = stack[1].packet
  BY <1>2, <1>3 DEF Activations
<1>5. ASSUME NEW i \in 3 .. Len(stack')
      PROVE  i - 1 \in 2 .. Len(stack) /\ stack'[i] = stack[i - 1]
  <2>1. i - 1 \in 2 .. Len(stack) /\ (i - 1) + 1 = i
    BY <1>2, <1>3
  <2>2. stack'[(i - 1) + 1] = stack[i - 1]
    BY <1>2, <2>1
  <2> QED
    BY <2>1, <2>2
<1> QED
  BY <1>2, <1>3, <1>4, <1>5

\* The stack after schedule() called a due callback.
LEMMA TriggerFrames ==
    ASSUME TypeOK, NEW c \in Callbacks, Triggers(c)
    PROVE  /\ Len(stack') = Len(stack) + 1 /\ Len(stack) \in Nat \ {0} /\ Len(stack') \in Nat
           /\ stack'[1] = Call(c)
           /\ stack[1].fn = "schedule" /\ stack[1].at = 1
           /\ \A i \in 1 .. Len(stack) : stack'[i + 1] = stack[i]
           /\ \A i \in 2 .. Len(stack') : i - 1 \in 1 .. Len(stack) /\ stack'[i] = stack[i - 1]
<1>1. stack \in Seq(Activations) /\ In("schedule", 1) /\ stack' = <<Call(c)>> \o stack
  BY DEF TypeOK, Triggers
<1>2. stack[1].fn = "schedule" /\ stack[1].at = 1 /\ Len(stack) \in Nat \ {0}
  BY <1>1, Top
<1>3. Call(c) \in Activations
  BY IsActivation DEF Callbacks
<1>4. /\ Len(stack') = Len(stack) + 1 /\ stack'[1] = Call(c)
      /\ \A i \in 1 .. Len(stack) : stack'[i + 1] = stack[i]
  BY <1>1, <1>3, TriggerPushes
<1>5. ASSUME NEW i \in 2 .. Len(stack')
      PROVE  i - 1 \in 1 .. Len(stack) /\ stack'[i] = stack[i - 1]
  <2>1. i - 1 \in 1 .. Len(stack) /\ (i - 1) + 1 = i
    BY <1>2, <1>4
  <2>2. stack'[(i - 1) + 1] = stack[i - 1]
    BY <1>4, <2>1
  <2> QED
    BY <2>1, <2>2
<1> QED
  BY <1>2, <1>4, <1>5

\* The stack after a function returned.
LEMMA ReturnFrames ==
    ASSUME TypeOK, ReturnsOn \/ Arms
    PROVE  /\ Len(stack') = Len(stack) - 1 /\ Len(stack) \in Nat \ {0} /\ Len(stack') \in Nat
           /\ stack' \in Seq(Activations)
           /\ \A i \in 1 .. Len(stack') : i + 1 \in 1 .. Len(stack) /\ stack'[i] = stack[i + 1]
<1>1. stack \in Seq(Activations) /\ stack # <<>> /\ Returns
  BY DEF TypeOK, ReturnsOn, Arms, In
<1> QED
  BY <1>1, ReturnPops

\* A step leaves the stack nested as the calls of the code nest.
LEMMA NestedStep == ASSUME TypeOK, Nested, [Next]_vars PROVE Nested'
<1> USE DEF Depth
<1>1. ASSUME NEW a, CallsOn(a) PROVE Nested'
  <2>1. ASSUME NEW i \in 1 .. Len(stack'), i >= 3
        PROVE  /\ i - 1 \in 2 .. Len(stack) /\ stack'[i] = stack[i - 1]
               /\ i < Len(stack') <=> i - 1 < Len(stack)
               /\ i < Len(stack') => stack'[i + 1] = stack[i]
    <3>1. i \in 3 .. Len(stack')
      BY <2>1
    <3> QED
      BY <1>1, <3>1, CallFrames
  <2>2. /\ Len(stack') = Len(stack) + 1 /\ Len(stack) \in Nat \ {0}
        /\ stack'[1] = a /\ a.at = 1 /\ <<stack[1].fn, stack[1].at, a.fn>> \in CallSites
        /\ stack'[2].fn = stack[1].fn /\ stack'[2].at = stack[1].at + 1
        /\ 2 <= Len(stack) => stack'[3] = stack[2]
    BY <1>1, CallFrames DEF CallsOn
  <2>3. ASSUME NEW i \in 1 .. Len(stack'), i >= 3
        PROVE  /\ stack'[i].fn = "schedule" => stack'[i].at = 1 /\ (i = Len(stack') \/ InSchedule(stack'[i + 1]))
               /\ stack'[i].fn = "request" => i < Len(stack') /\ InRequest(stack'[i + 1])
               /\ stack'[i].fn = "pass_up" => i = Len(stack')
               /\ stack'[i].fn \in Callbacks => i < Len(stack') /\ stack'[i + 1].fn = "schedule"
    <3>1. /\ i - 1 \in Depth /\ (i - 1) + 1 = i /\ Len(stack') \in Nat
          /\ i = Len(stack') <=> i - 1 = Len(stack)
      BY <2>1, <2>2, <2>3
    <3> QED
      BY <2>1, <2>3, <3>1 DEF Nested, InSchedule, InRequest
  <2>4. /\ stack[1].fn = "request" => 1 < Len(stack) /\ InRequest(stack[2])
        /\ stack[1].fn = "pass_up" => 1 = Len(stack)
        /\ stack[1].fn \in Callbacks => 1 < Len(stack) /\ stack[2].fn = "schedule"
    <3>1. 1 \in Depth /\ 1 + 1 = 2
      BY <2>2
    <3> QED
      BY <3>1 DEF Nested
  <2>5. /\ stack'[2].fn # "schedule"
        /\ stack'[2].fn = "request" => 2 < Len(stack') /\ InRequest(stack'[3])
        /\ stack'[2].fn = "pass_up" => 2 = Len(stack')
        /\ stack'[2].fn \in Callbacks => 2 < Len(stack') /\ stack'[3].fn = "schedule"
    BY <2>2, <2>4 DEF CallSites
  <2>6. /\ a.fn \in {"schedule", "request"}
        /\ a.fn = "schedule" => InSchedule(stack'[2])
        /\ a.fn = "request" => InRequest(stack'[2])
    BY <2>2 DEF CallSites, InSchedule, InRequest
  <2>7. ASSUME NEW i \in 1 .. Len(stack') PROVE i = 1 \/ i = 2 \/ i >= 3
    OBVIOUS
  <2> QED
    BY <2>2, <2>3, <2>5, <2>6, <2>7 DEF Nested, Callbacks
<1>2. ASSUME NEW c \in Callbacks, Triggers(c) PROVE Nested'
  <2>1. /\ Len(stack') = Len(stack) + 1 /\ Len(stack) \in Nat \ {0}
        /\ stack'[1].fn = c /\ stack'[2].fn = "schedule"
    <3>1. stack'[1] = Call(c) /\ Len(stack') = Len(stack) + 1 /\ Len(stack) \in Nat \ {0}
      BY <1>2, TriggerFrames
    <3>2. stack'[1 + 1] = stack[1] /\ stack[1].fn = "schedule"
      BY <1>2, <3>1, TriggerFrames
    <3> QED
      BY <3>1, <3>2 DEF Call
  <2>2. ASSUME NEW i \in 1 .. Len(stack'), i >= 2
        PROVE  /\ stack'[i].fn = "schedule" => stack'[i].at = 1 /\ (i = Len(stack') \/ InSchedule(stack'[i + 1]))
               /\ stack'[i].fn = "request" => i < Len(stack') /\ InRequest(stack'[i + 1])
               /\ stack'[i].fn = "pass_up" => i = Len(stack')
               /\ stack'[i].fn \in Callbacks => i < Len(stack') /\ stack'[i + 1].fn = "schedule"
    <3>1. i \in 2 .. Len(stack') /\ (i < Len(stack') => i \in 1 .. Len(stack))
      BY <2>1, <2>2
    <3>2. /\ i - 1 \in Depth /\ stack'[i] = stack[i - 1]
          /\ i < Len(stack') => stack'[i + 1] = stack[i]
      BY <1>2, <3>1, TriggerFrames
    <3>3. /\ (i - 1) + 1 = i /\ (i = Len(stack') <=> i - 1 = Len(stack))
          /\ (i < Len(stack') <=> i - 1 < Len(stack)) /\ (i = Len(stack') \/ i < Len(stack'))
      BY <2>1
    <3> QED
      BY <3>2, <3>3 DEF Nested
  <2>3. c \notin {"schedule", "request", "pass_up"}
    BY DEF Callbacks
  <2>4. ASSUME NEW i \in 1 .. Len(stack') PROVE i = 1 \/ i >= 2
    OBVIOUS
  <2> QED
    BY <2>1, <2>2, <2>3, <2>4 DEF Nested
<1>3. CASE ReturnsOn \/ Arms
  <2>1. /\ Len(stack') = Len(stack) - 1 /\ Len(stack) \in Nat /\ Len(stack') \in Nat
        /\ \A i \in 1 .. Len(stack') : i + 1 \in Depth /\ stack'[i] = stack[i + 1]
    BY <1>3, ReturnFrames
  <2>2. ASSUME NEW i \in 1 .. Len(stack')
        PROVE  /\ i = Len(stack') <=> i + 1 = Len(stack)
               /\ i < Len(stack') <=> i + 1 < Len(stack)
               /\ i < Len(stack') => stack'[i + 1] = stack[(i + 1) + 1]
               /\ i = Len(stack') \/ i < Len(stack')
    <3>1. i < Len(stack') => i + 1 \in 1 .. Len(stack')
      BY <2>1
    <3> QED
      BY <2>1, <3>1
  <2> QED
    BY <2>1, <2>2 DEF Nested
<1>4. CASE OnTimeout \/ OnRead
  <2>1. \/ stack' = <<Call("schedule")>>
        \/ stack' = <<Call("pass_up")>>
    BY <1>4 DEF OnTimeout, OnRead
  <2>2. /\ Len(stack') = 1 /\ stack'[1].at = 1
        /\ stack'[1].fn \in {"schedule", "pass_up"}
    BY <2>1 DEF Call
  <2> QED
    BY <2>2 DEF Nested, Callbacks
<1>5. CASE UNCHANGED stack
  BY <1>5 DEF Nested
<1> QED
  BY <1>1, <1>2, <1>3, <1>4, <1>5, HandlerSteps DEF Next, vars, Tick, TimerExpires

-----------------------------------------------------------------------------
(* The queue and the timer.                                                *)

\* The bounds on delays and times.
LEMMA Times ==
    ASSUME SocktapAssumption, TypeOK
    PROVE  /\ CamInterval \in Nat \ {0} /\ PosInterval \in Nat \ {0} /\ MaxStall \in Nat
           /\ lag \in Nat /\ busy \in 0 .. MaxStall
           /\ queue \in [Callbacks -> Int] /\ expiry \in Int /\ None \in Int
           /\ \A c \in Callbacks : queue[c] \in Int /\ queue[c] <= None
           /\ \A c \in Periodic : /\ c \in Callbacks /\ Interval(c) \in Nat \ {0}
                                  /\ After(Interval(c)) \in Int /\ After(Interval(c)) < None
                                  /\ After(Interval(c)) = Interval(c) - lag
           /\ \A d \in {0, 1} : After(d) \in Int /\ After(d) < None
           /\ \A d \in Int : Earlier(d) \in Int /\ Earlier(d) <= d /\ d - 1 <= Earlier(d)
           /\ \A d, e \in Int : d <= e => Earlier(d) <= Earlier(e)
<1>1. /\ CamInterval \in Nat \ {0} /\ PosInterval \in Nat \ {0} /\ MaxStall \in Nat
      /\ Longest \in Nat \ {0} /\ CamInterval <= Longest /\ PosInterval <= Longest
      /\ Latest \in Nat /\ None = Longest + 1
  BY DEF SocktapAssumption, Longest, Latest, None
<1>2. /\ lag \in 0 .. Latest /\ busy \in 0 .. MaxStall /\ expiry \in (-Latest) .. Longest
      /\ queue \in [Callbacks -> (-Latest) .. Longest \cup {None}]
  BY DEF TypeOK, Deadlines
<1>3. /\ queue \in [Callbacks -> Int] /\ expiry \in Int /\ None \in Int
      /\ \A c \in Callbacks : queue[c] \in Int /\ queue[c] <= None
  BY <1>1, <1>2
<1>4. \A c \in Periodic : /\ c \in Callbacks /\ Interval(c) \in Nat \ {0}
                          /\ After(Interval(c)) \in Int /\ After(Interval(c)) < None
                          /\ After(Interval(c)) = Interval(c) - lag
  BY <1>1, <1>2 DEF Periodic, Callbacks, Interval, After
<1>5. \A d \in {0, 1} : After(d) \in Int /\ After(d) < None
  BY <1>1, <1>2 DEF After
<1>6. /\ \A d \in Int : Earlier(d) \in Int /\ Earlier(d) <= d /\ d - 1 <= Earlier(d)
      /\ \A d, e \in Int : d <= e => Earlier(d) <= Earlier(e)
  BY <1>1 DEF Earlier
<1> QED
  BY <1>1, <1>2, <1>3, <1>4, <1>5, <1>6

\* A periodic callback never leaves the queue for longer than its first step.
LEMMA QueuedStep == ASSUME SocktapAssumption, TypeOK, Queued, [Next]_vars PROVE Queued'
<1> SUFFICES ASSUME NEW c \in Periodic
             PROVE  queue'[c] # None \/ (stack' # <<>> /\ stack'[1].fn = c /\ stack'[1].at = 1)
  BY DEF Queued
<1>0. queue[c] # None \/ (stack # <<>> /\ stack[1].fn = c /\ stack[1].at = 1)
  BY DEF Queued
<1>1. ASSUME NEW a, CallsOn(a) PROVE queue'[c] # None
  <2>1. CASE queue' = queue /\ <<stack[1].fn, stack[1].at>> \notin {<<"cam", 1>>, <<"pos", 1>>}
    BY <1>0, <2>1 DEF Periodic
  <2>2. ASSUME NEW e \in Periodic, stack[1].fn = e,
               queue' = [queue EXCEPT ![e] = After(Interval(e))]
        PROVE  queue'[c] # None
    <3>1. /\ c \in Callbacks /\ e \in Callbacks /\ After(Interval(e)) \in Int
          /\ After(Interval(e)) < None /\ None \in Int /\ queue \in [Callbacks -> Int]
      BY Times
    <3> QED
      BY <1>0, <2>2, <3>1
  <2>3. ASSUME stack[1].fn = "pass_up", NEW d \in {0, 1},
               queue' = [queue EXCEPT !["fwd"] = After(d)]
        PROVE  queue'[c] # None
    BY <1>0, <2>3, Times DEF Periodic
  <2> QED
    BY <1>1, <2>1, <2>2, <2>3 DEF CallsOn, Requeues
<1>2. ASSUME NEW e \in Callbacks, Triggers(e)
      PROVE  queue'[c] # None \/ (stack' # <<>> /\ stack'[1].fn = c /\ stack'[1].at = 1)
  <2>1. queue[c] # None
    BY <1>0, <1>2, TriggerFrames DEF Periodic
  <2>2. queue' = [queue EXCEPT ![e] = None]
    BY <1>2 DEF Triggers
  <2>3. stack' # <<>> /\ stack'[1].fn = e /\ stack'[1].at = 1
    <3>1. stack'[1] = Call(e) /\ Len(stack') > 0
      BY <1>2, TriggerFrames
    <3> QED
      BY <3>1 DEF Call
  <2> QED
    BY <2>1, <2>2, <2>3, Times
<1>3. CASE ReturnsOn
  <2>1. queue[c] # None /\ queue' = queue
    BY <1>0, <1>3 DEF ReturnsOn, ReturnSites, Periodic
  <2> QED
    BY <2>1
<1>4. CASE Arms
  <2>1. queue[c] # None /\ queue' = queue
    BY <1>0, <1>4, Top DEF Arms, Periodic, TypeOK
  <2> QED
    BY <2>1
<1>5. CASE Tick
  <2>1. queue' = [e \in Callbacks |-> IF e \in Scheduled THEN Earlier(queue[e]) ELSE None]
        /\ stack' = stack
    BY <1>5 DEF Tick
  <2>2. CASE queue[c] # None
    <3>1. c \in Scheduled /\ queue'[c] = Earlier(queue[c])
      BY <2>1, <2>2, Times DEF Scheduled
    <3>2. queue[c] \in Int /\ None \in Int /\ queue[c] < None
      <4>1. c \in Callbacks
        BY Times
      <4>2. queue[c] \in Int /\ queue[c] <= None /\ None \in Int
        BY <4>1, Times
      <4> QED
        BY <2>2, <4>2
    <3>3. Earlier(queue[c]) \in Int /\ Earlier(queue[c]) <= queue[c]
      BY <3>2, Times
    <3> QED
      BY <3>1, <3>2, <3>3
  <2> QED
    BY <1>0, <2>1, <2>2
<1>6. CASE OnTimeout \/ OnRead
  BY <1>0, <1>6 DEF OnTimeout, OnRead
<1>7. CASE TimerExpires \/ UNCHANGED vars
  BY <1>0, <1>7 DEF TimerExpires, vars
<1> QED
  BY <1>1, <1>2, <1>3, <1>4, <1>5, <1>6, <1>7, HandlerSteps DEF Next

\* The runtime clock is never further behind than the running handler is old.
LEMMA LagStep ==
    ASSUME SocktapAssumption, TypeOK, LagWithinHandler, [Next]_vars
    PROVE  LagWithinHandler'
<1>0. lag \in Nat /\ busy \in Nat
  BY Times
<1>1. ASSUME NEW a, CallsOn(a) PROVE lag' <= busy'
  <2>1. busy' = busy /\ (lag' = 0 \/ (lag' = lag /\ stack # <<>> /\ stack[1].fn # "pass_up"))
    BY <1>1 DEF CallsOn, CallSites
  <2> QED
    BY <1>0, <2>1 DEF LagWithinHandler
<1>2. ASSUME NEW c \in Callbacks, Triggers(c) PROVE lag' <= busy'
  <2>1. lag' = lag /\ busy' = busy /\ stack # <<>> /\ stack[1].fn = "schedule"
    BY <1>2, TriggerFrames DEF Triggers, In
  <2> QED
    BY <2>1 DEF LagWithinHandler
<1>3. CASE ReturnsOn \/ Arms
  <2>1. lag' = lag /\ busy' = busy /\ stack # <<>>
    BY <1>3 DEF ReturnsOn, Arms, In
  <2>2. ~(stack[1].fn = "pass_up" /\ stack[1].at = 1)
    BY <1>3, Top DEF ReturnsOn, ReturnSites, Arms, TypeOK
  <2> QED
    BY <2>1, <2>2 DEF LagWithinHandler
<1>4. CASE Tick
  <2>1. lag' <= lag + 1 /\ stack' = stack /\ (stack # <<>> => busy' = busy + 1) /\ lag' \in Nat
    BY <1>0, <1>4 DEF Tick
  <2> QED
    BY <1>0, <2>1 DEF LagWithinHandler
<1>5. CASE OnTimeout
  BY <1>5 DEF OnTimeout, LagWithinHandler
<1>6. CASE OnRead
  BY <1>6 DEF OnRead, LagWithinHandler, Call
<1>7. CASE TimerExpires \/ UNCHANGED vars
  BY <1>7 DEF TimerExpires, vars, LagWithinHandler
<1> QED
  BY <1>1, <1>2, <1>3, <1>4, <1>5, <1>6, <1>7, HandlerSteps DEF Next, LagWithinHandler

\* The last schedule() of a handler to return has seen the whole queue.
LEMMA TimerStep ==
    ASSUME SocktapAssumption, TypeOK, Nested, Queued, TimerSet, [Next]_vars
    PROVE  TimerSet'
<1>1. ASSUME NEW a, CallsOn(a) PROVE ~Returning'
  BY <1>1, CallFrames DEF Returning
<1>2. ASSUME NEW c \in Callbacks, Triggers(c) PROVE ~Returning'
  BY <1>2, TriggerFrames DEF Returning
<1>3. CASE Arms
  <2>1. stack[1].fn = "schedule" /\ Due = {}
    BY <1>3, Top DEF Arms, TypeOK
  <2>2. "pos" \in Scheduled
    BY <2>1 DEF Queued, Periodic, Scheduled, Callbacks
  <2>3. armed' /\ expiry' = NextDeadline /\ queue' = queue
    BY <1>3, <2>2 DEF Arms
  <2>4. \A c \in Scheduled : NextDeadline <= queue[c]
    BY <2>2, Times, NextIsEarliest
  <2> QED
    BY <2>3, <2>4 DEF TimerSet, Scheduled
<1>4. CASE ReturnsOn
  <2>1. CASE stack[1].fn = "pass_up"
    <3>1. 1 \in Depth /\ stack[1].at = 3
      BY <1>4, <2>1, ReturnFrames DEF Depth, ReturnsOn, ReturnSites
    <3>2. Returning
      BY <2>1, <3>1 DEF Nested, Returning
    <3> QED
      BY <1>4, <3>2 DEF ReturnsOn, TimerSet, timerVars, Scheduled
  <2>2. CASE stack[1].fn # "pass_up"
    <3>1. stack[1].fn \in Callbacks \cup {"request"} /\ 1 \in Depth /\ 1 + 1 = 2
      BY <1>4, <2>2, ReturnFrames DEF ReturnsOn, ReturnSites, Callbacks, Depth
    <3>2. 1 < Len(stack) /\ (stack[2].fn = "schedule" \/ InRequest(stack[2]))
      BY <3>1 DEF Nested
    <3>3. Len(stack') > 0 /\ 1 \in 1 .. Len(stack') /\ stack' \in Seq(Activations)
      BY <1>4, <3>2, ReturnFrames
    <3>4. stack'[1] = stack[2]
      BY <1>4, <3>1, <3>3, ReturnFrames
    <3>5. stack'[1].fn # "pass_up"
      BY <3>2, <3>4 DEF InRequest
    <3> QED
      BY <3>3, <3>5 DEF TimerSet, Returning
  <2> QED
    BY <2>1, <2>2
<1>5. CASE Tick
  <2>1. /\ queue' = [e \in Callbacks |-> IF e \in Scheduled THEN Earlier(queue[e]) ELSE None]
        /\ stack' = stack /\ started' = started /\ expired' = expired /\ armed' = armed
        /\ armed => expiry' = Earlier(expiry)
    BY <1>5 DEF Tick
  <2>2. \A c \in Scheduled' : c \in Scheduled /\ queue'[c] = Earlier(queue[c])
    BY <2>1 DEF Scheduled
  <2>3. ASSUME Returning', started', expired' = 0, NEW c \in Scheduled'
        PROVE  armed' /\ expiry' <= queue'[c]
    <3>1. armed /\ expiry <= queue[c] /\ queue[c] \in Int
      BY <2>1, <2>2, <2>3, Times DEF TimerSet, Returning, Scheduled
    <3> QED
      BY <2>1, <2>2, <3>1, Times
  <2>4. ASSUME Returning', started', expired' = 0 PROVE armed'
    BY <2>1, <2>4 DEF TimerSet, Returning
  <2> QED
    BY <2>3, <2>4 DEF TimerSet
<1>6. CASE TimerExpires
  BY <1>6 DEF TimerExpires, TimerSet, TypeOK
<1>7. CASE OnTimeout \/ OnRead
  <2>1. stack' = <<Call("schedule")>> \/ stack' = <<Call("pass_up")>>
    BY <1>7 DEF OnTimeout, OnRead
  <2> QED
    BY <2>1 DEF TimerSet, Returning, Call
<1>8. CASE UNCHANGED vars
  BY <1>8 DEF vars, timerVars, TimerSet, Returning, Scheduled
<1> QED
  BY <1>1, <1>2, <1>3, <1>4, <1>5, <1>6, <1>7, <1>8, HandlerSteps DEF Next, TimerSet

TimeInv == TypeOK /\ Nested /\ LagWithinHandler /\ Queued /\ TimerSet

\* The types, the nesting, the lag and the timer, in every state.
LEMMA TimeInvariant == ASSUME SocktapAssumption PROVE Spec => []TimeInv
<1>1. Init => Nested /\ LagWithinHandler /\ Queued /\ TimerSet
  <2> SUFFICES ASSUME Init PROVE Nested /\ LagWithinHandler /\ Queued /\ TimerSet
    OBVIOUS
  <2>1. stack = <<>> /\ ~started
    BY DEF Init
  <2>2. Nested /\ LagWithinHandler /\ TimerSet
    BY <2>1 DEF Nested, Depth, LagWithinHandler, TimerSet
  <2>3. queue["cam"] = CamInterval /\ queue["pos"] = PosInterval
    <3>1. queue = [c \in Callbacks |-> CASE c = "cam" -> CamInterval
                                         [] c = "pos" -> PosInterval
                                         [] c = "fwd" -> None]
      BY DEF Init
    <3> QED
      BY <3>1 DEF Callbacks
  <2>4. CamInterval # None /\ PosInterval # None
    BY DEF SocktapAssumption, None, Longest
  <2> QED
    BY <2>2, <2>3, <2>4 DEF Queued, Periodic
<1>2. TimeInv /\ [Next]_vars => TimeInv'
  BY TypeStep, NestedStep, LagStep, QueuedStep, TimerStep DEF TimeInv
<1> QED
  BY <1>1, <1>2, TypeCorrect, PTL DEF Spec, TimeInv

\* For any intervals and however late handlers are: whenever io_service is idle
\* the next CAM and position update are queued and the one timer is armed for the
\* earliest callback (TimeTrigger::schedule, whatever the calls nested in it did).
THEOREM TimerIsRight == ASSUME SocktapAssumption PROVE Spec => []TimerFollowsQueue
<1>1. TimeInv => TimerFollowsQueue
  <2> SUFFICES ASSUME TimeInv, stack = <<>>, started, expired = 0
               PROVE  {"cam", "pos"} \subseteq Scheduled /\ armed /\ expiry <= NextDeadline
    BY DEF TimerFollowsQueue
  <2>1. {"cam", "pos"} \subseteq Scheduled
    BY DEF TimeInv, Queued, Periodic, Scheduled, Callbacks
  <2>2. armed /\ \A c \in Scheduled : expiry <= queue[c]
    BY DEF TimeInv, TimerSet, Returning
  <2>3. \E c \in Scheduled : NextDeadline = queue[c]
    BY <2>1, Times, NextIsEarliest DEF TimeInv
  <2> QED
    BY <2>1, <2>2, <2>3
<1> QED
  BY <1>1, TimeInvariant, PTL

-----------------------------------------------------------------------------
(* No callback nests, when handlers are prompt.                            *)

\* A callback on the stack is not due.
LEMMA RunningNotDue ==
    ASSUME SocktapAssumption, Prompt, TypeOK, NotDueAgain, NEW i \in Depth
    PROVE  stack[i].fn \notin Due
<1>1. /\ lag \in Nat /\ busy \in 0 .. MaxStall /\ MaxStall \in Nat
      /\ CamInterval \in Nat /\ PosInterval \in Nat
  BY Times
<1>2. CASE stack[i].fn = "fwd"
  BY <1>2 DEF NotDueAgain, Due, Scheduled
<1>3. ASSUME NEW c \in Periodic, stack[i].fn = c PROVE c \notin Due
  <2>1. queue[c] = None \/ queue[c] >= Interval(c) - busy
    BY <1>3 DEF NotDueAgain
  <2>2. Interval(c) \in Nat /\ MaxStall < Interval(c)
    BY <1>1 DEF Interval, Prompt
  <2>3. queue[c] \in Int
    BY Times
  <2>4. queue[c] # None => ~(queue[c] <= -lag)
    BY <1>1, <2>1, <2>2, <2>3
  <2> QED
    BY <2>4 DEF Due, Scheduled
<1>4. stack[i].fn \in {"fwd"} \cup Periodic \/ stack[i].fn \notin Callbacks
  BY DEF Callbacks, Periodic
<1> QED
  BY <1>2, <1>3, <1>4 DEF Due, Scheduled

\* If no callback in progress can be due again, none is entered twice.
LEMMA NestingStep ==
    ASSUME SocktapAssumption, Prompt, TimeInv, NotDueAgain, NoSelfNesting, [Next]_vars
    PROVE  NoSelfNesting'
<1> USE DEF Depth
<1>0. TypeOK
  BY DEF TimeInv
<1>1. ASSUME NEW a, CallsOn(a) PROVE NoSelfNesting'
  <2>1. /\ Len(stack') = Len(stack) + 1 /\ Len(stack) \in Nat \ {0}
        /\ stack'[1] = a /\ stack'[2].fn = stack[1].fn /\ a.fn \in {"schedule", "request"}
    BY <1>0, <1>1, CallFrames DEF CallsOn, CallSites
  <2>2. ASSUME NEW i \in 2 .. Len(stack')
        PROVE  i - 1 \in Depth /\ stack'[i].fn = stack[i - 1].fn
    <3>1. CASE i = 2
      BY <2>1, <3>1
    <3>2. CASE i # 2
      <4>1. i \in 3 .. Len(stack')
        BY <2>1, <3>2
      <4>2. i - 1 \in 2 .. Len(stack) /\ stack'[i] = stack[i - 1]
        BY <1>0, <1>1, <4>1, CallFrames
      <4> QED
        BY <2>1, <4>2
    <3> QED
      BY <3>1, <3>2
  <2>3. ASSUME NEW i \in 1 .. Len(stack'), NEW j \in 1 .. Len(stack'), i # j,
               stack'[i].fn \in Callbacks
        PROVE  stack'[i].fn # stack'[j].fn
    <3>1. CASE i = 1 \/ j = 1
      BY <2>1, <2>3, <3>1 DEF Callbacks
    <3>2. CASE i # 1 /\ j # 1
      <4>1. i \in 2 .. Len(stack') /\ j \in 2 .. Len(stack') /\ i - 1 # j - 1
        BY <2>1, <2>3, <3>2
      <4> QED
        BY <2>2, <2>3, <4>1 DEF NoSelfNesting
    <3> QED
      BY <3>1, <3>2
  <2> QED
    BY <2>3 DEF NoSelfNesting
<1>2. ASSUME NEW c \in Callbacks, Triggers(c) PROVE NoSelfNesting'
  <2>1. /\ Len(stack') = Len(stack) + 1 /\ Len(stack) \in Nat \ {0} /\ stack'[1].fn = c
        /\ \A i \in 2 .. Len(stack') : i - 1 \in Depth /\ stack'[i] = stack[i - 1]
    <3>1. stack'[1] = Call(c)
      BY <1>0, <1>2, TriggerFrames
    <3>2. /\ Len(stack') = Len(stack) + 1 /\ Len(stack) \in Nat \ {0}
          /\ \A i \in 2 .. Len(stack') : i - 1 \in Depth /\ stack'[i] = stack[i - 1]
      BY <1>0, <1>2, TriggerFrames
    <3> QED
      BY <3>1, <3>2 DEF Call
  <2>2. \A i \in Depth : stack[i].fn # c
    BY <1>0, <1>2, RunningNotDue DEF Triggers
  <2>3. ASSUME NEW i \in 1 .. Len(stack'), NEW j \in 1 .. Len(stack'), i # j,
               stack'[i].fn \in Callbacks
        PROVE  stack'[i].fn # stack'[j].fn
    <3>1. CASE i = 1
      <4>1. j \in 2 .. Len(stack')
        BY <2>1, <2>3, <3>1
      <4> QED
        BY <2>1, <2>2, <3>1, <4>1
    <3>2. CASE j = 1
      <4>1. i \in 2 .. Len(stack')
        BY <2>1, <2>3, <3>2
      <4> QED
        BY <2>1, <2>2, <3>2, <4>1
    <3>3. CASE i # 1 /\ j # 1
      <4>1. i \in 2 .. Len(stack') /\ j \in 2 .. Len(stack') /\ i - 1 # j - 1
        BY <2>1, <2>3, <3>3
      <4> QED
        BY <2>1, <2>3, <4>1 DEF NoSelfNesting
    <3> QED
      BY <3>1, <3>2, <3>3
  <2> QED
    BY <2>3 DEF NoSelfNesting
<1>3. CASE ReturnsOn \/ Arms
  <2>1. \A i \in 1 .. Len(stack') : i + 1 \in Depth /\ stack'[i] = stack[i + 1] /\ i \in Int
    BY <1>0, <1>3, ReturnFrames
  <2>2. ASSUME NEW i \in 1 .. Len(stack'), NEW j \in 1 .. Len(stack'), i # j,
               stack'[i].fn \in Callbacks
        PROVE  stack'[i].fn # stack'[j].fn
    <3>1. i + 1 # j + 1
      BY <2>2
    <3> QED
      BY <2>1, <2>2, <3>1 DEF NoSelfNesting
  <2> QED
    BY <2>2 DEF NoSelfNesting
<1>4. CASE OnTimeout \/ OnRead
  <2>1. stack' = <<Call("schedule")>> \/ stack' = <<Call("pass_up")>>
    BY <1>4 DEF OnTimeout, OnRead
  <2> QED
    BY <2>1 DEF NoSelfNesting
<1>5. CASE UNCHANGED stack
  BY <1>5 DEF NoSelfNesting
<1> QED
  BY <1>0, <1>1, <1>2, <1>3, <1>4, <1>5, HandlerSteps DEF Next, vars, Tick, TimerExpires

\* A callback that scheduled itself is not due before its handler is over.
LEMMA NotDueStep ==
    ASSUME SocktapAssumption, Prompt, TimeInv, NotDueAgain, NoSelfNesting, [Next]_vars
    PROVE  NotDueAgain'
<1> USE DEF Depth
<1> DEFINE Running(q, b, f) ==
      /\ f.fn = "fwd" => q["fwd"] = None
      /\ \A c \in Periodic :
            f.fn = c => IF f.at = 1 THEN q[c] = None
                        ELSE q[c] # None /\ q[c] >= Interval(c) - b
<1>0. TypeOK /\ Nested /\ LagWithinHandler /\ \A i \in Depth : Running(queue, busy, stack[i])
  BY DEF TimeInv, NotDueAgain
<1> SUFFICES ASSUME NEW i \in 1 .. Len(stack') PROVE Running(queue', busy', stack'[i])
  BY DEF NotDueAgain
<1>1. ASSUME NEW a, CallsOn(a) PROVE Running(queue', busy', stack'[i])
  <2>1. /\ Len(stack') = Len(stack) + 1 /\ Len(stack) \in Nat \ {0} /\ busy' = busy
        /\ stack'[1] = a /\ a.fn \in {"schedule", "request"}
        /\ stack'[2].fn = stack[1].fn /\ stack'[2].at = stack[1].at + 1 /\ stack[1].at \in {1, 2}
        /\ i >= 3 => i - 1 \in 2 .. Len(stack) /\ stack'[i] = stack[i - 1]
    <3>1. i >= 3 => i \in 3 .. Len(stack')
      OBVIOUS
    <3> QED
      BY <1>0, <1>1, <3>1, CallFrames DEF CallsOn, CallSites
  <2>2. CASE i = 1
    BY <2>1, <2>2 DEF Periodic
  <2>3. CASE i >= 2
    \* The activation was at place p before, and ran then as it does now.
    <3> DEFINE p == i - 1
    <3>1. /\ p \in Depth /\ stack'[i].fn = stack[p].fn
          /\ p # 1 => stack'[i] = stack[p]
          /\ p = 1 => stack'[i].at # 1
      BY <2>1, <2>3
    <3>2. Running(queue, busy, stack[p])
      BY <1>0, <3>1
    <3> HIDE DEF p
    <3>3. CASE queue' = queue /\ <<stack[1].fn, stack[1].at>> \notin {<<"cam", 1>>, <<"pos", 1>>}
      <4>1. CASE p # 1
        BY <2>1, <3>1, <3>2, <3>3, <4>1
      <4>2. CASE p = 1
        BY <2>1, <3>1, <3>2, <3>3, <4>2 DEF Periodic
      <4> QED
        BY <4>1, <4>2
    <3>4. ASSUME NEW c \in Periodic, stack[1].fn = c,
                 queue' = [queue EXCEPT ![c] = After(Interval(c))]
          PROVE  Running(queue', busy', stack'[i])
      <4>1. /\ c \in Callbacks /\ After(Interval(c)) = Interval(c) - lag /\ lag \in Nat
            /\ After(Interval(c)) < None /\ queue \in [Callbacks -> Int] /\ None \in Int
            /\ busy \in Nat /\ Interval(c) \in Nat
        BY <1>0, Times
      <4>2. lag <= busy
        BY <1>0, <1>1, <3>4 DEF LagWithinHandler, CallsOn, Periodic
      <4>3. queue'[c] # None /\ queue'[c] >= Interval(c) - busy
        BY <3>4, <4>1, <4>2
      <4>4. CASE p = 1
        BY <2>1, <3>1, <3>4, <4>3, <4>4 DEF Periodic
      <4>5. CASE p # 1
        <5>1. stack[p].fn # c
          BY <2>1, <3>1, <3>4, <4>1, <4>5 DEF NoSelfNesting
        <5>2. stack[p].fn = "fwd" => queue'["fwd"] = queue["fwd"]
          BY <3>4, <4>1 DEF Periodic, Callbacks
        <5>3. \A e \in Periodic : e # c => queue'[e] = queue[e]
          BY <3>4, <4>1 DEF Periodic, Callbacks
        <5> QED
          BY <2>1, <3>1, <3>2, <4>5, <5>1, <5>2, <5>3
      <4> QED
        BY <4>4, <4>5
    <3>5. ASSUME stack[1].fn = "pass_up", NEW d \in {0, 1},
                 queue' = [queue EXCEPT !["fwd"] = After(d)]
          PROVE  Running(queue', busy', stack'[i])
      <4>1. Len(stack) = 1
        <5>1. 1 \in Depth
          BY <2>1
        <5> QED
          BY <1>0, <3>5, <5>1 DEF Nested
      <4>2. stack'[i].fn = "pass_up"
        BY <2>1, <3>1, <3>5, <4>1
      <4> QED
        BY <4>2 DEF Periodic
    <3> QED
      BY <1>1, <3>3, <3>4, <3>5 DEF CallsOn, Requeues
  <2> QED
    BY <2>2, <2>3
<1>2. ASSUME NEW c \in Callbacks, Triggers(c) PROVE Running(queue', busy', stack'[i])
  <2>1. /\ Len(stack') = Len(stack) + 1 /\ Len(stack) \in Nat \ {0} /\ stack'[1] = Call(c)
        /\ \A j \in 2 .. Len(stack') : j - 1 \in Depth /\ stack'[j] = stack[j - 1]
        /\ queue' = [queue EXCEPT ![c] = None] /\ busy' = busy
    BY <1>0, <1>2, TriggerFrames DEF Triggers
  <2>2. queue \in [Callbacks -> Int]
    BY <1>0, Times
  <2>3. CASE i = 1
    BY <2>1, <2>2, <2>3 DEF Call
  <2>4. CASE i # 1
    <3>1. i - 1 \in Depth /\ stack'[i] = stack[i - 1] /\ Running(queue, busy, stack[i - 1])
      BY <1>0, <2>1, <2>4
    <3>2. stack'[i].fn # c
      BY <1>0, <1>2, <3>1, RunningNotDue DEF Triggers
    <3>3. \A e \in Callbacks : e # c => queue'[e] = queue[e]
      BY <2>1, <2>2
    <3> QED
      BY <2>1, <3>1, <3>2, <3>3 DEF Periodic, Callbacks
  <2> QED
    BY <2>3, <2>4
<1>3. CASE ReturnsOn \/ Arms
  <2>1. queue' = queue /\ busy' = busy
    BY <1>3 DEF ReturnsOn, Arms
  <2>2. i + 1 \in Depth /\ stack'[i] = stack[i + 1]
    BY <1>0, <1>3, ReturnFrames
  <2> QED
    BY <1>0, <2>1, <2>2
<1>4. CASE OnTimeout \/ OnRead
  <2>1. stack' = <<Call("schedule")>> \/ stack' = <<Call("pass_up")>>
    BY <1>4 DEF OnTimeout, OnRead
  <2>2. stack'[i].fn \in {"schedule", "pass_up"}
    BY <2>1 DEF Call
  <2> QED
    BY <2>2 DEF Periodic
<1>5. CASE Tick
  <2>1. /\ queue' = [e \in Callbacks |-> IF e \in Scheduled THEN Earlier(queue[e]) ELSE None]
        /\ stack' = stack
    BY <1>5 DEF Tick
  <2>2. Running(queue, busy, stack[i]) /\ busy' = busy + 1 /\ busy \in Nat
    <3>1. stack # <<>> /\ i \in Depth
      BY <2>1
    <3> QED
      BY <1>0, <1>5, <3>1, Times DEF Tick
  <2>3. ASSUME NEW c \in Callbacks
        PROVE  /\ queue[c] = None => queue'[c] = None
               /\ queue[c] # None => queue'[c] # None /\ queue'[c] >= queue[c] - 1
               /\ queue[c] \in Int /\ queue'[c] \in Int
    <3>1. queue[c] \in Int /\ queue[c] <= None /\ None \in Int
      BY <1>0, Times
    <3>2. Earlier(queue[c]) \in Int /\ Earlier(queue[c]) <= queue[c] /\ queue[c] - 1 <= Earlier(queue[c])
      BY <1>0, <3>1, Times
    <3> QED
      BY <2>1, <3>1, <3>2 DEF Scheduled
  <2>4. \A c \in Periodic : Interval(c) \in Int /\ c \in Callbacks
    BY <1>0, Times
  <2>5. stack'[i] = stack[i] /\ "fwd" \in Callbacks
    BY <2>1 DEF Callbacks
  <2>6. ASSUME NEW c \in Periodic, stack'[i].fn = c
        PROVE  IF stack'[i].at = 1 THEN queue'[c] = None
               ELSE queue'[c] # None /\ queue'[c] >= Interval(c) - busy'
    BY <2>2, <2>3, <2>4, <2>5, <2>6
  <2> QED
    BY <2>2, <2>3, <2>5, <2>6
<1>6. CASE TimerExpires \/ UNCHANGED vars
  BY <1>0, <1>6 DEF TimerExpires, vars
<1> QED
  BY <1>0, <1>1, <1>2, <1>3, <1>4, <1>5, <1>6, HandlerSteps DEF Next

\* With prompt handlers no callback in progress is due or entered again.
LEMMA NestingInvariant ==
    ASSUME SocktapAssumption, Prompt
    PROVE  Spec => [](TimeInv /\ NotDueAgain /\ NoSelfNesting)
<1>1. Init => NotDueAgain /\ NoSelfNesting
  <2> SUFFICES ASSUME stack = <<>> PROVE NotDueAgain /\ NoSelfNesting
    BY DEF Init
  <2> QED
    BY DEF NotDueAgain, NoSelfNesting, Depth
<1>2. TimeInv /\ NotDueAgain /\ NoSelfNesting /\ [Next]_vars => NotDueAgain' /\ NoSelfNesting'
  BY NestingStep, NotDueStep
<1> QED
  BY <1>1, <1>2, TimeInvariant, PTL DEF Spec

\* For any intervals: as long as handlers are quicker than these, no callback ever
\* runs inside itself, though schedule() re-enters the runtime at every level
\* (Runtime::trigger erases a callback before it runs it).
THEOREM NoCallbackNests ==
    ASSUME SocktapAssumption, Prompt
    PROVE  Spec => []NoSelfNesting
<1>1. TimeInv /\ NotDueAgain /\ NoSelfNesting => NoSelfNesting
  OBVIOUS
<1> QED
  BY <1>1, NestingInvariant, PTL

\* Going down the stack the next callback is two or three activations below.
LEMMA CallbackBelow ==
    ASSUME TypeOK, Nested, NEW i \in Depth, stack[i].fn = "schedule", i + 1 < Len(stack)
    PROVE  \/ stack[i + 1].fn = "pos"
           \/ stack[i + 2].fn \in {"cam", "fwd"} /\ i + 2 < Len(stack)
<1>1. i + 1 \in Depth /\ i \in Nat /\ Len(stack) \in Nat
  BY DEF Depth, TypeOK
<1>2. InSchedule(stack[i + 1]) /\ i # Len(stack)
  BY <1>1 DEF Nested
<1>3. stack[i + 1].fn # "pass_up"
  BY <1>1 DEF Nested
<1>4. CASE stack[i + 1].fn = "request"
  <2>1. (i + 1) + 1 = i + 2
    BY <1>1
  <2>2. InRequest(stack[i + 2])
    BY <1>1, <1>4, <2>1 DEF Nested
  <2>3. stack[i + 2].fn \in {"cam", "fwd"} /\ i + 2 \in Depth
    BY <1>1, <1>4, <2>2 DEF Nested, InRequest, Depth
  <2> QED
    BY <2>3 DEF Nested, Callbacks
<1> QED
  BY <1>2, <1>3, <1>4 DEF InSchedule

\* For any intervals: however the calls nest, the stack of activations stays ten
\* deep (schedule() calls callbacks, and these call schedule()).
THEOREM StackBounded ==
    ASSUME SocktapAssumption, Prompt
    PROVE  Spec => []NestingBounded
<1>1. TypeOK /\ Nested /\ NoSelfNesting => NestingBounded
  <2> SUFFICES ASSUME TypeOK, Nested, NoSelfNesting, Len(stack) > 10 PROVE FALSE
    BY DEF NestingBounded, TypeOK
  <2> DEFINE fn(i) == stack[i].fn
             CF == {"cam", "fwd"}
  <2>0. Len(stack) \in Nat /\ \A i \in 1 .. 11 : i \in Depth
    BY DEF TypeOK, Depth
  <2>1. ASSUME NEW i \in 1 .. 11, NEW j \in 1 .. 11, i < j, fn(i) \in Callbacks
        PROVE  fn(i) # fn(j)
    BY <2>0, <2>1 DEF NoSelfNesting, Depth
  \* From a callback at i, or from the top as if there were one above it.
  <2>2. ASSUME NEW i \in 0 .. 8, fn(i + 1) = "schedule"
        PROVE  fn(i + 2) = "pos" \/ fn(i + 3) \in CF
    <3>1. i + 1 \in Depth /\ (i + 1) + 1 < Len(stack) /\ (i + 1) + 1 = i + 2 /\ (i + 1) + 2 = i + 3
      BY <2>0
    <3> QED
      BY <2>2, <3>1, CallbackBelow
  <2>3. ASSUME NEW i \in 1 .. 8, fn(i) \in Callbacks PROVE fn(i + 2) = "pos" \/ fn(i + 3) \in CF
    <3>1. fn(i + 1) = "schedule" /\ i \in 0 .. 8
      BY <2>0, <2>3 DEF Nested
    <3> QED
      BY <2>2, <3>1
  <2>4. fn(1) \in Callbacks \/ fn(2) = "pos" \/ fn(2) \in CF \/ fn(3) \in CF
    <3>1. 1 \in Depth /\ 1 + 1 = 2 /\ 0 + 1 = 1 /\ 0 + 2 = 2 /\ 0 + 3 = 3 /\ 0 \in 0 .. 8
          /\ Len(stack) # 1
      BY <2>0
    <3>2. stack[1] \in Activations
      BY <3>1 DEF TypeOK, Depth
    <3>3. fn(1) \in Callbacks \cup {"schedule", "request", "pass_up"}
      BY <3>2 DEF Activations, Callbacks
    <3>4. fn(1) # "pass_up" /\ (fn(1) = "request" => fn(2) \in CF)
      BY <3>1 DEF Nested, InRequest
    <3>5. fn(1) = "schedule" => fn(2) = "pos" \/ fn(3) \in CF
      BY <2>2, <3>1
    <3> QED
      BY <3>3, <3>4, <3>5
  <2>5. PICK p \in 1 .. 3 : fn(p) \in Callbacks /\ (p = 3 => fn(p) \in CF)
    BY <2>4 DEF Callbacks
  <2>6. PICK q \in p + 2 .. p + 3 : fn(q) \in Callbacks /\ (fn(q) \in CF \/ q = p + 2)
    <3>1. p \in 1 .. 8 /\ p + 2 \in p + 2 .. p + 3 /\ p + 3 \in p + 2 .. p + 3
      OBVIOUS
    <3> QED
      BY <2>3, <2>5, <3>1 DEF Callbacks
  <2>7. PICK r \in q + 2 .. q + 3 : fn(r) \in Callbacks /\ (fn(r) \in CF \/ r = q + 2)
    <3>1. q \in 1 .. 8 /\ q + 2 \in q + 2 .. q + 3 /\ q + 3 \in q + 2 .. q + 3
      OBVIOUS
    <3> QED
      BY <2>3, <2>6, <3>1 DEF Callbacks
  <2>8. /\ p \in 1 .. 11 /\ q \in 1 .. 11 /\ r \in 1 .. 9 /\ p < q /\ q < r
        /\ fn(p) # fn(q) /\ fn(q) # fn(r) /\ fn(p) # fn(r)
    <3>1. p \in 1 .. 11 /\ q \in 1 .. 11 /\ r \in 1 .. 11 /\ p < q /\ q < r /\ p < r /\ r <= 9
      OBVIOUS
    <3>2. fn(p) # fn(q)
      BY <2>1, <2>5, <3>1
    <3>3. fn(p) # fn(r)
      BY <2>1, <2>5, <3>1
    <3>4. fn(q) # fn(r)
      BY <2>1, <2>6, <3>1
    <3> QED
      BY <3>1, <3>2, <3>3, <3>4
  <2>9. r \in 1 .. 8
    <3> SUFFICES ASSUME r = 9 PROVE FALSE
      BY <2>8
    <3>1. p = 3 /\ q = 6
      OBVIOUS
    <3>2. fn(p) \in CF /\ fn(q) \in CF /\ fn(r) \in CF
      BY <2>5, <2>6, <2>7, <3>1
    <3> QED
      BY <2>8, <3>2
  <2>10. PICK t \in r + 2 .. r + 3 : fn(t) \in Callbacks
    <3>1. r + 2 \in r + 2 .. r + 3 /\ r + 3 \in r + 2 .. r + 3
      BY <2>9
    <3> QED
      BY <2>3, <2>7, <2>9, <3>1 DEF Callbacks
  <2>11. fn(p) # fn(t) /\ fn(q) # fn(t) /\ fn(r) # fn(t)
    <3>1. t \in 1 .. 11 /\ p < t /\ q < t /\ r < t
      BY <2>8, <2>9
    <3>2. p \in 1 .. 11 /\ q \in 1 .. 11 /\ r \in 1 .. 11
      BY <2>8
    <3> QED
      BY <2>1, <2>5, <2>6, <2>7, <3>1, <3>2
  <2> QED
    BY <2>5, <2>6, <2>7, <2>8, <2>10, <2>11 DEF Callbacks
<1>2. TimeInv => TypeOK /\ Nested
  BY DEF TimeInv
<1> QED
  BY <1>1, <1>2, NestingInvariant, PTL

-----------------------------------------------------------------------------
(* What a station sends.                                                   *)

PromptInv == TimeInv /\ NotDueAgain /\ NoSelfNesting
AirInv == NoForwards /\ RequestsOwn /\ OwnBuffers /\ TakesTurns

\* A station that does not forward has no forwarding in queue or stack.
LEMMA NoForwardsStep ==
    ASSUME SocktapAssumption, TypeOK, NoForwards, [Next]_vars
    PROVE  NoForwards'
<1> USE DEF Depth
<1>0. queue \in [Callbacks -> Int] /\ "fwd" \in Callbacks
  BY Times DEF Callbacks
<1>1. ASSUME NEW a, CallsOn(a) PROVE NoForwards'
  <2> SUFFICES ASSUME ~forwards'
               PROVE  queue'["fwd"] = None /\ \A i \in 1 .. Len(stack') : stack'[i].fn # "fwd"
    BY DEF NoForwards
  <2>1. ~forwards /\ queue["fwd"] = None /\ \A i \in Depth : stack[i].fn # "fwd"
    BY <1>1 DEF CallsOn, NoForwards
  <2>2. queue'["fwd"] = None
    <3>1. queue' = queue \/ \E c \in Periodic : queue' = [queue EXCEPT ![c] = After(Interval(c))]
      BY <1>1, <2>1 DEF CallsOn, Requeues
    <3> QED
      BY <1>0, <2>1, <3>1 DEF Periodic
  <2>3. /\ 1 \in Depth /\ stack'[1].fn \in {"schedule", "request"} /\ stack'[2].fn = stack[1].fn
        /\ \A i \in 3 .. Len(stack') : i - 1 \in Depth /\ stack'[i] = stack[i - 1]
    BY <1>1, CallFrames DEF CallsOn, CallSites
  <2>4. ASSUME NEW i \in 1 .. Len(stack') PROVE i = 1 \/ i = 2 \/ i \in 3 .. Len(stack')
    OBVIOUS
  <2> QED
    BY <2>1, <2>2, <2>3, <2>4
<1>2. ASSUME NEW c \in Callbacks, Triggers(c) PROVE NoForwards'
  <2> SUFFICES ASSUME ~forwards'
               PROVE  queue'["fwd"] = None /\ \A i \in 1 .. Len(stack') : stack'[i].fn # "fwd"
    BY DEF NoForwards
  <2>1. ~forwards /\ queue["fwd"] = None /\ \A i \in Depth : stack[i].fn # "fwd"
    BY <1>2 DEF Triggers, sendVars, NoForwards
  <2>2. c # "fwd" /\ queue' = [queue EXCEPT ![c] = None]
    BY <1>2, <2>1 DEF Triggers, Due, Scheduled
  <2>3. /\ stack'[1] = Call(c)
        /\ \A i \in 2 .. Len(stack') : i - 1 \in Depth /\ stack'[i] = stack[i - 1]
    BY <1>2, TriggerFrames
  <2>4. stack'[1].fn = c
    BY <2>3 DEF Call
  <2>5. ASSUME NEW i \in 1 .. Len(stack') PROVE i = 1 \/ i \in 2 .. Len(stack')
    OBVIOUS
  <2> QED
    BY <1>0, <2>1, <2>2, <2>3, <2>4, <2>5
<1>3. CASE ReturnsOn \/ Arms
  <2>1. queue' = queue /\ forwards' = forwards
    BY <1>3 DEF ReturnsOn, Arms, sendVars
  <2>2. \A i \in 1 .. Len(stack') : i + 1 \in Depth /\ stack'[i] = stack[i + 1]
    BY <1>3, ReturnFrames
  <2> QED
    BY <2>1, <2>2 DEF NoForwards
<1>4. CASE OnTimeout \/ OnRead
  <2>1. stack' = <<Call("schedule")>> \/ stack' = <<Call("pass_up")>>
    BY <1>4 DEF OnTimeout, OnRead
  <2>2. \A i \in 1 .. Len(stack') : stack'[i].fn # "fwd"
    BY <2>1 DEF Call
  <2> QED
    BY <1>4, <2>2 DEF OnTimeout, OnRead, sendVars, NoForwards
<1>5. CASE Tick
  <2>1. queue["fwd"] = None => queue'["fwd"] = None
    BY <1>0, <1>5 DEF Tick, Scheduled
  <2> QED
    BY <1>5, <2>1 DEF Tick, sendVars, NoForwards
<1>6. CASE TimerExpires \/ UNCHANGED vars
  BY <1>6 DEF TimerExpires, vars, sendVars, NoForwards
<1> QED
  BY <1>1, <1>2, <1>3, <1>4, <1>5, <1>6, HandlerSteps DEF Next

\* Only the CAM's own request is below the CAM's callback.
LEMMA RequestsStep ==
    ASSUME SocktapAssumption, PromptInv, RequestsOwn, [Next]_vars
    PROVE  RequestsOwn'
<1> USE DEF Depth
<1>0. TypeOK /\ Nested /\ NoSelfNesting
  BY DEF PromptInv, TimeInv
<1> SUFFICES ASSUME NEW i \in 1 .. Len(stack'), stack'[i].fn = "request"
             PROVE  stack'[i].packet = PacketOf(stack'[i + 1].fn, stack'[i + 1].at, gen')
  BY DEF RequestsOwn
<1>1. ASSUME NEW a, CallsOn(a)
      PROVE  stack'[i].packet = PacketOf(stack'[i + 1].fn, stack'[i + 1].at, gen')
  <2>1. /\ Len(stack') = Len(stack) + 1 /\ Len(stack) \in Nat \ {0} /\ stack'[1] = a
        /\ stack'[2].fn = stack[1].fn /\ stack'[2].at = stack[1].at + 1
        /\ stack'[2].packet = stack[1].packet
        /\ \A j \in 3 .. Len(stack') : j - 1 \in 2 .. Len(stack) /\ stack'[j] = stack[j - 1]
    BY <1>0, <1>1, CallFrames
  <2>2. CASE i = 1
    BY <1>1, <2>1, <2>2 DEF CallsOn
  <2>3. CASE i # 1
    <3> DEFINE p == i - 1
    <3>1. p \in Depth /\ stack'[i].fn = stack[p].fn /\ stack'[i].packet = stack[p].packet
      BY <2>1, <2>3
    <3>2. p < Len(stack) /\ InRequest(stack[p + 1])
      BY <1>0, <3>1 DEF Nested
    <3>3. p + 1 \in Depth /\ stack'[i + 1] = stack[p + 1]
      <4>1. i + 1 \in 3 .. Len(stack') /\ (i + 1) - 1 = p + 1
        BY <2>1, <2>3, <3>2
      <4>2. stack'[i + 1] = stack[(i + 1) - 1]
        BY <2>1, <4>1
      <4> QED
        BY <2>1, <2>3, <3>2, <4>1, <4>2
    <3>4. stack[p].packet = PacketOf(stack[p + 1].fn, stack[p + 1].at, gen)
      BY <3>1 DEF RequestsOwn
    <3>5. CASE stack[1].fn = "cam" /\ stack[1].at = 1
      <4>1. 1 \in Depth /\ p + 1 # 1
        BY <2>1, <3>1
      <4>2. stack[p + 1].fn = "fwd"
        BY <1>0, <3>2, <3>3, <3>5, <4>1 DEF NoSelfNesting, InRequest, Callbacks
      <4> QED
        BY <3>1, <3>3, <3>4, <4>2 DEF PacketOf
    <3>6. CASE ~(stack[1].fn = "cam" /\ stack[1].at = 1)
      <4>1. gen' = gen
        BY <1>1, <3>6 DEF CallsOn
      <4> QED
        BY <3>1, <3>3, <3>4, <4>1
    <3> QED
      BY <3>5, <3>6
  <2> QED
    BY <2>2, <2>3
<1>2. ASSUME NEW c \in Callbacks, Triggers(c)
      PROVE  stack'[i].packet = PacketOf(stack'[i + 1].fn, stack'[i + 1].at, gen')
  <2>1. /\ Len(stack') = Len(stack) + 1 /\ Len(stack) \in Nat \ {0} /\ stack'[1] = Call(c)
        /\ \A j \in 2 .. Len(stack') : j - 1 \in Depth /\ stack'[j] = stack[j - 1]
        /\ gen' = gen
    BY <1>0, <1>2, TriggerFrames DEF Triggers, sendVars
  <2>2. i # 1
    BY <2>1 DEF Call, Callbacks
  <2>3. i - 1 \in Depth /\ stack'[i] = stack[i - 1] /\ (i - 1) + 1 = i
    BY <2>1, <2>2
  <2>4. i - 1 < Len(stack)
    BY <1>0, <2>3 DEF Nested
  <2>5. i + 1 \in 2 .. Len(stack') /\ (i + 1) - 1 = i
    BY <2>1, <2>2, <2>4
  <2>6. stack'[i + 1] = stack[i]
    BY <2>1, <2>5
  <2> QED
    BY <2>1, <2>3, <2>6 DEF RequestsOwn
<1>3. CASE ReturnsOn \/ Arms
  <2>1. /\ Len(stack') = Len(stack) - 1 /\ Len(stack) \in Nat /\ gen' = gen
        /\ \A j \in 1 .. Len(stack') : j + 1 \in Depth /\ stack'[j] = stack[j + 1]
    BY <1>0, <1>3, ReturnFrames DEF ReturnsOn, Arms, sendVars
  <2>2. i + 1 \in Depth /\ stack'[i] = stack[i + 1]
    BY <2>1
  <2>3. i + 1 < Len(stack)
    BY <1>0, <2>2 DEF Nested
  <2>4. stack'[i + 1] = stack[(i + 1) + 1]
    <3>1. i + 1 \in 1 .. Len(stack')
      BY <2>1, <2>3
    <3> QED
      BY <2>1, <3>1
  <2> QED
    BY <2>1, <2>2, <2>4 DEF RequestsOwn
<1>4. CASE OnTimeout \/ OnRead
  <2>1. stack' = <<Call("schedule")>> \/ stack' = <<Call("pass_up")>>
    BY <1>4 DEF OnTimeout, OnRead
  <2> QED
    BY <2>1 DEF Call
<1>5. CASE UNCHANGED <<stack, gen>>
  BY <1>5 DEF RequestsOwn
<1> QED
  BY <1>0, <1>1, <1>2, <1>3, <1>4, <1>5, HandlerSteps
  DEF Next, vars, sendVars, Tick, TimerExpires

\* Where the router does not forward, one request runs at a time.
LEMMA OneRequest ==
    ASSUME TypeOK, Nested, NoSelfNesting, NoForwards, ~forwards,
           NEW i \in Depth, NEW j \in Depth, stack[i].fn = "request", stack[j].fn = "request"
    PROVE  i = j
<1>1. i < Len(stack) /\ j < Len(stack) /\ Len(stack) \in Nat
  BY DEF Nested, TypeOK
<1>2. i + 1 \in Depth /\ j + 1 \in Depth
  BY <1>1 DEF Depth
<1>3. InRequest(stack[i + 1]) /\ InRequest(stack[j + 1])
  BY DEF Nested
<1>4. stack[i + 1].fn = "cam" /\ stack[j + 1].fn = "cam"
  BY <1>2, <1>3 DEF InRequest, NoForwards
<1>5. i + 1 = j + 1
  BY <1>2, <1>4 DEF NoSelfNesting, Callbacks, Depth
<1> QED
  BY <1>5 DEF Depth

\* Without forwarding the packet in the buffers is that of the running
\* request.
LEMMA BuffersStep ==
    ASSUME SocktapAssumption, PromptInv, NoForwards, OwnBuffers, [Next]_vars
    PROVE  OwnBuffers'
<1> USE DEF Depth
<1>0. TypeOK /\ Nested /\ NoSelfNesting
  BY DEF PromptInv, TimeInv
<1>9. forwards' = forwards
  BY <1>0, HandlerSteps
  DEF Next, vars, sendVars, Tick, TimerExpires, OnTimeout, OnRead, CallsOn, ReturnsOn, Arms, Triggers
<1> SUFFICES ASSUME ~forwards', NEW i \in 1 .. Len(stack'), stack'[i].fn = "request", stack'[i].at = 2
             PROVE  buffers' = stack'[i].packet
  BY DEF OwnBuffers
<1>1. ASSUME NEW a, CallsOn(a) PROVE buffers' = stack'[i].packet
  <2>1. /\ Len(stack') = Len(stack) + 1 /\ Len(stack) \in Nat \ {0} /\ stack'[1] = a /\ a.at = 1
        /\ stack'[2].fn = stack[1].fn /\ stack'[2].packet = stack[1].packet
        /\ \A j \in 3 .. Len(stack') : j - 1 \in 2 .. Len(stack) /\ stack'[j] = stack[j - 1]
    BY <1>0, <1>1, CallFrames DEF CallsOn
  <2>2. i # 1
    BY <2>1
  <2>3. CASE stack[1].fn = "request"
    <3>1. 1 \in Depth /\ (i = 2 \/ i \in 3 .. Len(stack'))
      BY <2>1, <2>2
    <3>2. i = 2
      <4> SUFFICES ASSUME i \in 3 .. Len(stack') PROVE FALSE
        BY <3>1
      <4>1. i - 1 \in 2 .. Len(stack) /\ stack[i - 1].fn = "request"
        BY <2>1
      <4>2. i - 1 \in Depth /\ i - 1 # 1
        BY <2>1, <4>1
      <4> QED
        BY <1>0, <1>9, <2>3, <3>1, <4>1, <4>2, OneRequest
    <3> QED
      BY <1>1, <2>1, <2>3, <3>2 DEF CallsOn
  <2>4. CASE stack[1].fn # "request"
    <3>1. i \in 3 .. Len(stack')
      BY <2>1, <2>2, <2>4
    <3>2. i - 1 \in Depth /\ stack'[i] = stack[i - 1]
      BY <2>1, <3>1
    <3>3. buffers' = buffers
      BY <1>1, <2>4 DEF CallsOn
    <3> QED
      BY <1>9, <3>2, <3>3 DEF OwnBuffers
  <2> QED
    BY <2>3, <2>4
<1>2. ASSUME NEW c \in Callbacks, Triggers(c) PROVE buffers' = stack'[i].packet
  <2>1. /\ stack'[1] = Call(c) /\ buffers' = buffers
        /\ \A j \in 2 .. Len(stack') : j - 1 \in Depth /\ stack'[j] = stack[j - 1]
    BY <1>0, <1>2, TriggerFrames DEF Triggers, sendVars
  <2>2. i # 1
    BY <2>1 DEF Call, Callbacks
  <2>3. i - 1 \in Depth /\ stack'[i] = stack[i - 1]
    BY <2>1, <2>2
  <2> QED
    BY <1>9, <2>1, <2>3 DEF OwnBuffers
<1>3. CASE ReturnsOn \/ Arms
  <2>1. buffers' = buffers /\ i + 1 \in Depth /\ stack'[i] = stack[i + 1]
    BY <1>0, <1>3, ReturnFrames DEF ReturnsOn, Arms, sendVars
  <2> QED
    BY <1>9, <2>1 DEF OwnBuffers
<1>4. CASE OnTimeout \/ OnRead
  <2>1. stack' = <<Call("schedule")>> \/ stack' = <<Call("pass_up")>>
    BY <1>4 DEF OnTimeout, OnRead
  <2> QED
    BY <2>1 DEF Call
<1>5. CASE UNCHANGED <<stack, buffers>>
  BY <1>5, <1>9 DEF OwnBuffers
<1> QED
  BY <1>0, <1>1, <1>2, <1>3, <1>4, <1>5, HandlerSteps
  DEF Next, vars, sendVars, Tick, TimerExpires

\* The cam callback and what it sends: the CAM from its second place, the DENM from
\* its third, each by a request() of its own.
LEMMA TurnsStep ==
    ASSUME SocktapAssumption, Prompt, PromptInv, AirInv, [Next]_vars
    PROVE  TakesTurns'
<1> USE DEF Depth
<1>0. TypeOK /\ Nested /\ NoSelfNesting /\ NoForwards /\ RequestsOwn /\ OwnBuffers /\ TakesTurns
  BY DEF PromptInv, TimeInv, AirInv
<1>9. forwards' = forwards /\ require' = require
  BY <1>0, HandlerSteps
  DEF Next, vars, sendVars, Tick, TimerExpires, OnTimeout, OnRead, CallsOn, ReturnsOn, Arms, Triggers
<1> SUFFICES ASSUME Promises
             PROVE  /\ flow'
                    /\ (\A i \in Depth' : stack'[i].fn # "cam") => Quiet(gen)'
                    /\ \A i \in Depth' : stack'[i].fn = "cam" => InTurn(i)'
  BY <1>9 DEF TakesTurns, Promises
<1>10. /\ ~forwards /\ ~require /\ flow /\ gen \in {0, 1}
       /\ (\A i \in Depth : stack[i].fn # "cam") => Quiet(gen)
       /\ \A i \in Depth : stack[i].fn = "cam" => InTurn(i)
  BY <1>0 DEF TakesTurns, Promises, TypeOK
<1>11. \A i, j \in Depth : stack[i].fn = "cam" /\ stack[j].fn = "cam" => i = j
  BY <1>0 DEF NoSelfNesting, Callbacks
<1>1. ASSUME NEW a, CallsOn(a)
      PROVE  /\ flow'
             /\ (\A i \in Depth' : stack'[i].fn # "cam") => Quiet(gen)'
             /\ \A i \in Depth' : stack'[i].fn = "cam" => InTurn(i)'
  <2>1. /\ Len(stack') = Len(stack) + 1 /\ Len(stack) \in Nat \ {0} /\ stack'[1] = a
        /\ a.fn \in {"schedule", "request"} /\ stack[1].at \in {1, 2}
        /\ stack'[2].fn = stack[1].fn /\ stack'[2].at = stack[1].at + 1
        /\ flow' = flow /\ air' = air
        /\ gen' = IF stack[1].fn = "cam" /\ stack[1].at = 1 THEN 1 - gen ELSE gen
        /\ \A i \in 3 .. Len(stack') : i - 1 \in 2 .. Len(stack) /\ stack'[i] = stack[i - 1]
    BY <1>0, <1>1, CallFrames DEF CallsOn, CallSites
  <2>2. CASE stack[1].fn = "cam"
    <3>1. 1 \in Depth /\ 2 \in Depth' /\ InTurn(1)
      BY <1>10, <2>1, <2>2
    <3>2. ASSUME NEW i \in Depth', stack'[i].fn = "cam" PROVE i = 2
      <4>1. i # 1
        BY <2>1, <3>2
      <4>2. i \notin 3 .. Len(stack')
        <5> SUFFICES ASSUME i \in 3 .. Len(stack') PROVE FALSE
          OBVIOUS
        <5>1. i - 1 \in Depth /\ stack[i - 1].fn = "cam" /\ i - 1 # 1
          BY <2>1, <3>2
        <5> QED
          BY <1>11, <2>2, <3>1, <5>1
      <4> QED
        BY <4>1, <4>2
    <3>3. InTurn(2)'
      <4>1. CASE stack[1].at = 1
        <5>1. Quiet(gen) /\ gen' = 1 - gen /\ 1 - gen' = gen
          BY <1>10, <2>1, <2>2, <3>1, <4>1 DEF InTurn
        <5> QED
          BY <2>1, <4>1, <5>1 DEF InTurn, Quiet
      <4>2. CASE stack[1].at = 2
        <5>1. air = Packet("cam", gen) /\ gen' = gen
          BY <2>1, <3>1, <4>2 DEF InTurn
        <5> QED
          BY <2>1, <4>2, <5>1 DEF InTurn
      <4> QED
        BY <2>1, <4>1, <4>2
    <3>4. stack'[2].fn = "cam"
      BY <2>1, <2>2
    <3> QED
      BY <1>10, <2>1, <3>1, <3>2, <3>3, <3>4
  <2>3. CASE stack[1].fn # "cam"
    <3>1. gen' = gen /\ Quiet(gen)' = Quiet(gen)
      BY <2>1, <2>3 DEF Quiet
    <3>2. ASSUME NEW i \in Depth', stack'[i].fn = "cam"
          PROVE  i \in 3 .. Len(stack') /\ i - 1 \in Depth /\ stack'[i] = stack[i - 1]
      <4>1. i \in 3 .. Len(stack')
        BY <2>1, <2>3, <3>2
      <4> QED
        BY <2>1, <4>1
    <3>3. (\A i \in Depth' : stack'[i].fn # "cam") => \A i \in Depth : stack[i].fn # "cam"
      <4> SUFFICES ASSUME NEW i \in Depth, stack[i].fn = "cam"
                   PROVE  \E j \in Depth' : stack'[j].fn = "cam"
        OBVIOUS
      <4>1. i \in 2 .. Len(stack) /\ i + 1 \in 3 .. Len(stack') /\ i + 1 \in Depth' /\ (i + 1) - 1 = i
        BY <2>1, <2>3
      <4>2. stack'[i + 1] = stack[i]
        BY <2>1, <4>1
      <4> QED
        BY <4>1, <4>2
    <3>4. ASSUME NEW i \in Depth', stack'[i].fn = "cam" PROVE InTurn(i)'
      <4>1. i - 1 \in Depth /\ stack'[i] = stack[i - 1] /\ i - 1 > 1 /\ i > 1
        <5>1. i \in 3 .. Len(stack') /\ i - 1 \in Depth /\ stack'[i] = stack[i - 1]
          BY <3>2, <3>4
        <5> QED
          BY <5>1
      <4>2. InTurn(i - 1)
        BY <1>10, <3>4, <4>1
      <4> QED
        BY <2>1, <3>1, <4>1, <4>2 DEF InTurn, Quiet
    <3> QED
      BY <1>10, <2>1, <3>1, <3>3, <3>4
  <2> QED
    BY <2>2, <2>3
<1>2. ASSUME NEW c \in Callbacks, Triggers(c)
      PROVE  /\ flow'
             /\ (\A i \in Depth' : stack'[i].fn # "cam") => Quiet(gen)'
             /\ \A i \in Depth' : stack'[i].fn = "cam" => InTurn(i)'
  <2>1. /\ Len(stack') = Len(stack) + 1 /\ Len(stack) \in Nat \ {0} /\ stack'[1] = Call(c)
        /\ stack[1].fn = "schedule"
        /\ \A i \in 2 .. Len(stack') : i - 1 \in Depth /\ stack'[i] = stack[i - 1]
        /\ \A i \in Depth : stack'[i + 1] = stack[i]
        /\ flow' = flow /\ air' = air /\ gen' = gen
    BY <1>0, <1>2, TriggerFrames DEF Triggers, sendVars
  <2>2. stack'[1].fn = c /\ stack'[1].at = 1
    BY <2>1 DEF Call
  <2>3. (\A i \in Depth' : stack'[i].fn # "cam") => \A i \in Depth : stack[i].fn # "cam"
    <3> SUFFICES ASSUME NEW i \in Depth, stack[i].fn = "cam"
                 PROVE  \E j \in Depth' : stack'[j].fn = "cam"
      OBVIOUS
    <3>1. i + 1 \in Depth' /\ stack'[i + 1] = stack[i]
      BY <2>1
    <3> QED
      BY <3>1
  <2>4. ASSUME NEW i \in Depth', stack'[i].fn = "cam" PROVE InTurn(i)'
    <3>1. CASE i = 1
      <4>1. c = "cam" /\ c \in Due
        BY <1>2, <2>2, <2>4, <3>1 DEF Triggers
      <4>2. \A j \in Depth : stack[j].fn # "cam"
        BY <1>0, <4>1, RunningNotDue DEF PromptInv
      <4>3. Quiet(gen)'
        BY <1>10, <2>1, <4>2 DEF Quiet
      <4> QED
        BY <2>2, <3>1, <4>3 DEF InTurn
    <3>2. CASE i # 1
      <4>1. i - 1 \in Depth /\ stack'[i] = stack[i - 1] /\ i > 1
        BY <2>1, <3>2
      <4>2. InTurn(i - 1) /\ i - 1 > 1
        BY <1>10, <2>1, <2>4, <4>1
      <4> QED
        BY <2>1, <4>1, <4>2 DEF InTurn, Quiet
    <3> QED
      BY <3>1, <3>2
  <2>5. Quiet(gen)' = Quiet(gen)
    BY <2>1 DEF Quiet
  <2> QED
    BY <1>10, <2>1, <2>3, <2>4, <2>5
<1>3. CASE ReturnsOn \/ Arms
  <2>1. /\ Len(stack') = Len(stack) - 1 /\ Len(stack) \in Nat \ {0}
        /\ \A i \in 1 .. Len(stack') : i + 1 \in Depth /\ stack'[i] = stack[i + 1]
        /\ gen' = gen /\ 1 \in Depth /\ stack[1] \in Activations
    BY <1>0, <1>3, ReturnFrames DEF ReturnsOn, Arms, sendVars, TypeOK
  <2>7. Arms => stack[1].fn = "schedule"
    BY <1>0, Top DEF Arms, TypeOK
  <2>2. flow' = flow \/ flow' = Allowed
    BY <1>3 DEF ReturnsOn, Arms, sendVars
  <2>3. flow'
    BY <1>10, <2>2 DEF Allowed
  <2>4. CASE stack[1].fn = "request"
    <3>1. ReturnsOn /\ stack[1].at = 2
      <4>1. ReturnsOn
        BY <1>3, <2>4, <2>7
      <4> QED
        BY <1>10, <2>4, <4>1 DEF ReturnsOn, ReturnSites
    <3>2. air' = buffers /\ buffers = stack[1].packet
      BY <1>0, <1>10, <2>1, <2>4, <3>1 DEF ReturnsOn, OwnBuffers
    <3>3. /\ 1 < Len(stack) /\ 1 + 1 = 2 /\ InRequest(stack[2])
          /\ stack[1].packet = PacketOf(stack[2].fn, stack[2].at, gen)
      BY <1>0, <2>1, <2>4 DEF Nested, RequestsOwn
    <3>4. 2 \in Depth /\ 1 \in Depth' /\ stack'[1] = stack[2]
      BY <2>1, <3>3
    <3>5. stack[2].fn = "cam" /\ stack[2].at \in {2, 3}
      BY <1>0, <1>10, <3>3, <3>4 DEF InRequest, NoForwards
    <3>6. ASSUME NEW i \in Depth', stack'[i].fn = "cam" PROVE i = 1
      <4>1. i + 1 \in Depth /\ stack[i + 1].fn = "cam"
        BY <2>1, <3>6
      <4>2. i + 1 = 2
        BY <1>11, <3>4, <3>5, <4>1
      <4> QED
        BY <4>2
    <3>7. InTurn(1)'
      <4>1. air' = IF stack'[1].at = 2 THEN Packet("cam", gen') ELSE Packet("denm", gen')
        BY <2>1, <3>2, <3>3, <3>4, <3>5 DEF PacketOf
      <4> QED
        BY <3>4, <3>5, <4>1 DEF InTurn
    <3> QED
      BY <2>3, <3>4, <3>5, <3>6, <3>7
  <2>5. CASE stack[1].fn = "cam"
    <3>1. stack[1].at = 3 /\ air' = air
      <4>1. ReturnsOn
        BY <1>3, <2>5, <2>7
      <4> QED
        BY <2>5, <4>1 DEF ReturnsOn, ReturnSites
    <3>2. air = Packet("denm", gen)
      BY <1>10, <2>1, <2>5, <3>1 DEF InTurn
    <3>3. Quiet(gen)'
      BY <2>1, <3>1, <3>2 DEF Quiet, Packet
    <3>4. ASSUME NEW i \in Depth' PROVE stack'[i].fn # "cam"
      <4>1. i + 1 \in Depth /\ stack'[i] = stack[i + 1] /\ i + 1 # 1
        BY <2>1
      <4> QED
        BY <1>11, <2>1, <2>5, <4>1
    <3> QED
      BY <2>3, <3>3, <3>4
  <2>6. CASE stack[1].fn \notin {"request", "cam"}
    <3>1. air' = air
      BY <1>3, <2>6 DEF ReturnsOn, Arms, sendVars
    <3>2. Quiet(gen)' = Quiet(gen)
      BY <2>1, <3>1 DEF Quiet
    <3>3. 2 \in Depth => stack[2].fn # "cam"
      <4> SUFFICES ASSUME 2 \in Depth PROVE stack[2].fn # "cam"
        OBVIOUS
      <4>1. 1 + 1 = 2 /\ 1 # Len(stack)
        BY <2>1
      <4>2. stack[1].fn \in {"schedule", "pos", "fwd", "pass_up"}
        BY <2>1, <2>6 DEF Activations
      <4>3. CASE stack[1].fn = "schedule"
        BY <1>0, <2>1, <4>1, <4>3 DEF Nested, InSchedule
      <4>4. CASE stack[1].fn = "pass_up"
        BY <1>0, <2>1, <4>1, <4>4 DEF Nested
      <4>5. CASE stack[1].fn \in {"pos", "fwd"}
        BY <1>0, <2>1, <4>1, <4>5 DEF Nested, Callbacks
      <4> QED
        BY <4>2, <4>3, <4>4, <4>5
    <3>4. ASSUME NEW i \in Depth', stack'[i].fn = "cam" PROVE InTurn(i)'
      <4>1. i + 1 \in Depth /\ stack'[i] = stack[i + 1] /\ i \in Nat
        BY <2>1
      <4>2. i # 1
        BY <3>3, <3>4, <4>1
      <4>3. InTurn(i + 1) /\ i + 1 > 1 /\ i > 1
        BY <1>10, <2>1, <3>4, <4>1, <4>2
      <4> QED
        BY <2>1, <3>1, <4>1, <4>3 DEF InTurn, Quiet
    <3>5. (\A i \in Depth' : stack'[i].fn # "cam") => \A i \in Depth : stack[i].fn # "cam"
      <4> SUFFICES ASSUME NEW i \in Depth, stack[i].fn = "cam"
                   PROVE  \E j \in Depth' : stack'[j].fn = "cam"
        OBVIOUS
      <4>1. i # 1
        BY <2>6
      <4>2. i - 1 \in Depth' /\ (i - 1) + 1 = i
        BY <2>1, <4>1
      <4>3. stack'[i - 1] = stack[i]
        BY <2>1, <4>2
      <4> QED
        BY <4>2, <4>3
    <3> QED
      BY <1>10, <2>3, <3>2, <3>4, <3>5
  <2> QED
    BY <2>4, <2>5, <2>6
<1>4. CASE OnTimeout \/ OnRead
  <2>1. stack' = <<Call("schedule")>> \/ stack' = <<Call("pass_up")>>
    BY <1>4 DEF OnTimeout, OnRead
  <2>2. \A i \in Depth' : stack'[i].fn # "cam"
    BY <2>1 DEF Call
  <2>3. stack = <<>> /\ flow' = flow /\ air' = air /\ gen' = gen
    BY <1>4 DEF OnTimeout, OnRead, sendVars
  <2>4. Quiet(gen)'
    BY <1>10, <2>3 DEF Quiet
  <2> QED
    BY <1>10, <2>2, <2>3, <2>4
<1>5. CASE UNCHANGED <<stack, gen, air, flow>>
  BY <1>5, <1>10 DEF InTurn, Quiet
<1> QED
  BY <1>0, <1>1, <1>2, <1>3, <1>4, <1>5, HandlerSteps
  DEF Next, vars, sendVars, Tick, TimerExpires

\* What is in the buffers and on the air, in every state of a prompt station.
LEMMA AirInvariant ==
    ASSUME SocktapAssumption, Prompt
    PROVE  Spec => [](PromptInv /\ AirInv)
<1>1. Init => AirInv
  <2> SUFFICES ASSUME Init PROVE AirInv
    OBVIOUS
  <2>1. stack = <<>> /\ air = NoPacket /\ gen = 0 /\ flow = Allowed
    BY DEF Init
  <2>2. queue["fwd"] = None
    <3>1. queue = [c \in Callbacks |-> CASE c = "cam" -> CamInterval
                                         [] c = "pos" -> PosInterval
                                         [] c = "fwd" -> None]
      BY DEF Init
    <3> QED
      BY <3>1 DEF Callbacks
  <2>3. \A i \in Depth : FALSE
    BY <2>1 DEF Depth
  <2>4. Quiet(gen) /\ (Promises => flow)
    BY <2>1 DEF Quiet, NoPacket, Packet, Promises, Allowed
  <2> QED
    BY <2>2, <2>3, <2>4 DEF AirInv, NoForwards, RequestsOwn, OwnBuffers, TakesTurns
<1>2. PromptInv /\ AirInv /\ [Next]_vars => AirInv'
  BY NoForwardsStep, RequestsStep, BuffersStep, TurnsStep DEF AirInv, PromptInv, TimeInv
<1> QED
  BY <1>1, <1>2, NestingInvariant, PTL DEF Spec, PromptInv

\* Where the router does not forward, request() always sends the packet it was
\* called with: the buffers it shares are refilled by forwarded packets alone
\* (DccPassthrough::request).
THEOREM OwnPacketUnlessForwarding ==
    ASSUME SocktapAssumption, Prompt
    PROVE  Spec => [](~forwards => SendsOwnPacket)
<1>1. PromptInv /\ AirInv /\ ~forwards => SendsOwnPacket
  <2> SUFFICES ASSUME PromptInv, AirInv, ~forwards, In("request", 2)
               PROVE  buffers = Head(stack).packet
    BY DEF SendsOwnPacket
  <2>1. stack # <<>> /\ Head(stack) = stack[1] /\ stack[1].fn = "request" /\ stack[1].at = 2
        /\ 1 \in Depth
    BY Top DEF PromptInv, TimeInv, TypeOK, Depth
  <2> QED
    BY <2>1 DEF AirInv, OwnBuffers
<1> QED
  BY <1>1, AirInvariant, PTL

\* For any intervals and any traffic received: the safety half of Beacons.  What a
\* station that neither forwards nor waits for a fix sends are CAMs, each followed
\* by its own DENM before the next (CamApplication::on_timer, through the nested
\* schedule() calls of DccPassthrough::request).
THEOREM StationImplementsBeacons ==
    ASSUME SocktapAssumption, Prompt
    PROVE  Spec => Station!Spec
<1> DEFINE OnAir == IF Promises THEN air ELSE NoPacket
           Silent == ~Promises
<1>1. Init => Station!Init
  <2> SUFFICES ASSUME Init PROVE Station!Init
    OBVIOUS
  <2>1. OnAir = NoPacket
    BY DEF Init
  <2>2. NoPacket = [kind |-> "none", gen |-> 0]
    BY DEF NoPacket, Packet
  <2>3. Silent \in BOOLEAN
    OBVIOUS
  <2> QED
    BY <2>1, <2>2, <2>3 DEF Station!Init
<1>2. PromptInv /\ AirInv /\ [Next]_vars => [Station!Next]_Station!vars
  <2> SUFFICES ASSUME PromptInv, AirInv, [Next]_vars
               PROVE  Station!Next \/ (OnAir' = OnAir /\ Silent' = Silent)
    BY DEF Station!vars
  <2>0. TypeOK /\ Nested /\ NoForwards /\ RequestsOwn /\ OwnBuffers /\ TakesTurns
    BY DEF PromptInv, TimeInv, AirInv
  <2>1. Promises' = Promises
    <3>1. forwards' = forwards /\ require' = require
      BY <2>0, HandlerSteps
      DEF Next, vars, sendVars, Tick, TimerExpires, OnTimeout, OnRead, CallsOn, ReturnsOn, Arms, Triggers
    <3> QED
      BY <3>1 DEF Promises
  <2>2. CASE ~Promises \/ air' = air
    BY <2>1, <2>2
  <2>3. CASE Promises /\ air' # air
    <3>1. ReturnsOn /\ stack[1].fn = "request" /\ stack[1].at = 2 /\ air' = buffers
      BY <2>0, <2>3, HandlerSteps
      DEF Next, vars, sendVars, Tick, TimerExpires, OnTimeout, OnRead, CallsOn, ReturnsOn, Arms, Triggers
    <3>2. ~forwards /\ 1 \in Depth /\ 1 + 1 = 2 /\ Len(stack) \in Nat /\ gen \in {0, 1}
      BY <2>0, <2>3, <3>1, ReturnFrames DEF Promises, Depth, TypeOK
    <3>3. /\ 2 \in Depth /\ InRequest(stack[2])
          /\ buffers = PacketOf(stack[2].fn, stack[2].at, gen)
      BY <2>0, <3>1, <3>2 DEF Nested, OwnBuffers, RequestsOwn, Depth
    <3>4. stack[2].fn = "cam" /\ stack[2].at \in {2, 3} /\ InTurn(2)
      BY <2>0, <2>3, <3>2, <3>3 DEF InRequest, NoForwards, TakesTurns
    <3>5. CASE stack[2].at = 2
      <4>1. air' = Packet("cam", gen) /\ Quiet(1 - gen)
        BY <3>1, <3>3, <3>4, <3>5 DEF PacketOf, InTurn
      <4>2. air.kind \in {"none", "denm"} /\ air' = [kind |-> "cam", gen |-> 1 - air.gen]
        BY <3>2, <4>1 DEF Packet, Quiet
      <4> QED
        BY <2>1, <2>3, <4>2 DEF Station!Next, Station!SendCam
    <3>6. CASE stack[2].at = 3
      <4>1. air' = Packet("denm", gen) /\ air = Packet("cam", gen)
        BY <3>1, <3>3, <3>4, <3>6 DEF PacketOf, InTurn
      <4>2. air.kind = "cam" /\ air' = [air EXCEPT !.kind = "denm"]
        BY <4>1 DEF Packet
      <4> QED
        BY <2>1, <2>3, <4>2 DEF Station!Next, Station!SendDenm
    <3> QED
      BY <3>4, <3>5, <3>6
  <2> QED
    BY <2>2, <2>3
<1> QED
  BY <1>1, <1>2, AirInvariant, PTL DEF Spec, Station!Spec
===============================================================================
