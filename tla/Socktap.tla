-------------------------------- MODULE Socktap --------------------------------
(***************************************************************************)
(* The time-driven half of the Vanetza station, socktap (main_cam.cpp):    *)
(* TimeTrigger keeps one deadline_timer at the next deadline of Vanetza's  *)
(* runtime queue; CamApplication, RouterContext and the router put         *)
(* callbacks there; a callback that transmits goes through                 *)
(* DccPassthrough::request, which calls TimeTrigger::schedule() between    *)
(* filling its shared buffers and sending them, and so runs further due    *)
(* callbacks nested inside itself.                                         *)
(*                                                                         *)
(* One thread runs io_service.  The C++ call stack is the sequence stack,  *)
(* its top first.  Times are ticks, all relative to the wall clock, so     *)
(* that a Tick lowers each deadline by one.                                *)
(***************************************************************************)
EXTENDS Integers, Sequences, FiniteSets

CONSTANTS
    CamInterval,  \* CamApplication's cam_interval_, in ticks
    PosInterval,  \* the second between two position updates, in ticks
    ForwardOptions, \* may the router schedule packets of its own?
    FixOptions,   \* values of the option --require-gnss-fix
    MaxStall,     \* bound: ticks that pass late or while a handler runs
    MaxDepth      \* bound: activations on the stack

ASSUME SocktapAssumption ==
    /\ CamInterval \in Nat \ {0} /\ PosInterval \in Nat \ {0}
    /\ ForwardOptions \subseteq BOOLEAN /\ FixOptions \subseteq BOOLEAN
    /\ MaxStall \in Nat /\ MaxDepth \in Nat \ {0}

VARIABLES
    queue,    \* runtime_: the deadline of each callback, None if not scheduled
    lag,      \* wall clock minus the runtime's now
    armed,    \* a wait on deadline_timer is pending
    expiry,   \* when it expires
    expired,  \* its completions that io_service has yet to run
    stack,    \* activations, the innermost first
    forwards, \* the router schedules packets of its own, constant
    buffers,  \* DccPassthrough::buffers_: the packet they hold
    require,  \* RouterContext::require_position_fix_, constant
    flow,     \* DccPassthrough::allow_packet_flow_
    air,      \* history: the last packet socket_.send() sent
    gen,      \* history: parity of the CAMs generated
    busy,     \* ticks since io_service began the handler it runs
    started   \* a timeout has been handled

timerVars == <<armed, expiry, expired>>
sendVars == <<buffers, forwards, require, flow, air, gen>>
vars == <<queue, lag, timerVars, stack, sendVars, busy, started>>

Longest == IF CamInterval > PosInterval THEN CamInterval ELSE PosInterval
None == Longest + 1     \* later than any deadline
Callbacks == {"cam", "pos", "fwd"}
Scheduled == {c \in Callbacks : queue[c] # None}
NextDeadline == CHOOSE d \in {queue[c] : c \in Scheduled} :
                    \A c \in Scheduled : d <= queue[c]

Packets == [kind : {"none", "cam", "denm", "fwd"}, gen : {0, 1}]
Packet(k, g) == [kind |-> k, gen |-> g]
NoPacket == Packet("none", 0)

\* An activation: the function, the place in it, and request()'s packet.
Activations == [fn : {"schedule", "cam", "pos", "fwd", "request", "pass_up"},
                at : 1..3, packet : Packets]
Call(fn) == [fn |-> fn, at |-> 1, packet |-> NoPacket]
Request(p) == [fn |-> "request", at |-> 1, packet |-> p]

Latest == Longest + 2 * MaxStall
Deadlines == (-Latest)..Longest

TypeOK ==
    /\ queue \in [Callbacks -> Deadlines \cup {None}]
    /\ lag \in 0..Latest
    /\ armed \in BOOLEAN /\ expiry \in Deadlines /\ expired \in 0..2
    /\ stack \in Seq(Activations) /\ Len(stack) <= MaxDepth
    /\ buffers \in Packets /\ {forwards, require, flow} \subseteq BOOLEAN /\ air \in Packets
    /\ gen \in {0, 1}
    /\ busy \in 0..MaxStall
    /\ started \in BOOLEAN

\* GpsPositionProvider never sets the confidence of a fix (the code that did is
\* commented out), so the router's position_accuracy_indicator stays false.
Accurate == FALSE
\* Mutant of Allowed: update_packet_flow without its else branch.
AllowedIfAccurate == Accurate

Allowed == require => Accurate

\* main has built everything and calls io_service.run().  RouterContext armed
\* the timer for its position update; CamApplication's constructor and
\* set_interval then put the CAM in the queue without arming it.
Init ==
    /\ queue = [c \in Callbacks |-> CASE c = "cam" -> CamInterval
                                      [] c = "pos" -> PosInterval
                                      [] c = "fwd" -> None]
    /\ lag = 0
    /\ armed = TRUE /\ expiry = PosInterval /\ expired = 0
    /\ stack = <<>> /\ buffers = NoPacket /\ air = NoPacket
    /\ forwards \in ForwardOptions /\ require \in FixOptions /\ flow = Allowed
    /\ gen = 0 /\ busy = 0 /\ started = FALSE

-----------------------------------------------------------------------------
(* The stack.                                                              *)

In(fn, at) == stack # <<>> /\ Head(stack).fn = fn /\ Head(stack).at = at

\* The top activation calls a and goes on at its next place.
Calls(a) ==
    /\ Len(stack) < MaxDepth
    /\ stack' = <<a, [Head(stack) EXCEPT !.at = @ + 1]>> \o Tail(stack)

\* schedule() begins with update_runtime: the runtime's now is the wall clock's.
CallsSchedule == Calls(Call("schedule")) /\ lag' = 0

Returns == stack' = Tail(stack)

\* Mutant of After: a delay of nothing.
AtOnce(delay) == -lag

\* Runtime::schedule takes a delay from the runtime's now, not the wall clock's.
After(delay) == delay - lag

-----------------------------------------------------------------------------
(* The clock and io_service.                                               *)

\* The bounds on lateness: an idle loop notices its timer within MaxStall, and
\* a handler takes at most MaxStall.
MayStall == IF stack = <<>> THEN expired = 0 /\ (armed => expiry > -MaxStall)
                            ELSE busy < MaxStall

Earlier(d) == IF d > -Latest THEN d - 1 ELSE d

Tick ==
    /\ MayStall
    /\ queue' = [c \in Callbacks |-> IF c \in Scheduled THEN Earlier(queue[c]) ELSE None]
    /\ expiry' = IF armed THEN Earlier(expiry) ELSE expiry
    /\ lag' = IF lag < Latest THEN lag + 1 ELSE lag
    /\ busy' = IF stack = <<>> THEN 0 ELSE busy + 1
    /\ UNCHANGED <<armed, expired, stack, sendVars, started>>

\* The reactor, between two handlers, moves an expired wait to the ready queue.
\* From then on expires_at can no longer cancel it.
TimerExpires ==
    /\ stack = <<>> /\ armed /\ expiry <= 0 /\ expired < 2
    /\ armed' = FALSE /\ expired' = expired + 1
    /\ UNCHANGED <<queue, lag, expiry, stack, sendVars, busy, started>>

\* Mutant of OnTimeout: the test of the error code inverted.
OnTimeoutInverted ==
    /\ stack = <<>> /\ expired > 0
    /\ expired' = expired - 1
    /\ UNCHANGED <<queue, lag, armed, expiry, stack, sendVars, busy, started>>

\* TimeTrigger::on_timeout; a cancelled wait completes too, and does nothing.
OnTimeout ==
    /\ stack = <<>> /\ expired > 0
    /\ expired' = expired - 1
    /\ stack' = <<Call("schedule")>> /\ lag' = 0
    /\ busy' = 0 /\ started' = TRUE
    /\ UNCHANGED <<queue, armed, expiry, sendVars>>

\* Mutant of OnRead: on_read reads on before it passes the packet up, and a
\* packet that is there already is handled inside it.
OnReadAtOnce ==
    /\ (stack = <<>> \/ In("pass_up", 1)) /\ Len(stack) < MaxDepth
    /\ stack' = <<Call("pass_up")>> \o stack
    /\ busy' = IF stack = <<>> THEN 0 ELSE busy
    /\ UNCHANGED <<queue, lag, timerVars, sendVars, started>>

\* RouterContext::on_read with a packet that passes pass_up's filter.
OnRead ==
    /\ stack = <<>>
    /\ stack' = <<Call("pass_up")>>
    /\ busy' = 0
    /\ UNCHANGED <<queue, lag, timerVars, sendVars, started>>

-----------------------------------------------------------------------------
(* TimeTrigger::schedule: runtime_.trigger, then the timer.                *)

Due == {c \in Scheduled : queue[c] <= -lag}

\* Runtime::trigger erases the earliest callback, then calls it; it looks at
\* the queue and at now again afterwards.
Triggers(c) ==
    /\ In("schedule", 1)
    /\ c \in Due /\ queue[c] = NextDeadline
    /\ Len(stack) < MaxDepth
    /\ queue' = [queue EXCEPT ![c] = None]
    /\ stack' = <<Call(c)>> \o stack
    /\ UNCHANGED <<lag, timerVars, sendVars, busy, started>>

\* Mutant of Arms: the timer is armed for the CAM only.
ArmsForCam ==
    /\ In("schedule", 1) /\ Due = {}
    /\ armed' = ("cam" \in Scheduled)
    /\ expiry' = IF "cam" \in Scheduled THEN queue["cam"] ELSE expiry
    /\ Returns
    /\ UNCHANGED <<queue, lag, expired, sendVars, busy, started>>

\* expires_at cancels the wait that was pending.
Arms ==
    /\ In("schedule", 1) /\ Due = {}
    /\ armed' = (Scheduled # {})
    /\ expiry' = IF Scheduled # {} THEN NextDeadline ELSE expiry
    /\ Returns
    /\ UNCHANGED <<queue, lag, expired, sendVars, busy, started>>

-----------------------------------------------------------------------------
(* The callbacks.                                                          *)

\* CamApplication::on_timer: schedule_timer, then the CAM and the DENM are
\* requested one after the other.
CamOnTimer ==
    \/ /\ In("cam", 1)
       /\ queue' = [queue EXCEPT !["cam"] = After(CamInterval)]
       /\ gen' = 1 - gen
       /\ Calls(Request(Packet("cam", gen')))
       /\ UNCHANGED <<lag, timerVars, buffers, forwards, require, flow, air, busy, started>>
    \/ /\ In("cam", 2)
       /\ Calls(Request(Packet("denm", gen)))
       /\ UNCHANGED <<queue, lag, timerVars, sendVars, busy, started>>
    \/ /\ In("cam", 3) /\ Returns
       /\ UNCHANGED <<queue, lag, timerVars, sendVars, busy, started>>

\* RouterContext::update_position_vector.
UpdatePosition ==
    \/ /\ In("pos", 1)
       /\ queue' = [queue EXCEPT !["pos"] = After(PosInterval)]
       /\ CallsSchedule
       /\ UNCHANGED <<timerVars, sendVars, busy, started>>
    \/ /\ In("pos", 2) /\ Returns
       /\ flow' = Allowed
       /\ UNCHANGED <<queue, lag, timerVars, buffers, forwards, require, air, gen, busy, started>>

\* The router sends a packet it buffered for forwarding.
Forward ==
    \/ /\ In("fwd", 1) /\ Calls(Request(Packet("fwd", 0)))
       /\ UNCHANGED <<queue, lag, timerVars, sendVars, busy, started>>
    \/ /\ In("fwd", 2) /\ Returns
       /\ UNCHANGED <<queue, lag, timerVars, sendVars, busy, started>>

\* DccPassthrough::request: suppressed, or the layers are converted into the
\* shared buffers, schedule() runs whatever is due, and the buffers are sent.
Suppresses ==
    /\ In("request", 1) /\ ~flow
    /\ Returns
    /\ UNCHANGED <<queue, lag, timerVars, sendVars, busy, started>>

Fills ==
    /\ In("request", 1) /\ flow
    /\ buffers' = Head(stack).packet
    /\ CallsSchedule
    /\ UNCHANGED <<queue, timerVars, forwards, require, flow, air, gen, busy, started>>

Sends ==
    /\ In("request", 2)
    /\ air' = buffers
    /\ Returns
    /\ UNCHANGED <<queue, lag, timerVars, buffers, forwards, require, flow, gen, busy, started>>

\* RouterContext::pass_up; router_.indicate may buffer the packet for
\* forwarding, at once or a tick later.  Bound: one buffered packet at a time.
PassUp ==
    \/ /\ In("pass_up", 1) /\ CallsSchedule
       /\ UNCHANGED <<queue, timerVars, sendVars, busy, started>>
    \/ /\ In("pass_up", 2) /\ CallsSchedule
       /\ \/ UNCHANGED queue
          \/ /\ forwards /\ queue["fwd"] = None
             /\ \E d \in {0, 1} : queue' = [queue EXCEPT !["fwd"] = After(d)]
       /\ UNCHANGED <<timerVars, sendVars, busy, started>>
    \/ /\ In("pass_up", 3) /\ Returns
       /\ UNCHANGED <<queue, lag, timerVars, sendVars, busy, started>>

Handler == \/ \E c \in Callbacks : Triggers(c)
           \/ Arms \/ CamOnTimer \/ UpdatePosition \/ Forward
           \/ Suppresses \/ Fills \/ Sends \/ PassUp

Next == Tick \/ TimerExpires \/ OnTimeout \/ OnRead \/ Handler

Spec == Init /\ [][Next]_vars

\* Time passes; the thread runs; io_service takes ready handlers in order and
\* looks at its timers between two of them, so received packets starve neither.
FairSpec == /\ Spec
            /\ SF_vars(Tick) /\ WF_vars(Handler)
            /\ SF_vars(TimerExpires) /\ SF_vars(OnTimeout)

-----------------------------------------------------------------------------
(* Properties.                                                             *)

\* Whenever io_service is idle, the next CAM and the next position update are in
\* the runtime's queue and the timer is armed for the earliest callback there, or
\* its completion is on the way: whatever nested schedule() calls did to the one
\* timer, no callback is forgotten.
TimerFollowsQueue ==
    (stack = <<>> /\ started /\ expired = 0) =>
        /\ {"cam", "pos"} \subseteq Scheduled
        /\ armed /\ expiry <= NextDeadline

\* No callback runs nested inside itself, however schedule() re-enters the
\* runtime: each was erased before it ran, and its successor is not yet due.
NoSelfNesting ==
    \A i, j \in 1..Len(stack) :
        (i # j /\ stack[i].fn \in Callbacks) => stack[i].fn # stack[j].fn

\* schedule() and the callbacks call each other, but never deeper than this: the
\* most is a received packet, a CAM and a forwarded packet being requested, and
\* a position update, each run by the schedule() call of the one before.
NestingBounded == Len(stack) <= 10

\* What request() sends is the packet it was called with, though it runs other
\* callbacks between filling the buffers it shares with them and sending.
SendsOwnPacket == In("request", 2) => buffers = Head(stack).packet

\* CAMs go on being generated, also while the packet flow is suppressed.
CamsGenerated == []<>(gen = 0) /\ []<>(gen = 1)

-----------------------------------------------------------------------------
(* What a station promises on the air that does not forward and waits for no *)
(* position fix: a CAM and its DENM in turn.  Of any other nothing is asked. *)

Promises == ~forwards /\ ~require
Station == INSTANCE Beacons WITH silent <- ~Promises,
                                 air <- IF Promises THEN air ELSE NoPacket
BeaconsOnAir == Station!FairSpec
===============================================================================
