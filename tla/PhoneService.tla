----------------------------- MODULE PhoneService -----------------------------
(***************************************************************************)
(* The Bluetooth side of the Android application: MainActivity on the UI   *)
(* thread, the BluetoothConnectionService objects it makes, one per click  *)
(* on a device, and their AcceptThreads and ConnectThreads, up to the      *)
(* ConnectedThread each starts.  What a ConnectedThread does is in         *)
(* SslHandshake.                                                           *)
(*                                                                         *)
(* Services and attempts (ConnectThreads) are numbered in the order they   *)
(* are made; 0 is null.  An exception no one catches ends the application. *)
(***************************************************************************)
EXTENDS Naturals

CONSTANTS
    Devices,     \* the Bluetooth devices
    NoDevice,    \* null
    MaxServices, \* bound: clicks on a device
    MaxAttempts  \* bound: clicks on "start connection"

ASSUME PhoneAssumption ==
    /\ NoDevice \notin Devices
    /\ MaxServices \in Nat /\ MaxAttempts \in Nat

Services == 1..MaxServices
Attempts == 1..MaxAttempts

\* The ConnectedThread of an attempt bears its number, the one of an accepted
\* connection this one.
Incoming == MaxAttempts + 1

VARIABLES
    crashed,              \* an exception ended the application
    radio,                \* the Bluetooth adapter is on
    \* MainActivity
    mBTDevice,            \* the device to connect to
    mBluetoothConnection, \* the service of the last click on a device
    shown,                \* the attempts whose ProgressDialog is on the screen
    \* the services
    made,                 \* how many there are
    accept,               \* the AcceptThread of each
    mmDevice,             \* the field ConnectThread's constructor sets
    mProgressDialog,      \* the attempt whose dialog it refers to
    mConnectedThread,     \* the ConnectedThread it refers to
    \* the attempts
    begun,                \* how many there are
    step,                 \* where the ConnectThread of each is
    service,              \* the service it belongs to
    given,                \* the device it was made for
    target                \* the device it made its socket for

uiVars == <<mBTDevice, mBluetoothConnection, begun, service, given>>
vars == <<crashed, radio, uiVars, shown, made, accept, mmDevice, mProgressDialog,
          mConnectedThread, step, target>>

\* "null": listening failed and the server socket is null.  "accepted",
\* "failed": the thread has ended, with or without a connection.
AcceptStates == {"none", "null", "listening", "accepted", "failed"}

\* "new": before it makes its socket.  "null": making it failed.  "connecting":
\* in connect().  "done": it started its ConnectedThread.
Steps == {"none", "new", "null", "connecting", "done"}
InProgress(a) == step[a] \in {"new", "null", "connecting"}

TypeOK ==
    /\ crashed \in BOOLEAN /\ radio \in BOOLEAN
    /\ mBTDevice \in Devices \cup {NoDevice}
    /\ mBluetoothConnection \in 0..made
    /\ shown \subseteq 1..begun
    /\ made \in 0..MaxServices
    /\ accept \in [Services -> AcceptStates]
    /\ mmDevice \in [Services -> Devices \cup {NoDevice}]
    /\ mProgressDialog \in [Services -> 0..MaxAttempts]
    /\ mConnectedThread \in [Services -> 0..Incoming]
    /\ begun \in 0..MaxAttempts
    /\ step \in [Attempts -> Steps]
    /\ service \in [Attempts -> 0..MaxServices]
    /\ given \in [Attempts -> Devices \cup {NoDevice}]
    /\ target \in [Attempts -> Devices \cup {NoDevice}]

Init ==
    /\ crashed = FALSE
    /\ radio \in BOOLEAN
    /\ mBTDevice = NoDevice /\ mBluetoothConnection = 0 /\ shown = {}
    /\ made = 0
    /\ accept = [s \in Services |-> "none"]
    /\ mmDevice = [s \in Services |-> NoDevice]
    /\ mProgressDialog = [s \in Services |-> 0]
    /\ mConnectedThread = [s \in Services |-> 0]
    /\ begun = 0
    /\ step = [a \in Attempts |-> "none"]
    /\ service = [a \in Attempts |-> 0]
    /\ given = [a \in Attempts |-> NoDevice]
    /\ target = [a \in Attempts |-> NoDevice]

Crashes ==
    /\ crashed' = TRUE
    /\ shown' = {}
    /\ UNCHANGED <<radio, uiVars, made, accept, mmDevice, mProgressDialog,
                   mConnectedThread, step, target>>

-----------------------------------------------------------------------------
(* The UI thread.  A ProgressDialog takes every touch: nothing can be      *)
(* clicked while one is shown.                                             *)

Clickable == ~crashed /\ shown = {}

\* onItemClick, with the constructor of the service, whose start() makes the
\* first AcceptThread; listening throws when Bluetooth is off, and may throw.
DeviceClicked(d) ==
    /\ Clickable
    /\ made < MaxServices
    /\ made' = made + 1
    /\ mBTDevice' = d
    /\ mBluetoothConnection' = made'
    /\ \E st \in IF radio THEN {"listening", "null"} ELSE {"null"} :
           accept' = [accept EXCEPT ![made'] = st]
    /\ UNCHANGED <<crashed, radio, shown, begun, service, given, mmDevice,
                   mProgressDialog, mConnectedThread, step, target>>

\* The broadcast of a finished bonding, perhaps of another device.
Bonded(d) ==
    /\ ~crashed
    /\ mBTDevice' = d
    /\ UNCHANGED <<crashed, radio, mBluetoothConnection, begun, service, given,
                   shown, made, accept, mmDevice, mProgressDialog,
                   mConnectedThread, step, target>>

\* Mutant of StartConnection: no progress dialog.
StartWithoutDialog ==
    /\ Clickable
    /\ mBluetoothConnection # 0
    /\ begun < MaxAttempts
    /\ begun' = begun + 1
    /\ mmDevice' = [mmDevice EXCEPT ![mBluetoothConnection] = mBTDevice]
    /\ step' = [step EXCEPT ![begun'] = "new"]
    /\ service' = [service EXCEPT ![begun'] = mBluetoothConnection]
    /\ given' = [given EXCEPT ![begun'] = mBTDevice]
    /\ UNCHANGED <<crashed, radio, mBTDevice, mBluetoothConnection, shown, made,
                   accept, mProgressDialog, mConnectedThread, target>>

\* startClient: the dialog, then ConnectThread's constructor, then its start.
StartConnection ==
    /\ Clickable
    /\ mBluetoothConnection # 0
    /\ begun < MaxAttempts
    /\ begun' = begun + 1
    /\ shown' = {begun'}
    /\ mProgressDialog' = [mProgressDialog EXCEPT ![mBluetoothConnection] = begun']
    /\ mmDevice' = [mmDevice EXCEPT ![mBluetoothConnection] = mBTDevice]
    /\ step' = [step EXCEPT ![begun'] = "new"]
    /\ service' = [service EXCEPT ![begun'] = mBluetoothConnection]
    /\ given' = [given EXCEPT ![begun'] = mBTDevice]
    /\ UNCHANGED <<crashed, radio, mBTDevice, mBluetoothConnection, made, accept,
                   mConnectedThread, target>>

\* startConnection before any device was clicked: mBluetoothConnection is null.
StartWithoutService ==
    /\ Clickable
    /\ mBluetoothConnection = 0
    /\ Crashes

\* enableDisableBluetooth, or the system.
RadioSwitches ==
    /\ ~crashed
    /\ radio' = ~radio
    /\ UNCHANGED <<crashed, uiVars, shown, made, accept, mmDevice,
                   mProgressDialog, mConnectedThread, step, target>>

-----------------------------------------------------------------------------
(* The threads of the services.                                            *)

\* Mutant of Connected: the dialog is left on the screen.
ConnectedKeepsDialog(s, thread) ==
    /\ UNCHANGED shown
    /\ mConnectedThread' = [mConnectedThread EXCEPT ![s] = thread]

\* connected(), with the constructor of the ConnectedThread: it dismisses the
\* dialog the service refers to by then, if any.
Connected(s, thread) ==
    /\ shown' = shown \ {mProgressDialog[s]}
    /\ mConnectedThread' = [mConnectedThread EXCEPT ![s] = thread]

Accepts(s) ==
    /\ ~crashed
    /\ accept[s] = "listening" /\ radio
    /\ accept' = [accept EXCEPT ![s] = "accepted"]
    /\ Connected(s, Incoming)
    /\ UNCHANGED <<crashed, radio, uiVars, made, mmDevice, mProgressDialog, step,
                   target>>

\* accept() throws.
AcceptFails(s) ==
    /\ ~crashed
    /\ accept[s] = "listening"
    /\ accept' = [accept EXCEPT ![s] = "failed"]
    /\ UNCHANGED <<crashed, radio, uiVars, shown, made, mmDevice,
                   mProgressDialog, mConnectedThread, step, target>>

\* accept() on the null server socket.
AcceptCrashes(s) ==
    /\ ~crashed
    /\ accept[s] = "null"
    /\ Crashes

\* The socket is made, by reflection, for the device of the field.
MakesSocket(a) ==
    /\ ~crashed
    /\ step[a] = "new"
    /\ \/ /\ step' = [step EXCEPT ![a] = "connecting"]
          /\ target' = [target EXCEPT ![a] = mmDevice[service[a]]]
       \/ /\ step' = [step EXCEPT ![a] = "null"]
          /\ UNCHANGED target
    /\ UNCHANGED <<crashed, radio, uiVars, shown, made, accept, mmDevice,
                   mProgressDialog, mConnectedThread>>

\* connect() on the null socket.
ConnectCrashes(a) ==
    /\ ~crashed
    /\ step[a] = "null"
    /\ Crashes

\* Mutant of Connects: the run method returns when connect() failed.
ConnectsOrReturns(a) ==
    /\ ~crashed
    /\ step[a] = "connecting"
    /\ step' = [step EXCEPT ![a] = "done"]
    /\ Connected(service[a], a) \/ UNCHANGED <<shown, mConnectedThread>>
    /\ UNCHANGED <<crashed, radio, uiVars, made, accept, mmDevice,
                   mProgressDialog, target>>

\* connect() returns or throws; connected() is called in both cases, in the
\* second with the socket closed.
Connects(a) ==
    /\ ~crashed
    /\ step[a] = "connecting"
    /\ step' = [step EXCEPT ![a] = "done"]
    /\ Connected(service[a], a)
    /\ UNCHANGED <<crashed, radio, uiVars, made, accept, mmDevice,
                   mProgressDialog, target>>

-----------------------------------------------------------------------------
UI == \/ \E d \in Devices : DeviceClicked(d) \/ Bonded(d)
      \/ StartConnection \/ StartWithoutService \/ RadioSwitches
Accepting(s) == Accepts(s) \/ AcceptFails(s) \/ AcceptCrashes(s)
Connecting(a) == MakesSocket(a) \/ ConnectCrashes(a) \/ Connects(a)

Next == UI \/ (\E s \in Services : Accepting(s)) \/ (\E a \in Attempts : Connecting(a))

Spec == Init /\ [][Next]_vars

\* Threads run, and connect() "will only return on a successful connection or an
\* exception" (BluetoothConnectionService.java:167), which the stack's timeout
\* makes sure of; accept() need not return and no one need click.
FairSpec == Spec /\ \A a \in Attempts : WF_vars(Connecting(a))

-----------------------------------------------------------------------------
(* Properties.                                                             *)

\* A dialog "Please Wait" stands for an attempt that is still in progress, on
\* the service whose field refers to it, so that a connection can dismiss it.
DialogOfAttempt ==
    \A a \in shown : InProgress(a) /\ mProgressDialog[service[a]] = a

\* The dialog does not lock the screen for ever: the attempt it is shown for
\* ends in connected(), or in a crash, whether it connects or not.
DialogGoesAway == shown # {} ~> shown = {}

\* A ConnectThread that connects to another device than it was made for: only
\* after its service accepted a connection, whose ConnectedThread dismissed the
\* dialog that kept the user from starting a second attempt.
WrongDeviceNeedsAccept ==
    \A a \in Attempts :
        step[a] = "connecting" /\ target[a] # given[a]
            => accept[service[a]] = "accepted"

\* "Get a BluetoothSocket for a connection with the given BTdevice"
\* (BluetoothConnectionService.java:151).
ConnectsToGivenDevice ==
    \A a \in Attempts : step[a] = "connecting" => target[a] = given[a]
===============================================================================
