-------------------------- MODULE PhoneService_proofs --------------------------
(***************************************************************************)
(* Proofs about PhoneService, for any devices and any number of clicks.    *)
(***************************************************************************)
EXTENDS PhoneService, TLAPS

\* The attempts begun so far are the ones with a thread, each of a service that
\* was made.
BegunOnes ==
    \A a \in Attempts : /\ step[a] # "none" <=> a <= begun
                        /\ a <= begun => service[a] \in 1..made

\* The dialog a service refers to is the dialog of one of its own attempts.
OwnDialog ==
    \A s \in Services :
        mProgressDialog[s] # 0 => /\ mProgressDialog[s] <= begun
                                  /\ service[mProgressDialog[s]] = s

\* The field names the device of an attempt as long as its dialog is shown.
FieldOfShown == \A a \in shown : mmDevice[service[a]] = given[a]

\* An attempt in progress is covered by its dialog, or its service accepted a
\* connection: only the ConnectedThread of an accepted connection dismisses the
\* dialog of an attempt before the attempt ends.
Covered ==
    \A a \in Attempts :
        InProgress(a) /\ ~crashed => a \in shown \/ accept[service[a]] = "accepted"

IInv == /\ TypeOK /\ BegunOnes /\ OwnDialog /\ FieldOfShown /\ Covered
        /\ DialogOfAttempt /\ WrongDeviceNeedsAccept

LEMMA InitHolds == Init => IInv
<1> SUFFICES ASSUME Init PROVE IInv
  OBVIOUS
<1> USE PhoneAssumption DEF Init, Services, Attempts
<1>1. TypeOK
  <2>1. crashed \in BOOLEAN /\ radio \in BOOLEAN
    OBVIOUS
  <2>2. 0 \in 0..Incoming /\ mBluetoothConnection \in 0..made /\ shown \subseteq 1..begun
    BY DEF Incoming
  <2> QED
    BY <2>1, <2>2 DEF TypeOK, AcceptStates, Steps
<1>2. BegunOnes /\ OwnDialog /\ FieldOfShown
  BY DEF BegunOnes, OwnDialog, FieldOfShown
<1>3. Covered /\ DialogOfAttempt /\ WrongDeviceNeedsAccept
  BY DEF Covered, DialogOfAttempt, WrongDeviceNeedsAccept, InProgress
<1> QED
  BY <1>1, <1>2, <1>3 DEF IInv

LEMMA CrashKeeps == IInv /\ Crashes => IInv'
<1> SUFFICES ASSUME IInv, Crashes PROVE IInv'
  OBVIOUS
<1> USE DEF Crashes, uiVars, IInv
<1>1. TypeOK'
  BY DEF TypeOK
<1>2. BegunOnes' /\ OwnDialog' /\ FieldOfShown'
  BY DEF BegunOnes, OwnDialog, FieldOfShown
<1>3. Covered' /\ DialogOfAttempt' /\ WrongDeviceNeedsAccept'
  BY DEF Covered, DialogOfAttempt, WrongDeviceNeedsAccept, InProgress
<1> QED
  BY <1>1, <1>2, <1>3

\* The steps of the UI thread.
LEMMA ClickKeeps ==
    ASSUME NEW d \in Devices, IInv, DeviceClicked(d) PROVE IInv'
<1> USE PhoneAssumption DEF IInv, DeviceClicked, uiVars
<1>1. TypeOK'
  BY DEF TypeOK, AcceptStates, Services
<1>2. BegunOnes' /\ OwnDialog' /\ FieldOfShown'
  BY DEF TypeOK, BegunOnes, OwnDialog, FieldOfShown, Services, Attempts
<1>3. \A s \in Services : accept[s] = "accepted" /\ s \in 1..made => accept'[s] = "accepted"
  BY DEF TypeOK, Services
<1>4. \A a \in Attempts :
          step[a] # "none" => service[a] \in 1..made /\ service[a] \in Services
  BY DEF TypeOK, BegunOnes, Services, Attempts
<1>5. Covered'
  BY <1>3, <1>4 DEF Covered, InProgress
<1>6. DialogOfAttempt'
  BY DEF DialogOfAttempt, Clickable
<1>7. WrongDeviceNeedsAccept'
  BY <1>3, <1>4 DEF WrongDeviceNeedsAccept
<1> QED
  BY <1>1, <1>2, <1>5, <1>6, <1>7

LEMMA StartKeeps == IInv /\ StartConnection => IInv'
<1> SUFFICES ASSUME IInv, StartConnection PROVE IInv'
  OBVIOUS
<1> USE PhoneAssumption DEF IInv, StartConnection, Clickable
<1>1. TypeOK'
  BY DEF TypeOK, Services, Attempts, Steps
<1>2. BegunOnes'
  BY DEF TypeOK, BegunOnes, Services, Attempts
<1>3. OwnDialog'
  BY DEF TypeOK, OwnDialog, BegunOnes, Services, Attempts
<1>4. FieldOfShown' /\ DialogOfAttempt'
  BY DEF TypeOK, FieldOfShown, DialogOfAttempt, InProgress, Services, Attempts
<1>5. Covered'
  BY DEF TypeOK, Covered, InProgress, Services, Attempts
<1>6. WrongDeviceNeedsAccept'
  BY DEF TypeOK, WrongDeviceNeedsAccept, BegunOnes, Services, Attempts
<1> QED
  BY <1>1, <1>2, <1>3, <1>4, <1>5, <1>6

\* A broadcast or the adapter touches nothing the invariant is about.
LEMMA BroadcastKeeps ==
    ASSUME IInv, RadioSwitches \/ \E d \in Devices : Bonded(d) PROVE IInv'
<1> USE DEF IInv, RadioSwitches, Bonded, uiVars
<1>1. TypeOK'
  BY DEF TypeOK
<1>2. BegunOnes' /\ OwnDialog' /\ FieldOfShown'
  BY DEF BegunOnes, OwnDialog, FieldOfShown
<1>3. Covered' /\ DialogOfAttempt' /\ WrongDeviceNeedsAccept'
  BY DEF Covered, DialogOfAttempt, WrongDeviceNeedsAccept, InProgress
<1> QED
  BY <1>1, <1>2, <1>3

\* The steps of an AcceptThread.
LEMMA AcceptsKeeps == ASSUME NEW s \in Services, IInv, Accepts(s) PROVE IInv'
<1> USE PhoneAssumption DEF IInv, Accepts, Connected, uiVars
<1>1. TypeOK'
  <2>1. mConnectedThread' \in [Services -> 0..Incoming]
    BY DEF TypeOK, Incoming
  <2>2. accept' \in [Services -> AcceptStates] /\ shown' \subseteq 1..begun
    BY DEF TypeOK, AcceptStates
  <2> QED
    BY <2>1, <2>2 DEF TypeOK
<1>2. BegunOnes' /\ OwnDialog' /\ FieldOfShown'
  BY DEF BegunOnes, OwnDialog, FieldOfShown
<1>3. \A a \in shown \ shown' : service[a] = s
  BY DEF OwnDialog, TypeOK
<1>4. Covered'
  BY <1>3 DEF TypeOK, Covered, InProgress, Services, Attempts
<1>5. DialogOfAttempt' /\ WrongDeviceNeedsAccept'
  BY DEF TypeOK, DialogOfAttempt, WrongDeviceNeedsAccept, InProgress
<1> QED
  BY <1>1, <1>2, <1>4, <1>5

LEMMA AcceptFailsKeeps == ASSUME NEW s \in Services, IInv, AcceptFails(s) PROVE IInv'
<1> USE DEF IInv, AcceptFails, uiVars
<1>1. TypeOK'
  BY DEF TypeOK, AcceptStates
<1>2. BegunOnes' /\ OwnDialog' /\ FieldOfShown'
  BY DEF BegunOnes, OwnDialog, FieldOfShown
<1>3. \A t : accept[t] = "accepted" => accept'[t] = "accepted"
  BY DEF TypeOK
<1>4. Covered' /\ DialogOfAttempt' /\ WrongDeviceNeedsAccept'
  BY <1>3 DEF Covered, DialogOfAttempt, WrongDeviceNeedsAccept, InProgress
<1> QED
  BY <1>1, <1>2, <1>4

\* The steps of a ConnectThread.
LEMMA MakesSocketKeeps == ASSUME NEW a \in Attempts, IInv, MakesSocket(a) PROVE IInv'
<1> USE PhoneAssumption DEF IInv, MakesSocket, uiVars
<1>1. service[a] \in Services
  BY DEF TypeOK, BegunOnes, Services, Attempts
<1>2. TypeOK'
  BY <1>1 DEF TypeOK, Steps
<1>3. BegunOnes' /\ OwnDialog' /\ FieldOfShown'
  BY DEF TypeOK, BegunOnes, OwnDialog, FieldOfShown
<1>4. \A b \in Attempts : InProgress(b)' <=> InProgress(b)
  BY DEF TypeOK, InProgress
<1>5. Covered' /\ DialogOfAttempt'
  BY <1>4 DEF TypeOK, Covered, DialogOfAttempt, Attempts
<1>6. mmDevice[service[a]] # given[a] => accept[service[a]] = "accepted"
  BY DEF Covered, FieldOfShown, InProgress
<1>7. WrongDeviceNeedsAccept'
  BY <1>6 DEF TypeOK, WrongDeviceNeedsAccept
<1> QED
  BY <1>2, <1>3, <1>5, <1>7

\* The dialog connected() dismisses is the attempt's own, or the service has
\* accepted a connection.
LEMMA ConnectsKeeps == ASSUME NEW a \in Attempts, IInv, Connects(a) PROVE IInv'
<1> USE PhoneAssumption DEF IInv, Connects, Connected, uiVars
<1>1. service[a] \in Services
  BY DEF TypeOK, BegunOnes, Services, Attempts
<1>2. TypeOK'
  <2>1. mConnectedThread' \in [Services -> 0..Incoming]
    BY <1>1 DEF TypeOK, Attempts, Incoming
  <2>2. step' \in [Attempts -> Steps] /\ shown' \subseteq 1..begun
    BY DEF TypeOK, Steps
  <2> QED
    BY <2>1, <2>2 DEF TypeOK
<1>3. BegunOnes' /\ OwnDialog' /\ FieldOfShown'
  BY DEF TypeOK, BegunOnes, OwnDialog, FieldOfShown
<1>4. a \notin shown'
  BY DEF DialogOfAttempt
<1>5. \A b \in Attempts : InProgress(b)' => InProgress(b) /\ b # a
  BY DEF TypeOK, InProgress
<1>6. ASSUME NEW b \in Attempts, InProgress(b)', ~crashed', b \in shown, b \notin shown'
      PROVE  accept[service[b]] = "accepted"
  <2>1. service[b] = service[a] /\ b # a
    BY <1>1, <1>5, <1>6 DEF OwnDialog, Attempts
  <2>2. a \notin shown
    BY <2>1, <1>6 DEF DialogOfAttempt
  <2> QED
    BY <2>1, <2>2 DEF Covered, InProgress
<1>7. Covered'
  BY <1>5, <1>6 DEF Covered
<1>8. DialogOfAttempt'
  BY <1>4 DEF TypeOK, DialogOfAttempt, InProgress, Attempts
<1>9. WrongDeviceNeedsAccept'
  BY DEF TypeOK, WrongDeviceNeedsAccept
<1> QED
  BY <1>2, <1>3, <1>7, <1>8, <1>9

LEMMA StepKeeps == IInv /\ [Next]_vars => IInv'
<1> SUFFICES ASSUME IInv, [Next]_vars PROVE IInv'
  OBVIOUS
<1>1. CASE UI
  <2>1. ASSUME NEW d \in Devices, DeviceClicked(d) PROVE IInv'
    BY <2>1, ClickKeeps
  <2>2. CASE StartConnection
    BY <2>2, StartKeeps
  <2>3. CASE StartWithoutService
    BY <2>3, CrashKeeps DEF StartWithoutService
  <2>4. CASE RadioSwitches \/ \E d \in Devices : Bonded(d)
    BY <2>4, BroadcastKeeps
  <2> QED
    BY <1>1, <2>1, <2>2, <2>3, <2>4 DEF UI
<1>2. ASSUME NEW s \in Services, Accepting(s) PROVE IInv'
  <2>1. CASE Accepts(s)
    BY <2>1, AcceptsKeeps
  <2>2. CASE AcceptFails(s)
    BY <2>2, AcceptFailsKeeps
  <2>3. CASE AcceptCrashes(s)
    BY <2>3, CrashKeeps DEF AcceptCrashes
  <2> QED
    BY <1>2, <2>1, <2>2, <2>3 DEF Accepting
<1>3. ASSUME NEW a \in Attempts, Connecting(a) PROVE IInv'
  <2>1. CASE MakesSocket(a)
    BY <2>1, MakesSocketKeeps
  <2>2. CASE ConnectCrashes(a)
    BY <2>2, CrashKeeps DEF ConnectCrashes
  <2>3. CASE Connects(a)
    BY <2>3, ConnectsKeeps
  <2> QED
    BY <1>3, <2>1, <2>2, <2>3 DEF Connecting
<1>4. CASE UNCHANGED vars
  <2> USE <1>4 DEF vars, uiVars, IInv
  <2>1. TypeOK'
    BY DEF TypeOK
  <2>2. BegunOnes' /\ OwnDialog' /\ FieldOfShown'
    BY DEF BegunOnes, OwnDialog, FieldOfShown
  <2>3. Covered' /\ DialogOfAttempt' /\ WrongDeviceNeedsAccept'
    BY DEF Covered, DialogOfAttempt, WrongDeviceNeedsAccept, InProgress
  <2> QED
    BY <2>1, <2>2, <2>3
<1> QED
  BY <1>1, <1>2, <1>3, <1>4 DEF Next

LEMMA Inductive == Spec => []IInv
  BY InitHolds, StepKeeps, PTL DEF Spec

\* Types of the activity, the services and their threads.
THEOREM TypeCorrect == Spec => []TypeOK
  BY Inductive, PTL DEF IInv

\* No "Please Wait" dialog outlives the attempt it was shown for, and the
\* service can always dismiss it, however many services and attempts there are.
THEOREM DialogsCorrect == Spec => []DialogOfAttempt
  BY Inductive, PTL DEF IInv

\* A ConnectThread connects to the device it was made for, unless its service
\* accepted a connection.
THEOREM RightDevice == Spec => []WrongDeviceNeedsAccept
  BY Inductive, PTL DEF IInv
===============================================================================
