------------------------ MODULE ProxyProcesses_proofs ------------------------
(***************************************************************************)
(* Proofs about ProxyProcesses, for every value of its constants: the type *)
(* invariant, that main's kill() hits the sibling of the child it waited   *)
(* for, that stray kills need a failed fork or a reaped child, and, when   *)
(* no SIGTERM arrives between the forks and signal(), that main leaves no  *)
(* orphan.  All four follow from the inductive invariant IInv.             *)
(***************************************************************************)
EXTENDS ProxyProcesses, TLAPS

ForkedOnce == {"fork2", "signal", "wait", "kill", "close"}
ForkedTwice == {"signal", "wait", "kill", "close"}
Installed == {"wait", "kill", "close"}

\* Which part of main has run: the globals and the children that exist follow
\* pc; once main ended nothing is known of pc's history but handler.
ForkInv ==
    /\ pc \in {"start", "accept", "fork1"} =>
           writer_thread_pid = Unset /\ child[ReadPid] = "unborn"
    /\ pc \in {"start", "accept", "fork1", "fork2"} =>
           reader_thread_pid = Unset /\ child[WritePid] = "unborn"
    /\ pc \in ForkedOnce => writer_thread_pid # Unset
    /\ pc \in ForkedTwice => reader_thread_pid # Unset
    /\ writer_thread_pid = ReadPid <=> child[ReadPid] # "unborn"
    /\ reader_thread_pid = WritePid <=> child[WritePid] # "unborn"
    /\ handler = "sig_handler" =>
           /\ pc \in Installed \cup {"exited"}
           /\ writer_thread_pid # Unset
           /\ reader_thread_pid # Unset
    /\ pc \in Installed => handler = "sig_handler"
    /\ hpc # "idle" => pc \in Installed

\* What wait() returned is the one child that was reaped.
WaitInv ==
    /\ pc \notin {"kill", "close", "exited"} => ret = Unset
    /\ pc \in {"kill", "close"} => ret \in Children \cup {Failed}
    /\ \A c \in Children : child[c] = "reaped" <=> ret = c
    /\ ret = Failed => \A c \in Children : child[c] \notin Unreaped
    /\ ret # Unset => handler = "sig_handler"

\* From the second kill on, the child that was not reaped has its SIGTERM.
OrphanInv ==
    /\ pc \in {"close", "exited"} =>
           \A c \in Children : child[c] = "running" => sigterm[c]
    /\ TermDuringForks = FALSE /\ pc = "killed" =>
           \A c \in Children : child[c] = "unborn"

IInv == TypeOK /\ ForkInv /\ WaitInv /\ OrphanInv /\ StrayOnlyAfterReap

\* The initial state satisfies the inductive invariant.
LEMMA InitInv == Init => IInv
  BY ConstantsAssumption DEF Init, IInv, TypeOK, ForkInv, WaitInv, OrphanInv,
     StrayOnlyAfterReap, ForkedOnce, ForkedTwice, Installed, Ended, Unreaped,
     Children, Pids, Unset, Failed, ReadPid, WritePid

\* Every step of main, its handler, its children and the outside preserves it.
LEMMA NextInv == IInv /\ [Next]_vars => IInv'
<1> SUFFICES ASSUME IInv, [Next]_vars PROVE IInv'
  OBVIOUS
<1> USE ConstantsAssumption DEF IInv, TypeOK, ForkInv, WaitInv, OrphanInv,
      StrayOnlyAfterReap, ForkedOnce, ForkedTwice, Installed, Ended, Unreaped, Children, Pids,
      Unset, Failed, ReadPid, WritePid, globals, MainAt
<1>1. CASE OpenSocket
  BY <1>1 DEF OpenSocket
<1>2. CASE Accept
  BY <1>2 DEF Accept
<1>3. CASE Fork1
  BY <1>3 DEF Fork1, ForkFails
<1>4. CASE Fork2
  BY <1>4 DEF Fork2, ForkFails
<1>5. CASE InstallHandler
  BY <1>5 DEF InstallHandler
<1>6. CASE Wait
  BY <1>6 DEF Wait
<1>7. CASE KillOther
  <2> USE <1>7 DEF KillOther
  <2>1. CASE ret \in Children
    \* The sibling was never reaped: it is killed, or its fork failed.
    <3>1. ret = ReadPid => OtherPid = reader_thread_pid /\ KnownPid
      BY <2>1 DEF OtherPid, KnownPid
    <3>2. ret = WritePid => OtherPid = writer_thread_pid /\ KnownPid
      BY <2>1 DEF OtherPid, KnownPid
    <3>3. KnownPid /\ OtherPid \in Pids \ {Unset, ret}
      BY <2>1, <3>1, <3>2
    <3>4. Kill(OtherPid)
      BY <3>3
    <3>5. stray' \subseteq Pids /\ sigterm' \in [Children -> BOOLEAN]
      BY <3>3, <3>4 DEF Kill, Targets
    <3>6. OtherPid \in Children => stray' = stray
      BY <2>1, <3>1, <3>2, <3>4 DEF Kill
    <3>7. \A c \in Children : child[c] = "running" => sigterm'[c]
      BY <2>1, <3>1, <3>2, <3>4 DEF Kill, Targets
    <3> QED
      BY <2>1, <3>1, <3>2, <3>3, <3>5, <3>6, <3>7
  <2>2. CASE ret = Failed
    \* No child is left: only a failed fork makes main call kill at all.
    <3>1. \A c \in Children : child[c] = "unborn"
      BY <2>2
    <3>2. stray' \subseteq Pids /\ sigterm' \in [Children -> BOOLEAN]
      BY <2>2, <3>1 DEF Kill, Targets, OtherPid, KnownPid
    <3>3. Failed \in {writer_thread_pid, reader_thread_pid}
      BY <3>1
    <3> QED
      BY <2>2, <3>1, <3>2, <3>3
  <2> QED
    BY <2>1, <2>2
<1>8. CASE CloseAndReturn
  BY <1>8 DEF CloseAndReturn
<1>9. CASE Sigterm
  BY <1>9 DEF Sigterm, ForkWindow
<1>10. CASE HandlerKillReader
  BY <1>10 DEF HandlerKillReader, Kill, Targets
<1>11. CASE HandlerKillWriter
  BY <1>11 DEF HandlerKillWriter, Kill, Targets
<1>12. CASE ReaderFails
  BY <1>12 DEF ReaderFails
<1>13. CASE UNCHANGED vars
  BY <1>13 DEF vars
<1>14. CASE \E c \in Children : ChildDies(c)
  BY <1>14 DEF ChildDies
<1> QED
  BY <1>1, <1>2, <1>3, <1>4, <1>5, <1>6, <1>7, <1>8, <1>9, <1>10, <1>11, <1>12, <1>13, <1>14 DEF Next, Main, Handler

\* The inductive invariant implies what a run checks of a state.
LEMMA InvImplies ==
  IInv => /\ TypeOK
          /\ MainKillHitsSibling
          /\ StrayOnlyAfterReap
          /\ (TermDuringForks = FALSE => NoOrphanLeft)
  BY DEF IInv, TypeOK, ForkInv, WaitInv, OrphanInv, MainKillHitsSibling,
     NoOrphanLeft, KnownPid, OtherPid, ForkedOnce, ForkedTwice, Installed,
     Ended, Unreaped, Children, Pids, Unset, Failed, ReadPid, WritePid

LEMMA InvAlways == Spec => []IInv
<1>1. Init => IInv
  BY InitInv
<1>2. IInv /\ [Next]_vars => IInv'
  BY NextInv
<1> QED
  BY <1>1, <1>2, PTL DEF Spec

\* Type correctness of the proxies' life cycle.
THEOREM TypeCorrect == Spec => []TypeOK
  BY InvAlways, InvImplies, PTL

\* main's kill() after wait() names the child wait() did not reap, for all
\* that the two globals hold each other's pid; a kill() that names no child of
\* main needs a failed fork, or comes from sig_handler after wait() reaped the
\* child it names.
THEOREM KillsRightly == Spec => []KillsOwnChildren
  BY InvAlways, InvImplies, PTL DEF KillsOwnChildren

\* If no SIGTERM arrives between the first fork and signal(), main leaves no
\* running child without its SIGTERM, whichever forks fail.
THEOREM NoOrphan == ASSUME TermDuringForks = FALSE
                    PROVE  Spec => []NoOrphanLeft
<1>1. IInv => NoOrphanLeft
  BY InvImplies
<1> QED
  BY <1>1, InvAlways, PTL
=============================================================================
