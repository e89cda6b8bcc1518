---------------------------- MODULE ProxyProcesses ----------------------------
(***************************************************************************)
(* The process life cycle of the Raspberry Pi proxies, proxy.c and         *)
(* unsecured_proxy.c (their main and sig_handler are the same).  main      *)
(* opens the Bluetooth socket, accepts one client, forks the process that  *)
(* runs readGeonet (car to app), forks the one that runs writeGeonet (app  *)
(* to car), installs sig_handler for SIGTERM, waits for one child, kills   *)
(* the other and returns.  What the children relay is the business of      *)
(* UnsecuredProxy and SecureProxy; here a child runs until it exits or is  *)
(* killed.                                                                 *)
(*                                                                         *)
(* Pids are small integers.  The code stores the pid of the readGeonet     *)
(* process in writer_thread_pid and that of the writeGeonet process in     *)
(* reader_thread_pid, and so does the model.                               *)
(***************************************************************************)
EXTENDS Integers

CONSTANTS
    ForkMayFail,     \* may fork() return -1?
    TermDuringForks, \* may SIGTERM reach main between its first fork and signal()?
    MaxTerm          \* bound: how many SIGTERMs the outside sends to main

ASSUME ConstantsAssumption ==
    /\ ForkMayFail \in BOOLEAN
    /\ TermDuringForks \in BOOLEAN
    /\ MaxTerm \in Nat

Failed == -1     \* what fork() and wait() return on failure
Unset == 0       \* the initial value of the two globals and of ret
ReadPid == 1     \* the process that runs readGeonet
WritePid == 2    \* the process that runs writeGeonet

Children == {ReadPid, WritePid}
Pids == {Failed, Unset} \cup Children

VARIABLES
    pc,                 \* where main is
    hpc,                \* where sig_handler is; "idle" when it is not running
    writer_thread_pid,  \* the global set after the first fork
    reader_thread_pid,  \* the global set after the second fork
    ret,                \* main's variable: what wait() returned
    handler,            \* the disposition of SIGTERM in main
    child,              \* the kernel's view of each child
    sigterm,            \* SIGTERM is pending for this child
    stray,              \* history: kill() arguments that named no child of main
    terms               \* how many SIGTERMs main was sent

vars == <<pc, hpc, writer_thread_pid, reader_thread_pid, ret, handler,
          child, sigterm, stray, terms>>

globals == <<writer_thread_pid, reader_thread_pid>>

Ended == {"exited", "killed"}
Unreaped == {"running", "zombie"}

TypeOK ==
    /\ pc \in {"start", "accept", "fork1", "fork2", "signal", "wait", "kill",
               "close"} \cup Ended
    /\ hpc \in {"idle", "reader", "writer"}
    /\ writer_thread_pid \in {Unset, Failed, ReadPid}
    /\ reader_thread_pid \in {Unset, Failed, WritePid}
    /\ ret \in Pids
    /\ handler \in {"default", "sig_handler"}
    /\ child \in [Children -> {"unborn", "reaped"} \cup Unreaped]
    /\ sigterm \in [Children -> BOOLEAN]
    /\ stray \subseteq Pids
    /\ terms \in 0..MaxTerm

Init ==
    /\ pc = "start"
    /\ hpc = "idle"
    /\ writer_thread_pid = Unset
    /\ reader_thread_pid = Unset
    /\ ret = Unset
    /\ handler = "default"
    /\ child = [c \in Children |-> "unborn"]
    /\ sigterm = [c \in Children |-> FALSE]
    /\ stray = {}
    /\ terms = 0

(***************************************************************************)
(* kill(p, SIGTERM).  A child that was not waited for gets the signal (a   *)
(* zombie ignores it).  kill(-1) is sent to every process the caller may   *)
(* signal, itself excepted: the children among them.  Any other pid is not *)
(* (or no longer) a child of main and may by now be anybody.               *)
(***************************************************************************)
Targets(p) ==
    IF p = Failed THEN Children ELSE {p} \cap Children

Kill(p) ==
    /\ sigterm' = [c \in Children |->
                     sigterm[c] \/ (c \in Targets(p) /\ child[c] = "running")]
    /\ stray' = IF p \in Children /\ child[p] \in Unreaped
                THEN stray ELSE stray \cup {p}

-----------------------------------------------------------------------------
(* main.  It makes no step while sig_handler, which interrupts it, runs.   *)

MainAt(from, to) == pc = from /\ hpc = "idle" /\ pc' = to

\* init_openssl, create_context, configure_context, open_socket; each exits
\* on an error.
OpenSocket ==
    /\ \/ MainAt("start", "accept")
       \/ MainAt("start", "exited")
    /\ UNCHANGED <<hpc, globals, ret, handler, child, sigterm, stray, terms>>

\* accept(): its result is not looked at, main forks even when it failed.
Accept ==
    /\ MainAt("accept", "fork1")
    /\ UNCHANGED <<hpc, globals, ret, handler, child, sigterm, stray, terms>>

ForkFails == ForkMayFail

Fork1 ==
    /\ MainAt("fork1", "fork2")
    /\ \/ /\ child' = [child EXCEPT ![ReadPid] = "running"]
          /\ writer_thread_pid' = ReadPid
       \/ /\ ForkFails
          /\ writer_thread_pid' = Failed
          /\ UNCHANGED child
    /\ UNCHANGED <<hpc, reader_thread_pid, ret, handler, sigterm, stray, terms>>

Fork2 ==
    /\ MainAt("fork2", "signal")
    /\ \/ /\ child' = [child EXCEPT ![WritePid] = "running"]
          /\ reader_thread_pid' = WritePid
       \/ /\ ForkFails
          /\ reader_thread_pid' = Failed
          /\ UNCHANGED child
    /\ UNCHANGED <<hpc, writer_thread_pid, ret, handler, sigterm, stray, terms>>

InstallHandler ==
    /\ MainAt("signal", "wait")
    /\ handler' = "sig_handler"
    /\ UNCHANGED <<hpc, globals, ret, child, sigterm, stray, terms>>

\* wait() blocks until a child is a zombie and reaps it, or fails at once
\* when main has no child.  A signal does not make it return: signal()
\* installs sig_handler with SA_RESTART.
Wait ==
    /\ MainAt("wait", "kill")
    /\ \/ \E c \in Children :
            /\ child[c] = "zombie"
            /\ ret' = c
            /\ child' = [child EXCEPT ![c] = "reaped"]
       \/ /\ \A c \in Children : child[c] \notin Unreaped
          /\ ret' = Failed
          /\ UNCHANGED child
    /\ UNCHANGED <<hpc, globals, handler, sigterm, stray, terms>>

\* Which global main passes to kill() after wait() returned ret.
KnownPid == ret \in {reader_thread_pid, writer_thread_pid}
\* Mutants of OtherPid: the globals taken at their names' word; the branches swapped.
OtherPidByName == IF ret = ReadPid THEN writer_thread_pid ELSE reader_thread_pid
OtherPidSame == IF ret = reader_thread_pid THEN reader_thread_pid
                                           ELSE writer_thread_pid
OtherPid == IF ret = reader_thread_pid THEN writer_thread_pid
                                       ELSE reader_thread_pid

\* Mutant of KillOther: main only waits for the child that ended.
KillNobody ==
    /\ MainAt("kill", "close")
    /\ UNCHANGED <<hpc, globals, ret, handler, child, sigterm, stray, terms>>

KillOther ==
    /\ MainAt("kill", "close")
    /\ IF KnownPid THEN Kill(OtherPid) ELSE UNCHANGED <<sigterm, stray>>
    /\ UNCHANGED <<hpc, globals, ret, handler, child, terms>>

CloseAndReturn ==
    /\ MainAt("close", "exited")
    /\ UNCHANGED <<hpc, globals, ret, handler, child, sigterm, stray, terms>>

-----------------------------------------------------------------------------
(* SIGTERM to main.  Before signal() it kills main.  After, it runs        *)
(* sig_handler, during which another SIGTERM is held back until it ends.   *)

ForkWindow == pc \in {"fork2", "signal"}

Sigterm ==
    /\ pc \notin Ended
    /\ hpc = "idle"
    /\ terms < MaxTerm
    /\ ForkWindow => TermDuringForks
    /\ terms' = terms + 1
    /\ \/ /\ handler = "default"
          /\ pc' = "killed"
          /\ hpc' = hpc
       \/ /\ handler = "sig_handler"
          /\ hpc' = "reader"
          /\ pc' = pc
    /\ UNCHANGED <<globals, ret, handler, child, sigterm, stray>>

\* The two kill() calls of sig_handler.
HandlerKillReader ==
    /\ hpc = "reader"
    /\ hpc' = "writer"
    /\ Kill(reader_thread_pid)
    /\ UNCHANGED <<pc, globals, ret, handler, child, terms>>

HandlerKillWriter ==
    /\ hpc = "writer"
    /\ hpc' = "idle"
    /\ Kill(writer_thread_pid)
    /\ UNCHANGED <<pc, globals, ret, handler, child, terms>>

-----------------------------------------------------------------------------
(* The children.  They were forked before signal(), so SIGTERM kills them. *)

\* readGeonet calls exit(1) when its set-up or a recvfrom() fails.
ReaderFails ==
    /\ child[ReadPid] = "running"
    /\ child' = [child EXCEPT ![ReadPid] = "zombie"]
    /\ UNCHANGED <<pc, hpc, globals, ret, handler, sigterm, stray, terms>>

\* writeGeonet never returns; like its sibling it ends only by the signal.
ChildDies(c) ==
    /\ child[c] = "running"
    /\ sigterm[c]
    /\ child' = [child EXCEPT ![c] = "zombie"]
    /\ UNCHANGED <<pc, hpc, globals, ret, handler, sigterm, stray, terms>>

-----------------------------------------------------------------------------
Main == \/ OpenSocket \/ Fork1 \/ Fork2 \/ InstallHandler \/ Wait \/ KillOther
        \/ CloseAndReturn

Handler == HandlerKillReader \/ HandlerKillWriter

Next == \/ Main \/ Accept \/ Sigterm \/ Handler \/ ReaderFails
        \/ \E c \in Children : ChildDies(c)

Spec == Init /\ [][Next]_vars

\* The kernel schedules main and delivers the signals it accepted; nobody
\* promises that a client connects, that readGeonet fails or that a SIGTERM
\* is sent.
Fairness == /\ WF_vars(Main)
            /\ WF_vars(Handler)
            /\ \A c \in Children : WF_vars(ChildDies(c))

FairSpec == Spec /\ Fairness

-----------------------------------------------------------------------------
(* Properties.                                                             *)

\* Once main is gone, whether it returned or a signal killed it, no child is
\* left running without a SIGTERM on its way: "pour ne pas laisser de
\* processus orphelins" (proxy.c:83), "On termine tout les processus fils"
\* (proxy.c:93).
NoOrphanLeft ==
    pc \in Ended => \A c \in Children : child[c] = "running" => sigterm[c]

\* When both forks succeeded, the kill() main makes after wait() names the
\* child wait() did not reap, in spite of the globals' swapped names.
MainKillHitsSibling ==
    (pc = "kill" /\ Failed \notin {writer_thread_pid, reader_thread_pid}) =>
        /\ KnownPid
        /\ OtherPid \in Children \ {ret}
        /\ child[OtherPid] \in Unreaped

\* sig_handler and main only ever signal main's children, except after a
\* failed fork, and except in the window between wait() and the end of main,
\* where sig_handler kills the pid wait() has just released.
StrayOnlyAfterReap ==
    stray # {} => \/ Failed \in {writer_thread_pid, reader_thread_pid}
                  \/ ret \in Children /\ stray = {ret}

\* The two together: whatever is killed was to be killed.
KillsOwnChildren == MainKillHitsSibling /\ StrayOnlyAfterReap

NobodyRuns == pc \in Ended /\ \A c \in Children : child[c] # "running"

\* A SIGTERM that reaches sig_handler ends main and both children, and so does
\* the failure of readGeonet, which exits alone.
EndTogether == (hpc = "reader" \/ child[ReadPid] = "zombie") ~> NobodyRuns
=============================================================================
