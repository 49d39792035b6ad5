--------------------------- MODULE DaemonControl ---------------------------
(***************************************************************************)
(* DaemonControl (Source/Parent/DaemonControl.cpp): the object with which  *)
(* an application starts, watches and stops its daemon.                    *)
(*                                                                         *)
(* One thread of the application calls the object.  It knows its daemon    *)
(* by a process ID and by what waitpid() tells.  The kernel's table of     *)
(* processes changes meanwhile: daemons end, IDs are used again by         *)
(* strangers, and the application has other children (siblings), which it  *)
(* starts between calls.  One action is the code between two system calls. *)
(* The pipes are in PipeWriter and PipeReader; here they are opened or     *)
(* closed.                                                                 *)
(***************************************************************************)
EXTENDS Integers

CONSTANTS
    Pids,           \* process IDs
    Codes,          \* exit codes of the daemon's program and of siblings
    WriterEnabled, ReaderEnabled,    \* whether there are pipes
    MaxStarts,      \* bound: daemons forked
    Faults          \* {"fork", "EINTR", "cleanup", "exec"}: what may fail

ASSUME ControlAssumption ==
    /\ Pids \subseteq Nat \ {0}
    /\ Codes \subseteq 0 .. 255
    /\ WriterEnabled \in BOOLEAN
    /\ ReaderEnabled \in BOOLEAN
    /\ MaxStarts \in Nat
    /\ Faults \subseteq {"fork", "EINTR", "cleanup", "exec"}

VARIABLES
    proc,           \* the kernel's table
    pc,             \* where the controller is
    daemonProcess, exitCode,
    writer, reader, \* the pipes: "new", "open" or "closed"
    starts,         \* daemons forked so far
    lastStatus,     \* history: status of the daemon reaped last
    signalled,      \* history: the kinds of process that kill() reached
    fault           \* history: which of "fork" and "EINTR" has happened

pipeVars == <<writer, reader>>
historyVars == <<lastStatus, signalled, fault>>
vars == <<proc, pc, daemonProcess, exitCode, pipeVars, starts, historyVars>>

(***************************************************************************)
(* What waitpid() stores: an exit code, or Signalled.  A variable that     *)
(* nobody has set may have any value, Garbage standing for those no        *)
(* process returned.                                                       *)
(***************************************************************************)
fdCleanupFailed == 7
daemonExecFailed == 8
Signalled == 256
Garbage == 255
Endings == Codes \union {fdCleanupFailed, daemonExecFailed, Signalled}
Unset == Endings \union {Garbage}

\* Mutant: the status is taken for the exit code.
WEXITSTATUSRaw(status) == status

WIFEXITED(status) == status # Signalled
WEXITSTATUS(status) == IF WIFEXITED(status) THEN status ELSE 0

(***************************************************************************)
(* The table.  A daemon is "forked" until it has called execv(); "killed"  *)
(* is a process that SIGKILL has reached and that has not ended yet.       *)
(***************************************************************************)
Kinds == {"none", "daemon", "sibling", "stranger"}
Alive == {"forked", "running"}
Unused == [owner |-> "none", stat |-> "-", status |-> 0]
Process(owner, stat) == [owner |-> owner, stat |-> stat, status |-> 0]

Init ==
    /\ proc \in [Pids -> {Unused, Process("stranger", "running")}]
    /\ pc = "idle"
    /\ daemonProcess = 0 /\ exitCode = 0
    /\ writer = "new" /\ reader = "new"
    /\ starts = 0
    /\ lastStatus = 0
    /\ signalled = {} /\ fault = {}

Children == {p \in Pids : proc[p].owner \in {"daemon", "sibling"}}

\* The children that waitpid(id) is about: -1 stands for all of them.
Waitable(id) == {p \in Children : id \in {p, -1}}
Zombies(id) == {p \in Waitable(id) : proc[p].stat = "zombie"}

Reap(p) ==
    /\ proc' = [proc EXCEPT ![p] = Unused]
    /\ lastStatus' = IF proc[p].owner = "daemon" THEN proc[p].status
                                                 ELSE lastStatus

\* The processes that kill(id) is about: -1 stands for all but the caller.
Targets(id) == {p \in Pids : proc[p].owner # "none" /\ id \in {p, -1}}

kill(id) == signalled' = signalled \union {proc[p].owner : p \in Targets(id)}

-----------------------------------------------------------------------------
(***************************************************************************)
(* startDaemon()                                                           *)
(***************************************************************************)
\* A pipe that was opened or closed before is not opened again.
Opened(pipe) == IF pipe = "new" THEN "open" ELSE pipe

Fork ==
    \/ \E p \in Pids :
         /\ proc[p] = Unused
         /\ starts < MaxStarts
         /\ starts' = starts + 1
         /\ proc' = [proc EXCEPT ![p] = Process("daemon", "forked")]
         /\ daemonProcess' = p
         /\ UNCHANGED fault
    \/ /\ "fork" \in Faults
       /\ daemonProcess' = -1
       /\ fault' = fault \union {"fork"}
       /\ UNCHANGED <<starts, proc>>

StartWhen(free) ==
    /\ pc = "idle"
    /\ free
    /\ writer' = IF WriterEnabled THEN Opened(writer) ELSE writer
    /\ \E listener \in BOOLEAN :
         reader' = IF ReaderEnabled /\ listener THEN Opened(reader) ELSE reader
    /\ Fork
    /\ UNCHANGED <<pc, exitCode, lastStatus, signalled>>

\* Mutant: a daemon that runs already does not matter.
startDaemonAgain == StartWhen(TRUE)

startDaemon == StartWhen(daemonProcess = 0)

-----------------------------------------------------------------------------
(***************************************************************************)
(* isDaemonRunning(), which several functions call, and which getExitCode()*)
(* and getDaemonProcessID() amount to.                                     *)
(***************************************************************************)
\* Mutant: the ID of a daemon that has ended is kept.
isDaemonRunningKeepsID(running) ==
    \/ /\ Waitable(daemonProcess) = {}
       /\ running = FALSE
       /\ daemonProcess' = 0
       /\ UNCHANGED <<proc, exitCode, lastStatus>>
    \/ /\ Waitable(daemonProcess) # {} /\ Zombies(daemonProcess) = {}
       /\ running = TRUE
       /\ UNCHANGED <<proc, daemonProcess, exitCode, lastStatus>>
    \/ \E p \in Zombies(daemonProcess) :
         /\ Reap(p)
         /\ running = FALSE
         /\ exitCode' = WEXITSTATUS(proc[p].status)
         /\ UNCHANGED daemonProcess

\* Mutant: when waitpid() fails the daemon is taken to run.
isDaemonRunningOnError(running) ==
    \/ /\ Zombies(daemonProcess) = {}
       /\ running = (daemonProcess # 0)
       /\ UNCHANGED <<proc, daemonProcess, exitCode, lastStatus>>
    \/ \E p \in Zombies(daemonProcess) :
         /\ Reap(p)
         /\ running = FALSE
         /\ daemonProcess' = 0
         /\ exitCode' = WEXITSTATUS(proc[p].status)

isDaemonRunning(running) ==
    \/ /\ Waitable(daemonProcess) = {}
       /\ running = FALSE
       /\ daemonProcess' = 0
       /\ UNCHANGED <<proc, exitCode, lastStatus>>
    \/ /\ Waitable(daemonProcess) # {} /\ Zombies(daemonProcess) = {}
       /\ running = TRUE
       /\ UNCHANGED <<proc, daemonProcess, exitCode, lastStatus>>
    \/ \E p \in Zombies(daemonProcess) :
         /\ Reap(p)
         /\ running = FALSE
         /\ IF p = daemonProcess
            THEN /\ daemonProcess' = 0
                 /\ exitCode' = WEXITSTATUS(proc[p].status)
            ELSE UNCHANGED <<daemonProcess, exitCode>>   \* some other child

CallFrame == UNCHANGED <<pipeVars, starts, signalled, fault>>

CheckDaemon ==
    /\ pc = "idle"
    /\ \E running \in BOOLEAN : isDaemonRunning(running)
    /\ UNCHANGED pc
    /\ CallFrame

\* waitpid() that blocks until a child has ended, or fails and leaves the
\* status as it was: unset.
WaitFor(status) ==
    \/ \E p \in Zombies(daemonProcess) :
         /\ Reap(p)
         /\ status = proc[p].status
         /\ UNCHANGED fault
    \/ /\ "EINTR" \in Faults \/ Waitable(daemonProcess) = {}
       /\ status \in Unset
       /\ fault' = fault \union {"EINTR"}
       /\ UNCHANGED <<proc, lastStatus>>

-----------------------------------------------------------------------------
(***************************************************************************)
(* stopDaemon().  What a daemon does when it gets SIGTERM is up to it.     *)
(***************************************************************************)
StopFrame == UNCHANGED <<pipeVars, starts>>

stopDaemon ==
    /\ pc = "idle"
    /\ daemonProcess # 0
    /\ kill(daemonProcess)
    /\ pc' = "sleep"
    /\ StopFrame
    /\ UNCHANGED <<proc, daemonProcess, exitCode, lastStatus, fault>>

\* Mutant: a daemon that is still there is left alone.
CheckStoppedOnly ==
    /\ pc = "sleep"
    /\ \E running \in BOOLEAN : isDaemonRunning(running)
    /\ pc' = "close"
    /\ CallFrame

CheckStopped ==
    /\ pc = "sleep"
    /\ \E running \in BOOLEAN :
         /\ isDaemonRunning(running)
         /\ pc' = IF running THEN "kill" ELSE "close"
    /\ CallFrame

KillDaemon ==
    /\ pc = "kill"
    /\ kill(daemonProcess)
    /\ proc' = [p \in Pids |->
                  IF p \in Targets(daemonProcess) /\ proc[p].stat \in Alive
                  THEN [proc[p] EXCEPT !.stat = "killed"] ELSE proc[p]]
    /\ pc' = "reap"
    /\ StopFrame
    /\ UNCHANGED <<daemonProcess, exitCode, lastStatus, fault>>

\* Mutant: the exit code of the daemon is not fetched.
ReapDaemonSilently ==
    /\ pc = "reap"
    /\ \E status \in Unset : WaitFor(status)
    /\ daemonProcess' = 0
    /\ pc' = "close"
    /\ StopFrame
    /\ UNCHANGED <<exitCode, signalled>>

ReapDaemon ==
    /\ pc = "reap"
    /\ \E status \in Unset :
         WaitFor(status) /\ exitCode' = WEXITSTATUS(status)
    /\ daemonProcess' = 0
    /\ pc' = "close"
    /\ StopFrame
    /\ UNCHANGED signalled

ClosePipes ==
    /\ pc = "close"
    /\ reader' = IF ReaderEnabled THEN "closed" ELSE reader
    /\ writer' = IF WriterEnabled THEN "closed" ELSE writer
    /\ pc' = "idle"
    /\ UNCHANGED <<proc, daemonProcess, exitCode, starts, historyVars>>

-----------------------------------------------------------------------------
(***************************************************************************)
(* waitToExit(): isDaemonRunning() is asked before each waitpid(), which   *)
(* reaps the daemon and, if a signal has ended it, does not say so.        *)
(***************************************************************************)
LoopWhileRunning(from) ==
    /\ pc = from
    /\ \E running \in BOOLEAN :
         isDaemonRunning(running) /\ pc' = IF running THEN "wait" ELSE "idle"
    /\ CallFrame

waitToExit == LoopWhileRunning("idle")

Recheck == LoopWhileRunning("recheck")

WaitDaemon ==
    /\ pc = "wait"
    /\ \E status \in Unset :
         /\ WaitFor(status)
         /\ IF WIFEXITED(status)
            THEN /\ daemonProcess' = 0
                 /\ exitCode' = WEXITSTATUS(status)
                 /\ pc' = "idle"
            ELSE /\ pc' = "recheck"
                 /\ UNCHANGED <<daemonProcess, exitCode>>
    /\ UNCHANGED <<pipeVars, starts, signalled>>

-----------------------------------------------------------------------------
(***************************************************************************)
(* The other processes.                                                    *)
(***************************************************************************)
OthersFrame ==
    UNCHANGED <<pc, daemonProcess, exitCode, pipeVars, starts, historyVars>>

\* A child becomes a zombie, a stranger is somebody else's to reap.
End(p, status) ==
    proc' = [proc EXCEPT ![p] =
               IF p \in Children
               THEN [@ EXCEPT !.stat = "zombie", !.status = status] ELSE Unused]

\* The child of fork(), up to execv().
LaunchDaemon(p) ==
    /\ proc[p].stat = "forked"
    /\ \/ proc' = [proc EXCEPT ![p].stat = "running"]
       \/ "cleanup" \in Faults /\ End(p, fdCleanupFailed)
       \/ "exec" \in Faults /\ End(p, daemonExecFailed)
    /\ OthersFrame

EndProcess(p) ==
    /\ proc[p].stat = "running"
    /\ \E status \in Codes \union {Signalled} : End(p, status)
    /\ OthersFrame

DieKilled(p) ==
    /\ proc[p].stat = "killed"
    /\ End(p, Signalled)
    /\ OthersFrame

NewProcess(p) ==
    /\ proc[p] = Unused
    /\ \/ proc' = [proc EXCEPT ![p] = Process("stranger", "running")]
       \/ /\ pc = "idle"
          /\ proc' = [proc EXCEPT ![p] = Process("sibling", "running")]
    /\ OthersFrame

ReapSibling(p) ==
    /\ pc = "idle"
    /\ proc[p].owner = "sibling" /\ proc[p].stat = "zombie"
    /\ proc' = [proc EXCEPT ![p] = Unused]
    /\ OthersFrame

-----------------------------------------------------------------------------
Call == startDaemon \/ CheckDaemon \/ stopDaemon \/ waitToExit

InCall ==
    \/ CheckStopped \/ KillDaemon \/ ReapDaemon \/ ClosePipes
    \/ WaitDaemon \/ Recheck

Others ==
    \E p \in Pids :
        \/ LaunchDaemon(p) \/ EndProcess(p) \/ DieKilled(p)
        \/ NewProcess(p) \/ ReapSibling(p)

Next == Call \/ InCall \/ Others

Spec == Init /\ [][Next]_vars

\* waitpid() comes back when a child has ended or there is none.  It may be
\* interrupted before that, but need not.
WaitIsOver == Zombies(daemonProcess) # {} \/ Waitable(daemonProcess) = {}

\* The application's thread runs on inside a call, and what SIGKILL has reached
\* ends.  No daemon has to end by itself or to heed SIGTERM, and nobody has to
\* call anything.
FairSpec ==
    /\ Spec
    /\ WF_vars((pc \in {"reap", "wait"} => WaitIsOver) /\ InCall)
    /\ \A p \in Pids : WF_vars(DieKilled(p))

-----------------------------------------------------------------------------
TypeOK ==
    /\ proc \in [Pids -> [owner : Kinds,
                          stat : {"-", "zombie", "killed"} \union Alive,
                          status : Endings \union {0}]]
    /\ pc \in {"idle", "sleep", "kill", "reap", "close", "wait", "recheck"}
    /\ daemonProcess \in Pids \union {0, -1}
    /\ exitCode \in 0 .. 255
    /\ writer \in {"new", "open", "closed"}
    /\ reader \in {"new", "open", "closed"}
    /\ starts \in 0 .. MaxStarts
    /\ lastStatus \in Endings \union {0}
    /\ signalled \subseteq Kinds
    /\ fault \subseteq {"fork", "EINTR"}

\* The ID that kill() is given is that of the daemon, or of its zombie: nobody
\* else is signalled although IDs are used again as soon as a child is reaped.
SignalsOnlyDaemon == "fork" \in fault \/ signalled \subseteq {"daemon"}

\* No daemon is forgotten: startDaemon() forks only when the last one has ended
\* and was reaped, so there is at most one, and it can be stopped.
ChildIsKnown ==
    \A p \in Pids :
        proc[p].owner = "daemon" => p = daemonProcess \/ "EINTR" \in fault

\* The exit code is that of the daemon that ended last, whichever of the three
\* functions has reaped it, if it ended by itself.
ExitCodeOfLast ==
    pc = "idle" /\ daemonProcess = 0 /\ fault = {} /\ lastStatus # Signalled
        => exitCode = lastStatus

\* stopDaemon() returns, whatever the daemon does, and it ends the daemon, also
\* one that ignores SIGTERM.
StopEndsDaemon ==
    /\ pc = "sleep" ~> pc = "idle"
    /\ \A p \in Pids :
         (pc = "sleep" /\ daemonProcess = p)
             ~> (proc[p].owner # "daemon" \/ proc[p].stat = "zombie")

\* waitToExit() returns once the daemon has ended, by a signal or by itself.
WaitReturns ==
    \A p \in Pids :
        (pc = "wait" /\ daemonProcess = p /\ proc[p].stat = "zombie")
            ~> pc = "idle"

(***************************************************************************)
(* What the documentation says and the code does not do.                   *)
(***************************************************************************)
\* DaemonControl.h, stopDaemon(): if the daemon is running it stops the
\* process.  It touches no other.
StopsOnlyDaemon == signalled \subseteq {"daemon"}
=============================================================================
