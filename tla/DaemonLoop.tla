----------------------------- MODULE DaemonLoop -----------------------------
(***************************************************************************)
(* DaemonLoop and Process::Security (Source/Daemon): several daemon        *)
(* processes, each with one DaemonLoop object, that share one lock file.   *)
(* A process constructs its object, calls runLoop() up to MaxRuns times    *)
(* and destroys the object.  Around them the module keeps what they read   *)
(* from the system: the lock directory, the flock() lock and the entries   *)
(* /proc has for the processes that launched the daemons.                  *)
(*                                                                         *)
(* The build is the one of Release mode with both pipes and the lock file: *)
(* DF_ASSERT does nothing.  The options that change the control flow are   *)
(* constants.  The pipes are only open or closed here.                     *)
(***************************************************************************)
EXTENDS Integers, FiniteSets, ProcessData

CONSTANTS
    Daemons,               \* daemon processes
    LauncherOf,            \* the process ID that launches each daemon
    Adopter,               \* the process ID that adopts orphaned processes
    MaxRuns,               \* bound: calls of runLoop() in one process
    EnabledChecks,         \* exit codes of the security checks compiled in
    RequiredParentPath,    \* DF_REQUIRED_PARENT_PATH
    LauncherPaths,         \* executables a launcher may run
    AdopterPath,           \* the executable of the adopter
    ReusedPaths,           \* executables a reused process ID may run
    MaxStartTime,          \* bound: processes that use one process ID in turn
    RequireRunningParent,  \* DF_REQUIRE_RUNNING_PARENT
    Timeout,               \* whether DF_TIMEOUT is positive
    Faults,                \* events of the environment that may happen
    NoLock                 \* nobody holds the lock

AllFaults == {"sigterm", "kill", "fileError", "interrupt",
              "parentExit", "parentStop", "pidReuse"}

Launchers == {LauncherOf[d] : d \in Daemons}
Pids == Launchers \union {Adopter}
Paths == LauncherPaths \union ReusedPaths \union {AdopterPath}

(***************************************************************************)
(* ExitCode, and the code of the application's own loop functions: zero to *)
(* go on, any other value to stop.                                         *)
(***************************************************************************)
success == 0
badDaemonPath == 1
badParentPath == 2
insecureDaemonDir == 3
insecureParentDir == 4
daemonAlreadyRunning == 5
daemonParentEnded == 6
LoopCodes == {0, 9}
NoResult == -1
Results == {NoResult, success, badDaemonPath, badParentPath,
            insecureDaemonDir, insecureParentDir, daemonAlreadyRunning,
            daemonParentEnded} \union LoopCodes

ASSUME DaemonsAssumption == IsFiniteSet(Daemons) /\ Daemons # {}
ASSUME ProcessAssumption ==
    /\ LauncherOf \in [Daemons -> Nat \ {0}]
    /\ Adopter \in Nat \ {0}
    /\ Adopter \notin Launchers
    /\ NoPath \notin Paths
ASSUME ParentPathAssumption ==
    RequiredParentPath \notin {AdopterPath, NoPath}
ASSUME BoundsAssumption ==
    /\ MaxRuns \in Nat \ {0}
    /\ MaxStartTime \in Nat \ {0}
ASSUME OptionsAssumption ==
    /\ EnabledChecks \subseteq 1 .. 4
    /\ RequireRunningParent \in BOOLEAN
    /\ Timeout \in BOOLEAN
    /\ Faults \subseteq AllFaults
ASSUME NoLockAssumption == NoLock \notin Daemons \X (1 .. MaxRuns)

VARIABLES
    \* The system:
    procs,              \* process table of the launchers and the adopter
    parent,             \* the parent the kernel has for each daemon
    lockDirExists,      \* whether the lock file's directory exists
    lockOwner,          \* the open file description that holds the lock
    \* Each daemon process:
    pc,                 \* where it is
    parentId,           \* the parent ID in securityMonitor.daemonProcess
    parentProcess,      \* securityMonitor.parentProcess
    inputPipe,          \* whether the input pipe was opened and not closed
    disposition,        \* what SIGTERM does
    termSignalReceived,
    loopRunning,
    lockFD,
    runs,               \* calls of runLoop() so far
    expired,            \* whether DF_TIMEOUT has passed since the loop began
    result,             \* what runLoop() returned last
    \* History:
    served,             \* daemons that ever held the lock
    staleActions        \* loop actions begun after the launcher had ended

systemVars == <<procs, parent>>
lockVars == <<lockDirExists, lockOwner>>
monitorVars == <<parentId, parentProcess>>
objectVars == <<inputPipe, disposition, termSignalReceived>>
historyVars == <<served, staleActions>>
vars == <<systemVars, lockVars, pc, monitorVars, objectVars, loopRunning,
          lockFD, runs, expired, result, historyVars>>

(***************************************************************************)
(* Where a daemon process can be.                                          *)
(***************************************************************************)
Constructing == {"born", "lookup", "parse", "construct"}
Locking == {"open", "stat", "mkdir", "flock"}
Looping == {"loop", "update", "timeout", "action"}
Inside == {"checks", "init"} \union Looping   \* between lock and return
InRunLoop == Locking \union Inside
Dead == {"ended", "killed", "crashed"}
Places == Constructing \union InRunLoop \union
              {"idle", "unlock", "exit"} \union Dead

\* A launcher is the first process with its ID.
FirstStartTime == 1

LauncherEnded(d) == parent[d] # LauncherOf[d]
Holds(d) == lockOwner # NoLock /\ lockOwner[1] = d

Init ==
    /\ procs \in {f \in [Pids -> [stat : {"S"}, exe : Paths,
                                  startTime : {FirstStartTime}]] :
                    /\ f[Adopter].exe = AdopterPath
                    /\ \A p \in Launchers : f[p].exe \in LauncherPaths}
    /\ parent = LauncherOf
    /\ lockDirExists \in BOOLEAN
    /\ lockOwner = NoLock
    /\ pc = [d \in Daemons |-> "born"]
    /\ parentId = [d \in Daemons |-> -1]
    /\ parentProcess = [d \in Daemons |-> InvalidData]
    /\ inputPipe = [d \in Daemons |-> FALSE]
    /\ disposition = [d \in Daemons |-> "default"]
    /\ termSignalReceived = [d \in Daemons |-> -1]
    /\ loopRunning = [d \in Daemons |-> FALSE]
    /\ lockFD = [d \in Daemons |-> 0]
    /\ runs = [d \in Daemons |-> 0]
    /\ expired = [d \in Daemons |-> FALSE]
    /\ result = [d \in Daemons |-> NoResult]
    /\ served = {}
    /\ staleActions = [d \in Daemons |-> 0]

Goto(d, from, to) == pc[d] = from /\ pc' = [pc EXCEPT ![d] = to]

(***************************************************************************)
(* runLoop() returns a code.  Some of its returns reset loopRunning, some  *)
(* leave it set.                                                           *)
(***************************************************************************)
Return(d, code) ==
    /\ pc' = [pc EXCEPT ![d] = "idle"]
    /\ result' = [result EXCEPT ![d] = code]

ReturnStopped(d, code) ==
    /\ Return(d, code)
    /\ loopRunning' = [loopRunning EXCEPT ![d] = FALSE]

ReturnRunning(d, code) ==
    /\ Return(d, code)
    /\ UNCHANGED loopRunning

Continue(d, to) ==
    /\ pc' = [pc EXCEPT ![d] = to]
    /\ UNCHANGED <<result, loopRunning>>

(***************************************************************************)
(* Construction.  The member securityMonitor is constructed first: the     *)
(* process reads its own stat file, then its parent's.  A process that     *)
(* vanishes between the open and the read leaves an open file with nothing *)
(* in it, and the element statItems[0] of an empty vector is used.         *)
(***************************************************************************)
ReadSelf(d) ==
    /\ Goto(d, "born", "lookup")
    /\ parentId' = [parentId EXCEPT ![d] = parent[d]]
    /\ UNCHANGED <<systemVars, lockVars, parentProcess, objectVars,
                   loopRunning, lockFD, runs, expired, result, historyVars>>

OpenParentStat(d) ==
    /\ Goto(d, "lookup",
            IF HasStat(procs, parentId[d]) THEN "parse" ELSE "construct")
    /\ UNCHANGED <<systemVars, lockVars, monitorVars, objectVars,
                   loopRunning, lockFD, runs, expired, result, historyVars>>

\* The process dies: the kernel closes its files and so drops its lock.
Die(d, how) ==
    /\ pc' = [pc EXCEPT ![d] = how]
    /\ lockOwner' = IF Holds(d) THEN NoLock ELSE lockOwner
    /\ inputPipe' = [inputPipe EXCEPT ![d] = FALSE]
    /\ UNCHANGED <<systemVars, lockDirExists, disposition, termSignalReceived,
                   loopRunning, lockFD, runs, expired, result, historyVars>>

ReadParentStat(d) ==
    /\ pc[d] = "parse"
    /\ IF HasStat(procs, parentId[d])
       THEN /\ pc' = [pc EXCEPT ![d] = "construct"]
            /\ parentProcess' =
                 [parentProcess EXCEPT ![d] = ReadData(procs, parentId[d])]
            /\ UNCHANGED <<systemVars, lockVars, parentId, objectVars,
                           loopRunning, lockFD, runs, expired, result,
                           historyVars>>
       ELSE Die(d, "crashed") /\ UNCHANGED monitorVars

\* The constructor's body: it opens the input pipe, then gives sigaction() a
\* zeroed structure and only afterwards stores the handler in it.
Construct(d) ==
    /\ Goto(d, "construct", "idle")
    /\ inputPipe' = [inputPipe EXCEPT ![d] = TRUE]
    /\ LET action == [sa_handler |-> "default"]
       IN  disposition' = [disposition EXCEPT ![d] = action.sa_handler]
    /\ termSignalReceived' = [termSignalReceived EXCEPT ![d] = 0]
    /\ UNCHANGED <<systemVars, lockVars, monitorVars, loopRunning, lockFD,
                   runs, expired, result, historyVars>>

(***************************************************************************)
(* runLoop(): the call, and opening the lock file.                         *)
(***************************************************************************)
RunLoop(d) ==
    /\ pc[d] = "idle"
    /\ runs[d] < MaxRuns
    /\ runs' = [runs EXCEPT ![d] = @ + 1]
    /\ IF loopRunning[d] THEN ReturnRunning(d, daemonAlreadyRunning)
       ELSE IF termSignalReceived[d] # 0 THEN ReturnStopped(d, success)
       ELSE /\ loopRunning' = [loopRunning EXCEPT ![d] = TRUE]
            /\ pc' = [pc EXCEPT ![d] = "open"]
            /\ UNCHANGED result
    /\ UNCHANGED <<systemVars, lockVars, monitorVars, objectVars, lockFD,
                   expired, historyVars>>

\* Mutant: the descriptor of an interrupted open() is used.
OpenLockKeepsError(d) ==
    /\ pc[d] = "open"
    /\ lockFD' = [lockFD EXCEPT ![d] = @ - 1]
    /\ Continue(d, IF lockDirExists THEN "flock" ELSE "stat")
    /\ UNCHANGED <<systemVars, lockVars, monitorVars, objectVars, runs,
                   expired, historyVars>>

\* Open files are numbered by the call of runLoop() that opens them.
OpenLock(d) ==
    /\ pc[d] = "open"
    /\ \/ /\ lockDirExists
          /\ lockFD' = [lockFD EXCEPT ![d] = runs[d]]
          /\ Continue(d, "flock")
       \/ /\ ~lockDirExists                          \* ENOENT
          /\ lockFD' = [lockFD EXCEPT ![d] = -1]
          /\ Continue(d, "stat")
       \/ /\ "interrupt" \in Faults                  \* EINTR
          /\ lockFD' = [lockFD EXCEPT ![d] = -1]
          /\ IF termSignalReceived[d] # 0 THEN ReturnRunning(d, success)
             ELSE Continue(d, "open")
       \/ /\ "fileError" \in Faults                  \* any other error
          /\ lockFD' = [lockFD EXCEPT ![d] = 0]
          /\ ReturnRunning(d, daemonAlreadyRunning)
    /\ UNCHANGED <<systemVars, lockVars, monitorVars, objectVars, runs,
                   expired, historyVars>>

\* createDir(): first a look at the path, then mkdir() if nothing was there.
CheckLockDir(d) ==
    /\ pc[d] = "stat"
    /\ Continue(d, IF lockDirExists THEN "open" ELSE "mkdir")
    /\ UNCHANGED <<systemVars, lockVars, monitorVars, objectVars, lockFD,
                   runs, expired, historyVars>>

\* Mutant: a created directory is not tried again.
MakeLockDirGivesUp(d) ==
    /\ pc[d] = "mkdir"
    /\ lockDirExists' = TRUE
    /\ ReturnRunning(d, daemonAlreadyRunning)
    /\ UNCHANGED <<systemVars, lockOwner, monitorVars, objectVars, lockFD,
                   runs, expired, historyVars>>

MakeLockDir(d) ==
    /\ pc[d] = "mkdir"
    /\ \/ /\ ~lockDirExists
          /\ lockDirExists' = TRUE
          /\ Continue(d, "open")
       \/ /\ lockDirExists \/ "fileError" \in Faults \* EEXIST, or another
          /\ UNCHANGED lockDirExists
          /\ ReturnRunning(d, daemonAlreadyRunning)
    /\ UNCHANGED <<systemVars, lockOwner, monitorVars, objectVars, lockFD,
                   runs, expired, historyVars>>

LockWhen(d, free) ==
    /\ pc[d] = "flock"
    /\ IF free
       THEN /\ lockOwner' = <<d, lockFD[d]>>
            /\ served' = served \union {d}
            /\ Continue(d, "checks")
            /\ UNCHANGED lockFD
       ELSE /\ lockFD' = [lockFD EXCEPT ![d] = 0]
            /\ ReturnRunning(d, daemonAlreadyRunning)
            /\ UNCHANGED <<lockOwner, served>>
    /\ UNCHANGED <<systemVars, lockDirExists, monitorVars, objectVars, runs,
                   expired, staleActions>>

\* Mutants: the result of flock() is ignored; the lock is one per process, as
\* that of fcntl() is.
TakeLockUnchecked(d) == LockWhen(d, TRUE)
TakeLockPerProcess(d) == LockWhen(d, lockOwner = NoLock \/ Holds(d))

\* flock(LOCK_EX | LOCK_NB): refused while another open file has the lock,
\* one that this process opened in an earlier call included.
TakeLock(d) == LockWhen(d, lockOwner = NoLock)

(***************************************************************************)
(* The security checks, in the order of the code, which is that of their   *)
(* exit codes.  The paths were read once, by the constructor; lstat() of a *)
(* directory may find anything, except that there is no directory to find  *)
(* for a parent whose path is not known.                                   *)
(***************************************************************************)
ParentSecured(d) ==
    /\ isValid(parentProcess[d])
    /\ parentProcess[d].executablePath = RequiredParentPath

\* What directorySecured() may refuse.
InsecureDirs == EnabledChecks \intersect {insecureDaemonDir, insecureParentDir}

\* Mutant: validParentPath() only asks whether the data are valid.
FailedChecksAnyParent(d, wrongPath, insecureDirs) ==
    EnabledChecks \intersect
        (wrongPath \union insecureDirs
          \union {c \in {badParentPath} : ~isValid(parentProcess[d])})

FailedChecks(d, wrongPath, insecureDirs) ==
    EnabledChecks \intersect
        (wrongPath \union insecureDirs
          \union {c \in {badParentPath} : ~ParentSecured(d)}
          \union {c \in {insecureParentDir} :
                     parentProcess[d].executablePath = NoPath})

SecurityChecks(d) ==
    /\ pc[d] = "checks"
    /\ \E wrongPath \in SUBSET (EnabledChecks \intersect {badDaemonPath}),
          insecureDirs \in SUBSET InsecureDirs :
         LET failed == FailedChecks(d, wrongPath, insecureDirs)
         IN  IF failed # {}
             THEN \E code \in failed :
                     /\ \A other \in failed : code <= other
                     /\ ReturnStopped(d, code)
             ELSE IF termSignalReceived[d] # 0 THEN ReturnStopped(d, success)
             ELSE Continue(d, "init")
    /\ UNCHANGED <<systemVars, lockVars, monitorVars, objectVars, lockFD,
                   runs, expired, historyVars>>

\* initLoop(), and the reading of the clock just after it.
InitLoop(d) ==
    /\ pc[d] = "init"
    /\ expired' = [expired EXCEPT ![d] = FALSE]
    /\ \E code \in LoopCodes :
         IF code = 0 THEN Continue(d, "loop") ELSE ReturnStopped(d, code)
    /\ UNCHANGED <<systemVars, lockVars, monitorVars, objectVars, lockFD,
                   runs, historyVars>>

(***************************************************************************)
(* One iteration of the loop: the SIGTERM test and the first half of       *)
(* parentProcessRunning() (opening the stat file), its second half, the    *)
(* timeout and loopAction().                                               *)
(***************************************************************************)
BeginIteration(d) ==
    /\ pc[d] = "loop"
    /\ IF termSignalReceived[d] # 0
       THEN ReturnStopped(d, success) /\ UNCHANGED parentProcess
       ELSE IF ~RequireRunningParent
       THEN Continue(d, "timeout") /\ UNCHANGED parentProcess
       ELSE IF HasStat(procs, parentProcess[d].processId)
       THEN Continue(d, "update") /\ UNCHANGED parentProcess
       ELSE /\ parentProcess' = [parentProcess EXCEPT ![d] = InvalidData]
            /\ ReturnStopped(d, daemonParentEnded)
    /\ UNCHANGED <<systemVars, lockVars, parentId, objectVars, lockFD, runs,
                   expired, historyVars>>

UpdateParent(d) ==
    /\ pc[d] = "update"
    /\ IF HasStat(procs, parentProcess[d].processId)
       THEN LET data == Updated(procs, parentProcess[d])
            IN  /\ parentProcess' = [parentProcess EXCEPT ![d] = data]
                /\ IF CountsAsRunning(data) THEN Continue(d, "timeout")
                   ELSE ReturnStopped(d, daemonParentEnded)
                /\ UNCHANGED <<systemVars, lockVars, parentId, objectVars,
                               lockFD, runs, expired, historyVars>>
       ELSE Die(d, "crashed") /\ UNCHANGED monitorVars

\* Mutant: the end of the timeout only starts the next iteration.
CheckTimeoutContinues(d) ==
    /\ pc[d] = "timeout"
    /\ Continue(d, IF Timeout /\ expired[d] THEN "loop" ELSE "action")
    /\ UNCHANGED <<systemVars, lockVars, monitorVars, objectVars, lockFD,
                   runs, expired, historyVars>>

CheckTimeout(d) ==
    /\ pc[d] = "timeout"
    /\ IF Timeout /\ expired[d] THEN ReturnRunning(d, success)
       ELSE Continue(d, "action")
    /\ UNCHANGED <<systemVars, lockVars, monitorVars, objectVars, lockFD,
                   runs, expired, historyVars>>

\* The history counts at most two actions begun too late.
LoopAction(d) ==
    /\ pc[d] = "action"
    /\ \E code \in LoopCodes :
         IF code = 0 THEN Continue(d, "loop") ELSE ReturnStopped(d, code)
    /\ staleActions' = IF LauncherEnded(d) /\ staleActions[d] < 2
                       THEN [staleActions EXCEPT ![d] = @ + 1]
                       ELSE staleActions
    /\ UNCHANGED <<systemVars, lockVars, monitorVars, objectVars, lockFD,
                   runs, expired, served>>

(***************************************************************************)
(* Destruction, once main() is done with the loop: the pipes, then the     *)
(* lock file; and the end of the process, which closes what is left.       *)
(***************************************************************************)
\* Mutant: the destructor leaves the pipes to the end of the process.
ClosePipesLater(d) ==
    /\ runs[d] > 0
    /\ Goto(d, "idle", "unlock")
    /\ UNCHANGED <<systemVars, lockVars, monitorVars, objectVars, loopRunning,
                   lockFD, runs, expired, result, historyVars>>

ClosePipes(d) ==
    /\ runs[d] > 0
    /\ Goto(d, "idle", "unlock")
    /\ inputPipe' = [inputPipe EXCEPT ![d] = FALSE]
    /\ UNCHANGED <<systemVars, lockVars, monitorVars, disposition,
                   termSignalReceived, loopRunning, lockFD, runs, expired,
                   result, historyVars>>

ReleaseLock(d) ==
    /\ Goto(d, "unlock", "exit")
    /\ lockOwner' = IF lockOwner = <<d, lockFD[d]>> THEN NoLock ELSE lockOwner
    /\ lockFD' = [lockFD EXCEPT ![d] = 0]
    /\ UNCHANGED <<systemVars, lockDirExists, monitorVars, objectVars,
                   loopRunning, runs, expired, result, historyVars>>

Exit(d) ==
    /\ pc[d] = "exit"
    /\ Die(d, "ended")
    /\ UNCHANGED monitorVars

(***************************************************************************)
(* Signals and time.                                                       *)
(***************************************************************************)
Terminate(d) ==
    /\ "sigterm" \in Faults
    /\ pc[d] \notin Dead
    /\ IF disposition[d] = "flagTermSignal"
       THEN /\ termSignalReceived' = [termSignalReceived EXCEPT ![d] = 1]
            /\ UNCHANGED <<systemVars, lockVars, pc, monitorVars, inputPipe,
                           disposition, loopRunning, lockFD, runs, expired,
                           result, historyVars>>
       ELSE Die(d, "killed") /\ UNCHANGED monitorVars

Kill(d) ==
    /\ "kill" \in Faults
    /\ pc[d] \notin Dead
    /\ Die(d, "killed")
    /\ UNCHANGED monitorVars

Expire(d) ==
    /\ Timeout
    /\ pc[d] \in Looping
    /\ ~expired[d]
    /\ expired' = [expired EXCEPT ![d] = TRUE]
    /\ UNCHANGED <<systemVars, lockVars, pc, monitorVars, objectVars,
                   loopRunning, lockFD, runs, result, historyVars>>

(***************************************************************************)
(* The launchers: each may be stopped and continued, and may exit, which   *)
(* gives its daemons to the adopter.  When it has been reaped, its ID may  *)
(* be given to a new process, but not in the instant between the opening   *)
(* of its stat file and the reading of it.                                 *)
(***************************************************************************)
daemonVars == <<pc, monitorVars, objectVars, loopRunning, lockFD, runs,
                expired, result, historyVars>>

SetProcess(p, stat, exe, startTime) ==
    /\ procs' = [procs EXCEPT ![p] =
                   [stat |-> stat, exe |-> exe, startTime |-> startTime]]
    /\ UNCHANGED <<lockVars, daemonVars>>

ParentExit(p) ==
    /\ "parentExit" \in Faults
    /\ procs[p].stat \in {"S", "T"}
    /\ SetProcess(p, "Z", NoPath, procs[p].startTime)
    /\ parent' = [d \in Daemons |->
                    IF parent[d] = p THEN Adopter ELSE parent[d]]

ParentReaped(p) ==
    /\ procs[p].stat = "Z"
    /\ SetProcess(p, "-", NoPath, procs[p].startTime)
    /\ UNCHANGED parent

ParentStop(p) ==
    /\ "parentStop" \in Faults
    /\ procs[p].stat = "S"
    /\ SetProcess(p, "T", procs[p].exe, procs[p].startTime)
    /\ UNCHANGED parent

ParentContinue(p) ==
    /\ procs[p].stat = "T"
    /\ SetProcess(p, "S", procs[p].exe, procs[p].startTime)
    /\ UNCHANGED parent

BeingRead(p) ==
    \E d \in Daemons :
        \/ pc[d] = "parse" /\ parentId[d] = p
        \/ pc[d] = "update" /\ parentProcess[d].processId = p

PidReuse(p) ==
    /\ "pidReuse" \in Faults
    /\ procs[p].stat = "-"
    /\ procs[p].startTime < MaxStartTime
    /\ ~BeingRead(p)
    /\ \E exe \in ReusedPaths : SetProcess(p, "S", exe, procs[p].startTime + 1)
    /\ UNCHANGED parent

-----------------------------------------------------------------------------
Daemon(d) ==
    \/ ReadSelf(d) \/ OpenParentStat(d) \/ ReadParentStat(d) \/ Construct(d)
    \/ RunLoop(d) \/ OpenLock(d) \/ CheckLockDir(d) \/ MakeLockDir(d)
    \/ TakeLock(d) \/ SecurityChecks(d) \/ InitLoop(d)
    \/ BeginIteration(d) \/ UpdateParent(d) \/ CheckTimeout(d)
    \/ LoopAction(d)
    \/ ClosePipes(d) \/ ReleaseLock(d) \/ Exit(d)

Environment ==
    \/ \E d \in Daemons : Terminate(d) \/ Kill(d) \/ Expire(d)
    \/ \E p \in Launchers : \/ ParentExit(p) \/ ParentReaped(p)
                            \/ ParentStop(p) \/ ParentContinue(p)
                            \/ PidReuse(p)

Next == (\E d \in Daemons : Daemon(d)) \/ Environment

Spec == Init /\ [][Next]_vars

\* Every daemon process is scheduled and its functions return.
FairSpec == Spec /\ \A d \in Daemons : WF_vars(Daemon(d))

-----------------------------------------------------------------------------
TypeOK ==
    /\ procs \in [Pids -> [stat : {"S", "T", "Z", "-"},
                           exe : Paths \union {NoPath},
                           startTime : 1 .. MaxStartTime]]
    /\ parent \in [Daemons -> Pids]
    /\ lockDirExists \in BOOLEAN
    /\ lockOwner \in (Daemons \X (1 .. MaxRuns)) \union {NoLock}
    /\ pc \in [Daemons -> Places]
    /\ parentId \in [Daemons -> Pids \union {-1}]
    /\ parentProcess \in [Daemons ->
         [processId : Pids \union {-1}, executablePath : Paths \union {NoPath},
          lastState : State, startTime : 0 .. MaxStartTime]]
    /\ inputPipe \in [Daemons -> BOOLEAN]
    /\ disposition \in [Daemons -> {"default", "flagTermSignal"}]
    /\ termSignalReceived \in [Daemons -> {-1, 0, 1}]
    /\ loopRunning \in [Daemons -> BOOLEAN]
    /\ lockFD \in [Daemons -> -1 .. MaxRuns]
    /\ runs \in [Daemons -> 0 .. MaxRuns]
    /\ expired \in [Daemons -> BOOLEAN]
    /\ result \in [Daemons -> Results]
    /\ served \subseteq Daemons
    /\ staleActions \in [Daemons -> 0 .. 2]

-----------------------------------------------------------------------------
(***************************************************************************)
(* The lock.                                                               *)
(***************************************************************************)
\* The reason for the lock file (Daemon.mk, DF_LOCK_FILE_PATH): two daemons
\* are never both past the lock in runLoop(), whatever was interrupted,
\* killed, refused or called again before.
MutualExclusion ==
    \A d, e \in Daemons : pc[d] \in Inside /\ pc[e] \in Inside => d = e

\* The destructor closes the pipes before it unlocks the file, and no return
\* of runLoop() unlocks it: while a daemon that ran still has its pipes open,
\* no other daemon is past the lock.
PipesClosedBeforeNext ==
    \A d \in served, e \in Daemons :
        inputPipe[d] /\ pc[e] \in Inside => d = e

\* The race of the daemons for the lock and for its directory has a winner:
\* if no file operation fails for a reason of its own, the daemons cannot all
\* end with daemonAlreadyRunning when none of them ever had the lock.
NotAllRefused ==
    (\A d \in Daemons : pc[d] = "ended" /\ result[d] = daemonAlreadyRunning)
        => served # {} \/ "fileError" \in Faults

\* The daemons with their lock file implement SingleInstance: the holder is
\* the process whose open file has the lock, and it runs from flock() to the
\* return of runLoop().
Single == INSTANCE SingleInstance WITH
    holder <- {d \in Daemons : Holds(d)},
    running <- {d \in Daemons : pc[d] \in Inside}

ImplementsSingleInstance == Single!Spec

(***************************************************************************)
(* The parent process.                                                     *)
(***************************************************************************)
\* DF_REQUIRE_RUNNING_PARENT: once the launcher has exited, at most the one
\* loopAction() that the last check had already let through begins, although
\* the launcher is reaped and another program gets its process ID.  (A process
\* of the required program under that ID is taken for the launcher.)
StaleActionBound == \A d \in Daemons : staleActions[d] <= 1

\* With DF_REQUIRED_PARENT_PATH a daemon in its loop watches the very process
\* that launched it, the first one with that ID, even if it exited, was reaped
\* and its ID used again while the daemon was starting: neither the adopter nor
\* the new process passes validParentPath(), unless it runs the required
\* program.
WatchesLauncher ==
    badParentPath \in EnabledChecks /\ RequiredParentPath \notin ReusedPaths =>
        \A d \in Daemons : pc[d] \in Inside \ {"checks"} =>
            /\ parentProcess[d].processId = LauncherOf[d]
            /\ parentProcess[d].startTime = FirstStartTime

\* daemonParentEnded is the truth: a daemon returns it only when its launcher
\* has exited, or the process that it watches was stopped when the check read
\* its state.
ParentEndedIsTrue ==
    \A d \in Daemons : result[d] = daemonParentEnded =>
        LauncherEnded(d) \/ parentProcess[d].lastState = "stopped"

\* A daemon in its loop whose launcher has exited leaves the loop, and so does
\* one whose time is over (DF_TIMEOUT), whatever its actions return.
LoopEnds ==
    \A d \in Daemons :
        pc[d] \in Looping /\ (LauncherEnded(d) \/ expired[d])
            ~> pc[d] \notin Looping

(***************************************************************************)
(* What the documentation says and the code does not do.                   *)
(***************************************************************************)
\* DaemonLoop.h: the daemon subscribes to termination signals, and its loop
\* continues until the signal is received.  A SIGTERM that arrives in
\* runLoop() should end the loop, not the process.
SigtermEndsLoopOnly ==
    [][\A d \in Daemons : pc[d] \in InRunLoop => pc'[d] # "killed"]_vars
=============================================================================
