----------------------- MODULE DaemonLoopParentProofs -----------------------
(***************************************************************************)
(* More theorems about DaemonLoop: what a daemon knows of the process that *)
(* launched it, and how the race for the lock comes out.  Both rest on the *)
(* invariant of the lock, which DaemonLoopProofs proves.                   *)
(***************************************************************************)
EXTENDS DaemonLoopProofs

(***************************************************************************)
(* The inductive invariant of the parent process, first of the system.     *)
(***************************************************************************)
ParentKnown == \A d \in Daemons : parent[d] \in {LauncherOf[d], Adopter}

\* A launcher that is gone has lost its daemons, and whatever has its process
\* ID since is another program, or none; until then it is the first process
\* with that ID.
LauncherSeen ==
    \A d \in Daemons :
        /\ procs[LauncherOf[d]].stat \in {"Z", "-"} => LauncherEnded(d)
        /\ LauncherEnded(d) =>
             procs[LauncherOf[d]].exe \in ReusedPaths \union {NoPath}
        /\ ~LauncherEnded(d) =>
             procs[LauncherOf[d]].startTime = FirstStartTime

AdopterStays == procs[Adopter].stat = "S" /\ procs[Adopter].exe = AdopterPath

SystemInv == ParentKnown /\ LauncherSeen /\ AdopterStays

(***************************************************************************)
(* Then of the monitor of each daemon.                                     *)
(***************************************************************************)
Starting == {"born", "lookup", "parse"}

\* The parent ID is that of the launcher, or of the adopter if that came first.
ParentRead(d) ==
    /\ parentId[d] \in {-1, LauncherOf[d], Adopter}
    /\ pc[d] \in {"lookup", "parse"} => parentId[d] # -1
    /\ parentId[d] = Adopter => LauncherEnded(d)

\* What the monitor has saved is nothing, the adopter, or the launcher as it is
\* while it lives; later, that launcher still, or another program.
Saved(d) ==
    \/ LauncherEnded(d) /\ parentProcess[d] = InvalidData
    \/ /\ LauncherEnded(d)
       /\ parentProcess[d].processId = Adopter
       /\ parentProcess[d].executablePath = AdopterPath
    \/ /\ parentProcess[d].processId = LauncherOf[d]
       /\ \/ LauncherEnded(d)
          \/ parentProcess[d].executablePath = procs[LauncherOf[d]].exe
       /\ \/ parentProcess[d].startTime = FirstStartTime
          \/ parentProcess[d].executablePath \in ReusedPaths \union {NoPath}

\* Past the checks a daemon watches a process of the required program.
ParentAccepted(d) ==
    badParentPath \in EnabledChecks /\ pc[d] \in Inside \ {"checks"} =>
        parentProcess[d].executablePath = RequiredParentPath

\* A daemon whose parent has ended has had its turn with the lock, so that no
\* later call of runLoop() gets to the parent again.
EndedOnce(d) ==
    /\ pc[d] \in Constructing => result[d] = NoResult
    /\ result[d] = daemonParentEnded =>
         /\ d \in served /\ pc[d] \notin Inside
         /\ LauncherEnded(d) \/ parentProcess[d].lastState = "stopped"

\* The configuration in which the loop cannot go on without its launcher: the
\* parent is checked, and its process ID is not used again by its own program.
LauncherRequired ==
    /\ RequireRunningParent
    /\ badParentPath \in EnabledChecks
    /\ RequiredParentPath \notin ReusedPaths

\* Once an action was begun too late, the loop is not past the next check.
StaleOnce(d) ==
    LauncherRequired =>
        /\ staleActions[d] \in {0, 1}
        /\ staleActions[d] = 1 =>
             LauncherEnded(d) /\ pc[d] \notin {"timeout", "action"}

MonitorInv(d) ==
    /\ ParentRead(d)
    /\ pc[d] \in Starting => parentProcess[d] = InvalidData
    /\ pc[d] \notin Starting \union Dead => Saved(d)
    /\ ParentAccepted(d)
    /\ EndedOnce(d)
    /\ StaleOnce(d)

ParentInv == LockInv /\ SystemInv /\ \A d \in Daemons : MonitorInv(d)

(***************************************************************************)
(* The inductive invariant of the race.                                    *)
(***************************************************************************)
\* SIGTERM ends the process or finds it dead: no flag is ever set.
NoTermSignal ==
    \A d \in Daemons :
        /\ disposition[d] = "default" /\ termSignalReceived[d] # 1
        /\ pc[d] \in {"idle"} \union InRunLoop => termSignalReceived[d] = 0

\* While nobody has had the lock, runLoop() was left with loopRunning set only
\* by those who lost the race for the directory.
FlagOfRefused ==
    \A d \in Daemons :
        /\ pc[d] \in Constructing => ~loopRunning[d] /\ result[d] = NoResult
        /\ served = {} /\ "fileError" \notin Faults
             /\ loopRunning[d] /\ pc[d] = "idle"
           => result[d] = daemonAlreadyRunning

\* Whoever loses that race has lost it to a daemon that goes on to the lock.
MakerGoesOn ==
    /\ served = {} /\ "fileError" \notin Faults
    /\ \E d \in Daemons : \/ result[d] = daemonAlreadyRunning
                          \/ lockDirExists /\ pc[d] = "mkdir"
    => /\ lockDirExists
       /\ \E c \in Daemons : pc[c] \in {"open", "flock", "killed", "crashed"}

RaceInv == LockInv /\ NoTermSignal /\ FlagOfRefused /\ MakerGoesOn

-----------------------------------------------------------------------------
USE DEF systemVars, lockVars, monitorVars, objectVars, historyVars, daemonVars

(***************************************************************************)
(* The launchers.                                                          *)
(***************************************************************************)
\* What a daemon depends on of the system: an ended launcher stays ended, and
\* one that lives goes on with its program.
SystemGoesOn ==
    \A d \in Daemons :
        /\ LauncherEnded(d) => LauncherEnded(d)'
        /\ ~LauncherEnded(d)' =>
             procs'[LauncherOf[d]].exe = procs[LauncherOf[d]].exe

\* A step of a launcher p that leaves the daemons with it keeps the invariant
\* of the system when it is right about p.
LEMMA LauncherStep ==
    ASSUME TypeOK, SystemInv, NEW p \in Launchers, NEW stat, NEW exe,
           NEW startTime, SetProcess(p, stat, exe, startTime), UNCHANGED parent,
           \A d \in Daemons : LauncherOf[d] = p =>
               /\ stat \in {"Z", "-"} => LauncherEnded(d)
               /\ exe # procs[p].exe => LauncherEnded(d)
               /\ LauncherEnded(d) => exe \in ReusedPaths \union {NoPath}
               /\ ~LauncherEnded(d) => startTime = FirstStartTime
    PROVE  SystemInv' /\ SystemGoesOn
<1>1. /\ procs'[p] = [stat |-> stat, exe |-> exe, startTime |-> startTime]
      /\ \A q \in Pids : q # p => procs'[q] = procs[q]
  BY DEF SetProcess, TypeOK, Pids
<1>2. p # Adopter /\ Adopter \in Pids /\ \A d \in Daemons : LauncherOf[d] \in Pids
  BY ProcessAssumption DEF Pids, Launchers
<1>3. ParentKnown' /\ AdopterStays'
  BY <1>1, <1>2 DEF SystemInv, ParentKnown, AdopterStays
<1>4. LauncherSeen'
  <2>1. SUFFICES ASSUME NEW d \in Daemons
                 PROVE  /\ procs'[LauncherOf[d]].stat \in {"Z", "-"} => LauncherEnded(d)
                        /\ LauncherEnded(d) =>
                             procs'[LauncherOf[d]].exe \in ReusedPaths \union {NoPath}
                        /\ ~LauncherEnded(d) =>
                             procs'[LauncherOf[d]].startTime = FirstStartTime
    BY DEF LauncherSeen, LauncherEnded
  <2>2. CASE LauncherOf[d] = p
    BY <1>1, <2>2
  <2>3. CASE LauncherOf[d] # p
    BY <1>1, <1>2, <2>3 DEF SystemInv, LauncherSeen
  <2> QED
    BY <2>2, <2>3
<1>5. SystemGoesOn
  BY <1>1, <1>2 DEF SystemGoesOn, LauncherEnded
<1> QED
  BY <1>3, <1>4, <1>5 DEF SystemInv

\* The exit of a launcher gives its daemons to the adopter.
LEMMA ExitStep ==
    ASSUME TypeOK, SystemInv, NEW p \in Launchers, ParentExit(p)
    PROVE  SystemInv' /\ SystemGoesOn
<1>1. /\ procs'[p] = [stat |-> "Z", exe |-> NoPath, startTime |-> procs[p].startTime]
      /\ \A q \in Pids : q # p => procs'[q] = procs[q]
  BY DEF ParentExit, SetProcess, TypeOK, Pids
<1>2. p # Adopter /\ Adopter \in Pids /\ \A d \in Daemons : LauncherOf[d] \in Pids
  BY ProcessAssumption DEF Pids, Launchers
<1>3. \A d \in Daemons : parent'[d] = IF parent[d] = p THEN Adopter ELSE parent[d]
  BY DEF ParentExit
<1>4. \A d \in Daemons : LauncherOf[d] # Adopter
  BY ProcessAssumption DEF Launchers
<1>5. ParentKnown' /\ AdopterStays'
  BY <1>1, <1>2, <1>3 DEF SystemInv, ParentKnown, AdopterStays
<1>6. LauncherSeen'
  <2>1. SUFFICES ASSUME NEW d \in Daemons
                 PROVE  /\ procs'[LauncherOf[d]].stat \in {"Z", "-"} => LauncherEnded(d)'
                        /\ LauncherEnded(d)' =>
                             procs'[LauncherOf[d]].exe \in ReusedPaths \union {NoPath}
                        /\ ~LauncherEnded(d)' =>
                             procs'[LauncherOf[d]].startTime = FirstStartTime
    BY DEF LauncherSeen, LauncherEnded
  <2>2. parent[d] \in {LauncherOf[d], Adopter}
    BY DEF SystemInv, ParentKnown
  <2>3. CASE LauncherOf[d] = p
    BY <1>1, <1>2, <1>3, <1>4, <2>2, <2>3 DEF LauncherEnded
  <2>4. CASE LauncherOf[d] # p
    BY <1>1, <1>2, <1>3, <2>2, <2>4 DEF SystemInv, LauncherSeen, LauncherEnded
  <2> QED
    BY <2>3, <2>4
<1>7. SystemGoesOn
  <2>1. SUFFICES ASSUME NEW d \in Daemons
                 PROVE  /\ LauncherEnded(d) => LauncherEnded(d)'
                        /\ ~LauncherEnded(d)' =>
                             procs'[LauncherOf[d]].exe = procs[LauncherOf[d]].exe
    BY DEF SystemGoesOn, LauncherEnded
  <2>2. parent[d] \in {LauncherOf[d], Adopter}
    BY DEF SystemInv, ParentKnown
  <2>3. CASE LauncherOf[d] = p
    BY <1>2, <1>3, <1>4, <2>2, <2>3 DEF LauncherEnded
  <2>4. CASE LauncherOf[d] # p
    BY <1>1, <1>2, <1>3, <1>4, <2>2, <2>4 DEF LauncherEnded
  <2> QED
    BY <2>3, <2>4
<1> QED
  BY <1>5, <1>6, <1>7 DEF SystemInv

\* Only the launchers change the system.
LEMMA SystemNext ==
    ASSUME TypeOK, SystemInv, [Next]_vars
    PROVE  SystemInv' /\ SystemGoesOn
<1>1. ASSUME UNCHANGED systemVars
      PROVE  SystemInv' /\ SystemGoesOn
  BY <1>1
  DEF SystemInv, ParentKnown, LauncherSeen, AdopterStays, SystemGoesOn,
      LauncherEnded
<1>2. ASSUME NEW d \in Daemons, Daemon(d)
      PROVE  UNCHANGED systemVars
  BY <1>2
  DEF Daemon, ReadSelf, OpenParentStat, ReadParentStat, Construct, RunLoop,
      OpenLock, CheckLockDir, MakeLockDir, TakeLock, LockWhen, SecurityChecks,
      InitLoop, BeginIteration, UpdateParent, CheckTimeout, LoopAction,
      ClosePipes, ReleaseLock, Exit, Die
<1>3. ASSUME NEW d \in Daemons, Terminate(d) \/ Kill(d) \/ Expire(d)
      PROVE  UNCHANGED systemVars
  BY <1>3 DEF Terminate, Kill, Expire, Die
<1>4. ASSUME NEW p \in Launchers,
             ParentReaped(p) \/ ParentStop(p) \/ ParentContinue(p) \/ PidReuse(p)
      PROVE  SystemInv' /\ SystemGoesOn
  <2>1. \A d \in Daemons : LauncherOf[d] = p =>
          /\ procs[p].stat \in {"Z", "-"} => LauncherEnded(d)
          /\ LauncherEnded(d) => procs[p].exe \in ReusedPaths \union {NoPath}
          /\ ~LauncherEnded(d) => procs[p].startTime = FirstStartTime
    BY DEF SystemInv, LauncherSeen
  <2>2. CASE ParentReaped(p)
    BY <2>1, <2>2, LauncherStep DEF ParentReaped
  <2>3. CASE ParentStop(p) \/ ParentContinue(p)
    BY <2>1, <2>3, LauncherStep DEF ParentStop, ParentContinue
  <2>4. CASE PidReuse(p)
    BY <2>1, <2>4, LauncherStep DEF PidReuse
  <2> QED
    BY <1>4, <2>2, <2>3, <2>4
<1> QED
  BY <1>1, <1>2, <1>3, <1>4, ExitStep DEF Next, Environment, vars

-----------------------------------------------------------------------------
(***************************************************************************)
(* The monitor of one daemon.                                              *)
(***************************************************************************)
\* The step has nothing to do with daemon d, or kills it.
Untouched(d) ==
    /\ pc'[d] = pc[d] \/ pc'[d] \in Dead
    /\ parentId'[d] = parentId[d] /\ parentProcess'[d] = parentProcess[d]
    /\ result'[d] = result[d] /\ staleActions'[d] = staleActions[d]
    /\ served \subseteq served'

\* A daemon that nothing happened to but by its launcher.
LEMMA UntouchedInv ==
    ASSUME SystemGoesOn, NEW d \in Daemons, MonitorInv(d), Untouched(d)
    PROVE  MonitorInv(d)'
<1>1. /\ LauncherEnded(d) => LauncherEnded(d)'
      /\ ~LauncherEnded(d)' =>
           procs'[LauncherOf[d]].exe = procs[LauncherOf[d]].exe
  BY DEF SystemGoesOn
<1>2. Dead \intersect (Inside \union Constructing \union Starting
                         \union {"timeout", "action", "lookup", "parse"}) = {}
  BY DEF Dead, Inside, Looping, Constructing, Starting
<1>3. ParentRead(d)'
  BY <1>1, <1>2 DEF MonitorInv, Untouched, ParentRead
<1>4. /\ pc'[d] \notin Starting \union Dead => Saved(d)'
      /\ pc'[d] \in Starting => parentProcess'[d] = InvalidData
  BY <1>1, <1>2 DEF MonitorInv, Untouched, Saved
<1>5. ParentAccepted(d)'
  BY <1>2 DEF MonitorInv, Untouched, ParentAccepted
<1>6. EndedOnce(d)'
  BY <1>1, <1>2 DEF MonitorInv, Untouched, EndedOnce
<1>7. StaleOnce(d)'
  BY <1>1, <1>2 DEF MonitorInv, Untouched, StaleOnce
<1> QED
  BY <1>3, <1>4, <1>5, <1>6, <1>7 DEF MonitorInv, Starting, Dead, InvalidData

\* A step of daemon d from one place to another, with all that it knows of its
\* parent as it was.
MovesOn(d) ==
    /\ UNCHANGED <<systemVars, monitorVars, staleActions>>
    /\ served \subseteq served'
    /\ pc[d] \notin Starting \union Dead /\ pc'[d] \notin Starting
    /\ pc'[d] \in Constructing => pc[d] \in Constructing /\ result'[d] = result[d]
    /\ pc'[d] \in Inside =>
         pc[d] \in Inside \/ (pc[d] = "flock" /\ lockOwner = NoLock)
    /\ pc'[d] \in Inside \ {"checks"} =>
         \/ pc[d] \in Inside \ {"checks"}
         \/ badParentPath \in EnabledChecks =>
              parentProcess[d].executablePath = RequiredParentPath
    /\ result'[d] = daemonParentEnded => result[d] = daemonParentEnded
    /\ pc'[d] \in {"timeout", "action"} =>
         pc[d] \in {"timeout", "action"} \/ ~LauncherRequired

\* Such a step keeps what is known of the parent.
LEMMA MovesOnInv ==
    ASSUME LockInv, NEW d \in Daemons, MonitorInv(d), MovesOn(d)
    PROVE  MonitorInv(d)'
<1>1. LauncherEnded(d)' <=> LauncherEnded(d)
  BY DEF MovesOn, LauncherEnded
<1>2. ParentRead(d)'
  BY <1>1 DEF MonitorInv, MovesOn, ParentRead, Starting
<1>3. Saved(d)'
  BY <1>1 DEF MonitorInv, MovesOn, Saved
<1>4. ParentAccepted(d)'
  BY DEF MonitorInv, MovesOn, ParentAccepted
<1>5. EndedOnce(d)'
  <2>1. pc[d] = "flock" /\ lockOwner = NoLock => d \notin served
    BY DEF LockInv, ServedHolds, Holds, Dead
  <2> QED
    BY <1>1, <2>1 DEF MonitorInv, MovesOn, EndedOnce
<1>6. StaleOnce(d)'
  BY <1>1 DEF MonitorInv, MovesOn, StaleOnce
<1>7. ~(pc'[d] \in Starting)
  BY DEF MovesOn
<1> QED
  BY <1>2, <1>3, <1>4, <1>5, <1>6, <1>7 DEF MonitorInv, Starting

\* Most steps of a daemon are of that kind.
LEMMA MovingSteps ==
    ASSUME LockInv, NEW d \in Daemons, MonitorInv(d),
           \/ Construct(d) \/ RunLoop(d) \/ OpenLock(d) \/ CheckLockDir(d)
           \/ MakeLockDir(d) \/ TakeLock(d) \/ SecurityChecks(d) \/ InitLoop(d)
           \/ CheckTimeout(d) \/ ClosePipes(d) \/ ReleaseLock(d)
    PROVE  MonitorInv(d)'
<1> USE DEF Starting, Dead, Constructing, Locking, Looping, Inside, NoResult,
            success, daemonAlreadyRunning, daemonParentEnded, LoopCodes
<1>0. /\ pc \in [Daemons -> Places]
      /\ result \in [Daemons -> Results]
  BY DEF LockInv, TypeOK
<1>c. ASSUME NEW to, Continue(d, to)
      PROVE  pc'[d] = to /\ UNCHANGED result
  BY <1>0, <1>c DEF Continue
<1>r. ASSUME NEW code, ReturnStopped(d, code) \/ ReturnRunning(d, code)
      PROVE  pc'[d] = "idle" /\ result'[d] = code
  BY <1>0, <1>r DEF ReturnStopped, ReturnRunning, Return
<1>1. CASE Construct(d)
  <2>1. MovesOn(d)
    BY <1>0, <1>1 DEF Construct, Goto, MovesOn
  <2> QED
    BY <2>1, MovesOnInv
<1>2. CASE RunLoop(d)
  <2>1. CASE pc'[d] = "idle" /\ result'[d] \in {success, daemonAlreadyRunning}
    BY <1>0, <1>2, <2>1, MovesOnInv DEF RunLoop, MovesOn
  <2>2. CASE pc'[d] = "open" /\ UNCHANGED result
    BY <1>0, <1>2, <2>2, MovesOnInv DEF RunLoop, MovesOn
  <2> QED
    BY <1>0, <1>2, <1>r, <2>1, <2>2 DEF RunLoop
<1>3. CASE OpenLock(d)
  <2>1. \/ pc'[d] \in {"flock", "stat", "open"} /\ UNCHANGED result
        \/ pc'[d] = "idle" /\ result'[d] \in {success, daemonAlreadyRunning}
    BY <1>3, <1>c, <1>r DEF OpenLock
  <2> QED
    BY <1>0, <1>3, <2>1, MovesOnInv DEF OpenLock, MovesOn
<1>4. CASE CheckLockDir(d)
  <2>1. pc'[d] \in {"open", "mkdir"} /\ UNCHANGED result
    BY <1>4, <1>c DEF CheckLockDir
  <2> QED
    BY <1>0, <1>4, <2>1, MovesOnInv DEF CheckLockDir, MovesOn
<1>5. CASE MakeLockDir(d)
  <2>1. \/ pc'[d] = "open" /\ UNCHANGED result
        \/ pc'[d] = "idle" /\ result'[d] = daemonAlreadyRunning
    BY <1>5, <1>c, <1>r DEF MakeLockDir
  <2> QED
    BY <1>0, <1>5, <2>1, MovesOnInv DEF MakeLockDir, MovesOn
<1>6. CASE TakeLock(d)
  <2>1. \/ pc'[d] = "checks" /\ UNCHANGED result /\ lockOwner = NoLock
        \/ pc'[d] = "idle" /\ result'[d] = daemonAlreadyRunning
    BY <1>6, <1>c, <1>r DEF TakeLock, LockWhen
  <2>2. served \subseteq served'
    BY <1>6 DEF TakeLock, LockWhen
  <2> QED
    BY <1>0, <1>6, <2>1, <2>2, MovesOnInv DEF TakeLock, LockWhen, MovesOn
<1>7. CASE SecurityChecks(d)
  <2>1. \/ pc'[d] = "idle" /\ result'[d] \in 0 .. 4
        \/ /\ pc'[d] = "init" /\ UNCHANGED result
           /\ badParentPath \in EnabledChecks =>
                parentProcess[d].executablePath = RequiredParentPath
    <3>1. PICK wrongPath \in SUBSET (EnabledChecks \intersect {badDaemonPath}),
               insecureDirs \in SUBSET InsecureDirs :
            LET failed == FailedChecks(d, wrongPath, insecureDirs)
            IN  IF failed # {}
                THEN \E code \in failed :
                        /\ \A other \in failed : code <= other
                        /\ ReturnStopped(d, code)
                ELSE IF termSignalReceived[d] # 0 THEN ReturnStopped(d, success)
                ELSE Continue(d, "init")
      BY <1>7 DEF SecurityChecks
    <3> DEFINE failed == FailedChecks(d, wrongPath, insecureDirs)
    <3>2. failed \subseteq 1 .. 4
      BY OptionsAssumption DEF FailedChecks, InsecureDirs
    <3>3. badParentPath \in EnabledChecks /\ badParentPath \notin failed =>
            parentProcess[d].executablePath = RequiredParentPath
      BY DEF FailedChecks, ParentSecured
    <3>4. CASE failed # {}
      <4>1. PICK code \in failed : ReturnStopped(d, code)
        BY <3>1, <3>4
      <4>2. code \in 0 .. 4
        BY <3>2
      <4> QED
        BY <1>r, <4>1, <4>2
    <3>5. CASE failed = {}
      BY <1>c, <1>r, <3>1, <3>3, <3>5
    <3> QED
      BY <3>4, <3>5
  <2>2. /\ pc[d] = "checks"
        /\ UNCHANGED <<systemVars, monitorVars, historyVars>>
    BY <1>7 DEF SecurityChecks
  <2>3. CASE pc'[d] = "idle" /\ result'[d] \in 0 .. 4
    <3>1. result'[d] # daemonParentEnded
      BY <2>3
    <3> QED
      BY <2>2, <2>3, <3>1, MovesOnInv DEF MovesOn
  <2>4. CASE /\ pc'[d] = "init" /\ UNCHANGED result
             /\ badParentPath \in EnabledChecks =>
                  parentProcess[d].executablePath = RequiredParentPath
    BY <2>2, <2>4, MovesOnInv DEF MovesOn
  <2> QED
    BY <2>1, <2>3, <2>4
<1>8. CASE InitLoop(d)
  <2>1. \/ pc'[d] = "loop" /\ UNCHANGED result
        \/ pc'[d] = "idle" /\ result'[d] \in LoopCodes
    BY <1>8, <1>c, <1>r DEF InitLoop
  <2>2. pc[d] = "init" /\ UNCHANGED <<systemVars, monitorVars, historyVars>>
    BY <1>8 DEF InitLoop
  <2>3. MovesOn(d)
    BY <2>1, <2>2 DEF MovesOn
  <2> QED
    BY <2>3, MovesOnInv
<1>9. CASE CheckTimeout(d)
  <2>1. \/ pc'[d] = "action" /\ UNCHANGED result
        \/ pc'[d] = "idle" /\ result'[d] = success
    BY <1>9, <1>c, <1>r DEF CheckTimeout
  <2>2. pc[d] = "timeout" /\ UNCHANGED <<systemVars, monitorVars, historyVars>>
    BY <1>9 DEF CheckTimeout
  <2>3. MovesOn(d)
    BY <2>1, <2>2 DEF MovesOn
  <2> QED
    BY <2>3, MovesOnInv
<1>10. CASE ClosePipes(d) \/ ReleaseLock(d)
  <2>1. MovesOn(d)
    BY <1>0, <1>10 DEF ClosePipes, ReleaseLock, Goto, MovesOn
  <2> QED
    BY <2>1, MovesOnInv
<1> QED
  BY <1>1, <1>2, <1>3, <1>4, <1>5, <1>6, <1>7, <1>8, <1>9, <1>10

\* A daemon in runLoop() past the lock has it, and so had its turn.
LEMMA InsideServed ==
    ASSUME LockInv, NEW d \in Daemons, pc[d] \in Inside
    PROVE  d \in served /\ Holds(d)
<1>1. lockOwner = <<d, lockFD[d]>> /\ lockFD[d] \in 1 .. MaxRuns
  BY DEF LockInv, InsideLocked, FileOpened
<1>2. lockOwner # NoLock
  BY <1>1, NoLockAssumption
<1> QED
  BY <1>1, <1>2 DEF Holds, LockInv, HolderServed

\* The process IDs that a monitor has to do with.
LEMMA PidFacts ==
    ASSUME TypeOK, NEW d \in Daemons
    PROVE  /\ DOMAIN procs = Pids /\ LauncherOf[d] \in Pids /\ Adopter \in Pids
           /\ LauncherOf[d] # Adopter /\ -1 \notin Pids
  BY ProcessAssumption DEF TypeOK, Pids, Launchers

\* The constructor reads the parent ID and then what the parent is, if it is
\* still there.
LEMMA StartingSteps ==
    ASSUME LockInv, SystemInv, NEW d \in Daemons, MonitorInv(d),
           ReadSelf(d) \/ OpenParentStat(d)
             \/ (ReadParentStat(d) /\ HasStat(procs, parentId[d]))
    PROVE  MonitorInv(d)'
<1>0. /\ TypeOK /\ pc \in [Daemons -> Places]
      /\ parentId \in [Daemons -> Pids \union {-1}]
      /\ DOMAIN parentProcess = Daemons
      /\ UNCHANGED <<systemVars, result, historyVars>>
  BY DEF LockInv, TypeOK, ReadSelf, OpenParentStat, ReadParentStat
<1>1. LauncherEnded(d)' <=> LauncherEnded(d)
  BY <1>0 DEF LauncherEnded
<1>2. /\ pc[d] \in Starting
      /\ pc'[d] \in {"lookup", "parse", "construct"}
      /\ parentProcess[d] = InvalidData
  BY <1>0
  DEF ReadSelf, OpenParentStat, ReadParentStat, Goto, Starting, MonitorInv
<1>3. ParentAccepted(d)' /\ EndedOnce(d)' /\ StaleOnce(d)'
  BY <1>0, <1>1, <1>2
  DEF MonitorInv, ParentAccepted, EndedOnce, StaleOnce, Starting, Inside,
      Looping, Constructing, NoResult, daemonParentEnded
<1>4. CASE ReadSelf(d)
  <2>1. parentId'[d] = parent[d] /\ pc'[d] = "lookup" /\ UNCHANGED parentProcess
    BY <1>0, <1>4 DEF ReadSelf, Goto
  <2>2. parent[d] \in {LauncherOf[d], Adopter}
    BY DEF SystemInv, ParentKnown
  <2>3. ParentRead(d)'
    BY <1>0, <1>1, <2>1, <2>2, PidFacts DEF ParentRead, LauncherEnded
  <2> QED
    BY <1>2, <1>3, <2>1, <2>3 DEF MonitorInv, Starting, InvalidData
<1>5. CASE OpenParentStat(d)
  <2>1. /\ pc[d] = "lookup" /\ UNCHANGED monitorVars
        /\ pc'[d] = IF HasStat(procs, parentId[d]) THEN "parse" ELSE "construct"
    BY <1>0, <1>5 DEF OpenParentStat, Goto
  <2>2. ParentRead(d)'
    BY <1>1, <2>1 DEF MonitorInv, ParentRead
  <2>3. ~HasStat(procs, parentId[d]) => LauncherEnded(d)
    BY <1>0, <2>1, PidFacts
    DEF MonitorInv, ParentRead, HasStat, SystemInv, LauncherSeen
  <2>4. ~HasStat(procs, parentId[d]) => Saved(d)'
    BY <1>1, <1>2, <2>1, <2>3 DEF Saved, InvalidData
  <2> QED
    BY <1>2, <1>3, <2>1, <2>2, <2>4 DEF MonitorInv, Starting, InvalidData
<1>6. CASE ReadParentStat(d) /\ HasStat(procs, parentId[d])
  <2>1. /\ pc[d] = "parse" /\ pc'[d] = "construct" /\ UNCHANGED parentId
        /\ parentProcess'[d] = ReadData(procs, parentId[d])
    BY <1>0, <1>6 DEF ReadParentStat
  <2>2. ParentRead(d)'
    BY <1>1, <2>1 DEF MonitorInv, ParentRead
  <2>3. /\ parentProcess'[d].processId = parentId[d]
        /\ parentProcess'[d].executablePath = procs[parentId[d]].exe
        /\ parentProcess'[d].startTime = procs[parentId[d]].startTime
    BY <1>6, <2>1 DEF ReadData
  <2>4. Saved(d)'
    BY <1>0, <1>1, <2>1, <2>3
    DEF MonitorInv, ParentRead, Saved, SystemInv, AdopterStays, LauncherSeen
  <2> QED
    BY <1>3, <2>1, <2>2, <2>4 DEF MonitorInv, Starting
<1> QED
  BY <1>4, <1>5, <1>6

\* A daemon that finds no parent at the beginning of an iteration has lost it.
LEMMA BeginInv ==
    ASSUME LockInv, SystemInv, NEW d \in Daemons, MonitorInv(d),
           BeginIteration(d)
    PROVE  MonitorInv(d)'
<1>0. /\ TypeOK /\ pc \in [Daemons -> Places] /\ result \in [Daemons -> Results]
      /\ DOMAIN parentProcess = Daemons
      /\ UNCHANGED <<systemVars, parentId, historyVars>> /\ pc[d] = "loop"
  BY DEF LockInv, TypeOK, BeginIteration
<1> USE DEF Starting, Dead, Constructing, Looping, Inside, NoResult, success,
            daemonParentEnded
<1>1. CASE pc'[d] = "idle" /\ result'[d] = success /\ UNCHANGED parentProcess
  BY <1>0, <1>1, MovesOnInv DEF MovesOn
<1>2. CASE /\ pc'[d] \in {"timeout", "update"} /\ UNCHANGED <<result, parentProcess>>
           /\ pc'[d] = "timeout" => ~RequireRunningParent
  BY <1>0, <1>2, MovesOnInv DEF MovesOn, LauncherRequired
<1>3. CASE /\ ~HasStat(procs, parentProcess[d].processId)
           /\ pc'[d] = "idle" /\ result'[d] = daemonParentEnded
           /\ parentProcess'[d] = InvalidData
  <2>1. LauncherEnded(d) /\ LauncherEnded(d)'
    <3>1. Saved(d)
      BY <1>0 DEF MonitorInv
    <3> QED
      BY <1>0, <1>3, <3>1, PidFacts
      DEF Saved, HasStat, SystemInv, LauncherSeen, LauncherEnded
  <2>2. d \in served'
    BY <1>0, InsideServed
  <2>3. ParentRead(d)'
    BY <1>0, <1>3, <2>1 DEF MonitorInv, ParentRead
  <2>4. Saved(d)'
    BY <1>3, <2>1 DEF Saved, InvalidData
  <2>5. ParentAccepted(d)' /\ EndedOnce(d)'
    BY <1>3, <2>1, <2>2 DEF ParentAccepted, EndedOnce
  <2>6. StaleOnce(d)'
    BY <1>0, <1>3, <2>1 DEF MonitorInv, StaleOnce
  <2> QED
    BY <1>3, <2>3, <2>4, <2>5, <2>6 DEF MonitorInv
<1> QED
  BY <1>0, <1>1, <1>2, <1>3
  DEF BeginIteration, ReturnStopped, Return, Continue

\* An update finds the parent as it was saved, or that the launcher has ended.
LEMMA UpdateInv ==
    ASSUME LockInv, SystemInv, NEW d \in Daemons, MonitorInv(d),
           UpdateParent(d), HasStat(procs, parentProcess[d].processId)
    PROVE  MonitorInv(d)'
<1> DEFINE saved == parentProcess[d]
           read == ReadData(procs, saved.processId)
           data == Updated(procs, saved)
<1>0. /\ TypeOK /\ pc \in [Daemons -> Places] /\ result \in [Daemons -> Results]
      /\ DOMAIN parentProcess = Daemons
      /\ UNCHANGED <<systemVars, parentId, historyVars>> /\ pc[d] = "update"
  BY DEF LockInv, TypeOK, UpdateParent
<1> USE DEF Starting, Dead, Constructing, Looping, Inside, NoResult,
            daemonParentEnded
<1>1. /\ parentProcess'[d] = data
      /\ \/ /\ CountsAsRunning(data)
            /\ pc'[d] = "timeout" /\ UNCHANGED result
         \/ /\ ~CountsAsRunning(data)
            /\ pc'[d] = "idle" /\ result'[d] = daemonParentEnded
  BY <1>0 DEF UpdateParent, Continue, ReturnStopped, Return
<1>2. /\ read.processId = saved.processId
      /\ read.executablePath = procs[saved.processId].exe
      /\ read.lastState = readStateChar(procs[saved.processId].stat)
      /\ read.startTime = procs[saved.processId].startTime
  BY DEF ReadData
<1>3. data = IF read.executablePath = saved.executablePath
             THEN read ELSE InvalidData
  BY DEF Updated
<1>4. /\ Saved(d)
      /\ LauncherEnded(d)' <=> LauncherEnded(d)
  BY <1>0 DEF MonitorInv, LauncherEnded
<1> HIDE DEF read, data
<1>5. saved.processId \in {LauncherOf[d], Adopter}
  BY <1>0, <1>4, PidFacts DEF Saved, HasStat, InvalidData
<1>6. \/ LauncherEnded(d)
      \/ /\ saved.processId = LauncherOf[d] /\ data = read
         /\ read.executablePath = procs[LauncherOf[d]].exe
  BY <1>2, <1>3, <1>4 DEF Saved
<1>7. ParentRead(d)'
  BY <1>0, <1>1, <1>4 DEF MonitorInv, ParentRead
<1>8. Saved(d)'
  <2>1. CASE data = InvalidData
    BY <1>0, <1>1, <1>2, <1>4, <1>6, <2>1 DEF Saved, InvalidData
  <2>2. CASE data = read
    <3>1. saved.processId = LauncherOf[d] =>
            \/ read.startTime = FirstStartTime
            \/ read.executablePath \in ReusedPaths \union {NoPath}
      BY <1>2 DEF SystemInv, LauncherSeen
    <3>2. saved.processId = Adopter =>
            LauncherEnded(d) /\ read.executablePath = AdopterPath
      BY <1>0, <1>2, <1>4, PidFacts
      DEF Saved, SystemInv, AdopterStays, InvalidData
    <3> QED
      BY <1>0, <1>1, <1>2, <1>4, <1>5, <1>6, <2>2, <3>1, <3>2 DEF Saved
  <2> QED
    BY <1>3, <2>1, <2>2
<1>9. CountsAsRunning(data) => data = read /\ read.executablePath = saved.executablePath
  BY <1>3 DEF CountsAsRunning, InvalidData
<1>10. ParentAccepted(d)'
  BY <1>0, <1>1, <1>9 DEF MonitorInv, ParentAccepted
<1>11. EndedOnce(d)'
  <2>1. d \in served' /\ result[d] # daemonParentEnded
    BY <1>0, InsideServed DEF MonitorInv, EndedOnce
  <2>2. ~CountsAsRunning(data) => LauncherEnded(d) \/ data.lastState = "stopped"
    <3>1. SUFFICES ASSUME ~LauncherEnded(d), ~CountsAsRunning(data)
                   PROVE  data.lastState = "stopped"
      OBVIOUS
    <3>2. data = read /\ saved.processId = LauncherOf[d]
      BY <1>6, <3>1
    <3>3. /\ procs[LauncherOf[d]].stat \in {"S", "T", "Z", "-"}
          /\ procs[LauncherOf[d]].stat \notin {"Z", "-"}
      BY <1>0, <3>1, PidFacts DEF SystemInv, LauncherSeen, TypeOK
    <3>4. read.lastState \in {"sleeping", "stopped"}
      BY <1>2, <3>2, <3>3 DEF readStateChar
    <3> QED
      BY <3>1, <3>2, <3>4 DEF CountsAsRunning
  <2> QED
    BY <1>1, <1>4, <2>1, <2>2 DEF MonitorInv, EndedOnce
<1>12. StaleOnce(d)'
  <2>1. CASE pc'[d] = "idle"
    BY <1>0, <1>4, <2>1 DEF MonitorInv, StaleOnce
  <2>2. CASE CountsAsRunning(data)
    <3>1. LauncherRequired => ~LauncherEnded(d)
      <4>1. SUFFICES ASSUME LauncherRequired, LauncherEnded(d)
                     PROVE  FALSE
        OBVIOUS
      <4>2. saved.executablePath = RequiredParentPath
        BY <1>0, <4>1 DEF LauncherRequired, MonitorInv, ParentAccepted
      <4>3. saved.processId = LauncherOf[d]
        BY <1>4, <4>2, ParentPathAssumption DEF Saved, InvalidData
      <4>4. procs[LauncherOf[d]].exe = RequiredParentPath
        BY <1>2, <1>9, <2>2, <4>2, <4>3
      <4> QED
        BY <4>1, <4>4, ParentPathAssumption
        DEF LauncherRequired, SystemInv, LauncherSeen
    <3> QED
      BY <1>0, <1>4, <3>1 DEF MonitorInv, StaleOnce
  <2> QED
    BY <1>1, <2>1, <2>2
<1> QED
  BY <1>1, <1>7, <1>8, <1>10, <1>11, <1>12 DEF MonitorInv

\* The action that the last check has let through is the only one.
LEMMA ActionInv ==
    ASSUME LockInv, NEW d \in Daemons, MonitorInv(d), LoopAction(d)
    PROVE  MonitorInv(d)'
<1>0. /\ pc \in [Daemons -> Places] /\ result \in [Daemons -> Results]
      /\ staleActions \in [Daemons -> 0 .. 2]
      /\ UNCHANGED <<systemVars, monitorVars, served>> /\ pc[d] = "action"
  BY DEF LockInv, TypeOK, LoopAction
<1> USE DEF Starting, Dead, Constructing, Looping, Inside, NoResult, LoopCodes,
            daemonParentEnded
<1>1. \/ pc'[d] = "loop" /\ UNCHANGED result
      \/ pc'[d] = "idle" /\ result'[d] \in LoopCodes
  BY <1>0 DEF LoopAction, Continue, ReturnStopped, Return
<1>2. LauncherEnded(d)' <=> LauncherEnded(d)
  BY <1>0 DEF LauncherEnded
<1>3. /\ ParentRead(d)' /\ ParentAccepted(d)' /\ EndedOnce(d)' /\ Saved(d)'
  BY <1>0, <1>1, <1>2
  DEF MonitorInv, ParentRead, ParentAccepted, EndedOnce, Saved
<1>4. StaleOnce(d)'
  <2>1. LauncherRequired => staleActions[d] = 0
    BY <1>0 DEF MonitorInv, StaleOnce
  <2>2. staleActions'[d] = IF LauncherEnded(d) /\ staleActions[d] < 2
                           THEN staleActions[d] + 1 ELSE staleActions[d]
    BY <1>0 DEF LoopAction
  <2>3. staleActions[d] = 0 =>
          /\ staleActions'[d] \in {0, 1}
          /\ staleActions'[d] = 1 => LauncherEnded(d)
    BY <2>2
  <2> QED
    BY <1>1, <1>2, <2>1, <2>3 DEF StaleOnce
<1> QED
  BY <1>1, <1>3, <1>4 DEF MonitorInv

\* What a daemon does is nothing to the monitors of the others.
LEMMA OthersUntouched ==
    ASSUME TypeOK, NEW d \in Daemons, Daemon(d), NEW e \in Daemons, e # d
    PROVE  Untouched(e) /\ pc'[e] = pc[e] /\ loopRunning'[e] = loopRunning[e]
<1>1. CASE \/ ReadSelf(d) \/ OpenParentStat(d) \/ ReadParentStat(d)
           \/ Construct(d) \/ RunLoop(d) \/ OpenLock(d) \/ CheckLockDir(d)
           \/ MakeLockDir(d) \/ TakeLock(d)
  BY <1>1
  DEF ReadSelf, OpenParentStat, ReadParentStat, Construct, RunLoop, OpenLock,
      CheckLockDir, MakeLockDir, TakeLock, LockWhen, Goto, Continue, Return,
      ReturnStopped, ReturnRunning, Die, TypeOK, Untouched
<1>2. CASE SecurityChecks(d) \/ InitLoop(d) \/ CheckTimeout(d) \/ LoopAction(d)
  BY <1>2
  DEF SecurityChecks, InitLoop, CheckTimeout, LoopAction, Continue, Return,
      ReturnStopped, ReturnRunning, TypeOK, Untouched
<1>3. CASE BeginIteration(d) \/ UpdateParent(d)
  BY <1>3
  DEF BeginIteration, UpdateParent, Continue, Return, ReturnStopped, Die,
      TypeOK, Untouched
<1>4. CASE ClosePipes(d) \/ ReleaseLock(d) \/ Exit(d)
  BY <1>4 DEF ClosePipes, ReleaseLock, Exit, Goto, Die, TypeOK, Untouched
<1> QED
  BY <1>1, <1>2, <1>3, <1>4 DEF Daemon

\* The end of a process leaves its monitor.
LEMMA DieUntouched ==
    ASSUME TypeOK, NEW d \in Daemons, NEW e \in Daemons, NEW how \in Dead,
           Die(e, how), UNCHANGED monitorVars
    PROVE  Untouched(d)
  BY DEF Die, TypeOK, Untouched

\* Every step of a daemon keeps what it knows of its parent.
LEMMA OwnStepInv ==
    ASSUME LockInv, SystemInv, SystemGoesOn, NEW d \in Daemons, MonitorInv(d),
           Daemon(d)
    PROVE  MonitorInv(d)'
<1>0. TypeOK
  BY DEF LockInv
<1>1. CASE ReadParentStat(d) /\ ~HasStat(procs, parentId[d])
  BY <1>0, <1>1, DieUntouched, UntouchedInv DEF ReadParentStat, Dead
<1>2. CASE UpdateParent(d)
  BY <1>0, <1>2, DieUntouched, UntouchedInv, UpdateInv DEF UpdateParent, Dead
<1>3. CASE Exit(d)
  BY <1>0, <1>3, DieUntouched, UntouchedInv DEF Exit, Dead
<1> QED
  BY <1>1, <1>2, <1>3, StartingSteps, MovingSteps, BeginInv, ActionInv
  DEF Daemon

\* So does every step of the system.
LEMMA ParentInvNext == ParentInv /\ [Next]_vars => ParentInv'
<1> SUFFICES ASSUME ParentInv, [Next]_vars PROVE ParentInv'
  OBVIOUS
<1>1. LockInv'
  BY LockInvNext DEF ParentInv
<1>2. SystemInv' /\ SystemGoesOn
  BY SystemNext DEF ParentInv, LockInv
<1>3. ASSUME NEW d \in Daemons
      PROVE  MonitorInv(d)'
  <2>1. LockInv /\ TypeOK /\ SystemInv /\ MonitorInv(d)
    BY DEF ParentInv, LockInv
  <2>2. CASE UNCHANGED daemonVars
    BY <1>2, <2>1, <2>2, UntouchedInv DEF Untouched
  <2>3. ASSUME NEW e \in Daemons, Daemon(e)
        PROVE  MonitorInv(d)'
    BY <1>2, <2>1, <2>3, OthersUntouched, UntouchedInv, OwnStepInv
  <2>4. ASSUME NEW e \in Daemons, Terminate(e) \/ Kill(e) \/ Expire(e)
        PROVE  Untouched(d)
    BY <2>1, <2>4, DieUntouched
    DEF Terminate, Kill, Expire, Dead, Untouched
  <2>5. ASSUME NEW p \in Launchers,
               ParentExit(p) \/ ParentReaped(p) \/ ParentStop(p)
                 \/ ParentContinue(p) \/ PidReuse(p)
        PROVE  UNCHANGED daemonVars
    BY <2>5
    DEF ParentExit, ParentReaped, ParentStop, ParentContinue, PidReuse,
        SetProcess
  <2> QED
    BY <1>2, <2>1, <2>2, <2>3, <2>4, <2>5, UntouchedInv
    DEF Next, Environment, vars
<1> QED
  BY <1>1, <1>2, <1>3 DEF ParentInv

\* At first every launcher runs and no daemon knows it.
LEMMA ParentInvInit == Init => ParentInv
<1> SUFFICES ASSUME Init PROVE ParentInv
  OBVIOUS
<1>1. SystemInv
  <2>1. /\ \A q \in Pids : procs[q].stat = "S" /\ procs[q].startTime = FirstStartTime
        /\ procs[Adopter].exe = AdopterPath /\ parent = LauncherOf
    BY DEF Init
  <2>2. Adopter \in Pids /\ \A d \in Daemons : LauncherOf[d] \in Pids
    BY DEF Pids, Launchers
  <2> QED
    BY <2>1, <2>2
    DEF SystemInv, ParentKnown, LauncherSeen, AdopterStays, LauncherEnded
<1>2. ASSUME NEW d \in Daemons
      PROVE  MonitorInv(d)
  <2>1. /\ pc[d] = "born" /\ parentId[d] = -1 /\ parentProcess[d] = InvalidData
        /\ result[d] = NoResult /\ staleActions[d] = 0
    BY DEF Init
  <2>2. "born" \notin Inside
    BY DEF Inside, Looping
  <2> QED
    BY <2>1, <2>2, ProcessAssumption
    DEF MonitorInv, ParentRead, ParentAccepted, EndedOnce, StaleOnce, Starting,
        NoResult, daemonParentEnded
<1> QED
  BY <1>1, <1>2, LockInvInit DEF ParentInv

-----------------------------------------------------------------------------
(***************************************************************************)
(* The theorems about the parent process.                                  *)
(***************************************************************************)
\* The invariant holds in every behaviour of the daemons and their launchers.
THEOREM ParentCorrect == Spec => []ParentInv
<1> QED
  BY ParentInvInit, ParentInvNext, PTL DEF Spec

\* A daemon whose parent's path is checked watches, in initLoop() and its loop,
\* the very process that launched it, by its ID and its start time, unless the
\* required program itself may be given the ID of a process that has ended.
THEOREM WatchesLauncherCorrect == Spec => []WatchesLauncher
<1>1. ParentInv => WatchesLauncher
  <2> SUFFICES ASSUME ParentInv, badParentPath \in EnabledChecks,
                      RequiredParentPath \notin ReusedPaths,
                      NEW d \in Daemons, pc[d] \in Inside \ {"checks"}
               PROVE  /\ parentProcess[d].processId = LauncherOf[d]
                      /\ parentProcess[d].startTime = FirstStartTime
    BY DEF WatchesLauncher
  <2>1. MonitorInv(d)
    BY DEF ParentInv
  <2>2. pc[d] \notin Starting \union Dead
    BY DEF Inside, Looping, Starting, Dead
  <2>3. parentProcess[d].executablePath = RequiredParentPath
    BY <2>1 DEF MonitorInv, ParentAccepted
  <2> QED
    BY <2>1, <2>2, <2>3, ParentPathAssumption DEF MonitorInv, Saved, InvalidData
<1> QED
  BY <1>1, ParentCorrect, PTL

\* A daemon returns daemonParentEnded only when its launcher has exited, or when
\* the process it watches was stopped as its state was last read.
THEOREM ParentEndedCorrect == Spec => []ParentEndedIsTrue
<1>1. ParentInv => ParentEndedIsTrue
  BY DEF ParentInv, MonitorInv, EndedOnce, ParentEndedIsTrue
<1> QED
  BY <1>1, ParentCorrect, PTL

\* At most one action begins after the launcher has ended, if the parent's path
\* is checked, the parent must run, and its process ID is never used again by
\* the required program itself.
THEOREM StaleActionCorrect ==
    ASSUME LauncherRequired
    PROVE  Spec => []StaleActionBound
<1>1. ParentInv => StaleActionBound
  BY DEF ParentInv, MonitorInv, StaleOnce, StaleActionBound
<1> QED
  BY <1>1, ParentCorrect, PTL

-----------------------------------------------------------------------------
(***************************************************************************)
(* The race for the lock and its directory.                                *)
(***************************************************************************)
RacePlaces == {"open", "flock", "killed", "crashed"}

\* No step of another daemon than d changes what the race depends on.
OthersRace(d) ==
    \A e \in Daemons \ {d} :
        /\ pc'[e] = pc[e] /\ result'[e] = result[e]
        /\ loopRunning'[e] = loopRunning[e]

\* A step of daemon d with which it does not lose the race anew, and does not
\* leave the lock to nobody.
KeepsRace(d) ==
    /\ OthersRace(d)
    /\ UNCHANGED lockDirExists
    /\ pc'[d] = "mkdir" => ~lockDirExists
    /\ result'[d] = daemonAlreadyRunning =>
         \/ result[d] = daemonAlreadyRunning
         \/ lockDirExists /\ pc[d] = "mkdir"
    /\ pc[d] \in RacePlaces => pc'[d] \in RacePlaces \/ ~lockDirExists

\* A step with which it creates the directory.
MakesDir(d) == OthersRace(d) /\ lockDirExists' /\ pc'[d] = "open"

\* Of the daemons that cannot lose any more, one remains.
LEMMA MakerNext ==
    ASSUME MakerGoesOn, NEW d \in Daemons, KeepsRace(d) \/ MakesDir(d),
           served \subseteq served'
    PROVE  MakerGoesOn'
<1>1. CASE MakesDir(d)
  BY <1>1 DEF MakesDir, MakerGoesOn
<1>2. CASE KeepsRace(d)
  <2>1. SUFFICES ASSUME served' = {}, "fileError" \notin Faults,
                        NEW e \in Daemons,
                        \/ result'[e] = daemonAlreadyRunning
                        \/ lockDirExists' /\ pc'[e] = "mkdir"
                 PROVE  /\ lockDirExists'
                        /\ \E c \in Daemons :
                             pc'[c] \in {"open", "flock", "killed", "crashed"}
    BY DEF MakerGoesOn
  <2>2. \/ result[e] = daemonAlreadyRunning
        \/ lockDirExists /\ pc[e] = "mkdir"
    BY <1>2, <2>1 DEF KeepsRace, OthersRace
  <2>3. lockDirExists /\ \E c \in Daemons : pc[c] \in RacePlaces
    BY <2>1, <2>2 DEF MakerGoesOn, RacePlaces
  <2> QED
    BY <1>2, <2>3 DEF KeepsRace, OthersRace, RacePlaces
<1> QED
  BY <1>1, <1>2

\* No flag of SIGTERM is ever set, because the disposition stays the default.
LEMMA SignalNext == LockInv /\ NoTermSignal /\ [Next]_vars => NoTermSignal'
<1> SUFFICES ASSUME LockInv, NoTermSignal, [Next]_vars PROVE NoTermSignal'
  OBVIOUS
<1>0. TypeOK /\ pc \in [Daemons -> Places]
  BY DEF LockInv, TypeOK
<1>i. /\ "construct" \notin {"idle"} \union InRunLoop
      /\ Dead \intersect ({"idle"} \union InRunLoop) = {}
      /\ Constructing \intersect ({"idle"} \union InRunLoop) = {}
      /\ {"unlock", "exit"} \intersect ({"idle"} \union InRunLoop) = {}
  BY DEF InRunLoop, Inside, Looping, Locking, Dead, Constructing
<1>1. ASSUME UNCHANGED <<disposition, termSignalReceived>>,
             \A d \in Daemons : pc'[d] \in {"idle"} \union InRunLoop =>
                                  pc[d] \in {"idle"} \union InRunLoop
      PROVE  NoTermSignal'
  BY <1>1 DEF NoTermSignal
<1>2. ASSUME NEW d \in Daemons, NEW how \in Dead, Die(d, how)
      PROVE  NoTermSignal'
  BY <1>0, <1>1, <1>2, <1>i DEF Die
<1>3. ASSUME NEW d \in Daemons, Construct(d)
      PROVE  NoTermSignal'
  BY <1>0, <1>3 DEF Construct, Goto, LockInv, TypeOK, NoTermSignal
<1>4. ASSUME NEW d \in Daemons,
             ReadSelf(d) \/ OpenParentStat(d) \/ ReadParentStat(d)
      PROVE  NoTermSignal'
  <2>1. CASE pc' = [pc EXCEPT ![d] = "lookup"] \/ pc' = [pc EXCEPT ![d] = "parse"]
             \/ pc' = [pc EXCEPT ![d] = "construct"]
    <3>1. UNCHANGED <<disposition, termSignalReceived>>
      BY <1>4 DEF ReadSelf, OpenParentStat, ReadParentStat, Die
    <3> QED
      BY <1>0, <1>1, <1>i, <2>1, <3>1 DEF Constructing
  <2> QED
    BY <1>2, <1>4, <2>1 DEF ReadSelf, OpenParentStat, ReadParentStat, Goto, Dead
<1>5. ASSUME NEW d \in Daemons,
             \/ RunLoop(d) \/ OpenLock(d) \/ CheckLockDir(d) \/ MakeLockDir(d)
             \/ TakeLock(d) \/ SecurityChecks(d) \/ InitLoop(d)
             \/ BeginIteration(d) \/ CheckTimeout(d) \/ LoopAction(d)
      PROVE  NoTermSignal'
  <2>1. UNCHANGED <<disposition, termSignalReceived>>
    BY <1>5
    DEF RunLoop, OpenLock, CheckLockDir, MakeLockDir, TakeLock, LockWhen,
        SecurityChecks, InitLoop, BeginIteration, CheckTimeout, LoopAction
  <2>2. pc[d] \in {"idle"} \union InRunLoop
    BY <1>5
    DEF RunLoop, OpenLock, CheckLockDir, MakeLockDir, TakeLock, LockWhen,
        SecurityChecks, InitLoop, BeginIteration, CheckTimeout, LoopAction,
        InRunLoop, Inside, Looping, Locking
  <2>3. \A e \in Daemons \ {d} : pc'[e] = pc[e]
    <3>1. Daemon(d)
      BY <1>5 DEF Daemon
    <3> QED
      BY <3>1, DaemonStep DEF KeepsLock, TakesLock, LetsGo, OthersSame
  <2> QED
    BY <1>1, <2>1, <2>2, <2>3
<1>6. ASSUME NEW d \in Daemons, UpdateParent(d)
      PROVE  NoTermSignal'
  <2>1. CASE HasStat(procs, parentProcess[d].processId)
    <3>1. /\ UNCHANGED <<disposition, termSignalReceived>>
          /\ \A e \in Daemons \ {d} : pc'[e] = pc[e]
      BY <1>0, <1>6, <2>1 DEF UpdateParent, Continue, ReturnStopped, Return
    <3>2. pc[d] \in InRunLoop
      BY <1>6 DEF UpdateParent, InRunLoop, Inside, Looping
    <3> QED
      BY <1>1, <3>1, <3>2
  <2> QED
    BY <1>2, <1>6, <2>1 DEF UpdateParent, Dead
<1>7. ASSUME NEW d \in Daemons, ClosePipes(d) \/ ReleaseLock(d)
      PROVE  NoTermSignal'
  BY <1>0, <1>1, <1>7, <1>i DEF ClosePipes, ReleaseLock, Goto
<1>8. ASSUME NEW d \in Daemons, Terminate(d) \/ Kill(d) \/ Exit(d)
      PROVE  NoTermSignal'
  BY <1>2, <1>8 DEF Terminate, Kill, Exit, NoTermSignal, Dead
<1>9. CASE UNCHANGED <<pc, disposition, termSignalReceived>>
  BY <1>1, <1>9
<1> QED
  BY <1>3, <1>4, <1>5, <1>6, <1>7, <1>8, <1>9
  DEF Next, Environment, Daemon, Expire, ParentExit, ParentReaped, ParentStop,
      ParentContinue, PidReuse, SetProcess, vars

\* While nobody has had the lock, a step of a daemon keeps the race going, and
\* runLoop() returns with loopRunning set only to those who have lost.
LEMMA RaceStep ==
    ASSUME RaceInv, NEW d \in Daemons, Daemon(d),
           served' = {}, "fileError" \notin Faults
    PROVE  /\ KeepsRace(d) \/ MakesDir(d)
           /\ loopRunning'[d] /\ pc'[d] = "idle" =>
                result'[d] = daemonAlreadyRunning
<1>0. /\ LockInv /\ TypeOK
      /\ pc \in [Daemons -> Places] /\ result \in [Daemons -> Results]
      /\ loopRunning \in [Daemons -> BOOLEAN]
  BY DEF RaceInv, LockInv, TypeOK
<1> USE DEF RacePlaces, success, daemonAlreadyRunning, daemonParentEnded
<1>1. OthersRace(d)
  BY <1>0, OthersUntouched DEF OthersRace, Untouched
<1>2. served = {} /\ lockOwner = NoLock
  <2>1. served = {}
    BY <1>0, DaemonStep DEF KeepsLock, TakesLock, LetsGo
  <2>2. \A e \in Daemons : ~Holds(e)
    BY <1>0, <2>1 DEF LockInv, HolderServed
  <2> QED
    BY <1>0, <2>1, <2>2 DEF Holds, TypeOK
<1>3. pc[d] \notin Inside
  BY <1>0, <1>2, InsideServed
<1>i. {"checks", "init", "loop", "update", "timeout", "action"} = Inside
  BY DEF Inside, Looping
<1>4. CASE ReadSelf(d) \/ OpenParentStat(d) \/ ReadParentStat(d) \/ Construct(d)
  <2>1. /\ UNCHANGED <<result, loopRunning, lockDirExists>>
        /\ pc[d] \in Constructing /\ pc'[d] \in Constructing \union {"crashed", "idle"}
    BY <1>0, <1>4
    DEF ReadSelf, OpenParentStat, ReadParentStat, Construct, Goto, Die,
        Constructing
  <2>2. ~loopRunning[d]
    BY <2>1 DEF RaceInv, FlagOfRefused
  <2> QED
    BY <1>1, <2>1, <2>2 DEF KeepsRace, Constructing
<1>5. CASE RunLoop(d)
  <2>1. pc[d] = "idle" /\ termSignalReceived[d] = 0 /\ UNCHANGED lockDirExists
    BY <1>5 DEF RunLoop, RaceInv, NoTermSignal
  <2>2. CASE loopRunning[d]
    <3>1. result[d] = daemonAlreadyRunning
      BY <1>2, <2>1, <2>2 DEF RaceInv, FlagOfRefused
    <3>2. pc'[d] = "idle" /\ result'[d] = daemonAlreadyRunning
      BY <1>0, <1>5, <2>2 DEF RunLoop, ReturnRunning, Return
    <3> QED
      BY <1>1, <2>1, <3>1, <3>2 DEF KeepsRace
  <2>3. CASE ~loopRunning[d]
    <3>1. pc'[d] = "open" /\ UNCHANGED result
      BY <1>0, <1>5, <2>1, <2>3 DEF RunLoop
    <3> QED
      BY <1>1, <2>1, <3>1 DEF KeepsRace
  <2> QED
    BY <2>2, <2>3
<1>6. CASE OpenLock(d)
  <2>1. /\ pc[d] = "open" /\ termSignalReceived[d] = 0 /\ UNCHANGED lockDirExists
    BY <1>6 DEF OpenLock, RaceInv, NoTermSignal, InRunLoop, Locking
  <2>2. /\ UNCHANGED result
        /\ pc'[d] \in {"flock", "open"} \/ (pc'[d] = "stat" /\ ~lockDirExists)
    BY <1>0, <1>6, <2>1 DEF OpenLock, Continue
  <2> QED
    BY <1>1, <2>1, <2>2 DEF KeepsRace
<1>7. CASE CheckLockDir(d)
  <2>1. /\ pc[d] = "stat" /\ UNCHANGED <<result, lockDirExists>>
        /\ pc'[d] = IF lockDirExists THEN "open" ELSE "mkdir"
    BY <1>0, <1>7 DEF CheckLockDir, Continue
  <2> QED
    BY <1>1, <2>1 DEF KeepsRace
<1>8. CASE MakeLockDir(d)
  <2>1. CASE ~lockDirExists
    <3>1. lockDirExists' /\ pc'[d] = "open"
      BY <1>0, <1>8, <2>1 DEF MakeLockDir, Continue
    <3> QED
      BY <1>1, <3>1 DEF MakesDir
  <2>2. CASE lockDirExists
    <3>1. /\ pc[d] = "mkdir" /\ pc'[d] = "idle" /\ UNCHANGED lockDirExists
          /\ result'[d] = daemonAlreadyRunning
      BY <1>0, <1>8, <2>2 DEF MakeLockDir, ReturnRunning, Return
    <3> QED
      BY <1>1, <2>2, <3>1 DEF KeepsRace
  <2> QED
    BY <2>1, <2>2
<1>9. CASE TakeLock(d)
  <2>1. d \in served'
    BY <1>2, <1>9 DEF TakeLock, LockWhen
  <2> QED
    BY <2>1
<1>10. CASE \/ SecurityChecks(d) \/ InitLoop(d) \/ BeginIteration(d)
            \/ UpdateParent(d) \/ CheckTimeout(d) \/ LoopAction(d)
  BY <1>3, <1>10, <1>i
  DEF SecurityChecks, InitLoop, BeginIteration, UpdateParent, CheckTimeout,
      LoopAction
<1>11. CASE ClosePipes(d) \/ ReleaseLock(d) \/ Exit(d)
  <2>1. /\ pc[d] \in {"idle", "unlock", "exit"}
        /\ pc'[d] \in {"unlock", "exit", "ended"}
        /\ UNCHANGED <<result, lockDirExists>>
    BY <1>0, <1>11 DEF ClosePipes, ReleaseLock, Exit, Goto, Die
  <2> QED
    BY <1>1, <2>1 DEF KeepsRace
<1> QED
  BY <1>4, <1>5, <1>6, <1>7, <1>8, <1>9, <1>10, <1>11 DEF Daemon

\* runLoop() has not been called of an object that is not there yet.
LEMMA NotCalledYet ==
    ASSUME LockInv, FlagOfRefused, [Next]_vars, NEW d \in Daemons,
           pc'[d] \in Constructing
    PROVE  ~loopRunning'[d] /\ result'[d] = NoResult
<1>0. TypeOK /\ pc \in [Daemons -> Places]
  BY DEF LockInv, TypeOK
<1> USE DEF Constructing
<1>1. ASSUME pc[d] \in Constructing, loopRunning'[d] = loopRunning[d],
             result'[d] = result[d]
      PROVE  ~loopRunning'[d] /\ result'[d] = NoResult
  BY <1>1 DEF FlagOfRefused
<1>2. ASSUME NEW e \in Daemons, Daemon(e), e # d
      PROVE  ~loopRunning'[d] /\ result'[d] = NoResult
  BY <1>0, <1>1, <1>2, OthersUntouched DEF Untouched
<1>3. CASE Daemon(d)
  <2>1. CASE \/ ReadSelf(d) \/ OpenParentStat(d) \/ ReadParentStat(d)
             \/ Construct(d)
    BY <1>0, <1>1, <2>1
    DEF ReadSelf, OpenParentStat, ReadParentStat, Construct, Goto, Die
  <2>2. CASE RunLoop(d) \/ OpenLock(d) \/ CheckLockDir(d) \/ MakeLockDir(d)
    BY <1>0, <2>2
    DEF RunLoop, OpenLock, CheckLockDir, MakeLockDir, Continue, ReturnStopped,
        ReturnRunning, Return
  <2>3. CASE TakeLock(d) \/ SecurityChecks(d) \/ InitLoop(d)
    BY <1>0, <2>3
    DEF TakeLock, LockWhen, SecurityChecks, InitLoop, Continue, ReturnStopped,
        ReturnRunning, Return
  <2>4. CASE \/ BeginIteration(d) \/ UpdateParent(d) \/ CheckTimeout(d)
             \/ LoopAction(d)
    BY <1>0, <2>4
    DEF BeginIteration, UpdateParent, CheckTimeout, LoopAction, Continue,
        ReturnStopped, ReturnRunning, Return, Die
  <2>5. CASE ClosePipes(d) \/ ReleaseLock(d) \/ Exit(d)
    BY <1>0, <2>5 DEF ClosePipes, ReleaseLock, Exit, Goto, Die
  <2> QED
    BY <1>3, <2>1, <2>2, <2>3, <2>4, <2>5 DEF Daemon
<1>4. ASSUME Environment \/ UNCHANGED vars
      PROVE  UNCHANGED <<loopRunning, result>> /\ pc[d] \in Constructing
  BY <1>0, <1>4
  DEF Environment, Terminate, Kill, Expire, Die, ParentExit, ParentReaped,
      ParentStop, ParentContinue, PidReuse, SetProcess, vars, Dead
<1> QED
  BY <1>1, <1>2, <1>3, <1>4 DEF Next

\* Every step keeps the invariant of the race.
LEMMA RaceInvNext == RaceInv /\ [Next]_vars => RaceInv'
<1> SUFFICES ASSUME RaceInv, [Next]_vars PROVE RaceInv'
  OBVIOUS
<1>0. LockInv /\ TypeOK /\ pc \in [Daemons -> Places]
  BY DEF RaceInv, LockInv, TypeOK
<1>1. LockInv' /\ NoTermSignal'
  BY LockInvNext, SignalNext DEF RaceInv
<1>2. served \subseteq served'
  BY <1>0, StepShape DEF NoDaemonStep, KeepsLock, TakesLock, LetsGo
<1>3. ASSUME NEW d \in Daemons
      PROVE  pc'[d] \in Constructing => ~loopRunning'[d] /\ result'[d] = NoResult
  BY NotCalledYet DEF RaceInv
<1>4. CASE served' # {} \/ "fileError" \in Faults
  BY <1>1, <1>3, <1>4 DEF RaceInv, FlagOfRefused, MakerGoesOn
<1>5. CASE served' = {} /\ "fileError" \notin Faults
  <2>1. ASSUME NEW d \in Daemons, Daemon(d)
        PROVE  FlagOfRefused' /\ MakerGoesOn'
    <3>1. /\ KeepsRace(d) \/ MakesDir(d)
          /\ loopRunning'[d] /\ pc'[d] = "idle" =>
               result'[d] = daemonAlreadyRunning
      BY <1>5, <2>1, RaceStep
    <3>2. MakerGoesOn'
      BY <1>2, <3>1, MakerNext DEF RaceInv
    <3>3. FlagOfRefused'
      BY <1>2, <1>3, <1>5, <3>1
      DEF RaceInv, FlagOfRefused, KeepsRace, MakesDir, OthersRace
    <3> QED
      BY <3>2, <3>3
  <2>2. ASSUME Environment \/ UNCHANGED vars
        PROVE  FlagOfRefused' /\ MakerGoesOn'
    <3>1. UNCHANGED <<lockDirExists, loopRunning, result>>
      BY <2>2
      DEF Environment, Terminate, Kill, Expire, Die, ParentExit, ParentReaped,
          ParentStop, ParentContinue, PidReuse, SetProcess, vars
    <3>2. \A d \in Daemons : pc'[d] \in {pc[d], "killed"}
      BY <1>0, <2>2
      DEF Environment, Terminate, Kill, Expire, Die, ParentExit, ParentReaped,
          ParentStop, ParentContinue, PidReuse, SetProcess, vars
    <3>3. FlagOfRefused'
      BY <1>2, <1>3, <1>5, <3>1, <3>2 DEF RaceInv, FlagOfRefused
    <3>4. MakerGoesOn'
      BY <1>2, <1>5, <3>1, <3>2 DEF RaceInv, MakerGoesOn
    <3> QED
      BY <3>3, <3>4
  <2> QED
    BY <1>1, <2>1, <2>2 DEF Next, RaceInv
<1> QED
  BY <1>4, <1>5

\* At first nobody has lost.
LEMMA RaceInvInit == Init => RaceInv
<1> SUFFICES ASSUME Init PROVE RaceInv
  OBVIOUS
<1>1. "born" \notin {"idle"} \union InRunLoop
  BY DEF InRunLoop, Locking, Inside, Looping
<1> QED
  BY <1>1, LockInvInit
  DEF Init, RaceInv, NoTermSignal, FlagOfRefused, MakerGoesOn, NoResult,
      daemonAlreadyRunning

\* The invariant holds in every behaviour of the daemons.
THEOREM RaceCorrect == Spec => []RaceInv
<1> QED
  BY RaceInvInit, RaceInvNext, PTL DEF Spec

\* Unless a file operation fails for a reason of its own, not every daemon is
\* refused when none has had the lock.
THEOREM NotAllRefusedCorrect == Spec => []NotAllRefused
<1>1. RaceInv => NotAllRefused
  <2> SUFFICES ASSUME RaceInv, served = {}, "fileError" \notin Faults,
                      \A d \in Daemons : /\ pc[d] = "ended"
                                         /\ result[d] = daemonAlreadyRunning
               PROVE  FALSE
    BY DEF NotAllRefused
  <2>1. PICK c \in Daemons : pc[c] \in {"open", "flock", "killed", "crashed"}
    BY DaemonsAssumption DEF RaceInv, MakerGoesOn
  <2> QED
    BY <2>1
<1> QED
  BY <1>1, RaceCorrect, PTL

=============================================================================
