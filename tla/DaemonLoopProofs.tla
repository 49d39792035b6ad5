-------------------------- MODULE DaemonLoopProofs --------------------------
(***************************************************************************)
(* Theorems about DaemonLoop, for every set of daemons, every choice of    *)
(* build options and every bound.                                          *)
(***************************************************************************)
EXTENDS DaemonLoop, TLAPS

(***************************************************************************)
(* The inductive invariant of the lock.                                    *)
(***************************************************************************)
\* The number of a call: it numbers the file that the call opens.
RunsCounted == \A d \in Daemons : pc[d] \in InRunLoop => runs[d] >= 1

FileOpened ==
    \A d \in Daemons :
        pc[d] \in {"flock"} \union Inside => lockFD[d] \in 1 .. MaxRuns

\* From flock() to the return, the file in lockFD has the lock.
InsideLocked ==
    \A d \in Daemons : pc[d] \in Inside => lockOwner = <<d, lockFD[d]>>

\* A process that ever had the lock has it until its destructor or its end.
ServedHolds ==
    \A d \in served : Holds(d) \/ pc[d] \in {"exit"} \union Dead

HolderServed == \A d \in Daemons : Holds(d) => d \in served

PipesOpen ==
    \A d \in Daemons :
        inputPipe[d] => pc[d] \notin {"unlock", "exit"} \union Dead

LockInv ==
    /\ TypeOK
    /\ RunsCounted
    /\ FileOpened
    /\ InsideLocked
    /\ ServedHolds
    /\ HolderServed
    /\ PipesOpen

-----------------------------------------------------------------------------
\* Process::Data(pid) and update() give a Data object of the model.
LEMMA ReadDataType ==
    ASSUME TypeOK, NEW pid
    PROVE  ReadData(procs, pid) \in
             [processId : Pids \union {-1},
              executablePath : Paths \union {NoPath},
              lastState : State, startTime : 0 .. MaxStartTime]
<1>1. InvalidData \in [processId : Pids \union {-1},
                       executablePath : Paths \union {NoPath},
                       lastState : State, startTime : 0 .. MaxStartTime]
  BY BoundsAssumption DEF InvalidData, State
<1>2. CASE HasStat(procs, pid)
  <2>1. pid \in Pids
    BY <1>2 DEF HasStat, TypeOK
  <2>2. /\ procs[pid].exe \in Paths \union {NoPath}
        /\ procs[pid].startTime \in 1 .. MaxStartTime
        /\ procs[pid].stat \in {"S", "T", "Z", "-"}
    BY <2>1 DEF TypeOK
  <2>3. readStateChar(procs[pid].stat) \in State
    BY <2>2 DEF readStateChar, State
  <2> QED
    BY <1>2, <2>1, <2>2, <2>3, BoundsAssumption DEF ReadData
<1>3. CASE ~HasStat(procs, pid)
  BY <1>1, <1>3 DEF ReadData
<1> QED
  BY <1>2, <1>3

\* update() returns either the new reading or the invalid object.
LEMMA UpdatedType ==
    ASSUME TypeOK, NEW data
    PROVE  Updated(procs, data) \in
             [processId : Pids \union {-1},
              executablePath : Paths \union {NoPath},
              lastState : State, startTime : 0 .. MaxStartTime]
<1>1. InvalidData \in [processId : Pids \union {-1},
                       executablePath : Paths \union {NoPath},
                       lastState : State, startTime : 0 .. MaxStartTime]
  BY BoundsAssumption DEF InvalidData, State
<1> QED
  BY <1>1, ReadDataType DEF Updated

-----------------------------------------------------------------------------
USE DEF systemVars, lockVars, monitorVars, objectVars, historyVars, daemonVars

\* Every process starts in a state of the right types.
LEMMA TypeInit == Init => TypeOK
  BY ProcessAssumption, BoundsAssumption, NoLockAssumption
  DEF Init, FirstStartTime, TypeOK, Pids, Launchers, Paths, InvalidData,
      State, Places, Constructing, Results, NoResult

(***************************************************************************)
(* What the returns of runLoop() and the steps inside it set.              *)
(***************************************************************************)
ControlType ==
    /\ pc \in [Daemons -> Places]
    /\ result \in [Daemons -> Results]
    /\ loopRunning \in [Daemons -> BOOLEAN]

\* A return of runLoop() keeps the types of the control variables.
LEMMA ReturnType ==
    ASSUME TypeOK, NEW d \in Daemons, NEW code \in Results,
           ReturnStopped(d, code) \/ ReturnRunning(d, code)
    PROVE  ControlType'
<1>1. "idle" \in Places
  BY DEF Places
<1> QED
  <2>1. pc' = [pc EXCEPT ![d] = "idle"] /\ result' = [result EXCEPT ![d] = code]
    BY DEF ReturnStopped, ReturnRunning, Return
  <2>2. \/ loopRunning' = [loopRunning EXCEPT ![d] = FALSE]
        \/ loopRunning' = loopRunning
    BY DEF ReturnStopped, ReturnRunning
  <2> QED
    BY <1>1, <2>1, <2>2 DEF TypeOK, ControlType

\* So does a step to another place.
LEMMA ContinueType ==
    ASSUME TypeOK, NEW d \in Daemons, NEW to \in Places, Continue(d, to)
    PROVE  ControlType'
  BY DEF TypeOK, ControlType, Continue

\* The end of a process, with the lock and the pipes it drops.
LEMMA DieType ==
    ASSUME TypeOK, NEW d \in Daemons, NEW how \in Dead, Die(d, how),
           UNCHANGED monitorVars
    PROVE  TypeOK'
<1>1. how \in Places
  BY DEF Places
<1> QED
  BY <1>1 DEF TypeOK, Die

\* Every step of a daemon keeps the types, given the two facts about numbers
\* that the types alone do not tell.
LEMMA TypeDaemon ==
    ASSUME TypeOK, RunsCounted, FileOpened, NEW d \in Daemons, Daemon(d)
    PROVE  TypeOK'
<1> USE BoundsAssumption
<1>p. /\ Constructing \subseteq Places
      /\ InRunLoop \subseteq Places
      /\ Locking \subseteq InRunLoop
      /\ Inside \subseteq InRunLoop
      /\ Looping \subseteq Inside
      /\ {"idle", "unlock", "exit"} \union Dead \subseteq Places
  BY DEF Places, InRunLoop, Inside
<1>r. /\ {success, daemonAlreadyRunning, daemonParentEnded} \subseteq Results
      /\ LoopCodes \subseteq Results
      /\ 1 .. 4 \subseteq Results
  BY DEF Results, success, badDaemonPath, badParentPath, insecureDaemonDir,
         insecureParentDir
<1>1. CASE ReadSelf(d)
  BY <1>1, <1>p DEF ReadSelf, TypeOK, Goto, Constructing
<1>2. CASE OpenParentStat(d)
  BY <1>2, <1>p DEF OpenParentStat, TypeOK, Goto, Constructing
<1>3. CASE Construct(d)
  BY <1>3, <1>p DEF Construct, TypeOK, Goto
<1>4. CASE ClosePipes(d)
  BY <1>4, <1>p DEF ClosePipes, TypeOK, Goto
<1>5. CASE ReleaseLock(d)
  BY <1>5, <1>p DEF ReleaseLock, TypeOK, Goto
<1>6. CASE ReadParentStat(d)
  <2>1. CASE HasStat(procs, parentId[d])
    <3>1. ReadData(procs, parentId[d]) \in
            [processId : Pids \union {-1},
             executablePath : Paths \union {NoPath},
             lastState : State, startTime : 0 .. MaxStartTime]
      BY ReadDataType
    <3>2. /\ pc' = [pc EXCEPT ![d] = "construct"]
          /\ parentProcess' =
               [parentProcess EXCEPT ![d] = ReadData(procs, parentId[d])]
          /\ UNCHANGED <<systemVars, lockVars, parentId, objectVars,
                         loopRunning, lockFD, runs, expired, result,
                         historyVars>>
      BY <1>6, <2>1 DEF ReadParentStat
    <3>3. "construct" \in Places
      BY <1>p DEF Constructing
    <3> QED
      BY <3>1, <3>2, <3>3 DEF TypeOK
  <2>2. CASE ~HasStat(procs, parentId[d])
    BY <1>6, <2>2, DieType DEF ReadParentStat, Dead
  <2> QED
    BY <2>1, <2>2
<1>7. CASE RunLoop(d)
  <2>1. "open" \in Places
    BY <1>p DEF Locking
  <2>2. ControlType'
    <3>1. CASE ReturnRunning(d, daemonAlreadyRunning)
      BY <1>r, <3>1, ReturnType
    <3>2. CASE ReturnStopped(d, success)
      BY <1>r, <3>2, ReturnType
    <3>3. CASE /\ loopRunning' = [loopRunning EXCEPT ![d] = TRUE]
               /\ pc' = [pc EXCEPT ![d] = "open"]
               /\ UNCHANGED result
      BY <2>1, <3>3 DEF TypeOK, ControlType
    <3> QED
      BY <1>7, <3>1, <3>2, <3>3 DEF RunLoop
  <2>3. runs' \in [Daemons -> 0 .. MaxRuns]
    BY <1>7 DEF RunLoop, TypeOK
  <2> QED
    BY <1>7, <2>2, <2>3 DEF RunLoop, TypeOK, ControlType
<1>8. CASE OpenLock(d)
  <2>1. runs[d] \in 1 .. MaxRuns
    BY <1>8, <1>p DEF OpenLock, RunsCounted, TypeOK, Locking
  <2>2. ControlType'
    <3>1. ASSUME NEW to \in {"flock", "stat", "open"}, Continue(d, to)
          PROVE  ControlType'
      BY <1>p, <3>1, ContinueType DEF Locking
    <3>2. ASSUME NEW code \in {success, daemonAlreadyRunning},
                 ReturnRunning(d, code)
          PROVE  ControlType'
      BY <1>r, <3>2, ReturnType
    <3> QED
      BY <1>8, <3>1, <3>2 DEF OpenLock
  <2>3. lockFD' \in [Daemons -> -1 .. MaxRuns]
    BY <1>8, <2>1 DEF OpenLock, TypeOK
  <2> QED
    BY <1>8, <2>2, <2>3 DEF OpenLock, TypeOK, ControlType
<1>9. CASE CheckLockDir(d)
  <2>1. ControlType'
    BY <1>9, <1>p, ContinueType DEF CheckLockDir, Locking
  <2> QED
    BY <1>9, <2>1 DEF CheckLockDir, TypeOK, ControlType
<1>10. CASE MakeLockDir(d)
  <2>1. ControlType'
    BY <1>10, <1>p, <1>r, ContinueType, ReturnType DEF MakeLockDir, Locking
  <2> QED
    BY <1>10, <2>1 DEF MakeLockDir, TypeOK, ControlType
<1>11. CASE TakeLock(d)
  <2>1. ControlType'
    BY <1>11, <1>p, <1>r, ContinueType, ReturnType
    DEF TakeLock, LockWhen, Inside
  <2>2. lockFD[d] \in 1 .. MaxRuns
    BY <1>11 DEF TakeLock, LockWhen, FileOpened
  <2>3. lockFD' \in [Daemons -> -1 .. MaxRuns]
    <3>1. lockFD \in [Daemons -> -1 .. MaxRuns]
      BY DEF TypeOK
    <3>2. lockFD' = lockFD \/ lockFD' = [lockFD EXCEPT ![d] = 0]
      BY <1>11 DEF TakeLock, LockWhen
    <3> QED
      BY <3>1, <3>2
  <2> QED
    BY <1>11, <2>1, <2>2, <2>3 DEF TakeLock, LockWhen, TypeOK, ControlType
<1>12. CASE SecurityChecks(d)
  <2>1. ControlType'
    <3>1. CASE \E code \in 1 .. 4 : ReturnStopped(d, code)
      BY <1>r, <3>1, ReturnType
    <3>2. CASE ReturnStopped(d, success)
      BY <1>r, <3>2, ReturnType
    <3>3. CASE Continue(d, "init")
      BY <1>p, <3>3, ContinueType DEF Inside
    <3> QED
      BY <1>12, <3>1, <3>2, <3>3, OptionsAssumption
      DEF SecurityChecks, FailedChecks, InsecureDirs
  <2> QED
    BY <1>12, <2>1 DEF SecurityChecks, TypeOK, ControlType
<1>13. CASE InitLoop(d)
  <2>1. ControlType'
    BY <1>13, <1>p, <1>r, ContinueType, ReturnType DEF InitLoop, Looping
  <2> QED
    BY <1>13, <2>1 DEF InitLoop, TypeOK, ControlType
<1>14. CASE BeginIteration(d)
  <2>1. ControlType'
    BY <1>14, <1>p, <1>r, ContinueType, ReturnType DEF BeginIteration, Looping
  <2>2. InvalidData \in [processId : Pids \union {-1},
                         executablePath : Paths \union {NoPath},
                         lastState : State, startTime : 0 .. MaxStartTime]
    BY DEF InvalidData, State
  <2> QED
    BY <1>14, <2>1, <2>2 DEF BeginIteration, TypeOK, ControlType
<1>15. CASE UpdateParent(d)
  <2>1. CASE HasStat(procs, parentProcess[d].processId)
    <3> DEFINE data == Updated(procs, parentProcess[d])
    <3>1. data \in [processId : Pids \union {-1},
                    executablePath : Paths \union {NoPath},
                    lastState : State, startTime : 0 .. MaxStartTime]
      BY UpdatedType
    <3> HIDE DEF data
    <3>2. /\ Continue(d, "timeout") \/ ReturnStopped(d, daemonParentEnded)
          /\ parentProcess' = [parentProcess EXCEPT ![d] = data]
          /\ UNCHANGED <<systemVars, lockVars, parentId, objectVars, lockFD,
                         runs, expired, historyVars>>
      BY <1>15, <2>1 DEF UpdateParent, data
    <3>3. ControlType'
      BY <1>p, <1>r, <3>2, ContinueType, ReturnType DEF Looping
    <3> QED
      BY <3>1, <3>2, <3>3 DEF TypeOK, ControlType
  <2>2. CASE ~HasStat(procs, parentProcess[d].processId)
    BY <1>15, <2>2, DieType DEF UpdateParent, Dead
  <2> QED
    BY <2>1, <2>2
<1>16. CASE CheckTimeout(d)
  <2>1. ControlType'
    BY <1>16, <1>p, <1>r, ContinueType, ReturnType DEF CheckTimeout, Looping
  <2> QED
    BY <1>16, <2>1 DEF CheckTimeout, TypeOK, ControlType
<1>17. CASE LoopAction(d)
  <2>1. ControlType'
    BY <1>17, <1>p, <1>r, ContinueType, ReturnType DEF LoopAction, Looping
  <2>2. staleActions' \in [Daemons -> 0 .. 2]
    BY <1>17 DEF LoopAction, TypeOK
  <2> QED
    BY <1>17, <2>1, <2>2 DEF LoopAction, TypeOK, ControlType
<1>18. CASE Exit(d)
  BY <1>18, DieType DEF Exit, Dead
<1> QED
  BY <1>1, <1>2, <1>3, <1>4, <1>5, <1>6, <1>7, <1>8, <1>9, <1>10, <1>11,
     <1>12, <1>13, <1>14, <1>15, <1>16, <1>17, <1>18
  DEF Daemon

\* Signals, the clock and the launchers keep the types.
LEMMA TypeEnvironment == TypeOK /\ Environment => TypeOK'
<1> SUFFICES ASSUME TypeOK, Environment
             PROVE  TypeOK'
  OBVIOUS
<1> USE BoundsAssumption
<1>1. ASSUME NEW d \in Daemons, Terminate(d) \/ Kill(d)
      PROVE  TypeOK'
  <2>1. CASE Die(d, "killed") /\ UNCHANGED monitorVars
    BY <2>1, DieType DEF Dead
  <2>2. CASE /\ termSignalReceived' = [termSignalReceived EXCEPT ![d] = 1]
             /\ UNCHANGED <<systemVars, lockVars, pc, monitorVars, inputPipe,
                            disposition, loopRunning, lockFD, runs, expired,
                            result, historyVars>>
    BY <2>2 DEF TypeOK
  <2> QED
    BY <1>1, <2>1, <2>2 DEF Terminate, Kill
<1>2. ASSUME NEW d \in Daemons, Expire(d)
      PROVE  TypeOK'
  BY <1>2 DEF Expire, TypeOK
<1>3. ASSUME NEW p \in Launchers, NEW stat \in {"S", "T", "Z", "-"},
             NEW exe \in Paths \union {NoPath},
             NEW startTime \in 1 .. MaxStartTime,
             SetProcess(p, stat, exe, startTime),
             parent' \in [Daemons -> Pids]
      PROVE  TypeOK'
  BY <1>3 DEF SetProcess, TypeOK, Pids
<1>4. ASSUME NEW p \in Launchers, ParentExit(p)
      PROVE  TypeOK'
  <2>1. parent' \in [Daemons -> Pids]
    BY <1>4 DEF ParentExit, TypeOK, Pids
  <2>2. procs[p].startTime \in 1 .. MaxStartTime
    BY DEF TypeOK, Pids
  <2> QED
    BY <1>3, <1>4, <2>1, <2>2 DEF ParentExit
<1>5. ASSUME NEW p \in Launchers,
             ParentReaped(p) \/ ParentStop(p) \/ ParentContinue(p)
      PROVE  TypeOK'
  <2>1. parent' \in [Daemons -> Pids]
    BY <1>5 DEF ParentReaped, ParentStop, ParentContinue, TypeOK
  <2>2. /\ procs[p].startTime \in 1 .. MaxStartTime
        /\ procs[p].exe \in Paths \union {NoPath}
    BY DEF TypeOK, Pids
  <2> QED
    BY <1>3, <1>5, <2>1, <2>2 DEF ParentReaped, ParentStop, ParentContinue
<1>6. ASSUME NEW p \in Launchers, PidReuse(p)
      PROVE  TypeOK'
  <2>1. parent' \in [Daemons -> Pids]
    BY <1>6 DEF PidReuse, TypeOK
  <2>2. procs[p].startTime + 1 \in 1 .. MaxStartTime
    BY <1>6 DEF PidReuse, TypeOK, Pids
  <2>3. PICK exe \in ReusedPaths :
          SetProcess(p, "S", exe, procs[p].startTime + 1)
    BY <1>6 DEF PidReuse
  <2> QED
    BY <1>3, <2>1, <2>2, <2>3 DEF Paths
<1> QED
  BY <1>1, <1>2, <1>4, <1>5, <1>6 DEF Environment

-----------------------------------------------------------------------------
(***************************************************************************)
(* For the lock there are three kinds of step of a daemon: those that      *)
(* leave the lock and stay behind or in front of it, the one that takes    *)
(* it, and those with which the daemon is gone.                            *)
(***************************************************************************)
Gone == {"exit"} \union Dead

OthersSame(d) ==
    \A e \in Daemons \ {d} :
        /\ pc'[e] = pc[e]
        /\ lockFD'[e] = lockFD[e]
        /\ runs'[e] = runs[e]
        /\ inputPipe'[e] = inputPipe[e]

KeepsLock(d) ==
    /\ OthersSame(d)
    /\ UNCHANGED <<lockOwner, served>>
    /\ pc[d] \notin Gone
    /\ pc'[d] \in Inside => pc[d] \in Inside /\ lockFD'[d] = lockFD[d]
    /\ pc'[d] \in InRunLoop => runs'[d] >= 1
    /\ pc'[d] = "flock" => lockFD'[d] \in 1 .. MaxRuns
    /\ inputPipe'[d] => pc'[d] \notin {"unlock"} \union Gone

TakesLock(d) ==
    /\ OthersSame(d)
    /\ lockOwner = NoLock
    /\ lockOwner' = <<d, lockFD[d]>>
    /\ served' = served \union {d}
    /\ pc[d] = "flock"
    /\ pc'[d] = "checks"
    /\ UNCHANGED <<lockFD, runs, inputPipe>>

LetsGo(d) ==
    /\ OthersSame(d)
    /\ UNCHANGED served
    /\ pc'[d] \in Gone
    /\ ~inputPipe'[d]
    /\ \/ lockOwner' = lockOwner /\ pc[d] \notin Inside
       \/ lockOwner' = NoLock /\ Holds(d)

NoDaemonStep == UNCHANGED <<pc, lockFD, runs, inputPipe, lockOwner, served>>

\* Where a daemon is tells whether it may hold the lock.
LEMMA PlacesDisjoint ==
    /\ Inside \subseteq InRunLoop
    /\ InRunLoop \intersect (Gone \union {"unlock", "idle"}) = {}
    /\ InRunLoop \intersect Constructing = {}
    /\ Constructing \intersect (Gone \union {"unlock"}) = {}
    /\ "unlock" \notin Gone /\ "idle" \notin Gone
    /\ Locking \intersect Inside = {}
    /\ Looping \subseteq Inside
  BY DEF Inside, InRunLoop, Gone, Dead, Constructing, Locking, Looping

\* The process dies wherever it is.
LEMMA DieLetsGo ==
    ASSUME LockInv, NEW d \in Daemons, NEW how \in Dead, Die(d, how)
    PROVE  LetsGo(d)
<1>1. OthersSame(d) /\ pc'[d] \in Gone /\ ~inputPipe'[d]
  BY DEF LockInv, TypeOK, Die, OthersSame, Gone
<1>2. pc[d] \in Inside => Holds(d)
  <2> SUFFICES ASSUME pc[d] \in Inside
               PROVE  Holds(d)
    OBVIOUS
  <2>1. lockOwner = <<d, lockFD[d]>> /\ lockFD[d] \in 1 .. MaxRuns
    BY DEF LockInv, InsideLocked, FileOpened
  <2>2. lockOwner # NoLock
    BY <2>1, NoLockAssumption
  <2> QED
    BY <2>1, <2>2 DEF Holds
<1> QED
  BY <1>1, <1>2 DEF Die, LetsGo

\* A step that goes from one place to another and opens or closes nothing.
LEMMA MoveKeepsLock ==
    ASSUME LockInv, NEW d \in Daemons,
           NEW to \in Constructing \union InRunLoop \union {"idle"},
           pc[d] \notin Gone,
           pc' = [pc EXCEPT ![d] = to],
           to \in Inside => pc[d] \in Inside,
           to \in InRunLoop => pc[d] \in InRunLoop,
           to # "flock",
           \/ to \notin Inside
           \/ lockFD' = lockFD,
           \E fd : lockFD' = [lockFD EXCEPT ![d] = fd],
           UNCHANGED <<lockOwner, served, runs>>,
           inputPipe' = inputPipe \/ inputPipe' = [inputPipe EXCEPT ![d] = TRUE]
    PROVE  KeepsLock(d)
<1>1. OthersSame(d)
  BY DEF LockInv, TypeOK, OthersSame
<1>2. pc'[d] = to
  BY DEF LockInv, TypeOK
<1>3. to \in Inside => pc[d] \in Inside /\ lockFD'[d] = lockFD[d]
  OBVIOUS
<1>4. to \in InRunLoop => runs'[d] >= 1
  BY DEF LockInv, RunsCounted
<1>5. to \notin {"unlock"} \union Gone
  BY PlacesDisjoint
<1> QED
  BY <1>1, <1>2, <1>3, <1>4, <1>5 DEF KeepsLock

\* Every step of a daemon has one of the three shapes.
LEMMA DaemonStep ==
    ASSUME LockInv, NEW d \in Daemons, Daemon(d)
    PROVE  KeepsLock(d) \/ TakesLock(d) \/ LetsGo(d)
<1> USE BoundsAssumption
<1>t. /\ lockFD = [lockFD EXCEPT ![d] = lockFD[d]]
      /\ pc \in [Daemons -> Places] /\ runs \in [Daemons -> 0 .. MaxRuns]
      /\ lockFD \in [Daemons -> -1 .. MaxRuns]
      /\ inputPipe \in [Daemons -> BOOLEAN]
  BY DEF LockInv, TypeOK
\* Every return of runLoop(), and every step inside it that neither opens nor
\* locks the file.
<1>r. ASSUME pc[d] \in InRunLoop \union {"idle"}, NEW code,
             ReturnStopped(d, code) \/ ReturnRunning(d, code),
             \E fd : lockFD' = [lockFD EXCEPT ![d] = fd],
             UNCHANGED <<lockOwner, served, inputPipe>>, UNCHANGED runs
      PROVE  KeepsLock(d)
  <2>1. pc' = [pc EXCEPT ![d] = "idle"]
    BY <1>r DEF ReturnStopped, ReturnRunning, Return
  <2> QED
    BY <1>r, <2>1, MoveKeepsLock, PlacesDisjoint
<1>c. ASSUME pc[d] \in InRunLoop, NEW to \in InRunLoop, to # "flock",
             to \in Inside => pc[d] \in Inside, Continue(d, to),
             lockFD' = lockFD \/ to \notin Inside,
             \E fd : lockFD' = [lockFD EXCEPT ![d] = fd],
             UNCHANGED <<lockOwner, served, inputPipe, runs>>
      PROVE  KeepsLock(d)
  <2>1. pc' = [pc EXCEPT ![d] = to]
    BY <1>c DEF Continue
  <2> QED
    BY <1>c, <2>1, MoveKeepsLock, PlacesDisjoint
<1>1. CASE ReadSelf(d)
  <2>1. /\ pc[d] = "born" /\ pc' = [pc EXCEPT ![d] = "lookup"]
        /\ lockFD' = lockFD
        /\ UNCHANGED <<lockOwner, served, runs>>
        /\ inputPipe' = inputPipe \/ inputPipe' = [inputPipe EXCEPT ![d] = TRUE]
    BY <1>1 DEF ReadSelf, Goto
  <2> QED
    BY <1>t, <2>1, MoveKeepsLock, PlacesDisjoint DEF Constructing
<1>2. CASE Construct(d)
  <2>1. /\ pc[d] = "construct" /\ pc' = [pc EXCEPT ![d] = "idle"]
        /\ lockFD' = lockFD
        /\ UNCHANGED <<lockOwner, served, runs>>
        /\ inputPipe' = inputPipe \/ inputPipe' = [inputPipe EXCEPT ![d] = TRUE]
    BY <1>2 DEF Construct, Goto
  <2> QED
    BY <1>t, <2>1, MoveKeepsLock, PlacesDisjoint DEF Constructing
<1>3. CASE OpenParentStat(d)
  <2>1. /\ pc[d] = "lookup"
        /\ \E to \in {"parse", "construct"} : pc' = [pc EXCEPT ![d] = to]
        /\ lockFD' = lockFD
        /\ UNCHANGED <<lockOwner, served, runs, inputPipe>>
    BY <1>3 DEF OpenParentStat, Goto
  <2> QED
    BY <1>t, <2>1, MoveKeepsLock, PlacesDisjoint DEF Constructing
<1>4. CASE ReadParentStat(d)
  <2>1. CASE HasStat(procs, parentId[d])
    <3>1. /\ pc[d] = "parse" /\ pc' = [pc EXCEPT ![d] = "construct"]
          /\ lockFD' = lockFD
          /\ UNCHANGED <<lockOwner, served, runs, inputPipe>>
      BY <1>4, <2>1 DEF ReadParentStat
    <3> QED
      BY <1>t, <3>1, MoveKeepsLock, PlacesDisjoint DEF Constructing
  <2>2. CASE ~HasStat(procs, parentId[d])
    BY <1>4, <2>2, DieLetsGo DEF ReadParentStat, Dead
  <2> QED
    BY <2>1, <2>2
<1>5. CASE RunLoop(d)
  <2>1. /\ pc[d] = "idle" /\ runs' = [runs EXCEPT ![d] = runs[d] + 1]
        /\ lockFD' = lockFD
        /\ UNCHANGED <<lockOwner, served, inputPipe>>
        /\ \E to \in {"idle", "open"} : pc' = [pc EXCEPT ![d] = to]
    BY <1>5 DEF RunLoop, ReturnRunning, ReturnStopped, Return
  <2>2. runs'[d] >= 1 /\ OthersSame(d)
    BY <1>t, <2>1 DEF OthersSame
  <2>3. pc'[d] \in {"idle", "open"} /\ "open" \notin Inside
    BY <1>t, <2>1 DEF Inside, Looping
  <2>4. pc'[d] \notin {"unlock"} \union Gone /\ "idle" \notin Inside
    BY <2>3 DEF Gone, Dead, Inside, Looping
  <2> QED
    BY <2>1, <2>2, <2>3, <2>4, PlacesDisjoint DEF KeepsLock
<1>6. CASE OpenLock(d)
  <2>1. pc[d] = "open" /\ UNCHANGED <<lockOwner, served, inputPipe, runs>>
    BY <1>6 DEF OpenLock
  <2>2. "open" \in InRunLoop /\ "stat" \in InRunLoop
        /\ "open" \notin Inside /\ "stat" \notin Inside
    BY DEF InRunLoop, Locking, Inside, Looping
  <2>3. CASE lockFD' = [lockFD EXCEPT ![d] = runs[d]] /\ Continue(d, "flock")
    <3>1. runs[d] \in 1 .. MaxRuns
      BY <1>t, <2>1, <2>2 DEF LockInv, RunsCounted
    <3>2. /\ pc'[d] = "flock" /\ lockFD'[d] = runs[d] /\ runs'[d] = runs[d]
          /\ OthersSame(d)
      BY <1>t, <2>1, <2>3 DEF Continue, OthersSame
    <3>3. "flock" \notin Inside \union {"unlock"} \union Gone
      BY DEF Inside, Looping, Gone, Dead
    <3> QED
      BY <2>1, <2>2, <3>1, <3>2, <3>3, PlacesDisjoint DEF KeepsLock
  <2>4. CASE /\ lockFD' = [lockFD EXCEPT ![d] = -1]
             /\ Continue(d, "stat") \/ Continue(d, "open")
    BY <1>c, <2>1, <2>2, <2>4
  <2>5. CASE /\ lockFD' = [lockFD EXCEPT ![d] = -1]
             /\ ReturnRunning(d, success)
    BY <1>r, <2>1, <2>2, <2>5
  <2>6. CASE /\ lockFD' = [lockFD EXCEPT ![d] = 0]
             /\ ReturnRunning(d, daemonAlreadyRunning)
    BY <1>r, <2>1, <2>2, <2>6
  <2> QED
    BY <1>6, <2>3, <2>4, <2>5, <2>6 DEF OpenLock
<1>7. CASE CheckLockDir(d)
  <2>1. /\ pc[d] = "stat" /\ lockFD' = lockFD
        /\ UNCHANGED <<lockOwner, served, inputPipe, runs>>
        /\ Continue(d, "open") \/ Continue(d, "mkdir")
    BY <1>7 DEF CheckLockDir
  <2>2. {"stat", "open", "mkdir"} \subseteq InRunLoop
        /\ {"open", "mkdir"} \intersect Inside = {}
    BY DEF InRunLoop, Locking, Inside, Looping
  <2> QED
    BY <1>c, <1>t, <2>1, <2>2
<1>8. CASE MakeLockDir(d)
  <2>1. /\ pc[d] = "mkdir" /\ lockFD' = lockFD
        /\ UNCHANGED <<lockOwner, served, inputPipe, runs>>
        /\ Continue(d, "open") \/ ReturnRunning(d, daemonAlreadyRunning)
    BY <1>8 DEF MakeLockDir
  <2>2. {"open", "mkdir"} \subseteq InRunLoop /\ "open" \notin Inside
    BY DEF InRunLoop, Locking, Inside, Looping
  <2> QED
    BY <1>c, <1>r, <1>t, <2>1, <2>2
<1>9. CASE TakeLock(d)
  <2>1. /\ pc[d] = "flock" /\ "flock" \in InRunLoop
        /\ UNCHANGED <<inputPipe, runs>>
    BY <1>9 DEF TakeLock, LockWhen, InRunLoop, Locking
  <2>2. CASE lockOwner = NoLock
    <3>1. /\ lockOwner' = <<d, lockFD[d]>> /\ served' = served \union {d}
          /\ Continue(d, "checks") /\ UNCHANGED lockFD
      BY <1>9, <2>2 DEF TakeLock, LockWhen
    <3>2. pc'[d] = "checks" /\ OthersSame(d)
      BY <1>t, <2>1, <3>1 DEF Continue, OthersSame
    <3> QED
      BY <2>1, <2>2, <3>1, <3>2 DEF TakesLock
  <2>3. CASE lockOwner # NoLock
    <3>1. /\ lockFD' = [lockFD EXCEPT ![d] = 0]
          /\ ReturnRunning(d, daemonAlreadyRunning)
          /\ UNCHANGED <<lockOwner, served>>
      BY <1>9, <2>3 DEF TakeLock, LockWhen
    <3> QED
      BY <1>r, <2>1, <3>1
  <2> QED
    BY <2>2, <2>3
<1>10. CASE SecurityChecks(d)
  <2>1. /\ pc[d] = "checks" /\ lockFD' = lockFD
        /\ UNCHANGED <<lockOwner, served, inputPipe, runs>>
        /\ \/ \E to \in {"init"} : Continue(d, to)
           \/ \E code : ReturnStopped(d, code) \/ ReturnRunning(d, code)
    BY <1>10 DEF SecurityChecks
  <2>2. {"checks", "init"} \subseteq Inside
    BY DEF Inside, Looping
  <2> QED
    BY <1>c, <1>r, <1>t, <2>1, <2>2, PlacesDisjoint
<1>11. CASE InitLoop(d)
  <2>1. /\ pc[d] = "init" /\ lockFD' = lockFD
        /\ UNCHANGED <<lockOwner, served, inputPipe, runs>>
        /\ \/ \E to \in {"loop"} : Continue(d, to)
           \/ \E code : ReturnStopped(d, code) \/ ReturnRunning(d, code)
    BY <1>11 DEF InitLoop
  <2>2. {"init", "loop"} \subseteq Inside
    BY DEF Inside, Looping
  <2> QED
    BY <1>c, <1>r, <1>t, <2>1, <2>2, PlacesDisjoint
<1>12. CASE BeginIteration(d)
  <2>1. /\ pc[d] = "loop" /\ lockFD' = lockFD
        /\ UNCHANGED <<lockOwner, served, inputPipe, runs>>
        /\ \/ \E to \in {"timeout", "update"} : Continue(d, to)
           \/ \E code : ReturnStopped(d, code) \/ ReturnRunning(d, code)
    BY <1>12 DEF BeginIteration
  <2>2. {"loop", "timeout", "update"} \subseteq Inside
    BY DEF Inside, Looping
  <2> QED
    BY <1>c, <1>r, <1>t, <2>1, <2>2, PlacesDisjoint
<1>13. CASE CheckTimeout(d)
  <2>1. /\ pc[d] = "timeout" /\ lockFD' = lockFD
        /\ UNCHANGED <<lockOwner, served, inputPipe, runs>>
        /\ \/ \E to \in {"action"} : Continue(d, to)
           \/ \E code : ReturnStopped(d, code) \/ ReturnRunning(d, code)
    BY <1>13 DEF CheckTimeout
  <2>2. {"timeout", "action"} \subseteq Inside
    BY DEF Inside, Looping
  <2> QED
    BY <1>c, <1>r, <1>t, <2>1, <2>2, PlacesDisjoint
<1>14. CASE LoopAction(d)
  <2>1. /\ pc[d] = "action" /\ lockFD' = lockFD
        /\ UNCHANGED <<lockOwner, served, inputPipe, runs>>
        /\ \/ \E to \in {"loop"} : Continue(d, to)
           \/ \E code : ReturnStopped(d, code) \/ ReturnRunning(d, code)
    BY <1>14 DEF LoopAction
  <2>2. {"action", "loop"} \subseteq Inside
    BY DEF Inside, Looping
  <2> QED
    BY <1>c, <1>r, <1>t, <2>1, <2>2, PlacesDisjoint
<1>15. CASE UpdateParent(d)
  <2>1. CASE HasStat(procs, parentProcess[d].processId)
    <3>1. /\ pc[d] = "update" /\ lockFD' = lockFD
          /\ UNCHANGED <<lockOwner, served, inputPipe, runs>>
          /\ \/ Continue(d, "timeout")
             \/ \E code : ReturnStopped(d, code)
      BY <1>15, <2>1 DEF UpdateParent
    <3>2. {"update", "timeout"} \subseteq Inside
      BY DEF Inside, Looping
    <3> QED
      BY <1>c, <1>r, <1>t, <3>1, <3>2, PlacesDisjoint
  <2>2. CASE ~HasStat(procs, parentProcess[d].processId)
    BY <1>15, <2>2, DieLetsGo DEF UpdateParent, Dead
  <2> QED
    BY <2>1, <2>2
<1>16. CASE ClosePipes(d)
  <2>1. /\ pc[d] = "idle" /\ pc' = [pc EXCEPT ![d] = "unlock"]
        /\ inputPipe' = [inputPipe EXCEPT ![d] = FALSE]
        /\ UNCHANGED <<lockOwner, served, lockFD, runs>>
    BY <1>16 DEF ClosePipes, Goto
  <2>2. pc'[d] = "unlock" /\ ~inputPipe'[d] /\ OthersSame(d)
    BY <1>t, <2>1 DEF OthersSame
  <2> QED
    BY <2>1, <2>2, PlacesDisjoint DEF KeepsLock
<1>17. CASE ReleaseLock(d)
  <2>1. /\ pc[d] = "unlock" /\ pc' = [pc EXCEPT ![d] = "exit"]
        /\ lockFD' = [lockFD EXCEPT ![d] = 0]
        /\ UNCHANGED <<served, runs, inputPipe>>
        /\ \/ lockOwner' = lockOwner
           \/ lockOwner' = NoLock /\ lockOwner = <<d, lockFD[d]>>
    BY <1>17 DEF ReleaseLock, Goto
  <2>2. pc'[d] \in Gone /\ OthersSame(d)
    BY <1>t, <2>1 DEF OthersSame, Gone
  <2>3. ~inputPipe'[d] /\ pc[d] \notin Inside
    BY <2>1, PlacesDisjoint DEF LockInv, PipesOpen
  <2>4. lockOwner' = NoLock /\ lockOwner = <<d, lockFD[d]>> =>
          lockOwner' = lockOwner \/ Holds(d)
    BY DEF Holds
  <2> QED
    BY <2>1, <2>2, <2>3, <2>4 DEF LetsGo
<1>18. CASE Exit(d)
  BY <1>18, DieLetsGo DEF Exit, Dead
<1> QED
  BY <1>1, <1>2, <1>3, <1>4, <1>5, <1>6, <1>7, <1>8, <1>9, <1>10, <1>11,
     <1>12, <1>13, <1>14, <1>15, <1>16, <1>17, <1>18
  DEF Daemon

\* The environment ends daemons or leaves them alone.
LEMMA EnvironmentStep ==
    ASSUME LockInv, Environment
    PROVE  NoDaemonStep \/ \E d \in Daemons : LetsGo(d)
<1>1. ASSUME NEW d \in Daemons, Terminate(d) \/ Kill(d)
      PROVE  NoDaemonStep \/ LetsGo(d)
  <2>1. CASE Die(d, "killed")
    BY <2>1, DieLetsGo DEF Dead
  <2>2. CASE UNCHANGED <<systemVars, lockVars, pc, monitorVars, inputPipe,
                         disposition, loopRunning, lockFD, runs, expired,
                         result, historyVars>>
    BY <2>2 DEF NoDaemonStep
  <2> QED
    BY <1>1, <2>1, <2>2 DEF Terminate, Kill
<1>2. ASSUME NEW d \in Daemons, Expire(d)
      PROVE  NoDaemonStep
  BY <1>2 DEF Expire, NoDaemonStep
<1>3. ASSUME NEW p \in Launchers,
             \/ ParentExit(p) \/ ParentReaped(p) \/ ParentStop(p)
             \/ ParentContinue(p) \/ PidReuse(p)
      PROVE  NoDaemonStep
  BY <1>3 DEF ParentExit, ParentReaped, ParentStop, ParentContinue, PidReuse,
              SetProcess, NoDaemonStep
<1> QED
  BY <1>1, <1>2, <1>3 DEF Environment

-----------------------------------------------------------------------------
\* Nobody has the lock, or an open pipe, before a daemon is constructed.
LEMMA LockInvInit == Init => LockInv
<1> SUFFICES ASSUME Init
             PROVE  LockInv
  OBVIOUS
<1>1. TypeOK
  BY TypeInit
<1>2. \A d \in Daemons : pc[d] = "born" /\ ~inputPipe[d]
  BY DEF Init
<1>3. "born" \notin InRunLoop \union {"flock"} \union Inside
  BY DEF InRunLoop, Locking, Inside, Looping
<1>4. lockOwner = NoLock /\ served = {}
  BY DEF Init
<1> QED
  BY <1>1, <1>2, <1>3, <1>4
  DEF LockInv, RunsCounted, FileOpened, InsideLocked, ServedHolds,
      HolderServed, PipesOpen, Holds

\* A step that leaves the lock alone keeps the invariant.
LEMMA KeepsLockInv ==
    ASSUME LockInv, TypeOK', NEW d \in Daemons, KeepsLock(d)
    PROVE  LockInv'
<1> USE DEF KeepsLock, OthersSame
<1>1. RunsCounted'
  BY DEF LockInv, RunsCounted
<1>2. FileOpened'
  BY DEF LockInv, FileOpened
<1>3. InsideLocked'
  BY DEF LockInv, InsideLocked
<1>4. ServedHolds'
  <2>1. served \subseteq Daemons
    BY DEF LockInv, TypeOK
  <2>2. \A e \in served : Holds(e) \/ pc[e] \in Gone
    BY DEF LockInv, ServedHolds, Gone
  <2>3. \A e \in served : Holds(e)' \/ pc'[e] \in Gone
    BY <2>1, <2>2 DEF Holds
  <2> QED
    BY <2>3 DEF ServedHolds, Gone
<1>5. HolderServed'
  BY DEF LockInv, HolderServed, Holds
<1>6. PipesOpen'
  BY DEF LockInv, PipesOpen, Gone
<1> QED
  BY <1>1, <1>2, <1>3, <1>4, <1>5, <1>6 DEF LockInv

\* While the lock is free, nobody is past it and whoever had it is gone.
LEMMA FreeLock ==
    ASSUME LockInv, lockOwner = NoLock
    PROVE  /\ \A e \in Daemons : pc[e] \notin Inside
           /\ \A e \in served : pc[e] \in Gone
<1>1. ASSUME NEW e \in Daemons, pc[e] \in Inside
      PROVE  FALSE
  <2>1. lockOwner = <<e, lockFD[e]>> /\ lockFD[e] \in 1 .. MaxRuns
    BY <1>1 DEF LockInv, InsideLocked, FileOpened
  <2> QED
    BY <2>1, NoLockAssumption
<1>2. \A e \in served : pc[e] \in Gone
  BY DEF LockInv, ServedHolds, Holds, Gone
<1> QED
  BY <1>1, <1>2

\* flock() is called by a process that never had the lock before, when
\* everyone that had it is gone.
LEMMA TakesLockInv ==
    ASSUME LockInv, TypeOK', NEW d \in Daemons, TakesLock(d)
    PROVE  LockInv'
<1> USE DEF TakesLock, OthersSame
<1>f. /\ \A e \in Daemons : pc[e] \notin Inside
      /\ \A e \in served : pc[e] \in Gone
  BY FreeLock
<1>d. /\ pc'[d] \in Inside /\ pc[d] \in InRunLoop
      /\ pc'[d] \notin {"unlock"} \union Gone
      /\ lockFD[d] \in 1 .. MaxRuns /\ lockFD'[d] = lockFD[d]
      /\ d \notin served
  BY <1>f, PlacesDisjoint
  DEF LockInv, FileOpened, Inside, InRunLoop, Locking, Gone, Dead
<1>h. /\ lockOwner' = <<d, lockFD[d]>>
      /\ lockOwner' # NoLock
  BY <1>d, NoLockAssumption
<1>1. RunsCounted'
  BY <1>d DEF LockInv, RunsCounted
<1>2. FileOpened'
  BY <1>d DEF LockInv, FileOpened
<1>3. InsideLocked'
  BY <1>d, <1>f, <1>h DEF InsideLocked
<1>4. ServedHolds'
  <2>1. Holds(d)'
    BY <1>h DEF Holds
  <2>2. \A e \in served : pc'[e] \in Gone
    BY <1>f, <1>d DEF LockInv, TypeOK
  <2> QED
    BY <2>1, <2>2 DEF ServedHolds, Gone
<1>5. HolderServed'
  BY <1>h DEF HolderServed, Holds
<1>6. PipesOpen'
  BY <1>d DEF LockInv, PipesOpen, Gone
<1> QED
  BY <1>1, <1>2, <1>3, <1>4, <1>5, <1>6 DEF LockInv

\* Whoever gives the lock up is behind runLoop() or dead.
LEMMA LetsGoInv ==
    ASSUME LockInv, TypeOK', NEW d \in Daemons, LetsGo(d)
    PROVE  LockInv'
<1> USE DEF LetsGo, OthersSame
<1>d. pc'[d] \notin InRunLoop \union {"flock"} \union Inside
  BY PlacesDisjoint DEF InRunLoop, Locking
<1>h. \A e \in Daemons \ {d} : Holds(e) <=> Holds(e)'
  BY DEF Holds
<1>1. RunsCounted'
  BY <1>d DEF LockInv, RunsCounted
<1>2. FileOpened'
  BY <1>d DEF LockInv, FileOpened
<1>3. InsideLocked'
  <2> SUFFICES ASSUME NEW e \in Daemons, pc'[e] \in Inside
               PROVE  lockOwner' = <<e, lockFD'[e]>>
    BY DEF InsideLocked
  <2>1. e # d /\ lockOwner = <<e, lockFD[e]>> /\ lockFD'[e] = lockFD[e]
    BY <1>d DEF LockInv, InsideLocked
  <2> QED
    BY <2>1 DEF Holds
<1>4. ServedHolds'
  BY <1>h DEF LockInv, TypeOK, ServedHolds, Gone
<1>5. HolderServed'
  BY DEF LockInv, HolderServed, Holds
<1>6. PipesOpen'
  BY DEF LockInv, PipesOpen, Gone
<1> QED
  BY <1>1, <1>2, <1>3, <1>4, <1>5, <1>6 DEF LockInv

\* Steps of the launchers and of time touch nothing the lock depends on.
LEMMA SameLockInv ==
    ASSUME LockInv, TypeOK', NoDaemonStep
    PROVE  LockInv'
  BY DEF LockInv, NoDaemonStep, RunsCounted, FileOpened, InsideLocked,
         ServedHolds, HolderServed, PipesOpen, Holds

\* Every step of the system, in terms of the lock.
LEMMA StepShape ==
    ASSUME LockInv, [Next]_vars
    PROVE  /\ TypeOK'
           /\ \/ NoDaemonStep
              \/ \E d \in Daemons : KeepsLock(d) \/ TakesLock(d) \/ LetsGo(d)
<1>1. CASE UNCHANGED vars
  <2>1. TypeOK'
    BY <1>1 DEF LockInv, TypeOK, vars
  <2> QED
    BY <1>1, <2>1 DEF NoDaemonStep, vars
<1>2. ASSUME NEW d \in Daemons, Daemon(d)
      PROVE  TypeOK' /\ (KeepsLock(d) \/ TakesLock(d) \/ LetsGo(d))
  BY <1>2, TypeDaemon, DaemonStep DEF LockInv
<1>3. CASE Environment
  BY <1>3, TypeEnvironment, EnvironmentStep DEF LockInv
<1> QED
  BY <1>1, <1>2, <1>3 DEF Next

\* The invariant is inductive.
LEMMA LockInvNext == LockInv /\ [Next]_vars => LockInv'
  BY StepShape, SameLockInv, KeepsLockInv, TakesLockInv, LetsGoInv

\* The daemons, with everything the next theorems use about the lock.
THEOREM LockCorrect == Spec => []LockInv
<1> QED
  BY LockInvInit, LockInvNext, PTL DEF Spec

\* Every variable of a daemon and of the processes around it has its type,
\* whatever a system call returned and whichever process died.
THEOREM TypeCorrect == Spec => []TypeOK
<1>1. LockInv => TypeOK
  BY DEF LockInv
<1> QED
  BY <1>1, LockCorrect, PTL

\* Two daemon processes are never both past flock() in runLoop().
THEOREM ExclusionCorrect == Spec => []MutualExclusion
<1>1. LockInv => MutualExclusion
  BY DEF LockInv, InsideLocked, MutualExclusion
<1> QED
  BY <1>1, LockCorrect, PTL

\* A daemon that ran closes its pipes before another gets past flock().
THEOREM PipesCorrect == Spec => []PipesClosedBeforeNext
<1>1. LockInv => PipesClosedBeforeNext
  <2> SUFFICES ASSUME LockInv, NEW d \in served, NEW e \in Daemons,
                      inputPipe[d], pc[e] \in Inside
               PROVE  d = e
    BY DEF PipesClosedBeforeNext
  <2>1. Holds(d)
    BY DEF LockInv, TypeOK, ServedHolds, PipesOpen
  <2>2. lockOwner = <<e, lockFD[e]>>
    BY DEF LockInv, InsideLocked
  <2> QED
    BY <2>1, <2>2 DEF Holds
<1> QED
  BY <1>1, LockCorrect, PTL

-----------------------------------------------------------------------------
(***************************************************************************)
(* The daemons implement SingleInstance.                                   *)
(***************************************************************************)
holderBar == {d \in Daemons : Holds(d)}
runningBar == {d \in Daemons : pc[d] \in Inside}

\* Whoever runs is the only one that holds the lock.
LEMMA Unique ==
    ASSUME LockInv, NEW d \in Daemons, Holds(d)
    PROVE  holderBar = {d} /\ runningBar \subseteq {d}
  BY DEF holderBar, runningBar, Holds, LockInv, InsideLocked

\* Every step is a step of SingleInstance or a stutter.
LEMMA StepImplements ==
    ASSUME LockInv, [Next]_vars
    PROVE  [Single!Next]_Single!vars
<1>i. LockInv'
  BY LockInvNext
<1>v. UNCHANGED <<holderBar, runningBar, served>> => UNCHANGED Single!vars
  BY DEF Single!vars, holderBar, runningBar
<1>w. ASSUME NEW d \in Daemons,
             \/ /\ holderBar = {} /\ d \notin served
                /\ holderBar' = {d} /\ runningBar' = {d}
                /\ served' = served \union {d}
             \/ /\ d \in runningBar /\ runningBar' = {}
                /\ UNCHANGED <<holderBar, served>>
             \/ /\ d \in holderBar /\ holderBar' = {}
                /\ runningBar' = {} /\ UNCHANGED served
      PROVE  Single!Next
  BY <1>w DEF Single!Next, Single!Start, Single!Stop, Single!Release,
              holderBar, runningBar
<1>1. CASE NoDaemonStep
  BY <1>1, <1>v DEF NoDaemonStep, holderBar, runningBar, Holds
<1>2. ASSUME NEW d \in Daemons, KeepsLock(d)
      PROVE  [Single!Next]_Single!vars
  <2>1. holderBar' = holderBar /\ served' = served
    BY <1>2 DEF KeepsLock, holderBar, Holds
  <2>2. CASE pc[d] \in Inside /\ pc'[d] \notin Inside
    <3>1. d \in runningBar /\ runningBar \subseteq {d}
      BY <2>2 DEF LockInv, InsideLocked, runningBar
    <3>2. runningBar' = {}
      BY <1>2, <2>2, <3>1 DEF KeepsLock, OthersSame, runningBar
    <3> QED
      BY <1>w, <2>1, <3>1, <3>2
  <2>3. CASE pc[d] \in Inside <=> pc'[d] \in Inside
    <3>1. runningBar' = runningBar
      BY <1>2, <2>3 DEF KeepsLock, OthersSame, runningBar
    <3> QED
      BY <1>v, <2>1, <3>1
  <2> QED
    BY <1>2, <2>2, <2>3 DEF KeepsLock
<1>3. ASSUME NEW d \in Daemons, TakesLock(d)
      PROVE  [Single!Next]_Single!vars
  <2>1. holderBar = {} /\ served' = served \union {d}
    BY <1>3 DEF TakesLock, holderBar, Holds
  <2>2. d \notin served
    <3>1. pc[d] = "flock" /\ "flock" \notin Gone
      BY <1>3 DEF TakesLock, Gone, Dead
    <3> QED
      BY <1>3, <3>1, FreeLock DEF TakesLock
  <2>3. pc'[d] \in Inside /\ lockOwner' = <<d, lockFD[d]>>
    BY <1>3 DEF TakesLock, Inside
  <2>4. Holds(d)' /\ d \in runningBar'
    <3>1. lockFD[d] \in 1 .. MaxRuns
      BY <1>3 DEF TakesLock, LockInv, FileOpened
    <3>2. lockOwner' # NoLock
      BY <2>3, <3>1, NoLockAssumption
    <3> QED
      BY <2>3, <3>2 DEF Holds, runningBar
  <2>5. holderBar' = {d} /\ runningBar' \subseteq {d}
    BY <1>i, <2>4, <2>3 DEF holderBar, runningBar, Holds, LockInv, InsideLocked
  <2> QED
    BY <1>w, <2>1, <2>2, <2>4, <2>5
<1>4. ASSUME NEW d \in Daemons, LetsGo(d)
      PROVE  [Single!Next]_Single!vars
  <2>0. served' = served /\ pc'[d] \notin Inside
    BY <1>4, PlacesDisjoint DEF LetsGo
  <2>1. CASE lockOwner' = lockOwner /\ pc[d] \notin Inside
    <3>1. holderBar' = holderBar
      BY <2>1 DEF holderBar, Holds
    <3>2. runningBar' = runningBar
      BY <1>4, <2>0, <2>1 DEF LetsGo, OthersSame, runningBar
    <3> QED
      BY <1>v, <2>0, <3>1, <3>2
  <2>2. CASE lockOwner' = NoLock /\ Holds(d)
    <3>1. holderBar = {d} /\ runningBar \subseteq {d}
      BY <2>2, Unique
    <3>2. holderBar' = {}
      BY <2>2 DEF holderBar, Holds
    <3>3. runningBar' = {}
      BY <1>4, <2>0, <3>1 DEF LetsGo, OthersSame, runningBar
    <3> QED
      BY <1>w, <2>0, <3>1, <3>2, <3>3
  <2> QED
    BY <1>4, <2>1, <2>2 DEF LetsGo
<1> QED
  BY <1>1, <1>2, <1>3, <1>4, StepShape

\* runLoop(), the lock file and the destructor implement the abstract
\* specification of a single running daemon: every step is a start, a stop or
\* a release of it, or none.
THEOREM SingleInstanceCorrect == Spec => ImplementsSingleInstance
<1>1. Init => Single!Init
  BY DEF Init, Single!Init, Holds, Inside, Looping
<1>2. LockInv /\ [Next]_vars => [Single!Next]_Single!vars
  BY StepImplements
<1> QED
  BY <1>1, <1>2, LockCorrect, PTL
  DEF Spec, ImplementsSingleInstance, Single!Spec
=============================================================================
