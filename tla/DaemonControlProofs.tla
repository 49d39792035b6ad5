------------------------- MODULE DaemonControlProofs -------------------------
(***************************************************************************)
(* Theorems about DaemonControl, for every set of process IDs and of exit  *)
(* codes, every number of daemons and every choice of faults and pipes.    *)
(***************************************************************************)
EXTENDS DaemonControl, TLAPS

(***************************************************************************)
(* The inductive invariant: what the object's process ID stands for at     *)
(* each place of its functions.                                            *)
(***************************************************************************)
\* Only a failed fork() leaves -1.
FailedForkLeft == daemonProcess = -1 => "fork" \in fault

\* An ID is the daemon's, alive or a zombie.  When waitpid() has reaped a daemon
\* that was killed, waitToExit() has an ID that anybody may use but a sibling.
IDIsDaemons ==
    daemonProcess \in Pids =>
        IF pc = "recheck" THEN proc[daemonProcess].owner # "sibling"
        ELSE proc[daemonProcess].owner = "daemon"

\* The exit code follows the status, and waitToExit() asks once more only when
\* a signal has ended the daemon.
StatusFollowed ==
    fault = {} =>
        /\ daemonProcess = 0 /\ lastStatus # Signalled => exitCode = lastStatus
        /\ pc = "recheck" => lastStatus = Signalled

OrderInv ==
    /\ FailedForkLeft
    /\ IDIsDaemons
    /\ ChildIsKnown
    /\ SignalsOnlyDaemon
    /\ StatusFollowed

ControlInv == TypeOK /\ OrderInv

-----------------------------------------------------------------------------
(***************************************************************************)
(* Types.  The variables that a step of isDaemonRunning() or waitpid()     *)
(* changes are kept apart from the others.                                 *)
(***************************************************************************)
Entry == [owner : Kinds,
          stat : {"-", "zombie", "killed"} \union Alive,
          status : Endings \union {0}]

TableType ==
    /\ proc \in [Pids -> Entry]
    /\ daemonProcess \in Pids \union {0, -1}
    /\ exitCode \in 0 .. 255
    /\ lastStatus \in Endings \union {0}

PlaceType ==
    /\ pc \in {"idle", "sleep", "kill", "reap", "close", "wait", "recheck"}
    /\ writer \in {"new", "open", "closed"}
    /\ reader \in {"new", "open", "closed"}
    /\ starts \in 0 .. MaxStarts
    /\ signalled \subseteq Kinds
    /\ fault \subseteq {"fork", "EINTR"}

\* TypeOK in two parts: the tables, and where the calls are.
LEMMA TypeParts == TypeOK <=> TableType /\ PlaceType
  BY DEF TypeOK, TableType, PlaceType, Entry

\* The same after a step.
LEMMA TypePartsNext == TypeOK' <=> TableType' /\ PlaceType'
  BY DEF TypeOK, TableType, PlaceType, Entry

\* The entries that the kernel's table is given.
LEMMA NewEntries ==
    /\ Unused \in Entry
    /\ \A owner \in Kinds, stat \in Alive : Process(owner, stat) \in Entry
  BY DEF Unused, Process, Entry, Kinds, Alive

\* An entry of the table stays one when its process stops or ends.
LEMMA ChangedEntries ==
    ASSUME NEW e \in Entry,
           NEW stat \in {"-", "zombie", "killed"} \union Alive,
           NEW status \in Endings \union {0}
    PROVE  /\ [e EXCEPT !.stat = stat] \in Entry
           /\ [e EXCEPT !.stat = stat, !.status = status] \in Entry
  BY DEF Entry

\* An exit code is a byte, and a process that was killed has the code 0.
LEMMA ExitCodeType ==
    \A status \in Unset \union {0} : WEXITSTATUS(status) \in 0 .. 255
  BY ControlAssumption
  DEF WEXITSTATUS, WIFEXITED, Unset, Endings, Signalled, Garbage,
      fdCleanupFailed, daemonExecFailed

\* waitpid() takes an entry from the table.
LEMMA ReapType ==
    ASSUME TableType, NEW p \in Pids, Reap(p)
    PROVE  /\ proc' \in [Pids -> Entry]
           /\ lastStatus' \in Endings \union {0}
           /\ proc[p].status \in Endings \union {0}
<1>1. proc[p] \in Entry
  BY DEF TableType
<1>2. proc[p].status \in Endings \union {0}
  BY <1>1 DEF Entry
<1> QED
  BY <1>2, NewEntries DEF Reap, TableType

\* isDaemonRunning() keeps the types of the tables.
LEMMA RunningType ==
    ASSUME TableType, NEW running \in BOOLEAN, isDaemonRunning(running)
    PROVE  TableType'
<1>1. CASE UNCHANGED <<proc, exitCode, lastStatus>> /\ daemonProcess' \in {0, daemonProcess}
  BY <1>1 DEF TableType
<1>2. CASE \E p \in Zombies(daemonProcess) :
             /\ Reap(p)
             /\ daemonProcess' \in {0, daemonProcess}
             /\ exitCode' \in {exitCode, WEXITSTATUS(proc[p].status)}
  <2>1. PICK p \in Pids : /\ Reap(p)
                          /\ daemonProcess' \in {0, daemonProcess}
                          /\ exitCode' \in {exitCode, WEXITSTATUS(proc[p].status)}
    BY <1>2 DEF Zombies, Waitable, Children
  <2> QED
    BY <2>1, ReapType, ExitCodeType DEF TableType, Unset
<1> QED
  BY <1>1, <1>2 DEF isDaemonRunning

\* A waitpid() that waits takes at most the daemon's entry.
LEMMA WaitType ==
    ASSUME TableType, NEW status, WaitFor(status)
    PROVE  /\ proc' \in [Pids -> Entry]
           /\ lastStatus' \in Endings \union {0}
<1>1. CASE UNCHANGED <<proc, lastStatus>>
  BY <1>1 DEF TableType
<1>2. CASE \E p \in Zombies(daemonProcess) : Reap(p)
  BY <1>2, ReapType DEF Zombies, Waitable, Children
<1> QED
  BY <1>1, <1>2 DEF WaitFor

\* The end of a process leaves its status in its entry.
LEMMA EndType ==
    ASSUME TableType, NEW p \in Pids, NEW status \in Endings,
           End(p, status)
    PROVE  proc' \in [Pids -> Entry]
<1>1. [proc[p] EXCEPT !.stat = "zombie", !.status = status] \in Entry
  BY ChangedEntries DEF TableType
<1> QED
  BY <1>1, NewEntries DEF End, TableType

\* The steps of a call that the application begins keep the types.
LEMMA CallType == TypeOK /\ Call => TypeOK'
<1> SUFFICES ASSUME TypeOK, Call PROVE TypeOK'
  OBVIOUS
<1>0. TableType /\ PlaceType
  BY TypeParts
<1>1. CASE startDaemon
  <2>1. /\ UNCHANGED <<pc, exitCode, lastStatus, signalled>>
        /\ writer' \in {writer, "open"}
        /\ reader' \in {reader, "open"}
        /\ Fork
    BY <1>1 DEF startDaemon, StartWhen, Opened
  <2>2. CASE UNCHANGED <<starts, proc>> /\ daemonProcess' = -1
               /\ fault' = fault \union {"fork"}
    BY <1>0, <2>1, <2>2, TypePartsNext DEF TableType, PlaceType
  <2>3. CASE \E p \in Pids :
               /\ starts < MaxStarts /\ starts' = starts + 1
               /\ proc' = [proc EXCEPT ![p] = Process("daemon", "forked")]
               /\ daemonProcess' = p
               /\ UNCHANGED fault
    <3>1. TableType'
      BY <1>0, <2>1, <2>3, NewEntries DEF TableType, Kinds, Alive
    <3>2. PlaceType'
      BY <1>0, <2>1, <2>3, ControlAssumption DEF PlaceType
    <3> QED
      BY <3>1, <3>2, TypePartsNext
  <2> QED
    BY <2>1, <2>2, <2>3 DEF Fork
<1>2. CASE CheckDaemon
  BY <1>0, <1>2, RunningType, TypePartsNext
  DEF CheckDaemon, CallFrame, pipeVars, PlaceType
<1>3. CASE stopDaemon
  <2>1. {proc[p].owner : p \in Targets(daemonProcess)} \subseteq Kinds
    BY <1>0 DEF TableType, Entry, Targets
  <2> QED
    BY <1>0, <1>3, <2>1, TypePartsNext
    DEF stopDaemon, kill, StopFrame, pipeVars, TableType, PlaceType
<1>4. CASE waitToExit
  BY <1>0, <1>4, RunningType, TypePartsNext
  DEF waitToExit, LoopWhileRunning, CallFrame, pipeVars, PlaceType
<1> QED
  BY <1>1, <1>2, <1>3, <1>4 DEF Call

\* The steps inside a call keep the types.
LEMMA InCallType == TypeOK /\ InCall => TypeOK'
<1> SUFFICES ASSUME TypeOK, InCall PROVE TypeOK'
  OBVIOUS
<1>0. TableType /\ PlaceType
  BY TypeParts
<1>1. CASE CheckStopped
  BY <1>0, <1>1, RunningType, TypePartsNext
  DEF CheckStopped, CallFrame, pipeVars, PlaceType
<1>2. CASE KillDaemon
  <2>1. {proc[p].owner : p \in Targets(daemonProcess)} \subseteq Kinds
    BY <1>0 DEF TableType, Entry, Targets
  <2>2. proc' \in [Pids -> Entry]
    BY <1>0, <1>2, ChangedEntries DEF KillDaemon, TableType
  <2> QED
    BY <1>0, <1>2, <2>1, <2>2, TypePartsNext
    DEF KillDaemon, kill, StopFrame, pipeVars, TableType, PlaceType
<1>3. CASE ReapDaemon
  <2>1. PICK status \in Unset : WaitFor(status) /\ exitCode' = WEXITSTATUS(status)
    BY <1>3 DEF ReapDaemon
  <2>2. TableType'
    BY <1>0, <1>3, <2>1, WaitType, ExitCodeType DEF ReapDaemon, TableType
  <2>3. PlaceType'
    BY <1>0, <1>3, <2>1 DEF ReapDaemon, WaitFor, StopFrame, pipeVars, PlaceType
  <2> QED
    BY <2>2, <2>3, TypePartsNext
<1>4. CASE ClosePipes
  BY <1>0, <1>4, TypePartsNext
  DEF ClosePipes, historyVars, TableType, PlaceType
<1>5. CASE WaitDaemon
  <2>1. PICK status \in Unset :
          /\ WaitFor(status)
          /\ daemonProcess' \in {0, daemonProcess}
          /\ exitCode' \in {exitCode, WEXITSTATUS(status)}
          /\ pc' \in {"idle", "recheck"}
    BY <1>5 DEF WaitDaemon
  <2>2. TableType'
    BY <1>0, <2>1, WaitType, ExitCodeType DEF TableType
  <2>3. PlaceType'
    BY <1>0, <1>5, <2>1 DEF WaitDaemon, WaitFor, pipeVars, PlaceType
  <2> QED
    BY <2>2, <2>3, TypePartsNext
<1>6. CASE Recheck
  BY <1>0, <1>6, RunningType, TypePartsNext
  DEF Recheck, LoopWhileRunning, CallFrame, pipeVars, PlaceType
<1> QED
  BY <1>1, <1>2, <1>3, <1>4, <1>5, <1>6 DEF InCall

\* The steps of the other processes keep the types.
LEMMA OthersType == TypeOK /\ Others => TypeOK'
<1> SUFFICES ASSUME TypeOK,
                    NEW p \in Pids,
                    \/ LaunchDaemon(p) \/ EndProcess(p) \/ DieKilled(p)
                    \/ NewProcess(p) \/ ReapSibling(p)
             PROVE  TypeOK'
  BY DEF Others
<1>0. TableType /\ PlaceType
  BY TypeParts
<1>1. OthersFrame
  BY DEF LaunchDaemon, EndProcess, DieKilled, NewProcess, ReapSibling
<1>2. PlaceType'
  BY <1>0, <1>1 DEF OthersFrame, pipeVars, historyVars, PlaceType
<1>3. SUFFICES proc' \in [Pids -> Entry]
  BY <1>0, <1>1, <1>2, TypePartsNext DEF OthersFrame, historyVars, TableType
<1>4. CASE LaunchDaemon(p)
  <2>1. [proc[p] EXCEPT !.stat = "running"] \in Entry
    BY <1>0, ChangedEntries DEF TableType, Alive
  <2> QED
    BY <1>0, <1>4, <2>1, EndType DEF LaunchDaemon, TableType, Endings
<1>5. CASE EndProcess(p)
  BY <1>0, <1>5, EndType DEF EndProcess, Endings
<1>6. CASE DieKilled(p)
  BY <1>0, <1>6, EndType DEF DieKilled, Endings
<1>7. CASE NewProcess(p)
  BY <1>0, <1>7, NewEntries DEF NewProcess, TableType, Kinds, Alive
<1>8. CASE ReapSibling(p)
  BY <1>0, <1>8, NewEntries DEF ReapSibling, TableType
<1> QED
  BY <1>4, <1>5, <1>6, <1>7, <1>8

-----------------------------------------------------------------------------
(***************************************************************************)
(* The daemon's ID.                                                        *)
(***************************************************************************)
\* While an ID is the daemon's, waitpid() is about the daemon and nobody else.
LEMMA DaemonIsWaitable ==
    ASSUME daemonProcess \in Pids, proc[daemonProcess].owner = "daemon"
    PROVE  Waitable(daemonProcess) = {daemonProcess}
  BY ControlAssumption DEF Waitable, Children

\* waitpid() of the object's ID is never about another ID.
LEMMA WaitableIsDaemon ==
    ASSUME daemonProcess \in Pids \union {0}
    PROVE  Waitable(daemonProcess) \subseteq {daemonProcess} \intersect Pids
  BY ControlAssumption DEF Waitable, Children

USE DEF OrderInv, FailedForkLeft, IDIsDaemons, ChildIsKnown, SignalsOnlyDaemon,
        StatusFollowed

\* isDaemonRunning(), also where the ID may be anybody's but a sibling's: the
\* ID is given up when nobody has it any more, and it is the daemon's when
\* the answer is true.
LEMMA RunningOrder ==
    ASSUME TypeOK, OrderInv, CallFrame, pc' # "recheck",
           NEW running \in BOOLEAN, isDaemonRunning(running)
    PROVE  OrderInv'
<1>0. TableType
  BY TypeParts
<1>1. CASE /\ Waitable(daemonProcess) = {}
           /\ daemonProcess' = 0
           /\ UNCHANGED <<proc, exitCode, lastStatus>>
  <2>1. \A p \in Pids : proc[p].owner = "daemon" => p # daemonProcess
    BY <1>1, DaemonIsWaitable
  <2>2. fault = {} /\ daemonProcess # 0 => lastStatus = Signalled
    BY <1>0, <2>1 DEF TableType
  <2> QED
    BY <1>1, <2>1, <2>2, ControlAssumption DEF CallFrame
<1>2. CASE /\ Waitable(daemonProcess) # {}
           /\ UNCHANGED <<proc, daemonProcess, exitCode, lastStatus>>
  <2>1. daemonProcess \in Pids => proc[daemonProcess].owner = "daemon"
    BY <1>2, WaitableIsDaemon DEF Waitable, Children
  <2> QED
    BY <1>2, <2>1 DEF CallFrame
<1>3. CASE \E p \in Zombies(daemonProcess) :
             /\ Reap(p)
             /\ IF p = daemonProcess
                THEN /\ daemonProcess' = 0
                     /\ exitCode' = WEXITSTATUS(proc[p].status)
                ELSE UNCHANGED <<daemonProcess, exitCode>>
  <2>1. PICK p \in Pids : /\ p \in Waitable(daemonProcess)
                          /\ Reap(p)
                          /\ IF p = daemonProcess
                             THEN /\ daemonProcess' = 0
                                  /\ exitCode' = WEXITSTATUS(proc[p].status)
                             ELSE UNCHANGED <<daemonProcess, exitCode>>
    BY <1>3 DEF Zombies, Waitable, Children
  <2>2. proc' = [proc EXCEPT ![p] = Unused] /\ Unused.owner = "none"
    BY <2>1 DEF Reap, Unused
  <2>3. CASE p = daemonProcess
    <3>1. proc[p].owner = "daemon"
      BY <2>1, <2>3 DEF Waitable, Children
    <3>2. lastStatus' = proc[p].status
      BY <2>1, <3>1 DEF Reap
    <3>3. lastStatus' # Signalled => exitCode' = lastStatus'
      BY <2>1, <2>3, <3>2 DEF WEXITSTATUS, WIFEXITED
    <3> QED
      BY <1>0, <2>1, <2>2, <2>3, <3>3, ControlAssumption DEF CallFrame, TableType
  <2>4. CASE p # daemonProcess
    <3>1. daemonProcess = -1
      BY <1>0, <2>1, <2>4, WaitableIsDaemon DEF TableType
    <3> QED
      BY <1>0, <2>1, <2>2, <2>4, <3>1, ControlAssumption DEF CallFrame, TableType
  <2> QED
    BY <2>3, <2>4
<1> QED
  BY <1>1, <1>2, <1>3 DEF isDaemonRunning

\* waitpid() that waits for the daemon: either its status is known and nobody
\* has its ID any more, or the status is anything.
LEMMA WaitOrder ==
    ASSUME TypeOK, OrderInv, pc # "recheck", NEW status, WaitFor(status)
    PROVE  \/ /\ UNCHANGED proc
              /\ fault' = fault \union {"EINTR"}
           \/ /\ UNCHANGED fault
              /\ \A p \in Pids : proc'[p].owner \in {proc[p].owner, "none"}
              /\ \/ /\ daemonProcess \in Pids
                    /\ lastStatus' = status
                    /\ proc'[daemonProcess].owner = "none"
                 \/ daemonProcess = -1
<1>0. TableType
  BY TypeParts
<1>1. CASE \E p \in Zombies(daemonProcess) :
             /\ Reap(p)
             /\ status = proc[p].status
             /\ UNCHANGED fault
  <2>1. PICK p \in Pids : /\ p \in Waitable(daemonProcess)
                          /\ Reap(p)
                          /\ status = proc[p].status
                          /\ UNCHANGED fault
    BY <1>1 DEF Zombies, Waitable, Children
  <2>2. proc' = [proc EXCEPT ![p] = Unused] /\ Unused.owner = "none"
    BY <2>1 DEF Reap, Unused
  <2>3. \A q \in Pids : proc'[q].owner \in {proc[q].owner, "none"}
    BY <1>0, <2>2 DEF TableType
  <2>4. CASE daemonProcess \in Pids
    BY <1>0, <2>1, <2>2, <2>3, <2>4, WaitableIsDaemon DEF Reap, TableType
  <2>5. CASE daemonProcess \notin Pids
    BY <1>0, <2>1, <2>3, <2>5, WaitableIsDaemon DEF TableType
  <2> QED
    BY <2>4, <2>5
<1> QED
  BY <1>1 DEF WaitFor

\* The steps of a call that the application begins keep the order.
LEMMA CallOrder == TypeOK /\ OrderInv /\ Call => OrderInv'
<1> SUFFICES ASSUME TypeOK, OrderInv, Call PROVE OrderInv'
  OBVIOUS
<1>0. TableType
  BY TypeParts
<1>1. CASE startDaemon
  <2>1. /\ UNCHANGED <<pc, exitCode, lastStatus, signalled>>
        /\ pc = "idle" /\ daemonProcess = 0
        /\ Fork
    BY <1>1 DEF startDaemon, StartWhen
  <2>2. CASE /\ UNCHANGED proc
             /\ daemonProcess' = -1
             /\ fault' = fault \union {"fork"}
    BY <2>1, <2>2, ControlAssumption
  <2>3. CASE \E p \in Pids :
               /\ proc' = [proc EXCEPT ![p] = Process("daemon", "forked")]
               /\ daemonProcess' = p
               /\ UNCHANGED fault
    BY <1>0, <2>1, <2>3, ControlAssumption DEF Process, TableType
  <2> QED
    BY <2>1, <2>2, <2>3 DEF Fork
<1>2. CASE CheckDaemon
  BY <1>2, RunningOrder DEF CheckDaemon
<1>3. CASE stopDaemon
  <2>1. daemonProcess \in Pids => Targets(daemonProcess) \subseteq {daemonProcess}
    BY ControlAssumption DEF Targets
  <2> QED
    BY <1>0, <1>3, <2>1 DEF stopDaemon, kill, TableType
<1>4. CASE waitToExit
  BY <1>4, RunningOrder DEF waitToExit, LoopWhileRunning
<1> QED
  BY <1>1, <1>2, <1>3, <1>4 DEF Call

\* The steps inside a call keep the order.
LEMMA InCallOrder == TypeOK /\ OrderInv /\ InCall => OrderInv'
<1> SUFFICES ASSUME TypeOK, OrderInv, InCall PROVE OrderInv'
  OBVIOUS
<1>0. TableType
  BY TypeParts
<1>1. CASE CheckStopped
  BY <1>1, RunningOrder DEF CheckStopped
<1>2. CASE KillDaemon
  <2>1. daemonProcess \in Pids => Targets(daemonProcess) \subseteq {daemonProcess}
    BY ControlAssumption DEF Targets
  <2>2. \A p \in Pids : proc'[p].owner = proc[p].owner
    BY <1>0, <1>2 DEF KillDaemon, TableType, Entry
  <2>3. daemonProcess = 0 => Targets(daemonProcess) = {}
    BY ControlAssumption DEF Targets
  <2> QED
    BY <1>0, <1>2, <2>1, <2>2, <2>3 DEF KillDaemon, kill, TableType
<1>3. CASE ReapDaemon
  <2>1. PICK status \in Unset : WaitFor(status) /\ exitCode' = WEXITSTATUS(status)
    BY <1>3 DEF ReapDaemon
  <2>2. daemonProcess' = 0 /\ pc = "reap" /\ pc' = "close" /\ UNCHANGED signalled
    BY <1>3 DEF ReapDaemon
  <2>3. status # Signalled => exitCode' = status
    BY <2>1 DEF WEXITSTATUS, WIFEXITED
  <2> QED
    BY <1>0, <2>1, <2>2, <2>3, WaitOrder, ControlAssumption DEF TableType
<1>4. CASE ClosePipes
  BY <1>4 DEF ClosePipes, historyVars
<1>5. CASE WaitDaemon
  <2>1. PICK status \in Unset :
          /\ WaitFor(status)
          /\ \/ /\ status # Signalled
                /\ daemonProcess' = 0 /\ exitCode' = status /\ pc' = "idle"
             \/ /\ status = Signalled /\ pc' = "recheck"
                /\ UNCHANGED <<daemonProcess, exitCode>>
    BY <1>5 DEF WaitDaemon, WEXITSTATUS, WIFEXITED
  <2>2. pc = "wait" /\ UNCHANGED signalled
    BY <1>5 DEF WaitDaemon
  <2> QED
    BY <1>0, <2>1, <2>2, WaitOrder, ControlAssumption DEF TableType
<1>6. CASE Recheck
  BY <1>6, RunningOrder DEF Recheck, LoopWhileRunning
<1> QED
  BY <1>1, <1>2, <1>3, <1>4, <1>5, <1>6 DEF InCall

\* Other processes never take an ID from the daemon, and siblings are started
\* between calls only.
LEMMA OwnersKept ==
    ASSUME TypeOK, Others, NEW q \in Pids
    PROVE  \/ proc'[q].owner = proc[q].owner
           \/ /\ proc[q].owner # "daemon"
              /\ \/ proc'[q].owner \in {"none", "stranger"}
                 \/ pc = "idle" /\ proc'[q].owner = "sibling"
<1>0. TableType
  BY TypeParts
<1>1. PICK p \in Pids : \/ LaunchDaemon(p) \/ EndProcess(p) \/ DieKilled(p)
                        \/ NewProcess(p) \/ ReapSibling(p)
  BY DEF Others
<1>2. ASSUME NEW status, End(p, status)
      PROVE  \/ proc'[q].owner = proc[q].owner
             \/ proc[q].owner # "daemon" /\ proc'[q].owner = "none"
  <2>1. p \notin Children => proc[p].owner # "daemon"
    BY DEF Children
  <2>2. [proc[p] EXCEPT !.stat = "zombie", !.status = status].owner = proc[p].owner
    BY <1>0 DEF TableType, Entry
  <2>3. Unused.owner = "none"
    BY DEF Unused
  <2> QED
    BY <1>0, <1>2, <2>1, <2>2, <2>3 DEF End, TableType
<1>3. CASE LaunchDaemon(p)
  <2>1. [proc[p] EXCEPT !.stat = "running"].owner = proc[p].owner
    BY <1>0 DEF TableType, Entry
  <2> QED
    BY <1>0, <1>2, <1>3, <2>1 DEF LaunchDaemon, TableType
<1>4. CASE EndProcess(p)
  BY <1>2, <1>4 DEF EndProcess
<1>5. CASE DieKilled(p)
  BY <1>2, <1>5 DEF DieKilled
<1>6. CASE NewProcess(p)
  BY <1>0, <1>6 DEF NewProcess, Unused, Process, TableType
<1>7. CASE ReapSibling(p)
  BY <1>0, <1>7 DEF ReapSibling, Unused, TableType
<1> QED
  BY <1>1, <1>3, <1>4, <1>5, <1>6, <1>7

\* The steps of the other processes keep the order.
LEMMA OthersOrder == TypeOK /\ OrderInv /\ Others => OrderInv'
<1> SUFFICES ASSUME TypeOK, OrderInv, Others PROVE OrderInv'
  OBVIOUS
<1>1. OthersFrame
  BY DEF Others, LaunchDaemon, EndProcess, DieKilled, NewProcess, ReapSibling
<1> QED
  BY <1>1, OwnersKept DEF OthersFrame, historyVars

-----------------------------------------------------------------------------
\* At first no process has been started and the object's ID is 0.
LEMMA ControlInit == Init => ControlInv
<1> SUFFICES ASSUME Init PROVE ControlInv
  OBVIOUS
<1>1. TableType
  BY NewEntries DEF Init, TableType, Kinds, Alive
<1>2. PlaceType
  BY ControlAssumption DEF Init, PlaceType
<1>3. \A p \in Pids : proc[p].owner # "daemon"
  BY DEF Init, Unused, Process
<1> QED
  BY <1>1, <1>2, <1>3, TypeParts, ControlAssumption DEF ControlInv, Init

\* Every step, of the application or of others, keeps the invariant.
LEMMA ControlStep == ControlInv /\ [Next]_vars => ControlInv'
<1> SUFFICES ASSUME ControlInv, [Next]_vars PROVE ControlInv'
  OBVIOUS
<1> USE DEF ControlInv
<1>1. CASE Call
  BY <1>1, CallType, CallOrder
<1>2. CASE InCall
  BY <1>2, InCallType, InCallOrder
<1>3. CASE Others
  BY <1>3, OthersType, OthersOrder
<1>4. CASE UNCHANGED vars
  BY <1>4 DEF vars, pipeVars, historyVars, TypeOK
<1> QED
  BY <1>1, <1>2, <1>3, <1>4 DEF Next

\* The object's ID, the kernel's table and the status agree in every state.
THEOREM ControlCorrect == Spec => []ControlInv
  BY ControlInit, ControlStep, PTL DEF Spec

\* The object's variables and the kernel's table keep their types: an exit code
\* is a byte, whatever waitpid() leaves unset.
THEOREM ControlTypeCorrect == Spec => []TypeOK
<1>1. ControlInv => TypeOK
  BY DEF ControlInv
<1> QED
  BY <1>1, ControlCorrect, PTL

\* stopDaemon(): as long as no fork() has failed, neither SIGTERM nor SIGKILL
\* reaches anybody but the daemon, however IDs are used again.
THEOREM SignalsCorrect == Spec => []SignalsOnlyDaemon
<1>1. ControlInv => SignalsOnlyDaemon
  BY DEF ControlInv
<1> QED
  BY <1>1, ControlCorrect, PTL

\* startDaemon(): the object never forgets a daemon that it has started and that
\* was not reaped, unless a waitpid() was interrupted.
THEOREM ChildCorrect == Spec => []ChildIsKnown
<1>1. ControlInv => ChildIsKnown
  BY DEF ControlInv
<1> QED
  BY <1>1, ControlCorrect, PTL

\* getExitCode(): the code is that of the daemon that was reaped last, whichever
\* function has reaped it.
THEOREM ExitCodeCorrect == Spec => []ExitCodeOfLast
<1>1. ControlInv => ExitCodeOfLast
  BY DEF ControlInv, ExitCodeOfLast
<1> QED
  BY <1>1, ControlCorrect, PTL
=============================================================================
