---------------------------- MODULE ProcessData ----------------------------
(***************************************************************************)
(* Process::Data and Process::State (Source/Daemon/Process): what a daemon *)
(* learns about another process from /proc/<pid>/stat and /proc/<pid>/exe. *)
(*                                                                         *)
(* A process table maps a process ID to an entry [stat, exe, startTime]:   *)
(* the state letter of the stat file, the target of the exe link and the   *)
(* start time.  The letter "-" marks an ID that no process uses, and the   *)
(* exe link of a zombie, or of no process at all, cannot be read.          *)
(***************************************************************************)
EXTENDS Integers

CONSTANT NoPath    \* the empty string executablePath starts with

(***************************************************************************)
(* enum class Process::State                                               *)
(***************************************************************************)
State == {"running", "sleeping", "diskSleep", "zombie", "stopped",
          "tracingStop", "paging", "dead", "idle", "unknown", "invalid"}

readStateChar(stateCode) ==
    CASE stateCode \in {"R", "C"}      -> "running"
      [] stateCode = "S"               -> "sleeping"
      [] stateCode \in {"K", "P", "D"} -> "diskSleep"
      [] stateCode = "Z"               -> "zombie"
      [] stateCode = "T"               -> "stopped"
      [] stateCode = "t"               -> "tracingStop"
      [] stateCode = "W"               -> "paging"
      [] stateCode \in {"X", "x"}      -> "dead"
      [] OTHER                         -> "unknown"

\* Whether opening /proc/<pid>/stat finds a file.
HasStat(procs, pid) == pid \in DOMAIN procs /\ procs[pid].stat # "-"

\* Data(): the empty, invalid object.
InvalidData ==
    [processId |-> -1, executablePath |-> NoPath,
     lastState |-> "invalid", startTime |-> 0]

\* Data(pid): the stat items and the exe link of a process, if it exists.
ReadData(procs, pid) ==
    IF HasStat(procs, pid)
    THEN [processId      |-> pid,
          executablePath |-> procs[pid].exe,
          lastState      |-> readStateChar(procs[pid].stat),
          startTime      |-> procs[pid].startTime]
    ELSE InvalidData

\* Mutant: update() takes the new reading whatever it names.
UpdatedAlways(procs, data) == ReadData(procs, data.processId)

\* Data::update(): keep the new reading only if it names the same executable.
Updated(procs, data) ==
    LET updatedData == ReadData(procs, data.processId)
    IN  IF updatedData.executablePath = data.executablePath
        THEN updatedData
        ELSE InvalidData

\* Data::isValid()
isValid(data) == data.lastState # "invalid"

\* Mutant: only a process that is on the processor counts as running.
CountsOnlyRunning(data) == data.lastState = "running"

\* The test Security::parentProcessRunning() makes of the updated data.
CountsAsRunning(data) ==
    data.lastState \notin {"stopped", "zombie", "dead", "invalid"}
=============================================================================
