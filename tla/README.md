# DaemonFramework in TLA+

DaemonFramework is a C++ library with two halves. One is linked into a *daemon*:
a process that runs a loop, talks to the application that launched it over two
named pipes, and checks that the application and its own executable are the
expected ones. The other is linked into the *parent* application and launches,
watches, messages and stops the daemon. This directory has TLA+ modules of that
code, TLC configurations that check them, and TLAPS proofs about them. Paths
below are relative to `src/`.

## 1. The system

| Component | State it keeps | Operations | Modelled in |
|---|---|---|---|
| `DaemonLoop` (`Source/Daemon/DaemonLoop.cpp`) | `loopRunning`, `lockFD`, the static `termSignalReceived`, two pipes, a `Security` object | constructor, `runLoop()`, `messageParent()`, destructor, SIGTERM handler; `initLoop()`, `loopAction()` and `handleParentMessage()` of the application | `DaemonLoop`, `DaemonMessages` |
| `Process::Security` | data of the daemon and of its parent, read by the constructor | `validDaemonPath()`, `validParentPath()`, the two directory checks, `parentProcessRunning()` | `DaemonLoop` |
| `Process::Data`, `Process::State` | ID, executable, state letter, start time | construction from `/proc`, `update()`, `isValid()`, `getChildProcesses()` | `ProcessData`, `StatFile` |
| `ThreadedInit` (`Source/Shared/ThreadedInit.cpp`) | started, finished and succeeded flags, a mutex, a condition variable, a thread ID | `startInitThread()`, `waitForInit()`, `cancelInit()`, `threadAction()`, destructor | `ThreadedInit` |
| `Pipe::Writer` | a descriptor, a mutex, and what `ThreadedInit` has | `openPipe()`, `sendData()`, `closePipe()`, `threadedInitAction()`, constructor, destructor | `PipeWriter` |
| `InputReader`, `Pipe::Reader` | a descriptor, a state, a mutex, a reading thread, a buffer, a listener | `startReading()`, `stopReading()`, `readLoop()`, `openPipe()`, `closePipe()`, constructor, destructors | `PipeReader` |
| `DaemonControl` (`Source/Parent/DaemonControl.cpp`) | process ID and exit code of the daemon, two pipes | `startDaemon()`, `stopDaemon()`, `isDaemonRunning()`, `waitToExit()`, `getExitCode()`, `messageParent()` | `DaemonControl`, `DaemonMessages` |
| `File::Utils`, `Pipe::createPipe()` | the file system | `createDir()`, `parentDir()`, `getPathType()`, `createPipe()` | `FileUtils` |
| `ExitCode` | - | names of codes | constants of `DaemonLoop` |
| `Debug.h`, `*.mk`, `Tests/*.py` | - | logging, build options, drivers | options are CONSTANTS, the rest has no behaviour |

How they interact:

* **Shared files.** Every daemon process opens the same lock file, in a directory
  that it may have to create, and the same two pipes. `flock()` decides who runs.
* **The process table.** The daemon reads `/proc/<parent>/stat` and `exe`, in
  separate system calls, while the parent exits, is reaped, is stopped, or its
  process ID is used again.
* **Threads.** A pipe object opens its file on a thread of its own, because
  `open()` of a pipe blocks until the other end is open. The object's flags, its
  mutex and the condition variable connect that thread with the callers.
* **Callbacks.** `Pipe::Reader`'s thread calls `processData()` of its listener,
  which is the daemon object itself, or an object of the parent.
* **Signals.** SIGTERM and SIGKILL arrive between any two steps.

What is hard here: the race for the lock and its directory, the returns of
`runLoop()` that leave different things behind, the parent's identity under
exit, adoption and reuse of process IDs, threads that are cancelled while they
hold a mutex, waits without a predicate, objects that are closed twice or
used after they were closed, callbacks of an object that is half constructed or half
destroyed, several readers of one pipe, messages that arrive in pieces, and files that
appear between a test and its use. `PROJECT.json` lists the hazards line by line, each
with the properties that watch it.

What makes each component correct:

* `DaemonLoop`: one daemon at a time is past the lock; it cannot be lost by the
  destruction of another; someone wins; a daemon whose launcher is gone, or whose
  time is over, stops; the exit code tells the truth.
* `Process::*`: the data kept are those of the process that launched the daemon
  until they become invalid.
* `ThreadedInit`: the flags are true when read, every waiter is woken, cancelling
  returns and leaves no thread behind.
* `Pipe::Writer`: data are written only to the pipe, only when it is open;
  `sendData()` has a time limit, `closePipe()` returns and is final.
* `InputReader`, `Pipe::Reader`: nobody closes the file under `select()` or
  `read()`; after `closePipe()` the listener is not called again and nothing is
  opened; what a peer writes is read; the end of the file is noticed; `closePipe()`
  returns once no writer has the pipe open.
* `DaemonControl`: nobody but the daemon is signalled, although its ID is used again
  once it was reaped; no daemon is forgotten while it runs; the exit code is that of
  the daemon that ended last; stopping ends the daemon, and both waiting calls return.
* Messages: no byte is handled twice or out of order, whoever reads; what a daemon
  takes after its construction reaches its handler; the answer of `sendData()` is
  true of a message that no signal has cut; SIGPIPE does not end the application while
  the daemon it knows of has the pipe open; a running daemon empties the pipe.
* File functions: `parentDir()` names the directory above, so that `createDir()` ends;
  true means that the file is there as asked for; a file that was there from the beginning
  is never answered with false, and any other false has a reason; of processes that race,
  one succeeds.
* Stat files: an ordinary name, spaces included, is read right, and reading fails only
  for the reasons section 5 gives.

## 2. Modules

`ProcessData` has the data one process learns about another as operators over a
*process table*: ID to state letter, executable and start time. The letter `"-"`
stands for an ID nobody uses. `Updated` is `Data::update()` with its comparison
of the executable path and nothing else, `CountsAsRunning` the test of
`parentProcessRunning()`.

`SingleInstance` is the abstract specification of the lock file: a set `holder`
with at most one daemon, the set `running`, and the set `served` of those that
ever held it. A daemon starts only when nobody holds it and it never held it
before, may stop and still keep the others out, and releases by destruction or by
death.

`DaemonLoop` EXTENDS `ProcessData` and models any number of daemon processes, the
lock file with its directory, and the processes that launched them. `pc[d]` is
the place of process `d`; one action is the code between two system calls that
others can see:

| places | code | actions |
|---|---|---|
| `born`, `lookup`, `parse`, `construct` | `Security::Security()`, then the constructor's body | `ReadSelf`, `OpenParentStat`, `ReadParentStat`, `Construct` |
| `idle` | `main()` between calls | `RunLoop`, `ClosePipes` |
| `open`, `stat`, `mkdir`, `flock` | `runLoop()` to the lock, with `createDir()` | `OpenLock`, `CheckLockDir`, `MakeLockDir`, `TakeLock` |
| `checks`, `init` | the security checks and `initLoop()` | `SecurityChecks`, `InitLoop` |
| `loop`, `update`, `timeout`, `action` | one iteration | `BeginIteration`, `UpdateParent`, `CheckTimeout`, `LoopAction` |
| `unlock`, `exit` | the destructor, the end of the process | `ReleaseLock`, `Exit` |
| `ended`, `killed`, `crashed` | nothing any more | |

A lock belongs to an open file, not to a process, so `lockOwner` is a pair of the
process and the number of the call of `runLoop()` that opened the file, and a
second call in one process is refused by the first call's file. `ReturnStopped`
and `ReturnRunning` are the two kinds of `return` of `runLoop()`: those that reset
`loopRunning` and those that do not. The environment stops, continues, ends and
reaps launchers, gives their daemons to the adopter, gives their IDs to other
processes, sends signals and lets time pass. `staleActions` and `served` are
history variables.

`ThreadedInit` has the state and the steps of that class; it has no `Next`,
because the class is abstract. `PipeWriter` EXTENDS it with the derived class: the
object's owner opens, closes and destroys it, *senders* call `sendData()`,
*waiters* call `waitForInit()`, and peer processes open, read and close the other
end. What is under a mutex is one step, except where the mutex is held while the
thread blocks: `lock` is a variable because `open()` and `write()` run under it.
`pthread_cancel()` ends the thread in `open()` and nowhere else, and the unwinding
of the stack releases the mutex.

`PipeReader` EXTENDS `ThreadedInit` too. Four actors share the object. The
*initialization thread* runs `startReading()` (`BeginOpen`, `FinishOpen` or
`ActOnCancel`, `CreateReader`, `ReportInit`) and creates the *reading thread*, whose
place is `readPc`: `test`, `lock`, `select`, `read` and `callback` are the iteration of
`readLoop()`, and `readerMutex` is held from `lock` to the end of the iteration, the
listener's `processData()` included. The listener may call `closePipe()` itself, on
the reading thread: places `cancel`, `join` and `stop`. The *owner* calls `openPipe()`,
`closePipe()` and the destructors, which are three (`task`): that of `Reader`, that of
`InputReader` and that of `ThreadedInit`, each of which closes or cancels once more.
*Peers* open the pipe for writing, one after another, write and leave. To cancel or
join a thread that was joined before, or that another thread is joining, is
undefined: the process goes on or crashes.

`DaemonControl` has the application's object and, as its environment, the kernel's
table of processes: `proc[p]` is the owner of ID `p` (the *daemon*, a *sibling*, which
is another child of the application, a *stranger*, or nobody), its status letter and
what `waitpid()` would tell of it. An action is the code between two system calls:
`startDaemon` to `fork()`, `stopDaemon` to `sleep()`, `CheckStopped`, `KillDaemon`,
`ReapDaemon`, `ClosePipes`, and the loop of `waitToExit()` as `waitToExit`, `WaitDaemon`
and `Recheck`. `isDaemonRunning(running)` is the function of that name with its answer
as the parameter, and is part of each action that calls it. `kill()` and `waitpid()`
take -1 for all processes, which is what a failed `fork()` leaves in `daemonProcess`; a
`waitpid()` that is interrupted leaves the status unset, so that it has any value.

`MessageChannel` is the abstract specification of the input pipe: a stream of bytes,
each known by its place, of which every receiver is handed pieces in order, and nobody
a byte that was handed out before. It may lose bytes, and a piece is not a message.

`DaemonMessages` puts the two halves of the library together around that pipe, at
the level of what the classes show one another; `PipeWriter`, `PipeReader`,
`DaemonControl` and `DaemonLoop` have the steps inside each of them. There is one
application (`appPc`, `writer`) that starts, stops, restarts and messages its daemons, and any
number of daemon processes, some of them started elsewhere, each with a reader of the same pipe.
An end of the pipe is `new`, then `starting` from `openPipe()` until its initialization thread
comes to `open()` (`BeginOpenWriter`, `BeginOpenReader`), then `opening` while that blocks, which
is when it first counts as having the pipe open, then `open`. The point of the module is the life of the daemon object (`phase`):

| phase | code | virtual calls go to |
|---|---|---|
| `base` | the constructor of `DaemonLoop` has called `openPipe()` | the base class, which does nothing |
| `derived` | the constructor of the application's class, or `main()` before `runLoop()` | the application's class |
| `running`, `refused` | `runLoop()`, with the lock or without | the application's class |
| `derivedEnd` | the members of the application's class are destroyed | the application's class |
| `baseEnd` | `~DaemonLoop()`, which closes the pipe | the base class |

while the reading thread is in `Read`, `processData` or the handler (`taken`, `call`).
`Write` writes a short message at once and any part of a long one; `InterruptWrite` and
`BreakPipe` are the signals that end it; `LoseIfUnused` empties the pipe when nobody has it
open. `handled`, `readyAt`, `cut`, `elsewhere` (the daemons that others have started) and `left`
(the daemons whose end `isDaemonRunning()` has noticed, after which the writer stays open) are
history variables.

`FileUtils` has `parentDir()`, `getPathType()`, `createDir()` and `createPipe()`. A path is
a sequence of names and slashes, so that repeated and trailing slashes are what the code
sees; a file is a node, the sequence of names that lead to it (`Node`, with the names of a path
numbered by their rank in it), and `files` says what is at each node. `ParentAt` is the search of `parentDir()` with its three special cases.
`createDir()` calls itself: `pending[p]` is the stack of those calls, the innermost
first, with `CheckType` and `Mkdir` the two system calls of each. `Access`, `Stat` and
`Mkfifo` are those of `createPipe()`. `found`, `could` and `raced` are history:
whether the file was there when the call began, whether it was there or could be made, and
whether another process has made a file of its path since.

`StatFile` is the parser of `/proc/<pid>/stat`. A word has what the parser looks at:
whether it begins with `(`, whether it ends with `)`, and what it is (`is`: a field of the
file, or a word or number of the process's name). The process may vanish between any two
steps; an index beyond the vector, and an exception that nobody catches, are `crashed`.

The theorems about a module are in the module named after it: `DaemonLoopProofs` and
`DaemonLoopParentProofs`, `PipeWriterProofs`, `PipeReaderProofs`, `DaemonControlProofs`,
`DaemonMessagesProofs`, `FileUtilsProofs` and `StatFileProofs`. `MCDaemonLoop`, `MCPipeWriter`,
`MCDaemonMessages` and `MCFileUtils` give TLC the constants a cfg cannot write down.

## 3. What the runs check

Runs that pass:

| run | instance | shows |
|---|---|---|
| `DaemonLoop_race` | 3 daemons, 2 calls of `runLoop()` each, lock directory there or not, checks 1 and 4 failing at will, a timeout, SIGTERM, SIGKILL, EINTR; 974k states | `TypeOK`; `MutualExclusion`: two daemons are never both past the lock; `PipesClosedBeforeNext`: nobody gets past it while a former holder has its pipes; `NotAllRefused`: the race for the directory and the lock has a winner; `ImplementsSingleInstance` |
| `DaemonLoop_parent` | 2 daemons of one launcher, which is the required program or another, is stopped, exits, is reaped, and whose ID is used again; 266k states, with fairness | `StaleActionBound`: at most one `loopAction()` begins after the launcher's exit; `WatchesLauncher`: with a required path that no later owner of an ID has, the process watched is the launcher itself, by its ID and start time, although the ID was looked up late; `ParentEndedIsTrue`: `daemonParentEnded` (6) is returned only when the launcher has exited, or the process that is watched was stopped when it was last read; `LoopEnds`: after the launcher's end, or once the time is over, the loop ends |
| `PipeWriter_calls` | 2 senders, 1 waiter, an owner that opens, closes and destroys in any order, failing `pthread_create()` and `open()`, a pipe for one message, 2 successive peers; 32k states, with fairness | `TypeOK`; `NoStrayWriteBeforeClose`; `SendNeverWaitsForOpen`; `ClosedStaysClosed`; `CallsReturn`: `closePipe()` and `sendData()` return; `WaiterWakesUp` |
| `PipeReader_calls` | an owner that opens, closes and destroys in any order, a listener that may close the pipe, or none, 2 successive writers with 3 messages, failing `open()`, `read()` and `pthread_create()`; 17k states, with fairness | `TypeOK`; `FileStaysOpen`; `QuietAfterClose`; `CloseReturns`: once no writer has the pipe open any more, `closePipe()` and the destructor return; `MessagesAreRead`, `EndOfFileCloses` |
| `DaemonControl_calls` | an application that starts, checks, waits for and stops its daemon in any order; daemons that end, are killed or ignore SIGTERM; 2 process IDs that strangers and siblings use as well; failing `fork()`, `execv()`, cleanup and `waitpid()`; 345k states, with fairness | `TypeOK`; `SignalsOnlyDaemon` (until a `fork()` fails); `ChildIsKnown`; `ExitCodeOfLast`; `StopEndsDaemon`: `stopDaemon()` returns and the daemon has ended; `WaitReturns` |
| `DaemonMessages_pipe` | an application that starts, stops, restarts and messages its daemon, another daemon that may be started elsewhere and reads the same pipe, a message that is written at once and one that is written in parts; signals, a failing `open()`, SIGKILL; 299k states, with fairness | `TypeOK`; `NothingLost`: from the constructor of the daemon's class on, a byte that is taken is handled, unless there were other readers; `AnswerUnlessInterrupted`: false means that nothing was written, true that all was, unless a signal ended the `write()` or the pipe was closed; `KilledOnlyWhenAlone`: SIGPIPE ends an application that is alone with its daemons only when the daemon it knows of has closed its end, or when the end of an earlier one was noticed and the next has not come to `open()`; `ImplementsChannel`; `PipeIsEmptied` |
| `FileUtils_create` | 2 processes with 2 calls each out of 7, on absolute and relative paths, a directory and a pipe of one name, every state of the files under the root; 373k states | `TypeOK`; `ParentIsAbove`, for every path of up to 5 symbols; `AnswerHasReason`: true is true, and false is never said of a file that was there when the call began, nor without a reason; `SomeoneSucceeds` |
| `StatFile_parse` | every name of up to 4 words, the process vanishing anywhere; 39k states | `TypeOK`; `ReadRight`: the data are right if and only if no word of the name but its last ends with `)`; `CrashHasReason` |

Runs that show where the code does not do what a comment says of it:

| run | what TLC finds |
|---|---|
| `DaemonLoop_sigterm` | the handler is stored in the structure after `sigaction()` used it: SIGTERM kills the process in its loop |
| `DaemonControl_fork` | a failed `fork()` leaves -1 in `daemonProcess`, and `stopDaemon()` sends SIGTERM to every process of the user |
| `DaemonMessages_signal` | a signal ends a `write()` that blocks after a part of the message, and `sendData()` returns true, which `Pipe_Writer.h` says means that the data was sent correctly |
| `FileUtils_lost` | of two processes that create the same pipe, the one that comes second to `mkfifo()` returns false, although `Pipe.h` says "True if and only if the file was created or a file already exists at that path with the correct properties" |

### Bounds, and why they are enough

* Three daemons: one holds the lock, one is refused, one is anywhere else. The
  code compares a daemon with the lock, never with a particular other daemon, so
  a fourth finds no new situation; the theorems need no bound.
* `MaxRuns = 2`: a second call finds all that a first one can leave behind (the
  flag set or not, the descriptor -1, 0 or open, the lock held or not). With a
  third it would find the same.
* `MaxStartTime = 2`: an ID is used again once; `update()` does not read the start
  time, so a second reuse looks like the first.
* `staleActions` is cut at 2, one more than the bound it is compared with.
* `LoopCodes` has one code to go on and one to stop.
* `MaxSends = 1` with two senders: two messages for a pipe that takes one, so that
  `write()` blocks.
* `MaxPeers = 2`: a reader that goes away and comes back. A bounded number of
  peers also lets senders wait for a reader that never comes.
* In `PipeReader_calls`, `MaxPeers = 2` lets a writer come back between `select()` and
  `read()`; `Capacity = 2` with `BufferSize = 1` leaves something in the pipe after a
  read, and `MaxMessages = 3` lets a message arrive while one is handled.
* In `DaemonControl_calls`, 2 IDs and `MaxStarts = 2`: a first daemon's ID is used
  again by each kind of process while the second runs under the other or the same one.
  One pipe is enough, since the properties of the run are not about pipes.
* In `DaemonMessages_pipe`, two daemons: one that the application started, and one that is
  started elsewhere or is the first one's successor; a third reader would take bytes as the second does. With
  `PipeBuf = 1`, the message of 2 bytes is long; with `Capacity = 2` it blocks behind the
  short one, and with `BufferSize = 2` one `read()` joins the end of one message with
  the beginning of the next.
* In `FileUtils_create`, paths of 5 symbols have three names, or two with a slash
  repeated inside or at the end, which is every case `parentDir()` distinguishes; three
  processes with one call each were run as well (1.8 million states) and agree. In the working
  directory there are directories or nothing at first, under the root there is anything.
* In `StatFile_parse`, a name of 4 words has a word before, between and after two words
  that end with `)`. Of the file's 52 fields, the parser reads up to the 22nd; a
  name that is split only adds items, so 24 fields are as good.
* CHECK_DEADLOCK is off in every run: daemons end, and nobody has to call an idle object.

### Fairness, and why the code justifies it

`DaemonLoop!FairSpec`: weak fairness of each daemon process, which is an ordinary
process whose application functions return. Nothing the environment may do is
fair: no launcher has to exit, be reaped or be continued, and no timeout has to
come, so that the first part of `LoopEnds` does not hold merely because time passes.

`PipeWriter!FairSpec`: weak fairness of the initialization thread, of the owner
inside `closePipe()` or the destructor, of each sender and waiter inside
a call, and of a peer that has the pipe open and data in it. `SendTimeout` is in
the sender's fairness because `waitForInit(1)` ends after a second;
a waiter without a time limit has none. A peer need never open the pipe.

`PipeReader!FairSpec`: weak fairness of the initialization thread and of the reading
thread and of the owner's steps inside a call, and no more: `readLoop()` releases
`readerMutex` at the end of an iteration and takes it again at the beginning of the next,
with nothing in between but a test, and `std::mutex` does not promise the owner that it
ever gets it. So `CloseReturns` is about a pipe that no writer has open any more: then the
reading thread finds the end of the file, closes it and ends. While a writer has the pipe
open, `closePipe()` may wait for ever (section 5). Peers owe nothing. In both pipe modules a thread blocked in `open()` or `read()` is not
fair: that the call may fail does not mean that it must.

`DaemonControl!FairSpec`: weak fairness of the application's thread inside a call,
except that it may wait in `waitpid()` for ever, and of the end of a process that
SIGKILL has reached. No daemon has to end or to heed SIGTERM.

`DaemonMessages!FairSpec`: weak fairness of the application inside a call, of each daemon
process's first thread, except that a running loop need not return, of the opening of a
pipe whose other end is in use, and of the reading thread, which includes that
`handleParentMessage()` returns. No signal and no failure is fair, and the
application need never send, start or stop anything.

`FileUtils` and `StatFile` have safety properties only and need no fairness.

## 4. What is proved

Each proof goes the same way: an inductive invariant, which TLC has checked on the
instances of section 3 before, holds at first and is kept by every action, and the
properties follow from it. The lemmas are about one action, or one function of the code,
each; the named ASSUMEs of the module are the only assumptions.

### The lock

`DaemonLoopProofs` proves for every finite set of daemons, every number of runs,
every table of launchers, every choice of the build options and of the faults:

* `TypeCorrect`: `Spec => []TypeOK`.
* `ExclusionCorrect`: `Spec => []MutualExclusion`.
* `PipesCorrect`: `Spec => []PipesClosedBeforeNext`.
* `SingleInstanceCorrect`: `Spec => ImplementsSingleInstance`, the step simulation
  of `SingleInstance` under the mapping *holder = who has the lock, running = who
  is between flock() and the return of runLoop()*.

The assumptions are the named ASSUMEs of `DaemonLoop`; those used are that process
IDs are positive numbers and the adopter is nobody's launcher, that the bounds are
positive, that the options are sets of the right kind, and that `NoLock` is not an
open file.

The argument of `DaemonLoopProofs` rests on `LockInv`. Mutual exclusion by itself is not inductive: to
know that a second `flock()` fails one must know that whoever is inside still has
the lock (`InsideLocked`), under the descriptor that its process has now; to know
that the same process never gets it twice and that its pipes are still its own, that
whoever ever had the lock has it until the destructor or death (`ServedHolds`); and,
for types, that descriptors and calls are numbered as the code opens files
(`RunsCounted`, `FileOpened`). `PipesOpen` ties the pipes to the same places. The
proof first shows that each of the 18 actions of a daemon and the environment's are,
as far as the lock goes, of one of three shapes (`KeepsLock`, `TakesLock`, `LetsGo`:
lemmas `DaemonStep` and `EnvironmentStep`), and then reasons about the shapes only,
both for the invariant and for the refinement.

### The pipe reader

`PipeReaderProofs` proves for every size of the pipe and of the buffer, every number of
writers and messages, every choice of faults and whether or not the listener closes:

* `ReaderTypeCorrect`: `Spec => []TypeOK`.
* `FileCorrect`: `Spec => []FileStaysOpen`.
* `QuietCorrect`: `Spec => []QuietAfterClose`.

They follow from `ReaderCorrect`, the invariance of `ReaderInv`. That nobody closes the
file under the reading thread needs `MutexHeld`, which says at which places the
thread has the mutex. That a closed reader stays quiet needs to know how far the
initialization thread can be when the owner comes to `stopReading()`: `cancelInit()`
returns only when that thread is beyond its action (`OwnerInOrder`), because the flags
do not run ahead of it (`InitFlags`) and because a listener that is joining it exists
only after the action (`ReaderAfterInit`). Afterwards the state is never again
`initializing` (`ClosedForGood`), so a later `openPipe()` opens nothing. The assumption
used is `ReaderAssumption`, that the bounds are numbers.

### The parent process and the race

`DaemonLoopParentProofs` goes on from `LockInv`, for every number of daemons, launchers
and reuses of process IDs:

* `WatchesLauncherCorrect`: `Spec => []WatchesLauncher`. The property compares ID and start
  time, and has a hypothesis: the required program is not among those that are given the ID
  of a process that has ended (`RequiredParentPath \notin ReusedPaths`). Without it the code
  takes the new process for the launcher.
* `ParentEndedCorrect`: `Spec => []ParentEndedIsTrue`.
* `StaleActionCorrect`: `Spec => []StaleActionBound`, if `LauncherRequired`: the parent
  has to be running, it has a required path, and no later owner of its ID has that path.
  Without the first nothing is checked, without the second an adopted daemon watches
  the adopter, and without the third the new process is taken for the launcher (section 5).
* `NotAllRefusedCorrect`: `Spec => []NotAllRefused`.

The first three follow from `ParentInv`. The system keeps a launcher's end and the table
of processes in step (`LauncherSeen`), and what a daemon has saved (`Saved`) is nothing, the
adopter, or the launcher with the executable that it has while it lives. The security
checks accept only the required path (`ParentAccepted`), and `ParentPathAssumption` says that
this is not the adopter's. That `daemonParentEnded` stays true needs the lock: a daemon whose
parent has ended has had its turn, so that no later `runLoop()` reads the parent again
(`EndedOnce`). After the end of the launcher the next check fails, and `StaleOnce` says that
the daemon cannot be past it.

`NotAllRefused` follows from `RaceInv`. Who is refused before anybody has had the lock has
lost the race for the directory, and whoever made the directory goes on to the lock or
is killed (`MakerGoesOn`). It needs to know that a flag `loopRunning` without the lock comes
from such a refusal only (`FlagOfRefused`) and that no SIGTERM flag is ever set
(`NoTermSignal`).

### The pipe writer

`PipeWriterProofs` proves `WriterTypeCorrect` (`TypeOK`), `StrayCorrect`
(`NoStrayWriteBeforeClose`), `SendersCorrect` (`SendNeverWaitsForOpen`) and `ClosedCorrect`
(`ClosedStaysClosed`) for every set of senders and waiters, every number of calls and
peers and every capacity. `sendData()` reads the flags of the initialization without the
mutex, and `WriterInv` is what it may conclude from them: a success has left an open file
that only `closePipe()` closes (`SuccessHasFile`), and who has come to the mutex has seen the
success (`SendersChecked`), after which the thread that would block in `open()` is gone
(`InitFlags`). `closePipe()` is final because it has cancelled and joined that thread before it
takes the mutex (`CancelledIsOver`). `ThreadsAssumption` and `WriterAssumption` are used.

### The controller

`DaemonControlProofs` proves `ControlTypeCorrect` (`TypeOK`), `SignalsCorrect`
(`SignalsOnlyDaemon`), `ChildCorrect` (`ChildIsKnown`) and `ExitCodeCorrect`
(`ExitCodeOfLast`) for every set of process IDs and every number of daemons and of other
processes. The invariant says whose the object's process ID is at each place
(`IDIsDaemons`): the daemon's, alive or a zombie, except between the two calls of
`waitpid()` in `waitToExit()`, where the daemon was reaped and anybody but another child may have the
ID. A `waitpid()` there finds no child and gives the ID up, and no `kill()` comes in
between. An ID of -1 comes from a failed `fork()` only (`FailedForkLeft`), and the exit code is
updated wherever a daemon is reaped (`StatusFollowed`). `ControlAssumption` is used: process
IDs are positive, and an exit code is a byte.

### The input pipe

`DaemonMessagesProofs` proves, for every number of daemons, every sequence of messages and
every size of the pipe, of the buffer and of an atomic write:

* `MessagesTypeCorrect`, `NothingLostCorrect`, `AnswerCorrect`, `KilledCorrect`: `TypeOK`,
  `NothingLost`, `AnswerUnlessInterrupted` and the action property `KilledOnlyWhenAlone` of
  `DaemonMessages_pipe`.
* `ChannelCorrect`: `Spec => ImplementsChannel`. A part of a message that is written is a
  `Send` of the abstract channel, the return of the application's handler is a
  `Deliver`, and every other step is a stutter.

`MessagesInv` has three parts. `SendInv` is about the call of `sendData()`: how much of which
message has been written (`SendingInOrder`), and that a daemon has opened the pipe if the writer
has (`WritingIsOpen`). `DaemonInv` is about one daemon: its reader lives as long as the object
(`ReaderStarted`), and what is in the empty handler of the base class was read before the
derived class was there (`BaseCallIsEarly`). `StreamInv` is about the bytes of all daemons,
and is what the refinement needs: a buffer is a piece of the stream, no byte is in two
places, and what a daemon has handled is older than what it has in its buffer. The lemmas
before it say what `ToSet` makes of concatenated and cut sequences.

### The stat file

`StatFileProofs` proves `StatTypeCorrect` (`TypeOK`), `ReadRightCorrect` (`ReadRight`) and
`CrashCorrect` (`CrashHasReason`) for names of any length up to `MaxWords` and any number of fields. There is no
induction over the text: the invariant follows the reader word by word. Inside the name (`InsideName`) the
words are joined until the first that ends with `)`. After it (`AfterName`) no parenthesis is open,
and the items are determined by the number of items the name was cut into (`CutInto`), which is
one exactly if no word but the last ends with `)`. `WholeText` then says what the three
indices find. `StatAssumption` bounds the words of a name by 18, of which the kernel's 15
characters make at most nine: a longer name could put one of its words where the start time is looked for.

### Pipe and directory creation

`FileUtilsProofs` proves, for every set of paths, every file system, every number of processes
and of calls:

* `ParentDirIsRight`: `PathsAreRight`, the part of `ParentIsAbove` that is about `parentDir()`
  alone. TLC checks it for paths of up to 5 symbols, the theorem for paths of any length.
* `FilesTypeCorrect` (`TypeOK`), `ParentCorrect` (`ParentIsAbove`), `AnswerCorrect`
  (`AnswerHasReason`) and `SomeoneCorrect` (`SomeoneSucceeds`).

There is no induction over paths. The *n*-th name of a path is the one with *n* names up to
it, so that what cutting a path at its last slash does to the names is a fact about the
cardinalities of two sets of positions (`FewerNames`): it takes the last name away, or none
if only slashes follow the cut. `ParentDirIsRight` joins that with the special cases for the root, for
paths without a slash and for a path of one character.

The invariant `FilesInv` says, besides the types, that files are in directories (`IsTree`) and
where each process is (`Fits`). Its directories are a chain under `parentDir()` (`IsChain`), from
which `ParentIsAbove` follows. A call that could succeed has found its file at the first look
(`IsFound`), or each of its directories is one level below the one before (`Placed`) and, unless it
has lost a race, nothing is in the way and it is where it makes the first file that is
missing (`OnTheWay`): `CheckType` has gone up no further than to the lowest that exists, and `Mkdir` makes
the next one. When another process makes a file, `Race` marks exactly those whose path has it
(`ElsewhereIsClear`), which gives the second half of `AnswerHasReason`. The first, that who found its file does not return
false, is an invariant of its own, `FoundInv`: nobody takes a file away (`ThereStays`), and the first look
at it leads to `true` (`StepFinds`). For `SomeoneSucceeds` the invariant names a winner
(`Wins`): whoever made the last file on a path is itself on the way again, with all of the
path above it there, even if it had lost a race before, and goes on until a call returns true.

`FilesAssumption` says that the calls are for paths of the set, that there are processes and
calls, and that the files at first are in directories. `PathsAssumption` says that two names have a slash
between them and that the set has what `parentDir()` makes of its paths, since
`createDir()` is called for those in turn.

### Only model-checked

The liveness properties (`LoopEnds`, `CallsReturn`, `WaiterWakesUp`, `CloseReturns`,
`MessagesAreRead`, `EndOfFileCloses`, `StopEndsDaemon`, `WaitReturns`, `PipeIsEmptied`) stay with
TLC: they need ENABLED, which the proof system does not handle.

## 5. What is not modelled, and what was seen on the way

* `messageParent()` of the daemon uses the same two classes in the other direction, with
  the daemon as the writer and the application's listener as the reader. `PipeWriter` and
  `PipeReader` are about both directions; only the input pipe is composed in
  `DaemonMessages`.
* `getChildProcesses()`, which nothing calls: it takes `substr(6)` of each directory's
  name, and the first one, `.`, makes it throw `out_of_range`. The details of
  `lstat()` in the directory checks, whose outcome is chosen freely.
* In `FileUtils`, types of files that neither function distinguishes stand together as
  "file", the umask is 0, and nobody deletes anything. `DaemonMessages` leaves out the
  descriptors of the pipe that a forked child has inherited and not yet closed.
* The stat file and the exe link of a zombie are read at one instant; an ID is not
  reused between the open and the read of its stat file, where the read fails
  because the open file still belongs to the old process.
* In `DaemonLoop` the lock directory is one directory, so the recursion of `createDir()`
  is one step there (`FileUtils` has the recursion); `DF_LOCK_FILE_PATH` is a path with a
  directory in it.
* `termSignalReceived` is never 1 in the code as it is, since the handler is never
  installed; the branches for it are in the model and unreachable there.
* A wait on the condition variable is not ended spuriously. For `sendData()` it
  would be as a timeout; `waitForInit()` itself would return too early.
* Release mode is the build modelled: `DF_ASSERT` and the debug output do nothing.
* Seen and not expressed as runs: without a required parent path a daemon that was
  orphaned while it started watches the adopter; a refused daemon has had the pipes
  open meanwhile; `waitForInit()`
  before `openPipe()` waits for ever; the timeout follows `system_clock`, which can
  be set; `isLoopRunning()` is
  true for ever after the timeout, and after the lock was refused, so that `runLoop()`
  cannot be called again; the thread of `ThreadedInit` sets its flags before it
  signals, so that a destructor can return while the thread is about to use the
  condition variable.
* Of `InputReader`: `readLoop()` sets the state to `reading` before it looks at the
  file again, so that a reader closed meanwhile says `reading` until it is closed once
  more; the state stays `opened` when the reading thread cannot be created;
  `tv_usec` is set to `readTimeoutMS`, which makes 100 microseconds; the end of the
  file closes the reader for good, so a parent that restarts is not heard.
* Of `ThreadedInit`: a thread that `closePipe()` cancelled and joined is cancelled and
  joined again by the next `closePipe()` or by the destructor, because nothing records
  the join. The models let the process go on or crash there.
* Of `InputReader`'s threads: `closePipe()` returns while the reading thread is between
  two iterations and about to use the mutex, even of a destroyed object; and `read()`
  blocks with the mutex held if a writer opens the pipe after `select()` saw the end of
  the file, so that `closePipe()` waits for that writer. While a writer has the pipe open and
  writes nothing, the reading thread goes round its loop, with the mutex given up for one test in each
  iteration: nothing makes the turn of `closePipe()` come, which is why `CloseReturns`
  begins when the last writer has gone.
* Of `DaemonControl`: an interrupted `waitpid()` in `waitToExit()` leaves the status
  unset, which may be taken for an exit while the daemon runs (`ChildIsKnown` makes
  that exception); `waitToExit()` returns an earlier exit code for a daemon that a signal
  has killed; a daemon that has ended without being asked for makes `startDaemon()`
  return at once; `stopDaemon()` does not close the pipes if the daemon was reaped
  before. One thread calls the object, and siblings are started between calls: the
  class has no locks. The loop over `/proc/self/fd` and the child's arguments are one
  step with their outcome.
* `PipeReader` has one reader and does not model the buffer's contents (`DaemonMessages`
  has several, and the bytes). A second `openPipe()` names the same listener. A null path,
  with which every operation is empty, is not modelled.
* Of the lock: of two daemons that create its directory at once, the loser of
  `mkdir()` returns `daemonAlreadyRunning` although nobody has the lock. `AnswerHasReason`
  says when `createDir()` returns false, and `NotAllRefused` that someone is left.
* Of the parent's data: a new process with the launcher's ID and executable is taken
  for the launcher, because `update()` does not compare the start time; `WatchesLauncher`
  excludes that case and `LoopEnds` is checked with other executables only. A launcher that vanishes between the open and the read of its
  stat file leaves an empty vector whose elements are used (`CrashHasReason` has that
  exception). The same happens to `stoi()` when a word such as `x)` in a name makes a large number
  stand where the parent's ID should: `out_of_range` is not caught. With such a word every later
  item is shifted, and the state is taken from the name (`ReadRight`).
* Of restarts: after `stopDaemon()` the pipe objects stay closed, since they start only
  once, so a daemon that is started then has no pipes.
* Of the pipe files: `DaemonControl.h` says that the input pipe is created read-only and the
  output pipe write-only for the user; the code creates the first with `S_IWUSR` and the
  second with `S_IRUSR`, so that a daemon of the same user cannot open its ends unless it
  is privileged. An
  `inputBufferSize` of 0, the default, makes `read()` return 0, which is taken for the end of the file.
* Of directories: `createDir()` of `a//` makes the directory and then returns false, and
  so does the loser of a race for a directory, as `FileUtils_lost` shows for pipes, although
  `File_Utils.h` promises false only "if the directory does not exist and could not be created";
  the directories above are made without the mode that was passed, but no caller passes
  one. `getDirectoryPath()` of an executable in the root directory is empty, and the
  directory then counts as insecure.
* Of messages: bytes that are read before the constructor of the application's class
  begins are lost; afterwards the handler may run while that constructor is at work. Two
  messages may reach one handler call, and one message two. A refused daemon takes what
  it reads from the running one. After `closePipe()`, `sendData()` writes to
  descriptor 0 instead of being ignored, as `Pipe_Writer.h` says, because the flag of success
  stays set; its answer then says nothing. A `write()` that a signal ends early counts as
  sent (`DaemonMessages_signal`), and the daemon gets the first part of a message with the next one behind it.
* Of SIGPIPE, which nobody handles: it ends the application when its daemon has closed the
  pipe, and also in a restart. `isDaemonRunning()` notices the end of a daemon and leaves the writer
  open; `startDaemon()` starts the next one, and a `messageParent()` before that daemon has come to
  `open()` raises the signal with the new daemon alive (the second case of `KilledOnlyWhenAlone`).
* Of the destruction: only `~DaemonLoop()` closes the input pipe, so that `handleParentMessage()` of
  the daemon's class may be at work while the members of that class are destroyed (phase `derivedEnd`).

## 6. Plan

Done: `ProcessData`, `SingleInstance`, `DaemonLoop`, `ThreadedInit`, `PipeWriter`, `PipeReader`,
`DaemonControl`, `MessageChannel`, `DaemonMessages`, `FileUtils`, `StatFile`, and the proofs of section
4. Next, the most important first:

1. `DaemonSystem`: `DaemonControl` and the daemons, from `startDaemon()` to the exit
   code the parent sees, restarts included.
2. What the abstract specifications promise, as theorems about `SingleInstance` and
   `MessageChannel` themselves, so that it holds of every module that implements them.
3. The safety half of the liveness properties: that the places where they need a thread to go on
   are never left by a lost wake-up (`WaiterWakesUp`) or with the mutex held (`CloseReturns`).
