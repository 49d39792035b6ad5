----------------------------- MODULE PipeWriter -----------------------------
(***************************************************************************)
(* Pipe::Writer (Source/Shared/Pipe/Pipe_Writer.cpp): one end of a named   *)
(* pipe, opened by an initialization thread, written by any thread.        *)
(*                                                                         *)
(* The object has one owner, which opens, closes and destroys it           *)
(* (DaemonLoop or DaemonControl), senders, which call sendData(), and       *)
(* waiters, which call waitForInit() with no time limit.  No call is under *)
(* way when the destructor begins.  The other end of the pipe belongs to   *)
(* peer processes, one at a time, which open, read and close it as they    *)
(* like.                                                                   *)
(***************************************************************************)
EXTENDS Integers, ThreadedInit

CONSTANTS
    Senders, Waiters,
    OpenNow,       \* the constructor's argument
    MaxSends,      \* bound: calls of sendData() by each sender
    Capacity,      \* messages that fit in the pipe
    MaxPeers,      \* bound: readers that open the pipe, one after another
    Faults         \* {"openError"} if open() may fail

ASSUME ThreadsAssumption ==
    /\ Callers = Senders \union Waiters
    /\ Senders \intersect Waiters = {}
    /\ Callers \intersect {"free", "init"} = {}
ASSUME WriterAssumption ==
    /\ OpenNow \in BOOLEAN
    /\ MaxSends \in Nat \ {0}
    /\ Capacity \in Nat \ {0}
    /\ MaxPeers \in Nat
    /\ Faults \subseteq {"openError"}

VARIABLES
    pipeFile,      \* the descriptor: 0 for none
    lock,          \* which thread holds the mutex
    ownerPc, task, \* where the owner is, and what for
    pc, sends,     \* where each caller is; calls of sendData() begun
    readerOpen,    \* whether a peer has the pipe open
    peers,         \* how many have opened it
    buffered,      \* messages in the pipe
    process,       \* "alive", or what ended it
    closed,        \* history: closePipe() returned after the last start
    strayWrite     \* history: sendData() wrote to descriptor 0

callVars == <<pc, sends>>
ownerVars == <<ownerPc, task>>
peerVars == <<readerOpen, peers, buffered>>
historyVars == <<closed, strayWrite>>
vars == <<initVars, pipeFile, lock, ownerVars, callVars, peerVars, process,
          historyVars>>

PipeFD == 3    \* the descriptor open() gives
Destroying == task \in {"destroyWriter", "destroyInit"}

Init ==
    /\ InitOfThread
    /\ pipeFile = 0
    /\ lock = "free"
    /\ ownerPc = "construct" /\ task = "none"
    /\ pc = [t \in Callers |-> "idle"]
    /\ sends = [s \in Senders |-> 0]
    /\ readerOpen = FALSE /\ peers = 0 /\ buffered = 0
    /\ process = "alive"
    /\ closed = FALSE /\ strayWrite = FALSE

-----------------------------------------------------------------------------
(***************************************************************************)
(* The owner: construction and opening.                                    *)
(***************************************************************************)
Construct ==
    /\ ownerPc = "construct"
    /\ ownerPc' = "idle"
    /\ IF OpenNow THEN startInitThread ELSE UNCHANGED initVars
    /\ UNCHANGED <<task, pipeFile, lock, callVars, peerVars, process,
                   historyVars>>

openPipe ==
    /\ ownerPc = "idle"
    /\ startInitThread
    /\ closed' = IF initStarted THEN closed ELSE FALSE
    /\ UNCHANGED <<ownerVars, pipeFile, lock, callVars, peerVars, process,
                   strayWrite>>

(***************************************************************************)
(* closePipe() is cancelInit() and, under the lock, close().  The          *)
(* destructor of Writer calls it, and that of ThreadedInit cancels again.  *)
(***************************************************************************)
closePipe ==
    /\ ownerPc = "idle"
    /\ ownerPc' = "cancel" /\ task' = "close"
    /\ UNCHANGED <<initVars, pipeFile, lock, callVars, peerVars, process,
                   historyVars>>

Destroy ==
    /\ ownerPc = "idle"
    /\ \A t \in Callers : pc[t] = "idle"
    /\ ownerPc' = "cancel" /\ task' = "destroyWriter"
    /\ UNCHANGED <<initVars, pipeFile, lock, callVars, peerVars, process,
                   historyVars>>

AfterCancel == IF task = "destroyInit" THEN "destroyed" ELSE "close"

\* Cancelling and joining a thread joined before is undefined: the calls
\* fail and nothing happens, or they use memory that is no longer a thread's.
CancelInit ==
    /\ ownerPc = "cancel"
    /\ \/ /\ NothingToCancel
          /\ ownerPc' = AfterCancel
          /\ UNCHANGED <<initVars, process>>
       \/ /\ ~NothingToCancel /\ ~AlreadyJoined
          /\ RequestCancel
          /\ ownerPc' = "join"
          /\ UNCHANGED process
       \/ /\ ~NothingToCancel /\ AlreadyJoined
          /\ ownerPc' = AfterCancel
          /\ process' \in {"alive", "crashed"}
          /\ UNCHANGED initVars
    /\ UNCHANGED <<task, pipeFile, lock, callVars, peerVars, historyVars>>

\* Mutant: the thread is cancelled and not joined.
JoinSkipped ==
    /\ ownerPc = "join"
    /\ ownerPc' = AfterCancel
    /\ UNCHANGED <<initVars, task, pipeFile, lock, callVars, peerVars,
                   process, historyVars>>

JoinInit ==
    /\ ownerPc = "join"
    /\ Join
    /\ ownerPc' = AfterCancel
    /\ UNCHANGED <<task, pipeFile, lock, callVars, peerVars, process,
                   historyVars>>

CloseFile ==
    /\ ownerPc = "close"
    /\ lock = "free"
    /\ pipeFile' = 0
    /\ closed' = TRUE
    /\ buffered' = IF readerOpen THEN buffered ELSE 0
    /\ IF task = "close" THEN ownerPc' = "idle" /\ task' = "none"
       ELSE ownerPc' = "cancel" /\ task' = "destroyInit"
    /\ UNCHANGED <<initVars, lock, callVars, readerOpen, peers, process,
                   strayWrite>>

-----------------------------------------------------------------------------
(***************************************************************************)
(* The initialization thread.  threadedInitAction() holds the lock while   *)
(* open() waits for a reader; open() is where a cancelled thread ends, and *)
(* the stack unwinding releases the lock.                                  *)
(***************************************************************************)
BeginOpen ==
    /\ initThread = "start"
    /\ lock = "free"
    /\ lock' = "init"
    /\ IF pipeFile = 0 THEN initThread' = "opening" /\ UNCHANGED initResult
       ELSE initThread' = "opened" /\ initResult' = TRUE
    /\ UNCHANGED <<initStarted, initFinished, initSucceeded, cancelPending,
                   waiting, pipeFile, ownerVars, callVars, peerVars, process,
                   historyVars>>

\* Mutant: the descriptor of a failed open() is kept.
FinishOpenKeepsError ==
    /\ initThread = "opening"
    /\ ~cancelPending
    /\ \/ readerOpen /\ pipeFile' = PipeFD /\ initResult' = TRUE
       \/ "openError" \in Faults /\ pipeFile' = -1 /\ initResult' = FALSE
    /\ initThread' = "opened"
    /\ UNCHANGED <<initStarted, initFinished, initSucceeded, cancelPending,
                   waiting, lock, ownerVars, callVars, peerVars, process,
                   historyVars>>

FinishOpen ==
    /\ initThread = "opening"
    /\ ~cancelPending
    /\ \/ readerOpen /\ pipeFile' = PipeFD /\ initResult' = TRUE
       \/ "openError" \in Faults /\ pipeFile' = 0 /\ initResult' = FALSE
    /\ initThread' = "opened"
    /\ UNCHANGED <<initStarted, initFinished, initSucceeded, cancelPending,
                   waiting, lock, ownerVars, callVars, peerVars, process,
                   historyVars>>

ActOnCancel ==
    /\ initThread = "opening"
    /\ cancelPending
    /\ initThread' = "cancelled"
    /\ lock' = "free"
    /\ UNCHANGED <<initStarted, initFinished, initSucceeded, initResult,
                   cancelPending, waiting, pipeFile, ownerVars, callVars,
                   peerVars, process, historyVars>>

LeaveAction ==
    /\ initThread = "opened"
    /\ initThread' = "report"
    /\ lock' = "free"
    /\ UNCHANGED <<initStarted, initFinished, initSucceeded, initResult,
                   cancelPending, waiting, pipeFile, ownerVars, callVars,
                   peerVars, process, historyVars>>

ReportInit ==
    /\ ReportResult \/ NotifyAll
    /\ UNCHANGED <<pipeFile, lock, ownerVars, callVars, peerVars, process,
                   historyVars>>

-----------------------------------------------------------------------------
(***************************************************************************)
(* sendData().                                                             *)
(***************************************************************************)
CallerAt(t, from, to) == pc[t] = from /\ pc' = [pc EXCEPT ![t] = to]

\* Mutant: sendData() takes the lock without asking about initialization.
sendDataAtOnce(s) ==
    /\ sends[s] < MaxSends
    /\ ~Destroying /\ ownerPc # "construct"
    /\ sends' = [sends EXCEPT ![s] = @ + 1]
    /\ CallerAt(s, "idle", "lock")
    /\ UNCHANGED <<initVars, pipeFile, lock, ownerVars, peerVars, process,
                   historyVars>>

sendData(s) ==
    /\ sends[s] < MaxSends
    /\ ~Destroying /\ ownerPc # "construct"
    /\ sends' = [sends EXCEPT ![s] = @ + 1]
    /\ CallerAt(s, "idle", IF initFinished THEN "check" ELSE "wait")
    /\ UNCHANGED <<initVars, pipeFile, lock, ownerVars, peerVars, process,
                   historyVars>>

\* Also waitForInit() itself, which a waiter calls when it likes.
WaitForInit(t) ==
    /\ pc[t] = "wait"
    /\ \/ /\ initFinished
          /\ CallerAt(t, "wait", IF t \in Senders THEN "check" ELSE "idle")
          /\ UNCHANGED initVars
       \/ BeginWait(t) /\ CallerAt(t, "wait", "waiting")
    /\ UNCHANGED <<sends, pipeFile, lock, ownerVars, peerVars, process,
                   historyVars>>

CallWaitForInit(w) ==
    /\ ~Destroying /\ ownerPc # "construct"
    /\ CallerAt(w, "idle", "wait")
    /\ UNCHANGED <<initVars, sends, pipeFile, lock, ownerVars, peerVars,
                   process, historyVars>>

WakeUp(t) ==
    /\ pc[t] = "waiting"
    /\ Notified(t)
    /\ CallerAt(t, "waiting", IF t \in Senders THEN "check" ELSE "idle")
    /\ UNCHANGED <<initVars, sends, pipeFile, lock, ownerVars, peerVars,
                   process, historyVars>>

\* Mutant: sendData() waits without a time limit.
SendTimeoutNever(s) == WakeUp(s)

SendTimeout(s) ==
    /\ pc[s] = "waiting"
    /\ WaitTimedOut(s)
    /\ CallerAt(s, "waiting", IF initFinished THEN "check" ELSE "idle")
    /\ UNCHANGED <<sends, pipeFile, lock, ownerVars, peerVars, process,
                   historyVars>>

\* Mutant: sendData() does not ask whether initialization succeeded.
CheckSkipped(s) ==
    /\ CallerAt(s, "check", "lock")
    /\ UNCHANGED <<initVars, sends, pipeFile, lock, ownerVars, peerVars,
                   process, historyVars>>

CheckSuccess(s) ==
    /\ CallerAt(s, "check", IF initSucceeded THEN "lock" ELSE "idle")
    /\ UNCHANGED <<initVars, sends, pipeFile, lock, ownerVars, peerVars,
                   process, historyVars>>

LockPipe(s) ==
    /\ lock = "free"
    /\ lock' = s
    /\ CallerAt(s, "lock", "write")
    /\ UNCHANGED <<initVars, sends, pipeFile, ownerVars, peerVars, process,
                   historyVars>>

\* write() blocks while the pipe is full, and raises SIGPIPE, which nobody
\* handles, when it has no reader.  Descriptor 0 is another file.
WritePipe(s) ==
    /\ pc[s] = "write"
    /\ IF pipeFile # 0 /\ ~readerOpen
       THEN /\ process' = "sigpipe"
            /\ UNCHANGED <<pc, lock, buffered, strayWrite>>
       ELSE /\ pipeFile # 0 => buffered < Capacity
            /\ buffered' = IF pipeFile # 0 THEN buffered + 1 ELSE buffered
            /\ strayWrite' = (strayWrite \/ pipeFile = 0)
            /\ CallerAt(s, "write", "idle")
            /\ lock' = "free"
            /\ UNCHANGED process
    /\ UNCHANGED <<initVars, sends, pipeFile, ownerVars, readerOpen, peers, closed>>

-----------------------------------------------------------------------------
(***************************************************************************)
(* The peer.                                                               *)
(***************************************************************************)
PeerOpen ==
    /\ ~readerOpen
    /\ peers < MaxPeers
    /\ readerOpen' = TRUE
    /\ peers' = peers + 1
    /\ UNCHANGED <<initVars, pipeFile, lock, ownerVars, callVars, buffered,
                   process, historyVars>>

PeerRead ==
    /\ readerOpen /\ buffered > 0
    /\ buffered' = buffered - 1
    /\ UNCHANGED <<initVars, pipeFile, lock, ownerVars, callVars, readerOpen,
                   peers, process, historyVars>>

\* What is left in a pipe that nobody has open is lost.
PeerClose ==
    /\ readerOpen
    /\ readerOpen' = FALSE
    /\ buffered' = IF pipeFile = 0 THEN 0 ELSE buffered
    /\ UNCHANGED <<initVars, pipeFile, lock, ownerVars, callVars, peers,
                   process, historyVars>>

-----------------------------------------------------------------------------
InitThread ==
    BeginOpen \/ FinishOpen \/ ActOnCancel \/ LeaveAction \/ ReportInit

OwnerStep == CancelInit \/ JoinInit \/ CloseFile

OwnerCall == Construct \/ openPipe \/ closePipe \/ Destroy

SendStep(s) ==
    WaitForInit(s) \/ WakeUp(s) \/ SendTimeout(s) \/ CheckSuccess(s)
        \/ LockPipe(s) \/ WritePipe(s)

WaiterStep(w) == WaitForInit(w) \/ WakeUp(w)

Peer == PeerOpen \/ PeerRead \/ PeerClose

Next ==
    /\ process = "alive"
    /\ \/ InitThread \/ OwnerStep \/ OwnerCall \/ Peer
       \/ \E s \in Senders : sendData(s) \/ SendStep(s)
       \/ \E w \in Waiters : CallWaitForInit(w) \/ WaiterStep(w)

Spec == Init /\ [][Next]_vars

\* open() comes back when a reader has the pipe open, or by cancellation.  It may
\* fail, but need not.
OpenIsOver == readerOpen \/ cancelPending

\* Every thread that is inside a function is scheduled and gets the mutex it
\* waits for; the peer goes on reading.  Nobody has to call anything.
FairSpec ==
    /\ Spec
    /\ WF_vars(process = "alive" /\ (initThread = "opening" => OpenIsOver)
                 /\ InitThread)
    /\ WF_vars(process = "alive" /\ OwnerStep)
    /\ \A s \in Senders : WF_vars(process = "alive" /\ SendStep(s))
    /\ \A w \in Waiters : WF_vars(process = "alive" /\ WaiterStep(w))
    /\ WF_vars(process = "alive" /\ PeerRead)

-----------------------------------------------------------------------------
TypeOK ==
    /\ InitTypeOK
    /\ pipeFile \in {0, PipeFD}
    /\ lock \in {"free", "init"} \union Senders
    /\ ownerPc \in {"construct", "idle", "cancel", "join", "close", "destroyed"}
    /\ task \in {"none", "close", "destroyWriter", "destroyInit"}
    /\ pc \in [Callers -> {"idle", "wait", "waiting", "check", "lock", "write"}]
    /\ sends \in [Senders -> 0 .. MaxSends]
    /\ readerOpen \in BOOLEAN
    /\ peers \in 0 .. MaxPeers
    /\ buffered \in 0 .. Capacity
    /\ process \in {"alive", "crashed", "sigpipe"}
    /\ closed \in BOOLEAN
    /\ strayWrite \in BOOLEAN

\* Until the owner closes the pipe, what sendData() writes goes to the pipe:
\* the flags it tests without the lock are set after the descriptor is.
NoStrayWriteBeforeClose == strayWrite => closed \/ ownerPc = "destroyed"

\* sendData() has a time limit: it never waits for the lock that the
\* initialization thread holds for as long as open() blocks.
SendNeverWaitsForOpen ==
    initThread \in InAction => \A s \in Senders : pc[s] \notin {"lock", "write"}

\* closePipe() leaves nothing behind: when it has returned, the descriptor is
\* closed and no thread is left that would still open it.
ClosedStaysClosed == closed => pipeFile = 0 /\ initThread \notin InAction

\* closePipe() and the destructor return, while the thread blocks in open()
\* or a sender blocks in write(), provided that the peer reads; and sendData()
\* returns, whether or not the pipe is ever opened.
CallsReturn ==
    /\ ownerPc \in {"cancel", "join", "close"} ~>
         ownerPc \in {"idle", "destroyed"} \/ process # "alive"
    /\ \A s \in Senders : pc[s] # "idle" ~> pc[s] = "idle" \/ process # "alive"

\* No wake-up is lost: a thread that waits without a time limit goes on once
\* the initialization thread has set its flags.
WaiterWakesUp ==
    \A w \in Waiters :
        pc[w] = "waiting" /\ initFinished /\ initThread # "none" ~>
            pc[w] # "waiting" \/ process # "alive"
=============================================================================
