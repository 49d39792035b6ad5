----------------------------- MODULE PipeReader -----------------------------
(***************************************************************************)
(* Pipe::Reader with its base classes InputReader and ThreadedInit         *)
(* (Source/Shared): the other end of a named pipe.  An initialization      *)
(* thread opens it and creates a reading thread, which hands what it reads *)
(* to a listener.                                                          *)
(*                                                                         *)
(* The owner (DaemonLoop or DaemonControl) opens, closes and destroys the  *)
(* object.  The listener, called on the reading thread, may close the pipe *)
(* too.  Writers are peer processes, one at a time.  Nobody waits for the  *)
(* initialization here (see PipeWriter for that).                          *)
(***************************************************************************)
EXTENDS Integers, ThreadedInit

CONSTANTS
    Listeners,       \* arguments of openPipe(): TRUE for an object, FALSE
                     \* for the null pointer
    ListenerCloses,  \* whether processData() may call closePipe()
    BufferSize,      \* messages that fit in the object's buffer
    Capacity,        \* messages that fit in the pipe
    MaxMessages,     \* bound: messages written in all
    MaxPeers,        \* bound: writers that open the pipe, one after another
    Faults           \* errors the system may report

ASSUME ReaderAssumption ==
    /\ Callers = {}
    /\ Listeners \subseteq BOOLEAN
    /\ ListenerCloses \in BOOLEAN
    /\ BufferSize \in Nat \ {0}
    /\ Capacity \in Nat \ {0}
    /\ MaxMessages \in Nat
    /\ MaxPeers \in Nat
    /\ Faults \subseteq {"openError", "createReaderError", "readError"}

VARIABLES
    inputFile,       \* the descriptor: 0 for none
    currentState,    \* State of the InputReader
    readerMutex,     \* which thread holds it between steps
    listener,        \* whether there is a listener
    readPc,          \* where the reading thread is
    ownerPc, task,   \* where the owner is, and what for
    writerOpen,      \* whether a peer has the pipe open
    peers,           \* how many have opened it
    written,         \* messages written so far
    buffered,        \* messages in the pipe
    process,         \* "alive", or "crashed"
    closed           \* history: closePipe() returned to the owner

fileVars == <<inputFile, currentState, readerMutex>>
ownerVars == <<ownerPc, task>>
peerVars == <<writerOpen, peers, written, buffered>>
vars == <<initVars, fileVars, listener, readPc, ownerVars, peerVars, process,
          closed>>

PipeFD == 3    \* the descriptor open() gives

(***************************************************************************)
(* The reading thread: readLoop() and, from "cancel" on, a closePipe()     *)
(* called by the listener.  UsingFile are the places where the thread has  *)
(* readerMutex.                                                            *)
(***************************************************************************)
InListener == {"callback", "cancel", "join", "stop"}
UsingFile == {"select", "read"} \union InListener
ReadPlaces == {"none", "test", "lock"} \union UsingFile \union {"ended"}

State == {"initializing", "opening", "opened", "reading", "processing",
          "closed", "failed"}

Init ==
    /\ InitOfThread
    /\ inputFile = 0
    /\ currentState = "initializing"
    /\ readerMutex = "free"
    /\ listener = FALSE
    /\ readPc = "none"
    /\ ownerPc = "idle" /\ task = "none"
    /\ writerOpen = FALSE /\ peers = 0 /\ written = 0 /\ buffered = 0
    /\ process = "alive"
    /\ closed = FALSE

\* What is left of n messages once the reader has closed the pipe.
Kept(n) == IF writerOpen THEN n ELSE 0

-----------------------------------------------------------------------------
(***************************************************************************)
(* The initialization thread: startReading().                              *)
(***************************************************************************)
BeginOpen ==
    /\ initThread = "start"
    /\ readerMutex = "free"
    /\ IF currentState = "initializing"
       THEN /\ currentState' = "opening"
            /\ initThread' = "opening"
            /\ UNCHANGED initResult
       ELSE /\ initResult' = (currentState \notin {"closed", "failed"})
            /\ initThread' = "report"
            /\ UNCHANGED currentState
    /\ UNCHANGED <<initStarted, initFinished, initSucceeded, cancelPending,
                   waiting, inputFile, readerMutex, listener, readPc,
                   ownerVars, peerVars, process, closed>>

\* Mutant: the result of a failed open() is kept.
FinishOpenKeepsError ==
    /\ initThread = "opening"
    /\ ~cancelPending
    /\ \/ writerOpen /\ inputFile' = PipeFD
       \/ "openError" \in Faults /\ inputFile' = -1
    /\ initThread' = "opened"
    /\ UNCHANGED <<initStarted, initFinished, initSucceeded, initResult,
                   cancelPending, waiting, currentState, readerMutex,
                   listener, readPc, ownerVars, peerVars, process, closed>>

\* open() of a pipe blocks until a writer has it open.
FinishOpen ==
    /\ initThread = "opening"
    /\ ~cancelPending
    /\ \/ writerOpen /\ inputFile' = PipeFD
       \/ "openError" \in Faults /\ inputFile' = 0
    /\ initThread' = "opened"
    /\ UNCHANGED <<initStarted, initFinished, initSucceeded, initResult,
                   cancelPending, waiting, currentState, readerMutex,
                   listener, readPc, ownerVars, peerVars, process, closed>>

\* open() is where a cancelled thread ends.  It holds no mutex there.
ActOnCancel ==
    /\ initThread = "opening"
    /\ cancelPending
    /\ initThread' = "cancelled"
    /\ UNCHANGED <<initStarted, initFinished, initSucceeded, initResult,
                   cancelPending, waiting, fileVars, listener, readPc,
                   ownerVars, peerVars, process, closed>>

\* The new state, and the reading thread.  If that cannot be created, the
\* state stays "opened", and a cancelled thread ends in close() instead, with
\* the file open.
CreateReader ==
    /\ initThread = "opened"
    /\ readerMutex = "free"
    /\ \/ /\ inputFile = 0
          /\ currentState' = "failed"
          /\ initResult' = FALSE /\ initThread' = "report"
          /\ UNCHANGED <<inputFile, readPc>>
       \/ /\ inputFile # 0
          /\ currentState' = "opened"
          /\ initResult' = TRUE /\ initThread' = "report"
          /\ readPc' = "test"
          /\ UNCHANGED inputFile
       \/ /\ inputFile # 0
          /\ "createReaderError" \in Faults
          /\ currentState' = "opened"
          /\ IF cancelPending
             THEN initThread' = "cancelled" /\ UNCHANGED <<initResult, inputFile>>
             ELSE /\ initResult' = FALSE /\ initThread' = "report"
                  /\ inputFile' = 0
          /\ UNCHANGED readPc
    /\ buffered' = IF inputFile' = 0 THEN Kept(buffered) ELSE buffered
    /\ UNCHANGED <<initStarted, initFinished, initSucceeded, cancelPending,
                   waiting, readerMutex, listener, ownerVars, writerOpen,
                   peers, written, process, closed>>

ReportInit ==
    /\ ReportResult \/ NotifyAll
    /\ UNCHANGED <<fileVars, listener, readPc, ownerVars, peerVars, process,
                   closed>>

-----------------------------------------------------------------------------
(***************************************************************************)
(* The reading thread: readLoop().                                         *)
(***************************************************************************)
ReaderFrame == UNCHANGED <<listener, ownerVars, closed>>

\* The condition of the loop is read without the mutex.
TestFile ==
    /\ readPc = "test"
    /\ readPc' = IF inputFile # 0 THEN "lock" ELSE "ended"
    /\ ReaderFrame
    /\ UNCHANGED <<initVars, fileVars, peerVars, process>>

\* The state is set before the file is tested again.
LockFile ==
    /\ readPc = "lock"
    /\ readerMutex = "free"
    /\ currentState' = "reading"
    /\ IF inputFile # 0
       THEN readPc' = "select" /\ readerMutex' = "reader"
       ELSE readPc' = "test" /\ UNCHANGED readerMutex
    /\ ReaderFrame
    /\ UNCHANGED <<initVars, inputFile, peerVars, process>>

Readable == buffered > 0 \/ ~writerOpen

\* select() with its time limit.
Select ==
    /\ readPc = "select"
    /\ IF Readable
       THEN /\ readPc' = "read"
            /\ currentState' = "processing"
            /\ UNCHANGED readerMutex
       ELSE /\ readPc' = "test"
            /\ readerMutex' = "free"
            /\ UNCHANGED currentState
    /\ ReaderFrame
    /\ UNCHANGED <<initVars, inputFile, peerVars, process>>

CloseInReader ==
    /\ inputFile' = 0
    /\ currentState' = "closed"
    /\ readerMutex' = "free"
    /\ readPc' = "test"

\* Mutant: a read() of nothing is an empty message.
ReadFileEmpty ==
    /\ readPc = "read"
    /\ Readable
    /\ buffered' = IF buffered > 0 THEN buffered - 1 ELSE 0
    /\ readPc' = "callback"
    /\ ReaderFrame
    /\ UNCHANGED <<initVars, fileVars, writerOpen, peers, written, process>>

\* read(), which blocks when a writer has opened the pipe since select() saw
\* its end.  Without a listener, processInput() stops reading.
ReadFile ==
    /\ readPc = "read"
    /\ \/ /\ buffered > 0
          /\ LET rest == IF buffered > BufferSize THEN buffered - BufferSize
                                                  ELSE 0
             IN  IF listener
                 THEN /\ buffered' = rest
                      /\ readPc' = "callback"
                      /\ UNCHANGED fileVars
                 ELSE buffered' = Kept(rest) /\ CloseInReader
       \/ /\ \/ buffered = 0 /\ ~writerOpen            \* end of file
             \/ "readError" \in Faults
          /\ CloseInReader
          /\ buffered' = Kept(buffered)
    /\ ReaderFrame
    /\ UNCHANGED <<initVars, writerOpen, peers, written, process>>

\* Mutant: the thread ends after its first message.
ReturnFromListenerOnce ==
    /\ readPc = "callback"
    /\ readPc' = "ended"
    /\ readerMutex' = "free"
    /\ ReaderFrame
    /\ UNCHANGED <<initVars, inputFile, currentState, peerVars, process>>

\* processData() returns, or calls closePipe().
ReturnFromListener ==
    /\ readPc = "callback"
    /\ readPc' = "test"
    /\ readerMutex' = "free"
    /\ ReaderFrame
    /\ UNCHANGED <<initVars, inputFile, currentState, peerVars, process>>

ListenerClosePipe ==
    /\ ListenerCloses
    /\ readPc = "callback"
    /\ readPc' = "cancel"
    /\ ReaderFrame
    /\ UNCHANGED <<initVars, fileVars, peerVars, process>>

(***************************************************************************)
(* cancelInit(), by the owner or on the reading thread.  To cancel and     *)
(* join a thread that was joined, or that the other one is joining, is     *)
(* undefined.                                                              *)
(***************************************************************************)
JoinedElsewhere == AlreadyJoined \/ ownerPc = "join" \/ readPc = "join"

\* next: where the caller goes on.
CancelThen(next) ==
    \/ /\ NothingToCancel
       /\ next = "stop"
       /\ UNCHANGED <<initVars, process>>
    \/ /\ ~NothingToCancel /\ ~JoinedElsewhere
       /\ RequestCancel
       /\ next = "join"
       /\ UNCHANGED process
    \/ /\ ~NothingToCancel /\ JoinedElsewhere
       /\ next = "stop"
       /\ process' \in {"alive", "crashed"}
       /\ UNCHANGED initVars

ListenerCancel ==
    /\ readPc = "cancel"
    /\ \E next \in {"join", "stop"} : CancelThen(next) /\ readPc' = next
    /\ ReaderFrame
    /\ UNCHANGED <<fileVars, peerVars>>

ListenerJoin ==
    /\ readPc = "join"
    /\ Join
    /\ readPc' = "stop"
    /\ ReaderFrame
    /\ UNCHANGED <<fileVars, peerVars, process>>

\* Mutant: it takes the mutex there too.
ListenerStopLocks ==
    /\ readPc = "stop"
    /\ readerMutex = "free"
    /\ CloseInReader
    /\ buffered' = Kept(buffered)
    /\ ReaderFrame
    /\ UNCHANGED <<initVars, writerOpen, peers, written, process>>

\* stopReading() on the reading thread, which has the mutex already.
ListenerStop ==
    /\ readPc = "stop"
    /\ CloseInReader
    /\ buffered' = Kept(buffered)
    /\ ReaderFrame
    /\ UNCHANGED <<initVars, writerOpen, peers, written, process>>

-----------------------------------------------------------------------------
(***************************************************************************)
(* The owner.  The destructors run in this order: that of Reader closes    *)
(* the pipe and frees the buffer, that of InputReader stops reading and    *)
(* that of ThreadedInit cancels the initialization.                        *)
(***************************************************************************)
OwnerFrame == UNCHANGED readPc

\* A second call names the same listener.
openPipe ==
    /\ ownerPc = "idle"
    /\ listener' \in IF initStarted THEN {listener} ELSE Listeners
    /\ startInitThread
    /\ OwnerFrame
    /\ UNCHANGED <<fileVars, ownerVars, peerVars, process, closed>>

Call(newTask) ==
    /\ ownerPc = "idle"
    /\ ownerPc' = "cancel" /\ task' = newTask
    /\ OwnerFrame
    /\ UNCHANGED <<initVars, fileVars, listener, peerVars, process, closed>>

closePipe == Call("close")
Destroy == Call("destroyReader")

CancelInit ==
    /\ ownerPc = "cancel"
    /\ \E next \in {"join", "stop"} :
         /\ CancelThen(next)
         /\ ownerPc' = IF next = "stop" /\ task = "destroyInit"
                       THEN "destroyed" ELSE next
    /\ OwnerFrame
    /\ UNCHANGED <<task, fileVars, listener, peerVars, closed>>

\* Mutant: the thread is cancelled and not joined.
JoinSkipped ==
    /\ ownerPc = "join"
    /\ ownerPc' = IF task = "destroyInit" THEN "destroyed" ELSE "stop"
    /\ OwnerFrame
    /\ UNCHANGED <<initVars, task, fileVars, listener, peerVars, process,
                   closed>>

JoinInit ==
    /\ ownerPc = "join"
    /\ Join
    /\ ownerPc' = IF task = "destroyInit" THEN "destroyed" ELSE "stop"
    /\ OwnerFrame
    /\ UNCHANGED <<task, fileVars, listener, peerVars, process, closed>>

AfterStop ==
    CASE task = "close"         -> ownerPc' = "idle" /\ task' = "none"
      [] task = "destroyReader" -> ownerPc' = "stop" /\ task' = "destroyInput"
      [] task = "destroyInput"  -> ownerPc' = "cancel" /\ task' = "destroyInit"

StopWhen(free) ==
    /\ ownerPc = "stop"
    /\ free
    /\ IF currentState \notin {"closed", "failed"}
       THEN /\ inputFile' = 0
            /\ currentState' = "closed"
            /\ buffered' = Kept(buffered)
       ELSE UNCHANGED <<inputFile, currentState, buffered>>
    /\ closed' = TRUE
    /\ AfterStop
    /\ OwnerFrame
    /\ UNCHANGED <<initVars, readerMutex, listener, writerOpen, peers, written,
                   process>>

\* Mutant: stopReading() does not take the mutex.
stopReadingUnlocked == StopWhen(TRUE)

stopReading == StopWhen(readerMutex = "free")

-----------------------------------------------------------------------------
(***************************************************************************)
(* The peers.  open() for writing blocks until there is a reader.          *)
(***************************************************************************)
PeerFrame ==
    UNCHANGED <<initVars, fileVars, listener, readPc, ownerVars, process,
                closed>>

PeerOpen ==
    /\ ~writerOpen
    /\ initThread = "opening" \/ inputFile # 0
    /\ peers < MaxPeers
    /\ writerOpen' = TRUE
    /\ peers' = peers + 1
    /\ PeerFrame
    /\ UNCHANGED <<written, buffered>>

PeerWrite ==
    /\ writerOpen
    /\ inputFile # 0
    /\ buffered < Capacity
    /\ written < MaxMessages
    /\ written' = written + 1
    /\ buffered' = buffered + 1
    /\ PeerFrame
    /\ UNCHANGED <<writerOpen, peers>>

PeerClose ==
    /\ writerOpen
    /\ writerOpen' = FALSE
    /\ buffered' = IF inputFile = 0 THEN 0 ELSE buffered
    /\ PeerFrame
    /\ UNCHANGED <<peers, written>>

-----------------------------------------------------------------------------
InitThread ==
    BeginOpen \/ FinishOpen \/ ActOnCancel \/ CreateReader \/ ReportInit

ReadThread ==
    \/ TestFile \/ LockFile \/ Select \/ ReadFile \/ ReturnFromListener
    \/ ListenerClosePipe \/ ListenerCancel \/ ListenerJoin \/ ListenerStop

OwnerStep == CancelInit \/ JoinInit \/ stopReading

OwnerCall == openPipe \/ closePipe \/ Destroy

Peer == PeerOpen \/ PeerWrite \/ PeerClose

Next ==
    /\ process = "alive"
    /\ InitThread \/ ReadThread \/ OwnerStep \/ OwnerCall \/ Peer

Spec == Init /\ [][Next]_vars

\* open() and read() come back when a writer has opened the pipe, by cancellation,
\* or when there is something to read.  They may fail, but need not.
OpenIsOver == writerOpen \/ cancelPending

\* Every thread that can always go on does.  The reading thread gives the mutex
\* up and takes it again in every iteration, and nothing makes the mutex fair:
\* an owner that waits for it while the reading thread goes on may wait for ever.
\* Nobody has to call anything, and the peer may do nothing for ever.
FairSpec ==
    /\ Spec
    /\ WF_vars(process = "alive" /\ (initThread = "opening" => OpenIsOver)
                 /\ InitThread)
    /\ WF_vars(process = "alive" /\ (readPc = "read" => Readable) /\ ReadThread)
    /\ WF_vars(process = "alive" /\ OwnerStep)

-----------------------------------------------------------------------------
TypeOK ==
    /\ InitTypeOK
    /\ inputFile \in {0, PipeFD}
    /\ currentState \in State
    /\ readerMutex \in {"free", "reader"}
    /\ listener \in BOOLEAN
    /\ readPc \in ReadPlaces
    /\ ownerPc \in {"idle", "cancel", "join", "stop", "destroyed"}
    /\ task \in {"none", "close", "destroyReader", "destroyInput",
                 "destroyInit"}
    /\ writerOpen \in BOOLEAN
    /\ peers \in 0 .. MaxPeers
    /\ written \in 0 .. MaxMessages
    /\ buffered \in 0 .. Capacity
    /\ process \in {"alive", "crashed"}
    /\ closed \in BOOLEAN

\* A descriptor that the reading thread has tested under the mutex stays open
\* until it has read from it: nobody closes the file under select() or read().
FileStaysOpen == readPc \in {"select", "read", "callback"} => inputFile # 0

\* closePipe() is final: when it has returned to the owner the file is closed,
\* nobody opens it any more, and the listener, the buffer and the file are not
\* used again.  It does not matter how far the initialization had come.
QuietAfterClose ==
    closed => /\ inputFile = 0
              /\ initThread \notin {"opening", "opened"}
              /\ readPc \notin UsingFile

\* Once no writer has the pipe open or opens it any more, closePipe() and the
\* destructor return, however far the initialization thread, the reading thread
\* and the listener have come: open() is cancelled, and the reading thread, which
\* may have taken the mutex again and again, finds the end of the file and gives
\* it up for good.  (While a writer keeps the pipe open they may wait for ever.)
CloseReturns ==
    <>[]~writerOpen =>
        (ownerPc \in {"cancel", "join", "stop"} ~>
            ownerPc \in {"idle", "destroyed"} \/ process # "alive")

\* What was written is read, unless the pipe is closed.
MessagesAreRead ==
    readPc # "none" /\ buffered > 0 ~>
        buffered = 0 \/ inputFile = 0 \/ process # "alive"

\* When the writer is gone the pipe is closed, unless another comes.
EndOfFileCloses ==
    readPc # "none" /\ ~writerOpen ~>
        inputFile = 0 \/ writerOpen \/ process # "alive"
=============================================================================
