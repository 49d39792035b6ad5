--------------------------- MODULE DaemonMessages ---------------------------
(***************************************************************************)
(* Messages from an application to its daemon: DaemonControl, whose        *)
(* messageParent() writes to the input pipe, and the daemon processes,     *)
(* whose DaemonLoop reads it and calls handleParentMessage().              *)
(*                                                                         *)
(* PipeWriter, PipeReader, DaemonControl and DaemonLoop have the details   *)
(* of the classes.  Here they are put together: one writer, a reader in    *)
(* every daemon process, and the construction and destruction of the       *)
(* daemon object around its reading thread.  A daemon started elsewhere    *)
(* opens the same pipe before it finds that the lock is taken.             *)
(*                                                                         *)
(* A byte is known by its place in what the application has written.  The  *)
(* pipe holds the bytes from head + 1 to written.                          *)
(***************************************************************************)
EXTENDS Integers, SequencesExt

CONSTANTS
    Daemons, NoDaemon,
    Elsewhere,     \* daemons that others may start
    Size,          \* bytes of each message, in the order they are sent
    BufferSize,    \* inputBufferSize of the daemon
    Capacity,      \* bytes that fit in the pipe
    PipeBuf,       \* bytes that write() writes all at once
    Faults         \* {"signal", "openError", "kill"}: what may happen

Messages == DOMAIN Size

ASSUME MessagesAssumption ==
    /\ NoDaemon \notin Daemons /\ Elsewhere \subseteq Daemons
    /\ Size \in Seq(Nat \ {0})
    /\ BufferSize \in Nat \ {0}
    /\ PipeBuf \in Nat \ {0}
    /\ Capacity \in Nat /\ PipeBuf <= Capacity
    /\ Faults \subseteq {"signal", "openError", "kill"}

VARIABLES
    appPc,         \* where the application is
    child,         \* the daemon it has started and not seen the end of
    writer,        \* its end of the pipe
    message,       \* the number of messages it has begun to send
    put, answer,   \* bytes of each message written; what sendData() said
    written, head, \* the pipe
    phase,         \* how far each daemon process is
    reader,        \* its end of the pipe
    taken,         \* bytes in its buffer
    call,          \* whose handleParentMessage() the reading thread is in
    lock,          \* the daemon that has the lock file
    handled,       \* history: bytes that the daemon class has handled
    readyAt,       \* history: head when its constructor began
    cut,           \* history: messages whose write() a signal has ended
    elsewhere,     \* history: daemons that others have started
    left           \* history: daemons whose end isDaemonRunning() has noticed

appVars == <<appPc, child, writer, elsewhere, left>>
sendVars == <<message, put, answer, cut>>
pipeVars == <<written, head>>
threadVars == <<taken, call, handled>>
daemonVars == <<phase, reader, lock, readyAt, threadVars>>
vars == <<appVars, sendVars, pipeVars, daemonVars>>

(***************************************************************************)
(* The daemon object.  In "base" the constructor of DaemonLoop has called  *)
(* openPipe(); in "derived" the constructor of the daemon class has begun;  *)
(* in "derivedEnd" its members are destroyed, in "baseEnd" ~DaemonLoop()   *)
(* runs.  From "derived" to "derivedEnd" virtual calls go to that class.   *)
(***************************************************************************)
DerivedTable == {"derived", "running", "refused", "derivedEnd"}
Phases == {"none", "launched", "base", "baseEnd", "ended"} \union DerivedTable

(***************************************************************************)
(* The ends of the pipe.  After openPipe() an end is "starting" until its  *)
(* initialization thread gets to open(), and whoever blocks in open()      *)
(* counts as having the pipe open.  A writer that was open before it was   *)
(* closed has "closed", one that never was has "cancelled".                *)
(***************************************************************************)
NotBegun == {"new", "starting"}
InUse == {"opening", "open"}
Readers == {d \in Daemons : reader[d] \in InUse}
Waiting == written - head
Bytes(first, last) == [i \in 1 .. last - first + 1 |-> first + i - 1]

Init ==
    /\ appPc = "idle" /\ child = NoDaemon /\ writer = "new"
    /\ message = 0 /\ cut = {}
    /\ elsewhere = {} /\ left = {}
    /\ put = [m \in Messages |-> 0]
    /\ answer = [m \in Messages |-> "none"]
    /\ written = 0 /\ head = 0
    /\ phase = [d \in Daemons |-> "none"]
    /\ reader = [d \in Daemons |-> "new"]
    /\ taken = [d \in Daemons |-> <<>>]
    /\ call = [d \in Daemons |-> "none"]
    /\ lock = NoDaemon
    /\ handled = [d \in Daemons |-> <<>>]
    /\ readyAt = [d \in Daemons |-> 0]

\* What is in the pipe is lost when nobody has it open any more.
LoseIfUnused ==
    head' = IF writer' \in InUse \/ \E d \in Daemons : reader'[d] \in InUse
            THEN head ELSE written

-----------------------------------------------------------------------------
(***************************************************************************)
(* The application.                                                        *)
(***************************************************************************)
AppFrame == UNCHANGED <<pipeVars, daemonVars>>

startDaemon(d) ==
    /\ appPc = "idle" /\ child = NoDaemon
    /\ phase[d] = "none"
    /\ writer' = IF writer = "new" THEN "starting" ELSE writer
    /\ child' = d
    /\ phase' = [phase EXCEPT ![d] = "launched"]
    /\ UNCHANGED <<appPc, elsewhere, left, sendVars, pipeVars, reader, lock,
                   readyAt, threadVars>>

BeginOpenWriter ==
    /\ writer = "starting"
    /\ writer' = "opening"
    /\ AppFrame
    /\ UNCHANGED <<appPc, child, elsewhere, left, sendVars>>

OpenWriter ==
    /\ writer = "opening"
    /\ Readers # {}
    /\ writer' = "open"
    /\ AppFrame
    /\ UNCHANGED <<appPc, child, elsewhere, left, sendVars>>

\* messageParent(): sendData() waits for the pipe to open, or for a second.
\* When it was open and is closed, descriptor 0 is written to.
Answer(m, result) ==
    /\ answer' = [answer EXCEPT ![m] = result]
    /\ appPc' = "idle"

messageParent ==
    /\ appPc = "idle"
    /\ message + 1 \in Messages
    /\ message' = message + 1
    /\ IF writer = "closed"
       THEN \E result \in {"true", "false"} : Answer(message', result)
       ELSE /\ appPc' = IF writer = "open" THEN "write" ELSE "wait"
            /\ UNCHANGED answer
    /\ AppFrame
    /\ UNCHANGED <<child, writer, elsewhere, left, put, cut>>

\* Mutant: the flag is not looked at again after the wait.
EndWaitUnchecked ==
    /\ appPc = "wait"
    /\ appPc' = "write"
    /\ AppFrame
    /\ UNCHANGED <<child, writer, elsewhere, left, message, put, answer, cut>>

EndWait ==
    /\ appPc = "wait"
    /\ IF writer = "open" THEN appPc' = "write" /\ UNCHANGED answer
                          ELSE Answer(message, "false")
    /\ AppFrame
    /\ UNCHANGED <<child, writer, elsewhere, left, message, put, cut>>

\* write() of n bytes: all of a short message, any part of a long one.
Left == Size[message] - put[message]
Pieces == IF Size[message] <= PipeBuf THEN {Left} ELSE 1 .. Left
Fits(n) == n <= Capacity - Waiting

\* Mutant: sendData() returns what write() has written so far.
WriteOnce ==
    /\ appPc = "write" /\ Readers # {}
    /\ \E n \in Pieces :
         /\ Fits(n)
         /\ written' = written + n
         /\ put' = [put EXCEPT ![message] = @ + n]
         /\ Answer(message, "true")
    /\ UNCHANGED <<child, writer, elsewhere, left, message, cut, head, daemonVars>>

Write ==
    /\ appPc = "write" /\ Readers # {}
    /\ \E n \in Pieces :
         /\ Fits(n)
         /\ written' = written + n
         /\ put' = [put EXCEPT ![message] = @ + n]
         /\ IF n = Left THEN Answer(message, "true")
                        ELSE UNCHANGED <<answer, appPc>>
    /\ UNCHANGED <<child, writer, elsewhere, left, message, cut, head, daemonVars>>

\* A signal ends a write() that blocks: with an error if nothing was written
\* yet, else with the number of bytes, which is not compared with the size.
InterruptWrite ==
    /\ "signal" \in Faults
    /\ appPc = "write" /\ Readers # {}
    /\ \A n \in Pieces : ~Fits(n)
    /\ Answer(message, IF put[message] > 0 THEN "true" ELSE "false")
    /\ cut' = cut \union {message}
    /\ AppFrame
    /\ UNCHANGED <<child, writer, elsewhere, left, message, put>>

\* SIGPIPE: nobody handles it.
BreakPipe ==
    /\ appPc = "write" /\ Readers = {}
    /\ appPc' = "killed"
    /\ writer' = "closed"
    /\ UNCHANGED <<child, elsewhere, left, sendVars, written, daemonVars>>
    /\ LoseIfUnused

-----------------------------------------------------------------------------
(***************************************************************************)
(* The daemon object.                                                      *)
(***************************************************************************)
MoveTo(d, from, to) == phase[d] = from /\ phase' = [phase EXCEPT ![d] = to]

\* Some other application starts a daemon as well.
LaunchElsewhere(d) ==
    /\ d \in Elsewhere
    /\ MoveTo(d, "none", "launched")
    /\ elsewhere' = elsewhere \union {d}
    /\ UNCHANGED <<appPc, child, writer, left, sendVars, pipeVars, reader, lock,
                   readyAt, threadVars>>

Construct(d) ==
    /\ MoveTo(d, "launched", "base")
    /\ reader' = [reader EXCEPT ![d] = "starting"]
    /\ UNCHANGED <<appVars, sendVars, pipeVars, lock, readyAt, threadVars>>

ConstructDerived(d) ==
    /\ MoveTo(d, "base", "derived")
    /\ readyAt' = [readyAt EXCEPT ![d] = head]
    /\ UNCHANGED <<appVars, sendVars, pipeVars, reader, lock, threadVars>>

runLoop(d) ==
    /\ MoveTo(d, "derived", IF lock = NoDaemon THEN "running" ELSE "refused")
    /\ lock' = IF lock = NoDaemon THEN d ELSE lock
    /\ UNCHANGED <<appVars, sendVars, pipeVars, reader, readyAt, threadVars>>

Return(d) ==
    /\ \/ MoveTo(d, "running", "derivedEnd")
       \/ MoveTo(d, "refused", "derivedEnd")
    /\ UNCHANGED <<appVars, sendVars, pipeVars, reader, lock, readyAt,
                   threadVars>>

DestroyDerived(d) ==
    /\ MoveTo(d, "derivedEnd", "baseEnd")
    /\ UNCHANGED <<appVars, sendVars, pipeVars, reader, lock, readyAt,
                   threadVars>>

\* The end of a process's files, its threads and its lock.
Release(d) ==
    /\ phase' = [phase EXCEPT ![d] = "ended"]
    /\ reader' = [reader EXCEPT ![d] = "closed"]
    /\ taken' = [taken EXCEPT ![d] = <<>>]
    /\ call' = [call EXCEPT ![d] = "none"]
    /\ lock' = IF lock = d THEN NoDaemon ELSE lock
    /\ UNCHANGED <<handled, readyAt>>

\* ~DaemonLoop(): closePipe() waits until the reading thread is out of the
\* iteration it is in.
Destroy(d) ==
    /\ phase[d] = "baseEnd"
    /\ taken[d] = <<>>
    /\ Release(d)
    /\ UNCHANGED <<appVars, sendVars, written>>
    /\ LoseIfUnused

Kill(d) ==
    /\ "kill" \in Faults
    /\ phase[d] \notin {"none", "ended"}
    /\ Release(d)
    /\ UNCHANGED <<appVars, sendVars, written>>
    /\ LoseIfUnused

-----------------------------------------------------------------------------
(***************************************************************************)
(* The application sees the end of its daemon, or stops it: SIGTERM or     *)
(* SIGKILL ends the process, then the pipe is closed.  When it sees the    *)
(* end the pipe stays open.                                                *)
(***************************************************************************)
isDaemonRunning ==
    /\ appPc = "idle" /\ child # NoDaemon
    /\ phase[child] = "ended"
    /\ child' = NoDaemon
    /\ left' = left \union {child}
    /\ AppFrame
    /\ UNCHANGED <<appPc, writer, elsewhere, sendVars>>

stopDaemon ==
    /\ appPc = "idle" /\ child # NoDaemon
    /\ IF phase[child] = "ended" THEN UNCHANGED daemonVars ELSE Release(child)
    /\ child' = NoDaemon
    /\ appPc' = "close"
    /\ UNCHANGED <<writer, elsewhere, left, sendVars, written>>
    /\ LoseIfUnused

closePipe ==
    /\ appPc = "close"
    /\ appPc' = "idle"
    /\ writer' = CASE writer = "open"                     -> "closed"
                   [] writer \in {"starting", "opening"} -> "cancelled"
                   [] OTHER                               -> writer
    /\ UNCHANGED <<child, elsewhere, left, sendVars, written, daemonVars>>
    /\ LoseIfUnused

-----------------------------------------------------------------------------
(***************************************************************************)
(* The threads of a daemon's Pipe::Reader.                                 *)
(***************************************************************************)
ThreadFrame == UNCHANGED <<appVars, sendVars, phase, lock, readyAt, written>>

BeginOpenReader(d) ==
    /\ reader[d] = "starting"
    /\ reader' = [reader EXCEPT ![d] = "opening"]
    /\ ThreadFrame
    /\ UNCHANGED <<head, threadVars>>

OpenReader(d) ==
    /\ reader[d] = "opening"
    /\ \/ /\ writer \in InUse
          /\ reader' = [reader EXCEPT ![d] = "open"]
       \/ /\ "openError" \in Faults
          /\ reader' = [reader EXCEPT ![d] = "closed"]
    /\ ThreadFrame
    /\ UNCHANGED threadVars
    /\ LoseIfUnused

\* Mutant: the thread waits until the buffer will be full.
ReadFull(d) ==
    /\ reader[d] = "open" /\ taken[d] = <<>>
    /\ Waiting >= BufferSize
    /\ taken' = [taken EXCEPT ![d] = Bytes(head + 1, head + BufferSize)]
    /\ head' = head + BufferSize
    /\ ThreadFrame
    /\ UNCHANGED <<reader, call, handled>>

\* Mutant: the result of read() is not used.
ReadWholeBuffer(d) ==
    /\ reader[d] = "open" /\ taken[d] = <<>>
    /\ Waiting > 0
    /\ taken' = [taken EXCEPT ![d] = Bytes(head + 1, head + BufferSize)]
    /\ head' = head + BufferSize
    /\ ThreadFrame
    /\ UNCHANGED <<reader, call, handled>>

\* Mutant: the next read() does not wait for the handler.
ReadEarly(d) ==
    /\ reader[d] = "open"
    /\ Waiting > 0
    /\ LET n == IF Waiting > BufferSize THEN BufferSize ELSE Waiting
       IN  /\ taken' = [taken EXCEPT ![d] = Bytes(head + 1, head + n)]
           /\ head' = head + n
    /\ ThreadFrame
    /\ UNCHANGED <<reader, call, handled>>

\* read(): as much as the buffer takes, of whatever messages.
Read(d) ==
    /\ reader[d] = "open" /\ taken[d] = <<>>
    /\ Waiting > 0
    /\ LET n == IF Waiting > BufferSize THEN BufferSize ELSE Waiting
       IN  /\ taken' = [taken EXCEPT ![d] = Bytes(head + 1, head + n)]
           /\ head' = head + n
    /\ ThreadFrame
    /\ UNCHANGED <<reader, call, handled>>

\* The end of the file closes the pipe for good.
EndOfFile(d) ==
    /\ reader[d] = "open" /\ taken[d] = <<>>
    /\ Waiting = 0 /\ writer \notin InUse
    /\ reader' = [reader EXCEPT ![d] = "closed"]
    /\ ThreadFrame
    /\ UNCHANGED <<head, threadVars>>

\* processData() calls handleParentMessage() of the class the object is of at
\* that time.  That of DaemonLoop itself does nothing.
processData(d) ==
    /\ taken[d] # <<>> /\ call[d] = "none"
    /\ call' = [call EXCEPT ![d] =
                  IF phase[d] \in DerivedTable THEN "derived" ELSE "base"]
    /\ ThreadFrame
    /\ UNCHANGED <<head, reader, taken, handled>>

\* Mutant: the buffer is not marked as used.
ReturnFromHandlerAgain(d) ==
    /\ call[d] # "none"
    /\ call' = [call EXCEPT ![d] = "none"]
    /\ handled' = [handled EXCEPT ![d] =
                     IF call[d] = "derived" THEN @ \o taken[d] ELSE @]
    /\ ThreadFrame
    /\ UNCHANGED <<head, reader, taken>>

ReturnFromHandler(d) ==
    /\ call[d] # "none"
    /\ call' = [call EXCEPT ![d] = "none"]
    /\ handled' = [handled EXCEPT ![d] =
                     IF call[d] = "derived" THEN @ \o taken[d] ELSE @]
    /\ taken' = [taken EXCEPT ![d] = <<>>]
    /\ ThreadFrame
    /\ UNCHANGED <<head, reader>>

-----------------------------------------------------------------------------
InCall == EndWait \/ Write \/ InterruptWrite \/ BreakPipe \/ closePipe

App ==
    \/ messageParent \/ isDaemonRunning \/ stopDaemon
    \/ InCall \/ BeginOpenWriter \/ OpenWriter
    \/ \E d \in Daemons : startDaemon(d)

\* The steps of the process's first thread that come whatever the daemon does.
MainThread(d) ==
    Construct(d) \/ ConstructDerived(d) \/ runLoop(d) \/ DestroyDerived(d)
        \/ Destroy(d)

ReadThread(d) ==
    Read(d) \/ EndOfFile(d) \/ processData(d) \/ ReturnFromHandler(d)

Next ==
    \/ appPc # "killed" /\ App
    \/ \E d \in Daemons :
         \/ LaunchElsewhere(d) \/ MainThread(d) \/ Return(d) \/ Kill(d)
         \/ BeginOpenReader(d) \/ OpenReader(d) \/ ReadThread(d)

Spec == Init /\ [][Next]_vars

\* Every thread that can go on does, and handleParentMessage() returns.  A
\* running daemon may run for ever, a refused one ends.
FairSpec ==
    /\ Spec
    /\ WF_vars(Write \/ BreakPipe \/ EndWait \/ closePipe)
    /\ WF_vars(appPc # "killed" /\ (BeginOpenWriter \/ OpenWriter))
    /\ \A d \in Daemons :
         /\ WF_vars(MainThread(d))
         /\ WF_vars(phase[d] = "refused" /\ Return(d))
         /\ WF_vars(BeginOpenReader(d) \/ (writer \in InUse /\ OpenReader(d)))
         /\ WF_vars(ReadThread(d))

-----------------------------------------------------------------------------
TypeOK ==
    /\ appPc \in {"idle", "wait", "write", "close", "killed"}
    /\ child \in Daemons \union {NoDaemon}
    /\ writer \in NotBegun \union InUse \union {"closed", "cancelled"}
    /\ elsewhere \subseteq Daemons /\ left \subseteq Daemons
    /\ message \in {0} \union Messages
    /\ put \in [Messages -> Nat]
    /\ answer \in [Messages -> {"none", "true", "false"}]
    /\ written \in Nat
    /\ head \in 0 .. written
    /\ phase \in [Daemons -> Phases]
    /\ reader \in [Daemons -> NotBegun \union InUse \union {"closed"}]
    /\ taken \in [Daemons -> Seq(1 .. head)]
    /\ call \in [Daemons -> {"none", "base", "derived"}]
    /\ lock \in Daemons \union {NoDaemon}
    /\ handled \in [Daemons -> Seq(1 .. head)]
    /\ readyAt \in [Daemons -> 0 .. head]
    /\ cut \subseteq Messages

\* No other daemon has ever had the pipe open.
Alone(d) == \A e \in Daemons \ {d} : reader[e] \in NotBegun

\* Once the constructor of the daemon class has begun, every byte that the
\* reading thread takes reaches the class's handler, unless other daemons read
\* from the pipe.  (What was read before it began is lost.)
NothingLost ==
    \A d \in Daemons :
        phase[d] \in DerivedTable /\ reader[d] \in InUse /\ Alone(d)
            => readyAt[d] + 1 .. head \subseteq ToSet(handled[d] \o taken[d])

\* When sendData() says false, nothing of the message was written, so that it
\* can be sent again.  When it says true, all was, unless a signal has ended its
\* write() in the middle or the pipe was closed before.  (Then it says true as
\* well, which AnswerIsTrue shows.)
AnswerUnlessInterrupted ==
    \A m \in Messages :
        /\ answer[m] = "false" => put[m] = 0
        /\ answer[m] = "true" =>
             put[m] = Size[m] \/ m \in cut \/ writer = "closed"

\* SIGPIPE ends an application that is alone with its daemons only after the
\* daemon it has started has closed its end of the pipe or could not open it.
\* If isDaemonRunning() has noticed the end of an earlier daemon the pipe was
\* left open: then the signal comes too when no new daemon was started, or when
\* the new one runs but has not got to open() yet.
KilledOnlyWhenAlone ==
    [][appPc # "killed" /\ appPc' = "killed" =>
         \/ child # NoDaemon /\ reader[child] = "closed"
         \/ left # {} /\ (child = NoDaemon \/ reader[child] \in NotBegun)
         \/ elsewhere # {}]_vars

Channel == INSTANCE MessageChannel
             WITH Receivers <- Daemons, sent <- written, delivered <- handled

\* However many daemons read from the pipe, a byte is handled at most once, and
\* each daemon handles what it gets in order.
ImplementsChannel == Channel!Spec

\* A running daemon takes everything from the pipe and is through with it.
PipeIsEmptied ==
    \A d \in Daemons :
        phase[d] = "running" /\ reader[d] = "open" ~>
            (Waiting = 0 /\ taken[d] = <<>>) \/ phase[d] # "running"

(***************************************************************************)
(* What the documentation says and the code does not do.                   *)
(***************************************************************************)
\* Pipe_Writer.h, sendData(): it returns whether the data was sent correctly.
\* What it says is true of a message sent while the pipe is open.
AnswerIsTrue ==
    \A m \in Messages :
        writer = "open" /\ answer[m] = "true" => put[m] = Size[m]
=============================================================================
