------------------------ MODULE DaemonMessagesProofs ------------------------
(***************************************************************************)
(* Theorems about DaemonMessages, for every set of daemons, wherever they  *)
(* were started, every sequence of messages, every size of the pipe, of    *)
(* the buffer and of what is written at once, and every choice of faults.  *)
(***************************************************************************)
EXTENDS DaemonMessages, SequenceTheorems, TLAPS

(***************************************************************************)
(* The inductive invariant, in three parts.  The first is about the call   *)
(* of sendData() that is under way.                                        *)
(***************************************************************************)
\* What is to be sent has not been written, and what is being sent has not
\* been written to the end.
SendingInOrder ==
    /\ \A m \in Messages : m > message => put[m] = 0 /\ answer[m] = "none"
    /\ appPc \in {"wait", "write"} =>
         /\ message \in Messages
         /\ put[message] < Size[message]
         /\ answer[message] = "none"
    /\ appPc = "wait" => put[message] = 0
    /\ \A m \in Messages : put[m] <= Size[m]

\* Whoever writes has the pipe open.
WritingIsOpen == appPc = "write" => writer = "open"

\* A daemon that goes on is the one that the application knows of, unless it was
\* started elsewhere or the pipe was left to it; one that has ended is closed.
DaemonsAccounted ==
    \A d \in Daemons :
        /\ phase[d] \notin {"none", "ended"} =>
             d \in {child} \union elsewhere \union left
        /\ phase[d] = "ended" => reader[d] = "closed"

\* If the application is alone with its daemons, the one that it knows of has
\* let it open the pipe.
OpenedByDaemon ==
    writer = "open" /\ appPc # "close" /\ elsewhere = {} /\ left = {} =>
        child # NoDaemon /\ reader[child] \notin NotBegun

SendInv ==
    /\ SendingInOrder
    /\ WritingIsOpen
    /\ AnswerUnlessInterrupted
    /\ DaemonsAccounted
    /\ OpenedByDaemon

(***************************************************************************)
(* The second is about one daemon and its reader.                          *)
(***************************************************************************)
\* The constructor of DaemonLoop starts the reader.
ReaderStarted ==
    \A d \in Daemons : reader[d] = "new" <=> phase[d] \in {"none", "launched"}

\* A daemon that is alone with the pipe has read nothing since its class was
\* constructed if it is still in the empty handler of the base class.
BaseCallIsEarly ==
    \A d \in Daemons :
        /\ phase[d] \in DerivedTable /\ reader[d] \in InUse /\ Alone(d)
        /\ call[d] = "base"
        => head = readyAt[d]

\* A handler is called for something.
CallHasBytes == \A d \in Daemons : call[d] # "none" => taken[d] # <<>>

\* Nothing can be written before a daemon has begun to open the pipe.
WrittenToReader == written = 0 \/ \E d \in Daemons : reader[d] \notin NotBegun

DaemonInv ==
    ReaderStarted /\ WrittenToReader /\ CallHasBytes /\ BaseCallIsEarly
        /\ NothingLost

(***************************************************************************)
(* The third is about the bytes that all daemons take from the pipe.       *)
(***************************************************************************)
\* A buffer has a piece of the stream.
BuffersArePieces ==
    \A d \in Daemons :
        taken[d] # <<>> =>
            \E first \in 1 .. head : \E last \in first .. head :
                taken[d] = Bytes(first, last)

\* No byte is in two places.
BytesApart ==
    \A d, e \in Daemons :
        /\ ToSet(handled[d]) \intersect ToSet(taken[e]) = {}
        /\ d # e => ToSet(taken[d]) \intersect ToSet(taken[e]) = {}

\* What a daemon has handled is older than what it has in its buffer.
OldBytesFirst ==
    \A d \in Daemons : \A b \in ToSet(handled[d]) : \A c \in ToSet(taken[d]) : b < c

StreamInv == BuffersArePieces /\ BytesApart /\ OldBytesFirst

MessagesInv == TypeOK /\ SendInv /\ DaemonInv /\ StreamInv

-----------------------------------------------------------------------------
(***************************************************************************)
(* Sequences of bytes.                                                     *)
(***************************************************************************)
\* What two sequences have in them together.
LEMMA ToSetOfConcat ==
    ASSUME NEW S, NEW s \in Seq(S), NEW t \in Seq(S)
    PROVE  ToSet(s \o t) = ToSet(s) \union ToSet(t)
<1>1. /\ s \o t \in Seq(S) /\ Len(s \o t) = Len(s) + Len(t)
      /\ \A i \in 1 .. Len(s) : (s \o t)[i] = s[i]
      /\ \A i \in 1 .. Len(t) : (s \o t)[Len(s) + i] = t[i]
  OBVIOUS
<1>2. ToSet(s \o t) \subseteq ToSet(s) \union ToSet(t)
  <2>1. SUFFICES ASSUME NEW i \in 1 .. Len(s) + Len(t)
                 PROVE  (s \o t)[i] \in ToSet(s) \union ToSet(t)
    BY <1>1 DEF ToSet
  <2>2. CASE i <= Len(s)
    BY <1>1, <2>2 DEF ToSet
  <2>3. CASE i > Len(s)
    <3>1. i - Len(s) \in 1 .. Len(t) /\ i = Len(s) + (i - Len(s))
      BY <2>3
    <3> QED
      BY <1>1, <3>1 DEF ToSet
  <2> QED
    BY <2>2, <2>3
<1>3. ASSUME NEW i \in 1 .. Len(s) PROVE s[i] \in ToSet(s \o t)
  BY <1>1 DEF ToSet
<1>4. ASSUME NEW i \in 1 .. Len(t) PROVE t[i] \in ToSet(s \o t)
  <2>1. Len(s) + i \in 1 .. Len(s \o t)
    BY <1>1
  <2> QED
    BY <1>1, <2>1 DEF ToSet
<1>5. ToSet(s) \subseteq ToSet(s \o t)
  BY <1>3 DEF ToSet
<1>6. ToSet(t) \subseteq ToSet(s \o t)
  BY <1>4 DEF ToSet
<1> QED
  BY <1>2, <1>5, <1>6

\* A piece of the stream has the bytes from its first to its last.
LEMMA BytesInPiece ==
    ASSUME NEW first \in Nat, NEW last \in Nat, first <= last
    PROVE  /\ Bytes(first, last) \in Seq(first .. last)
           /\ Bytes(first, last) # <<>>
           /\ ToSet(Bytes(first, last)) = first .. last
<1>1. Bytes(first, last) \in [1 .. last - first + 1 -> first .. last]
  BY DEF Bytes
<1>2. Bytes(first, last) \in Seq(first .. last)
  BY <1>1, IsASeq, last - first + 1 \in Nat
<1>3. Len(Bytes(first, last)) = last - first + 1
  BY <1>1, <1>2, LenProperties
<1>4. ToSet(Bytes(first, last)) \subseteq first .. last
  BY <1>1, <1>3 DEF ToSet
<1>5. ASSUME NEW b \in first .. last PROVE b \in ToSet(Bytes(first, last))
  <2>1. b - first + 1 \in 1 .. last - first + 1
    OBVIOUS
  <2>2. Bytes(first, last)[b - first + 1] = b
    BY <2>1 DEF Bytes
  <2> QED
    BY <1>1, <2>1, <2>2 DEF ToSet
<1> QED
  BY <1>2, <1>3, <1>4, <1>5

\* An empty buffer has nothing in it.
LEMMA NothingInEmpty == ToSet(<<>>) = {}
  BY DEF ToSet

\* Bytes that were in the pipe before are still places of the stream.
LEMMA OlderBytes ==
    ASSUME NEW m \in Nat, NEW n \in Nat, m <= n, NEW s \in Seq(1 .. m)
    PROVE  s \in Seq(1 .. n)
  BY SeqMonotonic, 1 .. m \subseteq 1 .. n

\* The members of a sequence of bytes are places of the stream.
LEMMA BytesType ==
    ASSUME NEW n \in Nat, NEW s \in Seq(1 .. n)
    PROVE  ToSet(s) \subseteq 1 .. n
  BY ElementOfSeq, LenProperties DEF ToSet

-----------------------------------------------------------------------------
(***************************************************************************)
(* The type invariant, in parts.                                           *)
(***************************************************************************)
AppType ==
    /\ appPc \in {"idle", "wait", "write", "close", "killed"}
    /\ child \in Daemons \union {NoDaemon}
    /\ writer \in {"new", "starting", "opening", "open", "closed", "cancelled"}
    /\ elsewhere \subseteq Daemons /\ left \subseteq Daemons

SendType ==
    /\ message \in {0} \union Messages
    /\ put \in [Messages -> Nat]
    /\ answer \in [Messages -> {"none", "true", "false"}]
    /\ cut \subseteq Messages

PipeType ==
    /\ written \in Nat
    /\ head \in 0 .. written

ObjectType ==
    /\ phase \in [Daemons -> Phases]
    /\ reader \in [Daemons -> {"new", "starting", "opening", "open", "closed"}]
    /\ call \in [Daemons -> {"none", "base", "derived"}]
    /\ lock \in Daemons \union {NoDaemon}

ByteType ==
    /\ taken \in [Daemons -> Seq(1 .. head)]
    /\ handled \in [Daemons -> Seq(1 .. head)]
    /\ readyAt \in [Daemons -> 0 .. head]

\* What the ends of the pipe can be.
LEMMA EndsOfPipe ==
    /\ NotBegun \union InUse \union {"closed"} =
         {"new", "starting", "opening", "open", "closed"}
    /\ NotBegun \union InUse \union {"closed", "cancelled"} =
         {"new", "starting", "opening", "open", "closed", "cancelled"}
  BY DEF NotBegun, InUse

\* The type invariant is its parts.
LEMMA TypeParts ==
    TypeOK <=> AppType /\ SendType /\ PipeType /\ ObjectType /\ ByteType
  BY EndsOfPipe DEF TypeOK, AppType, SendType, PipeType, ObjectType, ByteType

\* The same of the next state.
LEMMA TypePartsNext ==
    TypeOK' <=> AppType' /\ SendType' /\ PipeType' /\ ObjectType' /\ ByteType'
  BY EndsOfPipe DEF TypeOK, AppType, SendType, PipeType, ObjectType, ByteType

\* Every message has a number and at least one byte.
LEMMA SizeFacts ==
    /\ Messages = 1 .. Len(Size)
    /\ Len(Size) \in Nat
    /\ \A m \in Messages : m \in Nat /\ Size[m] \in Nat /\ Size[m] > 0
  BY MessagesAssumption, ElementOfSeq, LenProperties DEF Messages

USE DEF appVars, sendVars, pipeVars, threadVars, daemonVars

(***************************************************************************)
(* What the steps have in common.                                          *)
(***************************************************************************)
\* Nothing is read or handled; the bytes in the pipe stay or are lost.
QuietPipe == written' = written /\ head' \in {head, written}

\* The steps of daemons other than of their reading threads, and those of the
\* application other than its write() and stopDaemon().
Quiet == QuietPipe /\ UNCHANGED <<handled, taken, call, readyAt>>

\* A step of a daemon: the application stays where it is.
DaemonStep(d) ==
    \/ LaunchElsewhere(d) \/ MainThread(d) \/ Return(d) \/ Kill(d)
    \/ BeginOpenReader(d) \/ OpenReader(d) \/ ReadThread(d)

\* A read() of n bytes.
ReadBytes(d, n) ==
    /\ n > 0 /\ n <= Waiting
    /\ taken' = [taken EXCEPT ![d] = Bytes(head + 1, head + n)]
    /\ head' = head + n

\* read() takes some of the bytes in the pipe.
LEMMA ReadSome ==
    ASSUME PipeType, NEW d \in Daemons, Read(d)
    PROVE  \E n \in Nat : ReadBytes(d, n)
<1> DEFINE n == IF Waiting > BufferSize THEN BufferSize ELSE Waiting
<1>1. n \in Nat /\ n > 0 /\ n <= Waiting
  BY MessagesAssumption DEF Read, PipeType, Waiting
<1>2. /\ taken' = [taken EXCEPT ![d] = Bytes(head + 1, head + n)]
      /\ head' = head + n
  BY DEF Read
<1> HIDE DEF n
<1> QED
  BY <1>1, <1>2 DEF ReadBytes

\* When bytes are lost, the pipe is empty.
LEMMA LoseQuietly == LoseIfUnused => head' \in {head, written}
  BY DEF LoseIfUnused

\* When the pipe is in use by a daemon, nothing is lost.
LEMMA NothingLostInUse ==
    ASSUME NEW d \in Daemons, reader'[d] \in InUse, LoseIfUnused
    PROVE  head' = head
  BY DEF LoseIfUnused

\* Most steps of the application take nothing from the pipe to a daemon.
LEMMA QuietSteps ==
    ASSUME \/ \E d \in Daemons : startDaemon(d)
           \/ BeginOpenWriter \/ OpenWriter \/ messageParent \/ EndWait
           \/ InterruptWrite \/ BreakPipe \/ isDaemonRunning \/ closePipe
    PROVE  Quiet
  BY LoseQuietly
  DEF Quiet, QuietPipe, startDaemon, BeginOpenWriter, OpenWriter,
      messageParent, EndWait, InterruptWrite, BreakPipe, isDaemonRunning,
      closePipe, AppFrame

\* The same of the steps of a daemon.
LEMMA QuietDaemonSteps ==
    ASSUME NEW d \in Daemons,
           \/ LaunchElsewhere(d) \/ Construct(d) \/ runLoop(d) \/ Return(d)
           \/ DestroyDerived(d) \/ BeginOpenReader(d) \/ OpenReader(d)
           \/ EndOfFile(d)
    PROVE  Quiet
  BY LoseQuietly
  DEF Quiet, QuietPipe, LaunchElsewhere, Construct, runLoop, Return,
      DestroyDerived, BeginOpenReader, OpenReader, EndOfFile, ThreadFrame

\* The bytes of the daemons are still of the stream when more was read.
LEMMA BytesKept ==
    ASSUME PipeType, ByteType, head' \in Nat, head <= head',
           UNCHANGED <<handled, readyAt>>,
           \/ UNCHANGED taken
           \/ \E d \in Daemons : taken' = [taken EXCEPT ![d] = <<>>]
    PROVE  ByteType'
<1>1. \A s \in Seq(1 .. head) : s \in Seq(1 .. head')
  BY OlderBytes DEF PipeType
<1>2. taken' \in [Daemons -> Seq(1 .. head')]
  <2>1. <<>> \in Seq(1 .. head)
    BY EmptySeq
  <2>2. taken' \in [Daemons -> Seq(1 .. head)]
    BY <2>1 DEF ByteType
  <2> QED
    BY <1>1, <2>2
<1>3. handled' \in [Daemons -> Seq(1 .. head')]
  BY <1>1 DEF ByteType
<1>4. readyAt' \in [Daemons -> 0 .. head']
  BY DEF ByteType, PipeType
<1> QED
  BY <1>2, <1>3, <1>4 DEF ByteType

\* A quiet step keeps the types of the bytes.
LEMMA QuietType == PipeType /\ ByteType /\ Quiet => PipeType' /\ ByteType'
<1> SUFFICES ASSUME PipeType, ByteType, Quiet PROVE PipeType' /\ ByteType'
  OBVIOUS
<1>1. PipeType' /\ head' \in Nat /\ head <= head'
  BY DEF PipeType, Quiet, QuietPipe
<1> QED
  BY <1>1, BytesKept DEF Quiet

\* The end of a daemon keeps the types of the daemons and their bytes.
LEMMA ReleaseType ==
    ASSUME PipeType, ObjectType, ByteType, NEW d \in Daemons, Release(d),
           written' = written, LoseIfUnused
    PROVE  PipeType' /\ ObjectType' /\ ByteType'
<1>1. PipeType' /\ head' \in Nat /\ head <= head'
  BY LoseQuietly DEF PipeType
<1>2. ObjectType'
  BY DEF Release, ObjectType, Phases
<1>3. ByteType'
  BY <1>1, BytesKept DEF Release
<1> QED
  BY <1>1, <1>2, <1>3

-----------------------------------------------------------------------------
(***************************************************************************)
(* Types.                                                                  *)
(***************************************************************************)
\* A new application and no daemon yet.
LEMMA InitType == Init => TypeOK
<1> SUFFICES ASSUME Init PROVE TypeOK
  OBVIOUS
<1>1. AppType /\ SendType /\ PipeType /\ ObjectType
  BY DEF Init, AppType, SendType, PipeType, ObjectType, Phases
<1>2. ByteType
  BY EmptySeq DEF Init, ByteType
<1> QED
  BY <1>1, <1>2, TypeParts

\* write() keeps the types.
LEMMA WriteType == TypeOK /\ SendingInOrder /\ Write => TypeOK'
<1> SUFFICES ASSUME TypeOK, SendingInOrder, Write PROVE TypeOK'
  OBVIOUS
<1>0. AppType /\ SendType /\ PipeType /\ ObjectType /\ ByteType
  BY TypeParts
<1>1. PICK n \in Pieces :
        /\ written' = written + n
        /\ put' = [put EXCEPT ![message] = @ + n]
        /\ IF n = Left THEN Answer(message, "true")
                       ELSE UNCHANGED <<answer, appPc>>
  BY DEF Write
<1>2. n \in Nat /\ n > 0 /\ n <= Left
  <2>1. message \in Messages /\ put[message] \in Nat /\ put[message] < Size[message]
    BY <1>0 DEF Write, SendingInOrder, SendType
  <2>2. Left \in Nat /\ Left > 0
    BY <2>1, SizeFacts DEF Left
  <2> QED
    BY <1>1, <2>2 DEF Pieces
<1>3. AppType' /\ ObjectType'
  BY <1>0, <1>1 DEF Write, Answer, AppType, ObjectType
<1>4. SendType'
  <2>1. put' \in [Messages -> Nat]
    <3>1. \A m \in Messages : put[m] + n \in Nat
      BY <1>0, <1>2 DEF SendType
    <3> QED
      BY <1>0, <1>1, <3>1 DEF SendType
  <2>2. answer' \in [Messages -> {"none", "true", "false"}]
    BY <1>0, <1>1 DEF Answer, SendType
  <2> QED
    BY <1>0, <2>1, <2>2 DEF Write, SendType
<1>5. PipeType'
  BY <1>0, <1>1, <1>2 DEF Write, PipeType
<1>6. ByteType'
  BY <1>0 DEF Write, ByteType
<1> QED
  BY <1>3, <1>4, <1>5, <1>6, TypePartsNext

\* So do the other steps of the application.
LEMMA AppStepType == TypeOK /\ SendingInOrder /\ App => TypeOK'
<1> SUFFICES ASSUME TypeOK, SendingInOrder, App PROVE TypeOK'
  OBVIOUS
<1>0. AppType /\ SendType /\ PipeType /\ ObjectType /\ ByteType
  BY TypeParts
<1>1. CASE Write
  BY <1>1, WriteType
<1>2. CASE stopDaemon
  <2>1. AppType' /\ SendType'
    BY <1>0, <1>2 DEF stopDaemon, AppType, SendType
  <2>2. PipeType' /\ ObjectType' /\ ByteType'
    <3>1. CASE phase[child] = "ended"
      <4>1. Quiet /\ UNCHANGED <<phase, reader, lock>>
        BY <1>2, <3>1, LoseQuietly DEF stopDaemon, Quiet, QuietPipe
      <4> QED
        BY <1>0, <4>1, QuietType DEF Quiet, ObjectType
    <3>2. CASE phase[child] # "ended"
      BY <1>0, <1>2, <3>2, ReleaseType DEF stopDaemon, AppType
    <3> QED
      BY <3>1, <3>2
  <2> QED
    BY <2>1, <2>2, TypePartsNext
<1>3. ASSUME \/ \E d \in Daemons : startDaemon(d)
             \/ BeginOpenWriter \/ OpenWriter \/ messageParent \/ EndWait
             \/ InterruptWrite \/ BreakPipe \/ isDaemonRunning \/ closePipe
      PROVE  TypeOK'
  <2>1. PipeType' /\ ByteType'
    BY <1>0, <1>3, QuietSteps, QuietType
  <2>2. AppType'
    BY <1>0, <1>3
    DEF startDaemon, BeginOpenWriter, OpenWriter, messageParent, EndWait,
        InterruptWrite, BreakPipe, isDaemonRunning, closePipe, Answer, AppType
  <2>3. ObjectType'
    BY <1>0, <1>3
    DEF startDaemon, BeginOpenWriter, OpenWriter, messageParent, EndWait,
        InterruptWrite, BreakPipe, isDaemonRunning, closePipe, AppFrame,
        ObjectType, Phases
  <2>4. SendType'
    <3>1. CASE messageParent
      BY <1>0, <3>1 DEF messageParent, Answer, SendType
    <3>2. CASE EndWait \/ InterruptWrite
      BY <1>0, <3>2
      DEF EndWait, InterruptWrite, Answer, SendType, SendingInOrder
    <3>3. CASE UNCHANGED sendVars
      BY <1>0, <3>3 DEF SendType
    <3> QED
      BY <1>3, <3>1, <3>2, <3>3
      DEF startDaemon, BeginOpenWriter, OpenWriter, BreakPipe, isDaemonRunning,
          closePipe
  <2> QED
    BY <2>1, <2>2, <2>3, <2>4, TypePartsNext
<1> QED
  BY <1>1, <1>2, <1>3 DEF App, InCall

\* So do the steps of the daemons.
LEMMA DaemonStepType ==
    ASSUME TypeOK, NEW d \in Daemons, DaemonStep(d)
    PROVE  TypeOK'
<1>0. AppType /\ SendType /\ PipeType /\ ObjectType /\ ByteType
  BY TypeParts
<1>1. AppType' /\ SendType'
  BY <1>0
  DEF DaemonStep, MainThread, ReadThread, LaunchElsewhere, Construct,
      ConstructDerived, runLoop, Return, DestroyDerived, Destroy, Kill,
      BeginOpenReader, OpenReader, Read, EndOfFile, processData,
      ReturnFromHandler, ThreadFrame, AppType, SendType
<1>2. CASE \/ LaunchElsewhere(d) \/ Construct(d) \/ runLoop(d) \/ Return(d)
           \/ DestroyDerived(d) \/ BeginOpenReader(d) \/ OpenReader(d)
           \/ EndOfFile(d)
  <2>1. PipeType' /\ ByteType'
    BY <1>0, <1>2, QuietDaemonSteps, QuietType
  <2>2. ObjectType'
    BY <1>0, <1>2
    DEF LaunchElsewhere, Construct, runLoop, Return, DestroyDerived,
        BeginOpenReader, OpenReader, EndOfFile, MoveTo, ThreadFrame, ObjectType,
        Phases, DerivedTable
  <2> QED
    BY <1>1, <2>1, <2>2, TypePartsNext
<1>3. CASE Destroy(d) \/ Kill(d)
  <2>1. PipeType' /\ ObjectType' /\ ByteType'
    BY <1>0, <1>3, ReleaseType DEF Destroy, Kill
  <2> QED
    BY <1>1, <2>1, TypePartsNext
<1>4. CASE ConstructDerived(d)
  <2>1. ObjectType'
    BY <1>0, <1>4 DEF ConstructDerived, MoveTo, ObjectType, Phases, DerivedTable
  <2>2. PipeType'
    BY <1>0, <1>4 DEF ConstructDerived, PipeType
  <2>3. ByteType'
    BY <1>0, <1>4 DEF ConstructDerived, PipeType, ByteType
  <2> QED
    BY <1>1, <2>1, <2>2, <2>3, TypePartsNext
<1>5. CASE Read(d)
  <2>1. PICK n \in Nat : ReadBytes(d, n)
    BY <1>0, <1>5, ReadSome
  <2>2. PipeType' /\ head' \in Nat /\ head <= head'
    BY <1>0, <1>5, <2>1 DEF ReadBytes, Read, ThreadFrame, PipeType, Waiting
  <2>3. ObjectType'
    BY <1>0, <1>5 DEF Read, ThreadFrame, ObjectType
  <2>4. \A s \in Seq(1 .. head) : s \in Seq(1 .. head')
    BY <1>0, <2>2, OlderBytes DEF PipeType
  <2>5. Bytes(head + 1, head + n) \in Seq(1 .. head')
    <3>1. Bytes(head + 1, head + n) \in Seq(head + 1 .. head + n)
      BY <1>0, <2>1, BytesInPiece DEF ReadBytes, PipeType
    <3>2. head + 1 .. head + n \subseteq 1 .. head'
      BY <1>0, <2>1 DEF ReadBytes, PipeType
    <3> QED
      BY <3>1, <3>2, SeqMonotonic
  <2>6. taken' \in [Daemons -> Seq(1 .. head')]
    BY <1>0, <2>1, <2>4, <2>5 DEF ReadBytes, ByteType
  <2>7. handled' \in [Daemons -> Seq(1 .. head')]
    BY <1>0, <1>5, <2>4 DEF Read, ByteType
  <2>8. readyAt' \in [Daemons -> 0 .. head']
    BY <1>0, <1>5, <2>2 DEF Read, ThreadFrame, ByteType, PipeType
  <2> QED
    BY <1>1, <2>2, <2>3, <2>6, <2>7, <2>8, TypePartsNext DEF ByteType
<1>6. CASE processData(d)
  <2>1. PipeType' /\ ObjectType' /\ ByteType'
    BY <1>0, <1>6
    DEF processData, ThreadFrame, PipeType, ObjectType, ByteType
  <2> QED
    BY <1>1, <2>1, TypePartsNext
<1>7. CASE ReturnFromHandler(d)
  <2>1. PipeType' /\ ObjectType'
    BY <1>0, <1>7 DEF ReturnFromHandler, ThreadFrame, PipeType, ObjectType
  <2>2. UNCHANGED <<head, readyAt>>
    BY <1>7 DEF ReturnFromHandler, ThreadFrame
  <2>3. taken' \in [Daemons -> Seq(1 .. head)]
    BY <1>0, <1>7, EmptySeq DEF ReturnFromHandler, ByteType
  <2>4. handled' \in [Daemons -> Seq(1 .. head)]
    <3>1. handled[d] \o taken[d] \in Seq(1 .. head)
      BY <1>0, ConcatProperties DEF ByteType
    <3> QED
      BY <1>0, <1>7, <3>1 DEF ReturnFromHandler, ByteType
  <2> QED
    BY <1>0, <1>1, <2>1, <2>2, <2>3, <2>4, TypePartsNext DEF ByteType
<1> QED
  BY <1>2, <1>3, <1>4, <1>5, <1>6, <1>7 DEF DaemonStep, MainThread, ReadThread

\* Every step keeps the types.
LEMMA NextType == TypeOK /\ SendingInOrder /\ [Next]_vars => TypeOK'
<1> SUFFICES ASSUME TypeOK, SendingInOrder, [Next]_vars PROVE TypeOK'
  OBVIOUS
<1>1. CASE UNCHANGED vars
  BY <1>1 DEF vars, TypeOK
<1> QED
  BY <1>1, AppStepType, DaemonStepType DEF Next, DaemonStep

-----------------------------------------------------------------------------
(***************************************************************************)
(* The call of sendData().                                                 *)
(***************************************************************************)
\* A step of a daemon leaves the application as it is; only the history of the
\* daemons that others have started may grow.
LEMMA AppKept ==
    ASSUME NEW d \in Daemons, DaemonStep(d)
    PROVE  /\ UNCHANGED <<appPc, child, writer, left, sendVars>>
           /\ elsewhere \subseteq elsewhere'
  BY DEF DaemonStep, MainThread, ReadThread, LaunchElsewhere, Construct,
         ConstructDerived, runLoop, Return, DestroyDerived, Destroy, Kill,
         BeginOpenReader, OpenReader, Read, EndOfFile, processData,
         ReturnFromHandler, ThreadFrame

\* A daemon that has begun to open the pipe has begun.
LEMMA NeverAgain ==
    ASSUME TypeOK, ReaderStarted, [Next]_vars, NEW d \in Daemons
    PROVE  reader[d] \notin NotBegun => reader'[d] \notin NotBegun
<1>0. ObjectType /\ AppType
  BY TypeParts
<1> USE DEF NotBegun
<1>1. CASE UNCHANGED vars
  BY <1>1 DEF vars
<1>2. CASE App
  <2>1. ASSUME NEW e \in Daemons, startDaemon(e)
        PROVE  reader' = reader
    BY <2>1 DEF startDaemon
  <2>2. CASE stopDaemon
    BY <1>0, <2>2 DEF stopDaemon, Release, ObjectType, AppType
  <2>3. CASE \/ BeginOpenWriter \/ OpenWriter \/ messageParent \/ InCall
             \/ isDaemonRunning
    BY <2>3
    DEF BeginOpenWriter, OpenWriter, messageParent, InCall, EndWait, Write,
        InterruptWrite, BreakPipe, closePipe, isDaemonRunning, AppFrame
  <2> QED
    BY <1>2, <2>1, <2>2, <2>3 DEF App
<1>3. ASSUME NEW e \in Daemons, DaemonStep(e)
      PROVE  reader[d] \notin NotBegun => reader'[d] \notin NotBegun
  <2>1. CASE LaunchElsewhere(e) \/ MainThread(e) \/ Return(e) \/ Kill(e)
    BY <1>0, <2>1
    DEF MainThread, LaunchElsewhere, Construct, ConstructDerived, runLoop,
        Return, DestroyDerived, Destroy, Kill, Release, MoveTo, ObjectType,
        ReaderStarted
  <2>2. CASE BeginOpenReader(e) \/ OpenReader(e) \/ ReadThread(e)
    BY <1>0, <2>2
    DEF BeginOpenReader, OpenReader, ReadThread, Read, EndOfFile, processData,
        ReturnFromHandler, ThreadFrame, ObjectType
  <2> QED
    BY <1>3, <2>1, <2>2 DEF DaemonStep
<1> QED
  BY <1>1, <1>2, <1>3 DEF Next, DaemonStep

\* The reader of a daemon is started with the daemon, whatever is done.
LEMMA StartedNext == TypeOK /\ ReaderStarted /\ [Next]_vars => ReaderStarted'
<1> SUFFICES ASSUME TypeOK, ReaderStarted, [Next]_vars PROVE ReaderStarted'
  OBVIOUS
<1>0. ObjectType /\ AppType
  BY TypeParts
<1>1. CASE UNCHANGED vars
  BY <1>1 DEF vars, ReaderStarted
<1>2. CASE App
  <2>1. ASSUME NEW e \in Daemons, startDaemon(e)
        PROVE  ReaderStarted'
    BY <1>0, <2>1 DEF startDaemon, ObjectType, ReaderStarted
  <2>2. CASE stopDaemon
    BY <1>0, <2>2 DEF stopDaemon, Release, ObjectType, AppType, ReaderStarted
  <2>3. CASE \/ BeginOpenWriter \/ OpenWriter \/ messageParent \/ InCall
             \/ isDaemonRunning
    BY <2>3
    DEF BeginOpenWriter, OpenWriter, messageParent, InCall, EndWait, Write,
        InterruptWrite, BreakPipe, closePipe, isDaemonRunning, AppFrame,
        ReaderStarted
  <2> QED
    BY <1>2, <2>1, <2>2, <2>3 DEF App
<1>3. ASSUME NEW e \in Daemons, DaemonStep(e)
      PROVE  ReaderStarted'
  <2>1. CASE LaunchElsewhere(e) \/ MainThread(e) \/ Return(e) \/ Kill(e)
    BY <1>0, <2>1
    DEF MainThread, LaunchElsewhere, Construct, ConstructDerived, runLoop,
        Return, DestroyDerived, Destroy, Kill, Release, MoveTo, ObjectType,
        ReaderStarted
  <2>2. CASE BeginOpenReader(e) \/ OpenReader(e) \/ ReadThread(e)
    BY <1>0, <2>2
    DEF BeginOpenReader, OpenReader, ReadThread, Read, EndOfFile, processData,
        ReturnFromHandler, ThreadFrame, ObjectType, ReaderStarted
  <2> QED
    BY <1>3, <2>1, <2>2 DEF DaemonStep
<1> QED
  BY <1>1, <1>2, <1>3 DEF Next, DaemonStep

\* The order of the messages and the answers depend on nothing but the variables
\* of the application.
LEMMA SendKept ==
    ASSUME UNCHANGED <<appPc, sendVars>>, writer = "closed" => writer' = "closed",
           SendingInOrder, AnswerUnlessInterrupted
    PROVE  SendingInOrder' /\ AnswerUnlessInterrupted'
  BY DEF SendingInOrder, AnswerUnlessInterrupted

\* An answer is given in one step of the application and is true.
LEMMA AnswersNext ==
    ASSUME TypeOK, SendingInOrder, AnswerUnlessInterrupted, [Next]_vars
    PROVE  SendingInOrder' /\ AnswerUnlessInterrupted'
<1>0. AppType /\ SendType
  BY TypeParts
<1> USE SizeFacts
<1>1. CASE UNCHANGED vars
  BY <1>1, SendKept DEF vars
<1>2. ASSUME NEW d \in Daemons, DaemonStep(d)
      PROVE  SendingInOrder' /\ AnswerUnlessInterrupted'
  BY <1>2, AppKept, SendKept
<1>3. CASE App
  <2>1. CASE \/ BeginOpenWriter \/ OpenWriter \/ isDaemonRunning
             \/ \E d \in Daemons : startDaemon(d)
    BY <2>1, SendKept
    DEF BeginOpenWriter, OpenWriter, isDaemonRunning, startDaemon
  <2>2. CASE stopDaemon \/ BreakPipe \/ closePipe
    <3>1. /\ UNCHANGED sendVars /\ appPc' \notin {"wait", "write"}
          /\ writer = "closed" => writer' = "closed"
      BY <2>2 DEF stopDaemon, BreakPipe, closePipe
    <3> QED
      BY <3>1 DEF SendingInOrder, AnswerUnlessInterrupted
  <2>3. CASE messageParent
    <3>1. /\ message + 1 \in Messages /\ message' = message + 1
          /\ put[message'] = 0 /\ answer[message'] = "none"
      BY <1>0, <2>3 DEF messageParent, SendType, SendingInOrder
    <3>2. UNCHANGED <<put, cut, writer>>
      BY <2>3 DEF messageParent
    <3>3. CASE writer = "closed"
      <4>1. \E result \in {"true", "false"} :
              answer' = [answer EXCEPT ![message'] = result]
        BY <2>3, <3>3 DEF messageParent, Answer
      <4>2. appPc' = "idle"
        BY <2>3, <3>3 DEF messageParent, Answer
      <4>3. SendingInOrder'
        BY <1>0, <3>1, <3>2, <4>1, <4>2 DEF SendingInOrder, SendType
      <4>4. AnswerUnlessInterrupted'
        BY <1>0, <3>1, <3>2, <3>3, <4>1 DEF AnswerUnlessInterrupted, SendType
      <4> QED
        BY <4>3, <4>4
    <3>4. CASE writer # "closed"
      <4>1. UNCHANGED answer /\ appPc' \in {"wait", "write"}
        BY <2>3, <3>4 DEF messageParent
      <4>2. SendingInOrder'
        BY <1>0, <3>1, <3>2, <4>1 DEF SendingInOrder, SendType
      <4>3. AnswerUnlessInterrupted'
        BY <3>2, <4>1 DEF AnswerUnlessInterrupted
      <4> QED
        BY <4>2, <4>3
    <3> QED
      BY <3>3, <3>4
  <2>4. CASE EndWait
    <3>1. /\ message \in Messages /\ put[message] = 0
          /\ answer[message] = "none" /\ UNCHANGED <<put, cut, writer, message>>
      BY <2>4 DEF EndWait, SendingInOrder
    <3>2. CASE appPc' = "write" /\ UNCHANGED answer
      BY <2>4, <3>1, <3>2 DEF EndWait, SendingInOrder, AnswerUnlessInterrupted
    <3>3. CASE Answer(message, "false")
      <4>1. SendingInOrder'
        BY <1>0, <3>1, <3>3 DEF Answer, SendingInOrder, SendType
      <4>2. AnswerUnlessInterrupted'
        BY <1>0, <3>1, <3>3 DEF Answer, AnswerUnlessInterrupted, SendType
      <4> QED
        BY <4>1, <4>2
    <3> QED
      BY <2>4, <3>2, <3>3 DEF EndWait
  <2>5. CASE Write
    <3>1. PICK n \in Pieces :
            /\ put' = [put EXCEPT ![message] = @ + n]
            /\ IF n = Left THEN Answer(message, "true")
                           ELSE UNCHANGED <<answer, appPc>>
      BY <2>5 DEF Write
    <3>2. /\ appPc = "write" /\ UNCHANGED <<message, cut, writer>>
          /\ message \in Messages /\ answer[message] = "none"
          /\ put[message] \in Nat /\ put[message] < Size[message]
      BY <1>0, <2>5 DEF Write, SendingInOrder, SendType
    <3>3. Left \in Nat /\ Left > 0 /\ Size[message] = put[message] + Left
      BY <3>2 DEF Left
    <3>4. n \in Nat /\ n > 0 /\ n <= Left
      BY <3>1, <3>3 DEF Pieces
    <3>5. /\ put'[message] = put[message] + n
          /\ \A m \in Messages : m # message => put'[m] = put[m]
      BY <1>0, <3>1, <3>2 DEF SendType
    <3>6. CASE n = Left
      <4>1. /\ appPc' = "idle" /\ answer'[message] = "true"
            /\ \A m \in Messages : m # message => answer'[m] = answer[m]
            /\ put'[message] = Size[message]
        BY <1>0, <3>1, <3>2, <3>3, <3>5, <3>6 DEF Answer, SendType
      <4>2. SendingInOrder'
        BY <1>0, <3>2, <3>5, <4>1 DEF SendingInOrder, SendType
      <4>3. AnswerUnlessInterrupted'
        BY <3>2, <3>5, <4>1 DEF AnswerUnlessInterrupted
      <4> QED
        BY <4>2, <4>3
    <3>7. CASE n # Left
      <4>1. /\ UNCHANGED <<answer, appPc>>
            /\ put'[message] < Size[message]
        BY <3>1, <3>2, <3>3, <3>4, <3>5, <3>7
      <4>2. SendingInOrder'
        BY <1>0, <3>2, <3>4, <3>5, <4>1 DEF SendingInOrder, SendType
      <4>3. AnswerUnlessInterrupted'
        BY <3>2, <3>5, <4>1 DEF AnswerUnlessInterrupted
      <4> QED
        BY <4>2, <4>3
    <3> QED
      BY <3>6, <3>7
  <2>6. CASE InterruptWrite
    <3>1. /\ appPc = "write" /\ appPc' = "idle"
          /\ cut' = cut \union {message} /\ UNCHANGED <<message, put, writer>>
          /\ message \in Messages /\ put[message] \in Nat
      BY <1>0, <2>6 DEF InterruptWrite, Answer, SendingInOrder, SendType
    <3>2. /\ \A m \in Messages : m # message => answer'[m] = answer[m]
          /\ answer'[message] = "false" => put[message] = 0
      BY <1>0, <2>6, <3>1 DEF InterruptWrite, Answer, SendType
    <3>3. SendingInOrder'
      BY <1>0, <3>1, <3>2 DEF SendingInOrder, SendType
    <3>4. AnswerUnlessInterrupted'
      BY <3>1, <3>2 DEF AnswerUnlessInterrupted
    <3> QED
      BY <3>3, <3>4
  <2> QED
    BY <1>3, <2>1, <2>2, <2>3, <2>4, <2>5, <2>6 DEF App, InCall
<1> QED
  BY <1>1, <1>2, <1>3 DEF Next, DaemonStep

\* Every daemon is accounted for, and one that has ended has closed the pipe.
LEMMA AccountedNext ==
    ASSUME TypeOK, ReaderStarted, DaemonsAccounted, [Next]_vars
    PROVE  DaemonsAccounted'
<1>0. AppType /\ ObjectType
  BY TypeParts
<1>1. CASE UNCHANGED vars
  BY <1>1 DEF vars, DaemonsAccounted
<1>2. ASSUME NEW d \in Daemons, Release(d),
             UNCHANGED <<elsewhere, left>>, child' = child \/ child = d
      PROVE  DaemonsAccounted'
  BY <1>0, <1>2 DEF Release, DaemonsAccounted, ObjectType
<1>3. CASE App
  <2>1. ASSUME NEW d \in Daemons, startDaemon(d)
        PROVE  DaemonsAccounted'
    BY <1>0, <2>1, MessagesAssumption
    DEF startDaemon, DaemonsAccounted, ObjectType
  <2>2. CASE stopDaemon
    <3>1. CASE phase[child] = "ended"
      BY <2>2, <3>1 DEF stopDaemon, DaemonsAccounted
    <3>2. CASE phase[child] # "ended"
      BY <1>0, <1>2, <2>2, <3>2 DEF stopDaemon, AppType
    <3> QED
      BY <3>1, <3>2
  <2>3. CASE isDaemonRunning
    BY <2>3 DEF isDaemonRunning, AppFrame, DaemonsAccounted
  <2>4. CASE BeginOpenWriter \/ OpenWriter \/ messageParent \/ InCall
    <3>1. UNCHANGED <<child, elsewhere, left, phase, reader>>
      BY <2>4
      DEF BeginOpenWriter, OpenWriter, messageParent, InCall, EndWait, Write,
          InterruptWrite, BreakPipe, closePipe, AppFrame
    <3> QED
      BY <3>1 DEF DaemonsAccounted
  <2> QED
    BY <1>3, <2>1, <2>2, <2>3, <2>4 DEF App
<1>4. ASSUME NEW e \in Daemons, DaemonStep(e)
      PROVE  DaemonsAccounted'
  <2>1. CASE LaunchElsewhere(e)
    BY <1>0, <2>1 DEF LaunchElsewhere, MoveTo, DaemonsAccounted, ObjectType
  <2>2. CASE Destroy(e) \/ Kill(e)
    BY <1>2, <2>2 DEF Destroy, Kill
  <2>3. CASE \/ Construct(e) \/ ConstructDerived(e) \/ runLoop(e) \/ Return(e)
             \/ DestroyDerived(e)
    <3>1. /\ UNCHANGED <<child, elsewhere, left>>
          /\ {phase[e], phase'[e]} \intersect {"none", "ended"} = {}
          /\ \A d \in Daemons : d # e =>
               phase'[d] = phase[d] /\ reader'[d] = reader[d]
      BY <1>0, <2>3
      DEF Construct, ConstructDerived, runLoop, Return, DestroyDerived, MoveTo,
          ObjectType
    <3> QED
      BY <3>1 DEF DaemonsAccounted
  <2>4. CASE BeginOpenReader(e) \/ OpenReader(e) \/ ReadThread(e)
    <3>1. /\ UNCHANGED <<child, elsewhere, left, phase>>
          /\ \A d \in Daemons : reader[d] = "closed" => reader'[d] = "closed"
      BY <1>0, <2>4
      DEF BeginOpenReader, OpenReader, ReadThread, Read, EndOfFile, processData,
          ReturnFromHandler, ThreadFrame, ObjectType
    <3> QED
      BY <3>1 DEF DaemonsAccounted
  <2> QED
    BY <1>4, <2>1, <2>2, <2>3, <2>4 DEF DaemonStep, MainThread
<1> QED
  BY <1>1, <1>3, <1>4 DEF Next, DaemonStep

\* The application writes to a pipe that is open, and that its daemon has opened
\* if it is alone with its daemons.
LEMMA OpenNext ==
    ASSUME TypeOK, ReaderStarted, WritingIsOpen, DaemonsAccounted, OpenedByDaemon,
           [Next]_vars
    PROVE  WritingIsOpen' /\ OpenedByDaemon'
<1>0. AppType /\ ObjectType
  BY TypeParts
<1>1. \A d \in Daemons : reader[d] \notin NotBegun => reader'[d] \notin NotBegun
  BY NeverAgain
<1>2. ASSUME UNCHANGED <<appPc, child, writer, left>>, elsewhere \subseteq elsewhere'
      PROVE  WritingIsOpen' /\ OpenedByDaemon'
  BY <1>0, <1>1, <1>2 DEF WritingIsOpen, OpenedByDaemon, AppType
<1>3. CASE App
  <2>1. CASE OpenWriter
    <3>1. PICK d \in Daemons : reader[d] \in InUse
      BY <2>1 DEF OpenWriter, Readers
    <3>2. phase[d] \notin {"none", "ended"} /\ reader[d] \notin NotBegun
      BY <3>1 DEF ReaderStarted, DaemonsAccounted, InUse, NotBegun
    <3>3. elsewhere = {} /\ left = {} => d = child
      BY <3>2 DEF DaemonsAccounted
    <3>4. UNCHANGED <<appPc, child, elsewhere, left, reader>> /\ writer' = "open"
      BY <2>1 DEF OpenWriter, AppFrame
    <3> QED
      BY <3>2, <3>3, <3>4, MessagesAssumption DEF WritingIsOpen, OpenedByDaemon
  <2>2. CASE BeginOpenWriter
    BY <2>2 DEF BeginOpenWriter, WritingIsOpen, OpenedByDaemon
  <2>3. CASE BreakPipe \/ closePipe
    BY <2>3 DEF BreakPipe, closePipe, WritingIsOpen, OpenedByDaemon
  <2>4. CASE stopDaemon
    BY <2>4 DEF stopDaemon, WritingIsOpen, OpenedByDaemon
  <2>5. CASE isDaemonRunning
    BY <2>5 DEF isDaemonRunning, WritingIsOpen, OpenedByDaemon
  <2>6. CASE \E d \in Daemons : startDaemon(d)
    BY <2>6 DEF startDaemon, WritingIsOpen, OpenedByDaemon
  <2>7. CASE messageParent \/ EndWait \/ Write \/ InterruptWrite
    <3>1. UNCHANGED <<child, writer, elsewhere, left, reader>>
      BY <2>7 DEF messageParent, EndWait, Write, InterruptWrite, AppFrame
    <3>2. appPc # "close" /\ (appPc' = "write" => writer = "open")
      BY <2>7
      DEF messageParent, EndWait, Write, InterruptWrite, Answer, WritingIsOpen
    <3> QED
      BY <3>1, <3>2 DEF WritingIsOpen, OpenedByDaemon
  <2> QED
    BY <1>3, <2>1, <2>2, <2>3, <2>4, <2>5, <2>6, <2>7 DEF App, InCall
<1> QED
  BY <1>2, <1>3, AppKept DEF Next, DaemonStep, vars

-----------------------------------------------------------------------------
(***************************************************************************)
(* The bytes that the daemons take from the pipe.                          *)
(***************************************************************************)
\* No byte is put in a buffer and none is handled; one buffer may be emptied.
NothingTaken ==
    /\ UNCHANGED handled
    /\ \/ UNCHANGED taken
       \/ \E d \in Daemons : taken' = [taken EXCEPT ![d] = <<>>]
    /\ head' \in Nat /\ head <= head'

\* Only the reading threads take bytes and have them handled.
LEMMA StreamSteps ==
    ASSUME TypeOK, [Next]_vars
    PROVE  \/ NothingTaken
           \/ \E d \in Daemons : Read(d)
           \/ \E d \in Daemons : ReturnFromHandler(d)
<1>0. AppType /\ PipeType
  BY TypeParts
<1>1. Quiet => NothingTaken
  BY <1>0 DEF Quiet, QuietPipe, PipeType, NothingTaken
<1>2. ASSUME NEW d \in Daemons, Release(d), LoseIfUnused, UNCHANGED written
      PROVE  NothingTaken
  <2>1. head' \in Nat /\ head <= head'
    BY <1>0, <1>2, LoseQuietly DEF PipeType
  <2> QED
    BY <1>2, <2>1 DEF Release, NothingTaken
<1>3. CASE UNCHANGED vars
  BY <1>0, <1>3 DEF vars, PipeType, NothingTaken
<1>4. CASE Write
  BY <1>0, <1>4 DEF Write, PipeType, NothingTaken
<1>5. CASE stopDaemon
  BY <1>0, <1>2, <1>5, LoseQuietly
  DEF stopDaemon, AppType, PipeType, NothingTaken
<1>6. CASE App
  BY <1>1, <1>4, <1>5, <1>6, QuietSteps DEF App, InCall
<1>7. ASSUME NEW d \in Daemons, DaemonStep(d)
      PROVE  NothingTaken \/ Read(d) \/ ReturnFromHandler(d)
  <2>1. CASE ConstructDerived(d) \/ processData(d)
    BY <1>0, <2>1
    DEF ConstructDerived, processData, ThreadFrame, PipeType, NothingTaken
  <2>2. CASE Destroy(d) \/ Kill(d)
    BY <1>2, <2>2 DEF Destroy, Kill
  <2> QED
    BY <1>1, <1>7, <2>1, <2>2, QuietDaemonSteps
    DEF DaemonStep, MainThread, ReadThread
<1> QED
  BY <1>3, <1>6, <1>7 DEF Next, DaemonStep

\* Only write() writes.
LEMMA WrittenSteps == TypeOK /\ [Next]_vars => Write \/ written' = written
<1> SUFFICES ASSUME TypeOK, [Next]_vars PROVE Write \/ written' = written
  OBVIOUS
<1>1. CASE App
  BY <1>1, QuietSteps DEF App, InCall, Quiet, QuietPipe, stopDaemon
<1>2. ASSUME NEW d \in Daemons, DaemonStep(d) PROVE written' = written
  BY <1>2
  DEF DaemonStep, MainThread, ReadThread, LaunchElsewhere, Construct,
      ConstructDerived, runLoop, Return, DestroyDerived, Destroy, Kill,
      BeginOpenReader, OpenReader, Read, EndOfFile, processData,
      ReturnFromHandler, ThreadFrame
<1> QED
  BY <1>1, <1>2 DEF Next, DaemonStep, vars

\* What nobody takes stays where it is.
LEMMA StreamKept ==
    ASSUME TypeOK, StreamInv, NothingTaken
    PROVE  StreamInv'
<1>0. PipeType /\ ByteType
  BY TypeParts
<1>1. \A d \in Daemons : taken'[d] \in {taken[d], <<>>}
  BY <1>0 DEF NothingTaken, ByteType
<1>2. \A d \in Daemons : ToSet(taken'[d]) \subseteq ToSet(taken[d])
  BY <1>1, NothingInEmpty
<1>3. UNCHANGED handled
  BY DEF NothingTaken
<1>4. BuffersArePieces'
  <2>1. SUFFICES ASSUME NEW d \in Daemons, taken'[d] # <<>>
                 PROVE  \E first \in 1 .. head' : \E last \in first .. head' :
                          taken'[d] = Bytes(first, last)
    BY DEF BuffersArePieces, Bytes
  <2>2. taken'[d] = taken[d]
    BY <1>1, <2>1
  <2>3. PICK first \in 1 .. head : \E last \in first .. head :
               taken[d] = Bytes(first, last)
    BY <2>1, <2>2 DEF StreamInv, BuffersArePieces
  <2>4. first \in 1 .. head' /\ first .. head \subseteq first .. head'
    BY <1>0 DEF NothingTaken, PipeType
  <2> QED
    BY <2>2, <2>3, <2>4
<1>5. BytesApart'
  BY <1>2, <1>3 DEF StreamInv, BytesApart
<1>6. OldBytesFirst'
  BY <1>2, <1>3 DEF StreamInv, OldBytesFirst
<1> QED
  BY <1>4, <1>5, <1>6 DEF StreamInv

\* The bytes that read() takes are new to everybody.
LEMMA StreamRead ==
    ASSUME TypeOK, StreamInv, NEW d \in Daemons, Read(d)
    PROVE  StreamInv'
<1>0. PipeType /\ ByteType
  BY TypeParts
<1>1. PICK n \in Nat : ReadBytes(d, n)
  BY <1>0, ReadSome
<1>2. head \in Nat /\ n > 0 /\ head' = head + n
  BY <1>0, <1>1 DEF ReadBytes, PipeType
<1>3. UNCHANGED handled
  BY DEF Read
<1>4. /\ taken'[d] = Bytes(head + 1, head + n)
      /\ \A e \in Daemons : e # d => taken'[e] = taken[e]
  BY <1>0, <1>1 DEF ReadBytes, ByteType
<1>5. ToSet(taken'[d]) = head + 1 .. head + n
  BY <1>2, <1>4, BytesInPiece
<1>6. \A e \in Daemons : /\ ToSet(taken[e]) \subseteq 1 .. head
                         /\ ToSet(handled[e]) \subseteq 1 .. head
  BY <1>0, <1>2, BytesType DEF ByteType
<1>7. \A b \in 1 .. head : \A c \in head + 1 .. head + n : b < c
  BY <1>2
<1>8. (1 .. head) \intersect (head + 1 .. head + n) = {}
  BY <1>2
<1>9. BuffersArePieces'
  <2>1. SUFFICES ASSUME NEW e \in Daemons, taken'[e] # <<>>
                 PROVE  \E first \in 1 .. head' : \E last \in first .. head' :
                          taken'[e] = Bytes(first, last)
    BY DEF BuffersArePieces, Bytes
  <2>2. CASE e = d
    <3>1. head + 1 \in 1 .. head' /\ head + n \in head + 1 .. head'
      BY <1>2
    <3> QED
      BY <1>4, <2>2, <3>1
  <2>3. CASE e # d
    <3>1. PICK first \in 1 .. head : \E last \in first .. head :
                 taken[e] = Bytes(first, last)
      BY <1>4, <2>1, <2>3 DEF StreamInv, BuffersArePieces
    <3>2. first \in 1 .. head' /\ first .. head \subseteq first .. head'
      BY <1>2
    <3> QED
      BY <1>4, <2>3, <3>1, <3>2
  <2> QED
    BY <2>2, <2>3
<1>10. BytesApart'
  <2>1. ASSUME NEW e \in Daemons, NEW f \in Daemons
        PROVE  ToSet(handled[e]) \intersect ToSet(taken'[f]) = {}
    BY <1>4, <1>5, <1>6, <1>8 DEF StreamInv, BytesApart
  <2>2. ASSUME NEW e \in Daemons, NEW f \in Daemons, e # f
        PROVE  ToSet(taken'[e]) \intersect ToSet(taken'[f]) = {}
    BY <1>4, <1>5, <1>6, <1>8, <2>2 DEF StreamInv, BytesApart
  <2> QED
    BY <1>3, <2>1, <2>2 DEF BytesApart
<1>11. OldBytesFirst'
  BY <1>3, <1>4, <1>5, <1>6, <1>7 DEF StreamInv, OldBytesFirst
<1> QED
  BY <1>9, <1>10, <1>11 DEF StreamInv

\* The bytes that are handled were in the buffer, and the buffer is free.
LEMMA StreamReturn ==
    ASSUME TypeOK, StreamInv, NEW d \in Daemons, ReturnFromHandler(d)
    PROVE  StreamInv'
<1>0. PipeType /\ ByteType
  BY TypeParts
<1>1. taken' = [taken EXCEPT ![d] = <<>>] /\ UNCHANGED head
  BY DEF ReturnFromHandler
<1>2. CASE call[d] # "derived"
  <2>1. UNCHANGED handled
    BY <1>0, <1>2 DEF ReturnFromHandler, ByteType
  <2>2. head' \in Nat /\ head <= head'
    BY <1>0, <1>1 DEF PipeType
  <2>3. NothingTaken
    BY <1>1, <2>1, <2>2 DEF NothingTaken
  <2> QED
    BY <2>3, StreamKept
<1>3. CASE call[d] = "derived"
  <2>1. /\ handled'[d] = handled[d] \o taken[d]
        /\ \A e \in Daemons : e # d => handled'[e] = handled[e]
    BY <1>0, <1>3 DEF ReturnFromHandler, ByteType
  <2>2. ToSet(handled'[d]) = ToSet(handled[d]) \union ToSet(taken[d])
    BY <1>0, <2>1, ToSetOfConcat DEF ByteType
  <2>3. /\ ToSet(taken'[d]) = {}
        /\ \A e \in Daemons : e # d => taken'[e] = taken[e]
    BY <1>0, <1>1, NothingInEmpty DEF ByteType
  <2>4. BuffersArePieces'
    <3>1. taken'[d] = <<>>
      BY <1>0, <1>1 DEF ByteType
    <3>2. SUFFICES ASSUME NEW e \in Daemons, taken'[e] # <<>>
                   PROVE  \E first \in 1 .. head : \E last \in first .. head :
                            taken'[e] = Bytes(first, last)
      BY <1>1 DEF BuffersArePieces, Bytes
    <3>3. taken'[e] = taken[e] /\ taken[e] # <<>>
      BY <2>3, <3>1, <3>2
    <3> QED
      BY <3>3 DEF StreamInv, BuffersArePieces
  <2>5. BytesApart'
    BY <2>1, <2>2, <2>3 DEF StreamInv, BytesApart
  <2>6. OldBytesFirst'
    BY <2>1, <2>2, <2>3 DEF StreamInv, OldBytesFirst
  <2> QED
    BY <2>4, <2>5, <2>6 DEF StreamInv
<1> QED
  BY <1>2, <1>3

-----------------------------------------------------------------------------
(***************************************************************************)
(* A daemon that is alone with the pipe.                                   *)
(***************************************************************************)
\* The handler is called for what is in the buffer.
LEMMA CallNext == TypeOK /\ CallHasBytes /\ [Next]_vars => CallHasBytes'
<1> SUFFICES ASSUME TypeOK, CallHasBytes, [Next]_vars PROVE CallHasBytes'
  OBVIOUS
<1>0. AppType /\ PipeType /\ ObjectType /\ ByteType
  BY TypeParts
<1>1. ASSUME UNCHANGED <<taken, call>> PROVE CallHasBytes'
  BY <1>1 DEF CallHasBytes
<1>2. ASSUME NEW d \in Daemons, Release(d) PROVE CallHasBytes'
  BY <1>0, <1>2 DEF Release, CallHasBytes, ObjectType, ByteType
<1>3. CASE App
  <2>1. CASE stopDaemon
    BY <1>0, <1>1, <1>2, <2>1 DEF stopDaemon, AppType
  <2> QED
    BY <1>1, <1>3, <2>1, QuietSteps DEF App, InCall, Quiet, Write
<1>4. ASSUME NEW d \in Daemons, DaemonStep(d) PROVE CallHasBytes'
  <2>1. CASE ConstructDerived(d)
    BY <1>1, <2>1 DEF ConstructDerived
  <2>2. CASE Destroy(d) \/ Kill(d)
    BY <1>2, <2>2 DEF Destroy, Kill
  <2>3. CASE processData(d)
    BY <1>0, <2>3 DEF processData, CallHasBytes, ObjectType
  <2>4. CASE ReturnFromHandler(d)
    BY <1>0, <2>4 DEF ReturnFromHandler, CallHasBytes, ObjectType, ByteType
  <2>5. CASE Read(d)
    <3>1. PICK n \in Nat : ReadBytes(d, n)
      BY <1>0, <2>5, ReadSome
    <3>2. Bytes(head + 1, head + n) # <<>>
      BY <1>0, <3>1, BytesInPiece DEF ReadBytes, PipeType
    <3> QED
      BY <1>0, <2>5, <3>1, <3>2 DEF Read, ReadBytes, CallHasBytes, ByteType
  <2> QED
    BY <1>1, <1>4, <2>1, <2>2, <2>3, <2>4, <2>5, QuietDaemonSteps
    DEF DaemonStep, MainThread, ReadThread, Quiet
<1> QED
  BY <1>1, <1>3, <1>4 DEF Next, DaemonStep, vars

\* What happens to a daemon that, after a step, is alone with a pipe that it
\* has open and has an object of its class.
LEMMA AloneSteps ==
    ASSUME TypeOK, ReaderStarted, [Next]_vars, NEW d \in Daemons,
           phase'[d] \in DerivedTable, reader'[d] \in InUse, Alone(d)'
    PROVE  /\ Alone(d)
           /\ \/ ConstructDerived(d) \/ BeginOpenReader(d)
              \/ /\ phase[d] \in DerivedTable /\ reader[d] \in InUse
                 /\ \/ /\ head' = head /\ readyAt'[d] = readyAt[d]
                       /\ taken'[d] = taken[d] /\ handled'[d] = handled[d]
                       /\ call'[d] = call[d]
                    \/ Read(d) \/ processData(d) \/ ReturnFromHandler(d)
<1>0. AppType /\ ObjectType /\ ByteType
  BY TypeParts
<1> DEFINE Before == phase[d] \in DerivedTable /\ reader[d] \in InUse
           Same == /\ head' = head /\ readyAt'[d] = readyAt[d]
                   /\ taken'[d] = taken[d] /\ handled'[d] = handled[d]
                   /\ call'[d] = call[d]
<1>1. Alone(d)
  BY NeverAgain DEF Alone
<1>2. ASSUME UNCHANGED <<taken, handled, call, readyAt>>,
             UNCHANGED head \/ LoseIfUnused
      PROVE  Same
  BY <1>2, NothingLostInUse
<1>3. ASSUME NEW e \in Daemons, Release(e), LoseIfUnused
      PROVE  Before /\ Same
  <2>1. e # d
    BY <1>0, <1>3 DEF Release, ObjectType, InUse
  <2> QED
    BY <1>0, <1>3, <2>1, NothingLostInUse DEF Release, ObjectType, ByteType
<1>4. ASSUME App
      PROVE  Before /\ Same
  <2>1. CASE stopDaemon
    BY <1>0, <1>2, <1>3, <2>1 DEF stopDaemon, AppType
  <2>2. CASE \E e \in Daemons : startDaemon(e)
    BY <1>0, <1>2, <2>2 DEF startDaemon, ObjectType, DerivedTable
  <2>3. CASE \/ BeginOpenWriter \/ OpenWriter \/ messageParent \/ InCall
             \/ isDaemonRunning
    BY <1>2, <2>3
    DEF BeginOpenWriter, OpenWriter, messageParent, InCall, EndWait, Write,
        InterruptWrite, BreakPipe, closePipe, isDaemonRunning, AppFrame
  <2> QED
    BY <1>4, <2>1, <2>2, <2>3 DEF App
<1>5. ASSUME NEW e \in Daemons, DaemonStep(e)
      PROVE  \/ ConstructDerived(d) \/ BeginOpenReader(d)
             \/ Before /\ (Same \/ Read(d) \/ processData(d) \/ ReturnFromHandler(d))
  <2>1. CASE \/ LaunchElsewhere(e) \/ Construct(e) \/ runLoop(e) \/ Return(e)
             \/ DestroyDerived(e)
    BY <1>0, <1>2, <2>1
    DEF LaunchElsewhere, Construct, runLoop, Return, DestroyDerived, MoveTo,
        ObjectType, DerivedTable
  <2>2. CASE Destroy(e) \/ Kill(e)
    BY <1>3, <2>2 DEF Destroy, Kill
  <2>3. CASE ConstructDerived(e)
    <3>1. CASE e = d
      BY <2>3, <3>1
    <3>2. CASE e # d
      BY <1>0, <2>3, <3>2
      DEF ConstructDerived, MoveTo, ObjectType, ByteType, DerivedTable
    <3> QED
      BY <3>1, <3>2
  <2>4. CASE BeginOpenReader(e) \/ OpenReader(e) \/ EndOfFile(e)
    BY <1>0, <1>2, <2>4
    DEF BeginOpenReader, OpenReader, EndOfFile, ThreadFrame, ObjectType, InUse
  <2>5. CASE Read(e)
    <3>1. e = d
      BY <1>1, <2>5 DEF Read, Alone, NotBegun
    <3> QED
      BY <2>5, <3>1 DEF Read, ThreadFrame
  <2>6. CASE processData(e) \/ ReturnFromHandler(e)
    BY <1>0, <2>6
    DEF processData, ReturnFromHandler, ThreadFrame, ObjectType, ByteType
  <2> QED
    BY <1>5, <2>1, <2>2, <2>3, <2>4, <2>5, <2>6
    DEF DaemonStep, MainThread, ReadThread
<1>6. CASE UNCHANGED vars
  BY <1>1, <1>2, <1>6 DEF vars
<1> QED
  BY <1>1, <1>4, <1>5, <1>6 DEF Next, DaemonStep

\* Whoever writes writes to a reader.
LEMMA WrittenNext ==
    ASSUME TypeOK, ReaderStarted, WrittenToReader, [Next]_vars
    PROVE  WrittenToReader'
<1>0. \A d \in Daemons : reader[d] \notin NotBegun => reader'[d] \notin NotBegun
  BY NeverAgain
<1>1. CASE written' = written
  BY <1>0, <1>1 DEF WrittenToReader
<1>2. CASE Write
  BY <1>0, <1>2 DEF Write, Readers, InUse, NotBegun, WrittenToReader
<1> QED
  BY <1>1, <1>2, WrittenSteps

\* Such a daemon has handled, or has in its buffer, all that has been read.
LEMMA LoneNext ==
    ASSUME TypeOK, DaemonInv, [Next]_vars
    PROVE  BaseCallIsEarly' /\ NothingLost'
<1>0. PipeType /\ ByteType /\ ObjectType
  BY TypeParts
<1>1. SUFFICES ASSUME NEW d \in Daemons,
                      phase'[d] \in DerivedTable, reader'[d] \in InUse, Alone(d)'
               PROVE  /\ call'[d] = "base" => head' = readyAt'[d]
                      /\ readyAt'[d] + 1 .. head'
                           \subseteq ToSet(handled'[d] \o taken'[d])
  BY DEF BaseCallIsEarly, NothingLost, DerivedTable, InUse
<1>2. Alone(d)
  BY <1>1, AloneSteps DEF DaemonInv
<1>3. CASE ConstructDerived(d)
  <2>1. readyAt'[d] = head /\ head' = head /\ head \in Nat
    BY <1>0, <1>3 DEF ConstructDerived, PipeType, ByteType
  <2>2. readyAt'[d] + 1 .. head' = {}
    BY <2>1
  <2> QED
    BY <2>1, <2>2
<1>4. CASE BeginOpenReader(d)
  <2>1. \A e \in Daemons : reader[e] \in NotBegun
    BY <1>2, <1>4 DEF BeginOpenReader, Alone, NotBegun
  <2>2. written = 0
    BY <2>1 DEF DaemonInv, WrittenToReader
  <2>3. readyAt[d] = 0 /\ head = 0 /\ UNCHANGED <<head, readyAt>>
    BY <1>0, <1>4, <2>2 DEF BeginOpenReader, ThreadFrame, PipeType, ByteType
  <2>4. readyAt'[d] + 1 .. head' = {}
    BY <2>3
  <2> QED
    BY <2>3, <2>4
<1>5. CASE phase[d] \in DerivedTable /\ reader[d] \in InUse
  <2>1. /\ call[d] = "base" => head = readyAt[d]
        /\ readyAt[d] + 1 .. head \subseteq ToSet(handled[d] \o taken[d])
    BY <1>2, <1>5 DEF DaemonInv, BaseCallIsEarly, NothingLost
  <2>2. CASE /\ head' = head /\ readyAt'[d] = readyAt[d]
             /\ taken'[d] = taken[d] /\ handled'[d] = handled[d]
             /\ call'[d] = call[d]
    BY <2>1, <2>2
  <2>3. CASE Read(d)
    <3>1. PICK n \in Nat : ReadBytes(d, n)
      BY <1>0, <2>3, ReadSome
    <3>2. taken[d] = <<>> /\ call[d] = "none" /\ UNCHANGED <<call, handled, readyAt>>
      BY <1>0, <2>3
      DEF Read, ThreadFrame, DaemonInv, CallHasBytes, ObjectType
    <3>3. head \in Nat /\ head' = head + n /\ n > 0 /\ readyAt[d] \in 0 .. head
      BY <1>0, <3>1 DEF ReadBytes, PipeType, ByteType
    <3>4. taken'[d] = Bytes(head + 1, head + n)
      BY <1>0, <3>1 DEF ReadBytes, ByteType
    <3>5. /\ ToSet(taken'[d]) = head + 1 .. head + n
          /\ taken'[d] \in Seq(1 .. head')
          /\ handled'[d] \in Seq(1 .. head')
      <4>1. /\ Bytes(head + 1, head + n) \in Seq(head + 1 .. head + n)
            /\ ToSet(Bytes(head + 1, head + n)) = head + 1 .. head + n
        <5>1. head + 1 \in Nat /\ head + n \in Nat /\ head + 1 <= head + n
          BY <3>3
        <5> QED
          BY <5>1, BytesInPiece
      <4>2. head + 1 .. head + n \subseteq 1 .. head'
        BY <3>3
      <4>3. handled[d] \in Seq(1 .. head) /\ head <= head' /\ head' \in Nat
        BY <1>0, <3>3 DEF ByteType
      <4> QED
        BY <3>2, <3>3, <3>4, <4>1, <4>2, <4>3, SeqMonotonic, OlderBytes
    <3>6. ToSet(handled'[d] \o taken'[d]) =
            ToSet(handled[d]) \union (head + 1 .. head + n)
      <4>1. ToSet(handled'[d] \o taken'[d]) =
              ToSet(handled'[d]) \union ToSet(taken'[d])
        <5>1. \A h, t \in Seq(1 .. head') :
                ToSet(h \o t) = ToSet(h) \union ToSet(t)
          BY ToSetOfConcat
        <5> QED
          BY <3>5, <5>1, Zenon
      <4> QED
        BY <3>2, <3>5, <4>1
    <3>7. readyAt[d] + 1 .. head \subseteq ToSet(handled[d])
      <4>1. handled[d] \o <<>> = handled[d]
        BY <1>0, ConcatEmptySeq DEF ByteType
      <4> QED
        BY <2>1, <3>2, <4>1
    <3>8. readyAt[d] + 1 .. head + n =
            (readyAt[d] + 1 .. head) \union (head + 1 .. head + n)
      BY <3>3
    <3> QED
      BY <3>2, <3>3, <3>6, <3>7, <3>8
  <2>4. CASE processData(d)
    <3>1. /\ UNCHANGED <<head, taken, handled, readyAt>>
          /\ call'[d] = "derived"
      BY <1>0, <1>5, <2>4 DEF processData, ThreadFrame, ObjectType
    <3> QED
      BY <2>1, <3>1
  <2>5. CASE ReturnFromHandler(d)
    <3>1. /\ UNCHANGED <<head, readyAt>>
          /\ call'[d] = "none" /\ taken'[d] = <<>>
          /\ handled'[d] = IF call[d] = "derived" THEN handled[d] \o taken[d]
                                                  ELSE handled[d]
      BY <1>0, <2>5 DEF ReturnFromHandler, ThreadFrame, ObjectType, ByteType
    <3>2. CASE call[d] = "derived"
      <4>1. (handled[d] \o taken[d]) \o <<>> = handled[d] \o taken[d]
        BY <1>0, ConcatProperties, ConcatEmptySeq DEF ByteType
      <4> QED
        BY <2>1, <3>1, <3>2, <4>1
    <3>3. CASE call[d] = "base"
      <4>1. head \in Nat /\ readyAt[d] = head
        BY <1>0, <2>1, <3>3 DEF PipeType
      <4>2. readyAt[d] + 1 .. head = {}
        BY <4>1
      <4> QED
        BY <3>1, <4>2
    <3>4. call[d] \in {"base", "derived"}
      BY <1>0, <2>5 DEF ReturnFromHandler, ObjectType
    <3> QED
      BY <3>2, <3>3, <3>4
  <2> QED
    BY <1>1, <1>3, <1>4, <2>2, <2>3, <2>4, <2>5, AloneSteps DEF DaemonInv
<1> QED
  BY <1>1, <1>3, <1>4, <1>5, AloneSteps DEF DaemonInv

-----------------------------------------------------------------------------
(***************************************************************************)
(* The theorems.                                                           *)
(***************************************************************************)
\* The invariant holds before the application has done anything.
LEMMA MessagesInit == Init => MessagesInv
<1> SUFFICES ASSUME Init PROVE MessagesInv
  OBVIOUS
<1>1. TypeOK
  BY InitType
<1>2. SendInv
  <2>1. SendingInOrder
    BY SizeFacts DEF Init, SendingInOrder
  <2> QED
    BY <2>1
    DEF Init, SendInv, WritingIsOpen, AnswerUnlessInterrupted, DaemonsAccounted,
        OpenedByDaemon
<1>3. DaemonInv
  BY DEF Init, DaemonInv, ReaderStarted, WrittenToReader, CallHasBytes,
         BaseCallIsEarly, NothingLost, DerivedTable
<1>4. StreamInv
  BY NothingInEmpty
  DEF Init, StreamInv, BuffersArePieces, BytesApart, OldBytesFirst
<1> QED
  BY <1>1, <1>2, <1>3, <1>4 DEF MessagesInv

\* Every step keeps it.
LEMMA MessagesNext == MessagesInv /\ [Next]_vars => MessagesInv'
<1> SUFFICES ASSUME MessagesInv, [Next]_vars PROVE MessagesInv'
  OBVIOUS
<1>1. TypeOK'
  BY NextType DEF MessagesInv, SendInv
<1>2. SendInv'
  BY AnswersNext, AccountedNext, OpenNext DEF MessagesInv, SendInv, DaemonInv
<1>3. DaemonInv'
  BY StartedNext, WrittenNext, CallNext, LoneNext DEF MessagesInv, DaemonInv
<1>4. StreamInv'
  BY StreamSteps, StreamKept, StreamRead, StreamReturn DEF MessagesInv
<1> QED
  BY <1>1, <1>2, <1>3, <1>4 DEF MessagesInv

\* The invariant holds in every behaviour of the application and its daemons.
THEOREM MessagesCorrect == Spec => []MessagesInv
<1>1. Init => MessagesInv
  BY MessagesInit
<1>2. MessagesInv /\ [Next]_vars => MessagesInv'
  BY MessagesNext
<1> QED
  BY <1>1, <1>2, PTL DEF Spec

\* The types hold in every behaviour.
THEOREM MessagesTypeCorrect == Spec => []TypeOK
<1>1. MessagesInv => TypeOK
  BY DEF MessagesInv
<1> QED
  BY <1>1, MessagesCorrect, PTL

\* Once the constructor of the daemon class has begun, no byte that its reading
\* thread takes is lost before the class's handler has it.
THEOREM NothingLostCorrect == Spec => []NothingLost
<1>1. MessagesInv => NothingLost
  BY DEF MessagesInv, DaemonInv
<1> QED
  BY <1>1, MessagesCorrect, PTL

\* messageParent() says false only when it has written nothing, and true only
\* when it has written everything, but for the two cases that the property names.
THEOREM AnswerCorrect == Spec => []AnswerUnlessInterrupted
<1>1. MessagesInv => AnswerUnlessInterrupted
  BY DEF MessagesInv, SendInv
<1> QED
  BY <1>1, MessagesCorrect, PTL

\* SIGPIPE ends an application that is alone with its daemons only after the
\* daemon it has started has closed the pipe, or could not open it; or, if it had
\* noticed the end of an earlier one, while no daemon or only a new one that has
\* not got to open() is there.
THEOREM KilledCorrect == Spec => KilledOnlyWhenAlone
<1> DEFINE Killed ==
             appPc # "killed" /\ appPc' = "killed" =>
               \/ child # NoDaemon /\ reader[child] = "closed"
               \/ left # {} /\ (child = NoDaemon \/ reader[child] \in NotBegun)
               \/ elsewhere # {}
<1>1. MessagesInv /\ [Next]_vars => [Killed]_vars
  <2> SUFFICES ASSUME MessagesInv, [Next]_vars,
                      appPc # "killed", appPc' = "killed"
               PROVE  Killed
    OBVIOUS
  <2>0. AppType /\ ObjectType
    BY TypeParts DEF MessagesInv
  <2>1. BreakPipe
    <3>1. App
      BY AppKept DEF Next, DaemonStep, vars
    <3> QED
      BY <3>1
      DEF App, InCall, startDaemon, BeginOpenWriter, OpenWriter, messageParent,
          isDaemonRunning, stopDaemon, EndWait, Write, InterruptWrite, closePipe,
          Answer
  <2>2. writer = "open" /\ appPc # "close" /\ Readers = {}
    BY <2>1 DEF BreakPipe, MessagesInv, SendInv, WritingIsOpen
  <2>3. child # NoDaemon => reader[child] \in NotBegun \union {"closed"}
    BY <2>0, <2>2 DEF Readers, AppType, ObjectType, InUse, NotBegun
  <2> QED
    BY <2>2, <2>3 DEF MessagesInv, SendInv, OpenedByDaemon
<1> QED
  BY <1>1, MessagesCorrect, PTL DEF Spec, KilledOnlyWhenAlone

(***************************************************************************)
(* The pipe and its readers implement the channel: write() is Send, the    *)
(* return of the daemon class's handler is Deliver, and every other step,  *)
(* the loss of bytes among them, leaves the channel as it is.              *)
(***************************************************************************)
\* Every step is a Send, a Deliver or a stutter of the abstract channel.
LEMMA StepOfChannel ==
    ASSUME MessagesInv, [Next]_vars
    PROVE  [Channel!Next]_Channel!vars
<1>0. PipeType /\ ByteType /\ SendType /\ AppType
  BY TypeParts DEF MessagesInv
<1>1. CASE UNCHANGED <<written, handled>>
  BY <1>1 DEF Channel!vars
<1>2. CASE Write
  <2>1. PICK n \in Pieces : written' = written + n
    BY <1>2 DEF Write
  <2>2. message \in Messages /\ put[message] \in Nat /\ put[message] < Size[message]
    BY <1>0, <1>2 DEF Write, MessagesInv, SendInv, SendingInOrder, SendType
  <2>3. Left \in Nat /\ Left > 0
    BY <2>2, SizeFacts DEF Left
  <2>4. n \in Nat /\ n > 0
    BY <2>1, <2>3 DEF Pieces
  <2>5. UNCHANGED handled
    BY <1>2 DEF Write
  <2>6. Channel!Send
    BY <1>0, <2>1, <2>4, <2>5 DEF Channel!Send, PipeType
  <2> QED
    BY <2>6 DEF Channel!Next
<1>3. ASSUME NEW d \in Daemons, ReturnFromHandler(d), call[d] = "derived"
      PROVE  Channel!Deliver(d)
  <2>1. taken[d] # <<>>
    BY <1>3 DEF MessagesInv, DaemonInv, CallHasBytes
  <2>2. PICK first \in 1 .. head : \E last \in first .. head :
               taken[d] = Bytes(first, last)
    BY <2>1 DEF MessagesInv, StreamInv, BuffersArePieces
  <2>3. PICK last \in first .. head : taken[d] = Bytes(first, last)
    BY <2>2
  <2>4. first \in 1 .. written /\ last \in first .. written
    BY <1>0 DEF PipeType
  <2>5. ToSet(taken[d]) = first .. last /\ first \in ToSet(taken[d])
    BY <1>0, <2>3, BytesInPiece DEF PipeType
  <2>6. \A s \in Daemons : ToSet(handled[s]) \intersect (first .. last) = {}
    BY <2>5 DEF MessagesInv, StreamInv, BytesApart
  <2>7. \A b \in ToSet(handled[d]) : b < first
    BY <2>5 DEF MessagesInv, StreamInv, OldBytesFirst
  <2>8. /\ handled' = [handled EXCEPT ![d] = @ \o Bytes(first, last)]
        /\ UNCHANGED written
    BY <1>3, <2>3 DEF ReturnFromHandler, ThreadFrame
  <2> QED
    BY <2>4, <2>6, <2>7, <2>8 DEF Channel!Deliver, Bytes, ToSet, Channel!ToSet
<1>4. ASSUME NEW d \in Daemons, ReturnFromHandler(d)
      PROVE  Channel!Deliver(d) \/ UNCHANGED <<written, handled>>
  <2>1. CASE call[d] # "derived"
    BY <1>0, <1>4, <2>1 DEF ReturnFromHandler, ThreadFrame, ByteType
  <2> QED
    BY <1>3, <1>4, <2>1
<1>5. CASE App
  <2>1. Write \/ UNCHANGED <<written, handled>>
    BY <1>0, <1>5, QuietSteps
    DEF App, InCall, Quiet, QuietPipe, stopDaemon, Release
  <2> QED
    BY <1>1, <1>2, <2>1
<1>6. ASSUME NEW d \in Daemons, DaemonStep(d)
      PROVE  ReturnFromHandler(d) \/ UNCHANGED <<written, handled>>
  BY <1>6, QuietDaemonSteps
  DEF DaemonStep, MainThread, ReadThread, Quiet, QuietPipe, ConstructDerived,
      Destroy, Kill, Release, Read, processData, ThreadFrame
<1> QED
  BY <1>1, <1>4, <1>5, <1>6 DEF Next, DaemonStep, Channel!Next, vars

\* However many daemons read from the pipe, each byte is handled at most once,
\* and in order: the detailed system implements MessageChannel.
THEOREM ChannelCorrect == Spec => ImplementsChannel
<1>1. Init => Channel!Init
  BY DEF Init, Channel!Init
<1>2. MessagesInv /\ [Next]_vars => [Channel!Next]_Channel!vars
  BY StepOfChannel
<1> QED
  BY <1>1, <1>2, MessagesCorrect, PTL DEF Spec, ImplementsChannel, Channel!Spec
=============================================================================
