-------------------------- MODULE PipeReaderProofs --------------------------
(***************************************************************************)
(* Theorems about PipeReader, for every capacity of the pipe and of the    *)
(* buffer, every number of writers and messages, and every choice of       *)
(* faults and listeners.                                                   *)
(***************************************************************************)
EXTENDS PipeReader, TLAPS

(***************************************************************************)
(* The inductive invariant: what is known about the thread that            *)
(* initializes, the thread that reads, and the owner.                      *)
(***************************************************************************)
\* The flags do not run ahead of the initialization thread.
InitFlags ==
    /\ initThread # "none" \/ initFinished => initStarted
    /\ initFinished => initThread \notin InAction

\* Only the initialization thread changes the state while it opens the file.
OpeningAlone == initThread \in {"opening", "opened"} => currentState = "opening"

\* The reading thread exists only once the initialization is over.
ReaderAfterInit == initThread \in InAction \union {"none"} => readPc = "none"

\* The reading thread has the mutex where it uses the file or the listener.
MutexHeld == readerMutex = "reader" <=> readPc \in UsingFile

\* There is an open file as long as it has.
FileInUse == readPc \in UsingFile => inputFile # 0

ClosedHasNoFile == currentState \in {"closed", "failed"} => inputFile = 0

\* Whoever has cancelled the initialization knows that it is over.
OwnerInOrder ==
    /\ ownerPc \in {"cancel", "join"} => task # "none"
    /\ ownerPc = "stop" => /\ task \in {"close", "destroyReader", "destroyInput"}
                           /\ initThread \notin InAction

\* A reader that was closed is never initialized again.
ClosedForGood == closed => currentState # "initializing"

ThreadInv ==
    /\ InitFlags
    /\ OpeningAlone
    /\ ReaderAfterInit
    /\ MutexHeld
    /\ FileInUse
    /\ ClosedHasNoFile
    /\ OwnerInOrder
    /\ ClosedForGood
    /\ QuietAfterClose

ReaderInv == TypeOK /\ ThreadInv

\* TypeOK is the types of the initialization, of the pipe's contents and of
\* the rest.
PipeType ==
    /\ peers \in 0 .. MaxPeers
    /\ written \in 0 .. MaxMessages
    /\ buffered \in 0 .. Capacity

PlaceType ==
    /\ inputFile \in {0, PipeFD}
    /\ currentState \in State
    /\ readerMutex \in {"free", "reader"}
    /\ readPc \in ReadPlaces
    /\ ownerPc \in {"idle", "cancel", "join", "stop", "destroyed"}
    /\ task \in {"none", "close", "destroyReader", "destroyInput",
                 "destroyInit"}
    /\ process \in {"alive", "crashed"}

FlagType == listener \in BOOLEAN /\ writerOpen \in BOOLEAN /\ closed \in BOOLEAN

\* TypeOK in named parts, which a step's proof takes one at a time.
LEMMA TypeParts ==
    TypeOK <=> InitTypeOK /\ PipeType /\ PlaceType /\ FlagType
  BY DEF TypeOK, PipeType, PlaceType, FlagType

\* The same after a step.
LEMMA TypePartsNext ==
    TypeOK' <=> InitTypeOK' /\ PipeType' /\ PlaceType' /\ FlagType'
  BY DEF TypeOK, PipeType, PlaceType, FlagType

-----------------------------------------------------------------------------
USE DEF initVars, fileVars, ownerVars, peerVars, InAction, Running,
        InListener, UsingFile

\* A new object is in order.
LEMMA ReaderInit == Init => ReaderInv
<1> SUFFICES ASSUME Init PROVE ReaderInv
  OBVIOUS
<1>1. TypeOK
  <2>1. InitTypeOK
    BY DEF Init, InitOfThread, InitTypeOK, ThreadPlaces
  <2>2. PipeType
    BY ReaderAssumption DEF Init, PipeType
  <2>3. PlaceType
    BY DEF Init, PlaceType, State, ReadPlaces
  <2>4. FlagType
    BY DEF Init, FlagType
  <2> QED
    BY <2>1, <2>2, <2>3, <2>4, TypeParts
<1>2. ThreadInv
  BY DEF Init, InitOfThread, ThreadInv, InitFlags, OpeningAlone,
         ReaderAfterInit, MutexHeld, FileInUse, ClosedHasNoFile, OwnerInOrder,
         ClosedForGood, QuietAfterClose
<1> QED
  BY <1>1, <1>2 DEF ReaderInv

(***************************************************************************)
(* Types.                                                                  *)
(***************************************************************************)
\* The steps of the initialization thread keep the types.
LEMMA InitThreadType == ReaderInv /\ InitThread => TypeOK'
<1> SUFFICES ASSUME ReaderInv, InitThread PROVE TypeOK'
  OBVIOUS
<1> USE DEF ReaderInv
<1> USE TypeParts
<1>1. CASE BeginOpen
  <2>1. InitTypeOK'
    BY <1>1 DEF BeginOpen, InitTypeOK, ThreadPlaces
  <2>2. PipeType'
    BY <1>1 DEF BeginOpen, PipeType
  <2>3. PlaceType'
    BY <1>1 DEF BeginOpen, PlaceType, State
  <2>4. FlagType'
    BY <1>1 DEF BeginOpen, FlagType
  <2> QED
    BY <2>1, <2>2, <2>3, <2>4, TypePartsNext
<1>2. CASE FinishOpen
  <2>1. InitTypeOK'
    BY <1>2 DEF FinishOpen, InitTypeOK, ThreadPlaces
  <2>2. PipeType'
    BY <1>2 DEF FinishOpen, PipeType
  <2>3. PlaceType'
    BY <1>2 DEF FinishOpen, PlaceType
  <2>4. FlagType'
    BY <1>2 DEF FinishOpen, FlagType
  <2> QED
    BY <2>1, <2>2, <2>3, <2>4, TypePartsNext
<1>3. CASE ActOnCancel
  <2>1. InitTypeOK'
    BY <1>3 DEF ActOnCancel, InitTypeOK, ThreadPlaces
  <2>2. PipeType'
    BY <1>3 DEF ActOnCancel, PipeType
  <2>3. PlaceType'
    BY <1>3 DEF ActOnCancel, PlaceType
  <2>4. FlagType'
    BY <1>3 DEF ActOnCancel, FlagType
  <2> QED
    BY <2>1, <2>2, <2>3, <2>4, TypePartsNext
<1>4. CASE CreateReader
  <2>1. InitTypeOK'
    BY <1>4 DEF CreateReader, InitTypeOK, ThreadPlaces
  <2>2. PipeType'
    BY <1>4, ReaderAssumption DEF CreateReader, Kept, PipeType
  <2>3. PlaceType'
    BY <1>4 DEF CreateReader, PlaceType, State, ReadPlaces
  <2>4. FlagType'
    BY <1>4 DEF CreateReader, FlagType
  <2> QED
    BY <2>1, <2>2, <2>3, <2>4, TypePartsNext
<1>5. CASE ReportInit
  <2>1. InitTypeOK'
    BY <1>5 DEF ReportInit, ReportResult, NotifyAll, InitTypeOK, ThreadPlaces
  <2>2. PipeType'
    BY <1>5 DEF ReportInit, PipeType
  <2>3. PlaceType'
    BY <1>5 DEF ReportInit, PlaceType
  <2>4. FlagType'
    BY <1>5 DEF ReportInit, FlagType
  <2> QED
    BY <2>1, <2>2, <2>3, <2>4, TypePartsNext
<1> QED
  BY <1>1, <1>2, <1>3, <1>4, <1>5 DEF InitThread

\* The steps of the reading thread keep the types.
LEMMA ReadThreadType == ReaderInv /\ ReadThread => TypeOK'
<1> SUFFICES ASSUME ReaderInv, ReadThread PROVE TypeOK'
  OBVIOUS
<1> USE DEF ReaderInv
<1> USE TypeParts
<1>1. CASE TestFile
  <2>1. InitTypeOK'
    BY <1>1 DEF TestFile, InitTypeOK
  <2>2. PipeType'
    BY <1>1 DEF TestFile, PipeType
  <2>3. PlaceType'
    BY <1>1 DEF TestFile, ReaderFrame, PlaceType, ReadPlaces
  <2>4. FlagType'
    BY <1>1 DEF TestFile, ReaderFrame, FlagType
  <2> QED
    BY <2>1, <2>2, <2>3, <2>4, TypePartsNext
<1>2. CASE LockFile
  <2>1. InitTypeOK'
    BY <1>2 DEF LockFile, InitTypeOK
  <2>2. PipeType'
    BY <1>2 DEF LockFile, PipeType
  <2>3. PlaceType'
    BY <1>2 DEF LockFile, ReaderFrame, PlaceType, State, ReadPlaces
  <2>4. FlagType'
    BY <1>2 DEF LockFile, ReaderFrame, FlagType
  <2> QED
    BY <2>1, <2>2, <2>3, <2>4, TypePartsNext
<1>3. CASE Select
  <2>1. InitTypeOK'
    BY <1>3 DEF Select, InitTypeOK
  <2>2. PipeType'
    BY <1>3 DEF Select, PipeType
  <2>3. PlaceType'
    BY <1>3 DEF Select, ReaderFrame, PlaceType, State, ReadPlaces
  <2>4. FlagType'
    BY <1>3 DEF Select, ReaderFrame, FlagType
  <2> QED
    BY <2>1, <2>2, <2>3, <2>4, TypePartsNext
<1>4. CASE ReadFile
  <2>1. InitTypeOK'
    BY <1>4 DEF ReadFile, InitTypeOK
  <2>2. PipeType'
    BY <1>4, ReaderAssumption DEF ReadFile, Kept, PipeType
  <2>3. PlaceType'
    BY <1>4
    DEF ReadFile, ReaderFrame, CloseInReader, PlaceType, State, ReadPlaces
  <2>4. FlagType'
    BY <1>4 DEF ReadFile, ReaderFrame, FlagType
  <2> QED
    BY <2>1, <2>2, <2>3, <2>4, TypePartsNext
<1>5. CASE ReturnFromListener
  <2>1. InitTypeOK'
    BY <1>5 DEF ReturnFromListener, InitTypeOK
  <2>2. PipeType'
    BY <1>5 DEF ReturnFromListener, PipeType
  <2>3. PlaceType'
    BY <1>5 DEF ReturnFromListener, ReaderFrame, PlaceType, ReadPlaces
  <2>4. FlagType'
    BY <1>5 DEF ReturnFromListener, ReaderFrame, FlagType
  <2> QED
    BY <2>1, <2>2, <2>3, <2>4, TypePartsNext
<1>6. CASE ListenerClosePipe
  <2>1. InitTypeOK'
    BY <1>6 DEF ListenerClosePipe, InitTypeOK
  <2>2. PipeType'
    BY <1>6 DEF ListenerClosePipe, PipeType
  <2>3. PlaceType'
    BY <1>6 DEF ListenerClosePipe, ReaderFrame, PlaceType, ReadPlaces
  <2>4. FlagType'
    BY <1>6 DEF ListenerClosePipe, ReaderFrame, FlagType
  <2> QED
    BY <2>1, <2>2, <2>3, <2>4, TypePartsNext
<1>7. CASE ListenerCancel
  <2>1. InitTypeOK'
    BY <1>7 DEF ListenerCancel, CancelThen, RequestCancel, InitTypeOK
  <2>2. PipeType'
    BY <1>7 DEF ListenerCancel, PipeType
  <2>3. PlaceType'
    BY <1>7 DEF ListenerCancel, ReaderFrame, CancelThen, PlaceType, ReadPlaces
  <2>4. FlagType'
    BY <1>7 DEF ListenerCancel, ReaderFrame, FlagType
  <2> QED
    BY <2>1, <2>2, <2>3, <2>4, TypePartsNext
<1>8. CASE ListenerJoin
  <2>1. InitTypeOK'
    BY <1>8 DEF ListenerJoin, Join, InitTypeOK, ThreadPlaces
  <2>2. PipeType'
    BY <1>8 DEF ListenerJoin, PipeType
  <2>3. PlaceType'
    BY <1>8 DEF ListenerJoin, ReaderFrame, PlaceType, ReadPlaces
  <2>4. FlagType'
    BY <1>8 DEF ListenerJoin, ReaderFrame, FlagType
  <2> QED
    BY <2>1, <2>2, <2>3, <2>4, TypePartsNext
<1>9. CASE ListenerStop
  <2>1. InitTypeOK'
    BY <1>9 DEF ListenerStop, InitTypeOK
  <2>2. PipeType'
    BY <1>9, ReaderAssumption DEF ListenerStop, Kept, PipeType
  <2>3. PlaceType'
    BY <1>9
    DEF ListenerStop, ReaderFrame, CloseInReader, PlaceType, State, ReadPlaces
  <2>4. FlagType'
    BY <1>9 DEF ListenerStop, ReaderFrame, FlagType
  <2> QED
    BY <2>1, <2>2, <2>3, <2>4, TypePartsNext
<1> QED
  BY <1>1, <1>2, <1>3, <1>4, <1>5, <1>6, <1>7, <1>8, <1>9 DEF ReadThread

\* The steps of the owner inside a call keep the types.
LEMMA OwnerStepType == ReaderInv /\ OwnerStep => TypeOK'
<1> SUFFICES ASSUME ReaderInv, OwnerStep PROVE TypeOK'
  OBVIOUS
<1> USE DEF ReaderInv
<1> USE TypeParts
<1>1. CASE CancelInit
  <2>1. InitTypeOK'
    BY <1>1 DEF CancelInit, CancelThen, RequestCancel, InitTypeOK
  <2>2. PipeType'
    BY <1>1 DEF CancelInit, PipeType
  <2>3. PlaceType'
    BY <1>1 DEF CancelInit, OwnerFrame, CancelThen, PlaceType
  <2>4. FlagType'
    BY <1>1 DEF CancelInit, FlagType
  <2> QED
    BY <2>1, <2>2, <2>3, <2>4, TypePartsNext
<1>2. CASE JoinInit
  <2>1. InitTypeOK'
    BY <1>2 DEF JoinInit, Join, InitTypeOK, ThreadPlaces
  <2>2. PipeType'
    BY <1>2 DEF JoinInit, PipeType
  <2>3. PlaceType'
    BY <1>2 DEF JoinInit, OwnerFrame, PlaceType
  <2>4. FlagType'
    BY <1>2 DEF JoinInit, FlagType
  <2> QED
    BY <2>1, <2>2, <2>3, <2>4, TypePartsNext
<1>3. CASE stopReading
  <2>1. InitTypeOK'
    BY <1>3 DEF stopReading, StopWhen, InitTypeOK
  <2>2. PipeType'
    BY <1>3, ReaderAssumption DEF stopReading, StopWhen, Kept, PipeType
  <2>3. PlaceType'
    BY <1>3
    DEF stopReading, OwnerFrame, StopWhen, AfterStop, PlaceType, State,
        ThreadInv, OwnerInOrder
  <2>4. FlagType'
    BY <1>3 DEF stopReading, StopWhen, FlagType
  <2> QED
    BY <2>1, <2>2, <2>3, <2>4, TypePartsNext
<1> QED
  BY <1>1, <1>2, <1>3 DEF OwnerStep

\* The steps of a call of the owner keep the types.
LEMMA OwnerCallType == ReaderInv /\ OwnerCall => TypeOK'
<1> SUFFICES ASSUME ReaderInv, OwnerCall PROVE TypeOK'
  OBVIOUS
<1> USE DEF ReaderInv
<1> USE TypeParts
<1>1. CASE openPipe
  <2>1. InitTypeOK'
    BY <1>1 DEF openPipe, startInitThread, InitTypeOK, ThreadPlaces
  <2>2. PipeType'
    BY <1>1 DEF openPipe, PipeType
  <2>3. PlaceType'
    BY <1>1 DEF openPipe, OwnerFrame, PlaceType
  <2>4. FlagType'
    BY <1>1, ReaderAssumption DEF openPipe, FlagType
  <2> QED
    BY <2>1, <2>2, <2>3, <2>4, TypePartsNext
<1>2. CASE closePipe
  <2>1. InitTypeOK'
    BY <1>2 DEF closePipe, Call, InitTypeOK
  <2>2. PipeType'
    BY <1>2 DEF closePipe, Call, PipeType
  <2>3. PlaceType'
    BY <1>2 DEF closePipe, OwnerFrame, Call, PlaceType
  <2>4. FlagType'
    BY <1>2 DEF closePipe, Call, FlagType
  <2> QED
    BY <2>1, <2>2, <2>3, <2>4, TypePartsNext
<1>3. CASE Destroy
  <2>1. InitTypeOK'
    BY <1>3 DEF Destroy, Call, InitTypeOK
  <2>2. PipeType'
    BY <1>3 DEF Destroy, Call, PipeType
  <2>3. PlaceType'
    BY <1>3 DEF Destroy, OwnerFrame, Call, PlaceType
  <2>4. FlagType'
    BY <1>3 DEF Destroy, Call, FlagType
  <2> QED
    BY <2>1, <2>2, <2>3, <2>4, TypePartsNext
<1> QED
  BY <1>1, <1>2, <1>3 DEF OwnerCall

\* The steps of a peer keep the types.
LEMMA PeerType == ReaderInv /\ Peer => TypeOK'
<1> SUFFICES ASSUME ReaderInv, Peer PROVE TypeOK'
  OBVIOUS
<1> USE DEF ReaderInv
<1> USE TypeParts
<1>1. CASE PeerOpen
  <2>1. InitTypeOK'
    BY <1>1 DEF PeerOpen, PeerFrame, InitTypeOK
  <2>2. PipeType'
    BY <1>1, ReaderAssumption DEF PeerOpen, PipeType
  <2>3. PlaceType'
    BY <1>1 DEF PeerOpen, PeerFrame, PlaceType
  <2>4. FlagType'
    BY <1>1 DEF PeerOpen, PeerFrame, FlagType
  <2> QED
    BY <2>1, <2>2, <2>3, <2>4, TypePartsNext
<1>2. CASE PeerWrite
  <2>1. InitTypeOK'
    BY <1>2 DEF PeerWrite, PeerFrame, InitTypeOK
  <2>2. PipeType'
    BY <1>2, ReaderAssumption DEF PeerWrite, PipeType
  <2>3. PlaceType'
    BY <1>2 DEF PeerWrite, PeerFrame, PlaceType
  <2>4. FlagType'
    BY <1>2 DEF PeerWrite, PeerFrame, FlagType
  <2> QED
    BY <2>1, <2>2, <2>3, <2>4, TypePartsNext
<1>3. CASE PeerClose
  <2>1. InitTypeOK'
    BY <1>3 DEF PeerClose, PeerFrame, InitTypeOK
  <2>2. PipeType'
    BY <1>3, ReaderAssumption DEF PeerClose, PipeType
  <2>3. PlaceType'
    BY <1>3 DEF PeerClose, PeerFrame, PlaceType
  <2>4. FlagType'
    BY <1>3 DEF PeerClose, PeerFrame, FlagType
  <2> QED
    BY <2>1, <2>2, <2>3, <2>4, TypePartsNext
<1> QED
  BY <1>1, <1>2, <1>3 DEF Peer

(***************************************************************************)
(* The order of the threads.                                               *)
(***************************************************************************)
\* The steps of the initialization thread keep the threads in order.
LEMMA InitThreadOrder == ReaderInv /\ InitThread => ThreadInv'
<1> SUFFICES ASSUME ReaderInv, InitThread PROVE ThreadInv'
  OBVIOUS
<1> USE DEF ReaderInv
<1>1. CASE BeginOpen
  BY <1>1
  DEF BeginOpen, ThreadInv, InitFlags, OpeningAlone, ReaderAfterInit,
      MutexHeld, FileInUse, ClosedHasNoFile, OwnerInOrder, ClosedForGood,
      QuietAfterClose
<1>2. CASE FinishOpen
  BY <1>2
  DEF FinishOpen, ThreadInv, InitFlags, OpeningAlone, ReaderAfterInit,
      MutexHeld, FileInUse, ClosedHasNoFile, OwnerInOrder, ClosedForGood,
      QuietAfterClose
<1>3. CASE ActOnCancel
  BY <1>3
  DEF ActOnCancel, ThreadInv, InitFlags, OpeningAlone, ReaderAfterInit,
      MutexHeld, FileInUse, ClosedHasNoFile, OwnerInOrder, ClosedForGood,
      QuietAfterClose
<1>4. CASE CreateReader
  BY <1>4
  DEF CreateReader, ThreadInv, InitFlags, OpeningAlone, ReaderAfterInit,
      MutexHeld, FileInUse, ClosedHasNoFile, OwnerInOrder, ClosedForGood,
      QuietAfterClose
<1>5. CASE ReportInit
  BY <1>5
  DEF ReportInit, ReportResult, NotifyAll, ThreadInv, InitFlags, OpeningAlone,
      ReaderAfterInit, MutexHeld, FileInUse, ClosedHasNoFile, OwnerInOrder,
      ClosedForGood, QuietAfterClose
<1> QED
  BY <1>1, <1>2, <1>3, <1>4, <1>5 DEF InitThread

\* The steps of the reading thread keep the threads in order.
LEMMA ReadThreadOrder == ReaderInv /\ ReadThread => ThreadInv'
<1> SUFFICES ASSUME ReaderInv, ReadThread PROVE ThreadInv'
  OBVIOUS
<1> USE DEF ReaderInv
<1>1. CASE TestFile
  BY <1>1
  DEF TestFile, ReaderFrame, ThreadInv, InitFlags, OpeningAlone,
      ReaderAfterInit, MutexHeld, FileInUse, ClosedHasNoFile, OwnerInOrder,
      ClosedForGood, QuietAfterClose
<1>2. CASE LockFile
  BY <1>2
  DEF LockFile, ReaderFrame, ThreadInv, InitFlags, OpeningAlone,
      ReaderAfterInit, MutexHeld, FileInUse, ClosedHasNoFile, OwnerInOrder,
      ClosedForGood, QuietAfterClose
<1>3. CASE Select
  BY <1>3
  DEF Select, ReaderFrame, ThreadInv, InitFlags, OpeningAlone,
      ReaderAfterInit, MutexHeld, FileInUse, ClosedHasNoFile, OwnerInOrder,
      ClosedForGood, QuietAfterClose
<1>4. CASE ReadFile
  BY <1>4
  DEF ReadFile, ReaderFrame, CloseInReader, ThreadInv, InitFlags,
      OpeningAlone, ReaderAfterInit, MutexHeld, FileInUse, ClosedHasNoFile,
      OwnerInOrder, ClosedForGood, QuietAfterClose
<1>5. CASE ReturnFromListener
  BY <1>5
  DEF ReturnFromListener, ReaderFrame, ThreadInv, InitFlags, OpeningAlone,
      ReaderAfterInit, MutexHeld, FileInUse, ClosedHasNoFile, OwnerInOrder,
      ClosedForGood, QuietAfterClose
<1>6. CASE ListenerClosePipe
  BY <1>6
  DEF ListenerClosePipe, ReaderFrame, ThreadInv, InitFlags, OpeningAlone,
      ReaderAfterInit, MutexHeld, FileInUse, ClosedHasNoFile, OwnerInOrder,
      ClosedForGood, QuietAfterClose
<1>7. CASE ListenerCancel
  BY <1>7
  DEF ListenerCancel, ReaderFrame, CancelThen, RequestCancel, ThreadInv,
      InitFlags, OpeningAlone, ReaderAfterInit, MutexHeld, FileInUse,
      ClosedHasNoFile, OwnerInOrder, ClosedForGood, QuietAfterClose
<1>8. CASE ListenerJoin
  BY <1>8
  DEF ListenerJoin, ReaderFrame, Join, ThreadInv, InitFlags, OpeningAlone,
      ReaderAfterInit, MutexHeld, FileInUse, ClosedHasNoFile, OwnerInOrder,
      ClosedForGood, QuietAfterClose
<1>9. CASE ListenerStop
  BY <1>9
  DEF ListenerStop, ReaderFrame, CloseInReader, ThreadInv, InitFlags,
      OpeningAlone, ReaderAfterInit, MutexHeld, FileInUse, ClosedHasNoFile,
      OwnerInOrder, ClosedForGood, QuietAfterClose
<1> QED
  BY <1>1, <1>2, <1>3, <1>4, <1>5, <1>6, <1>7, <1>8, <1>9 DEF ReadThread

\* The steps of the owner inside a call keep the threads in order.
LEMMA OwnerStepOrder == ReaderInv /\ OwnerStep => ThreadInv'
<1> SUFFICES ASSUME ReaderInv, OwnerStep PROVE ThreadInv'
  OBVIOUS
<1> USE DEF ReaderInv
<1>1. CASE CancelInit
  BY <1>1
  DEF CancelInit, OwnerFrame, CancelThen, RequestCancel, NothingToCancel,
      JoinedElsewhere, AlreadyJoined, ThreadInv, InitFlags, OpeningAlone,
      ReaderAfterInit, MutexHeld, FileInUse, ClosedHasNoFile, OwnerInOrder,
      ClosedForGood, QuietAfterClose, TypeOK
<1>2. CASE JoinInit
  BY <1>2
  DEF JoinInit, OwnerFrame, Join, ThreadInv, InitFlags, OpeningAlone,
      ReaderAfterInit, MutexHeld, FileInUse, ClosedHasNoFile, OwnerInOrder,
      ClosedForGood, QuietAfterClose, TypeOK
<1>3. CASE stopReading
  BY <1>3
  DEF stopReading, OwnerFrame, StopWhen, AfterStop, ThreadInv, InitFlags,
      OpeningAlone, ReaderAfterInit, MutexHeld, FileInUse, ClosedHasNoFile,
      OwnerInOrder, ClosedForGood, QuietAfterClose
<1> QED
  BY <1>1, <1>2, <1>3 DEF OwnerStep

\* The steps of a call of the owner keep the threads in order.
LEMMA OwnerCallOrder == ReaderInv /\ OwnerCall => ThreadInv'
<1> SUFFICES ASSUME ReaderInv, OwnerCall PROVE ThreadInv'
  OBVIOUS
<1> USE DEF ReaderInv
<1>1. CASE openPipe
  BY <1>1
  DEF openPipe, OwnerFrame, startInitThread, ThreadInv, InitFlags,
      OpeningAlone, ReaderAfterInit, MutexHeld, FileInUse, ClosedHasNoFile,
      OwnerInOrder, ClosedForGood, QuietAfterClose
<1>2. CASE closePipe
  BY <1>2
  DEF closePipe, OwnerFrame, Call, ThreadInv, InitFlags, OpeningAlone,
      ReaderAfterInit, MutexHeld, FileInUse, ClosedHasNoFile, OwnerInOrder,
      ClosedForGood, QuietAfterClose
<1>3. CASE Destroy
  BY <1>3
  DEF Destroy, OwnerFrame, Call, ThreadInv, InitFlags, OpeningAlone,
      ReaderAfterInit, MutexHeld, FileInUse, ClosedHasNoFile, OwnerInOrder,
      ClosedForGood, QuietAfterClose
<1> QED
  BY <1>1, <1>2, <1>3 DEF OwnerCall

\* The steps of a peer keep the threads in order.
LEMMA PeerOrder == ReaderInv /\ Peer => ThreadInv'
<1> SUFFICES ASSUME ReaderInv, Peer PROVE ThreadInv'
  OBVIOUS
<1> USE DEF ReaderInv
<1>1. CASE PeerOpen
  BY <1>1
  DEF PeerOpen, PeerFrame, ThreadInv, InitFlags, OpeningAlone,
      ReaderAfterInit, MutexHeld, FileInUse, ClosedHasNoFile, OwnerInOrder,
      ClosedForGood, QuietAfterClose
<1>2. CASE PeerWrite
  BY <1>2
  DEF PeerWrite, PeerFrame, ThreadInv, InitFlags, OpeningAlone,
      ReaderAfterInit, MutexHeld, FileInUse, ClosedHasNoFile, OwnerInOrder,
      ClosedForGood, QuietAfterClose
<1>3. CASE PeerClose
  BY <1>3
  DEF PeerClose, PeerFrame, ThreadInv, InitFlags, OpeningAlone,
      ReaderAfterInit, MutexHeld, FileInUse, ClosedHasNoFile, OwnerInOrder,
      ClosedForGood, QuietAfterClose
<1> QED
  BY <1>1, <1>2, <1>3 DEF Peer

-----------------------------------------------------------------------------
\* Every step keeps the invariant.
LEMMA ReaderStep == ReaderInv /\ [Next]_vars => ReaderInv'
<1> SUFFICES ASSUME ReaderInv, [Next]_vars PROVE ReaderInv'
  OBVIOUS
<1>1. CASE InitThread
  BY <1>1, InitThreadType, InitThreadOrder DEF ReaderInv
<1>2. CASE ReadThread
  BY <1>2, ReadThreadType, ReadThreadOrder DEF ReaderInv
<1>3. CASE OwnerStep
  BY <1>3, OwnerStepType, OwnerStepOrder DEF ReaderInv
<1>4. CASE OwnerCall
  BY <1>4, OwnerCallType, OwnerCallOrder DEF ReaderInv
<1>5. CASE Peer
  BY <1>5, PeerType, PeerOrder DEF ReaderInv
<1>6. CASE UNCHANGED vars
  BY <1>6
  DEF vars, ReaderInv, TypeOK, InitTypeOK, ThreadInv, InitFlags, OpeningAlone,
      ReaderAfterInit, MutexHeld, FileInUse, ClosedHasNoFile, OwnerInOrder,
      ClosedForGood, QuietAfterClose
<1> QED
  BY <1>1, <1>2, <1>3, <1>4, <1>5, <1>6 DEF Next

\* The threads of a reader are in order in every state.
THEOREM ReaderCorrect == Spec => []ReaderInv
  BY ReaderInit, ReaderStep, PTL DEF Spec

\* The variables of a reader keep their types: the file is none or the pipe,
\* and the pipe never holds more than it can.
THEOREM ReaderTypeCorrect == Spec => []TypeOK
  BY ReaderCorrect DEF ReaderInv

\* readLoop(): nobody closes the file between the test under the mutex and the
\* listener's return.
THEOREM FileCorrect == Spec => []FileStaysOpen
<1>1. ReaderInv => FileStaysOpen
  BY DEF ReaderInv, ThreadInv, FileInUse, FileStaysOpen
<1> QED
  BY <1>1, ReaderCorrect, PTL

\* closePipe(): when it has returned to the owner, no thread opens, reads or
\* hands over anything any more.
THEOREM QuietCorrect == Spec => []QuietAfterClose
<1>1. ReaderInv => QuietAfterClose
  BY DEF ReaderInv, ThreadInv
<1> QED
  BY <1>1, ReaderCorrect, PTL
=============================================================================
