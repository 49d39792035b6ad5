-------------------------- MODULE PipeWriterProofs --------------------------
(***************************************************************************)
(* Theorems about PipeWriter, for every set of senders and waiters, every  *)
(* number of calls and of peers, every capacity of the pipe and every      *)
(* choice of faults.                                                       *)
(***************************************************************************)
EXTENDS PipeWriter, TLAPS

(***************************************************************************)
(* The inductive invariant: what a thread may conclude from the flags that *)
(* it reads without the lock.                                              *)
(***************************************************************************)
\* The flags do not run ahead of the initialization thread.
InitFlags ==
    /\ initThread # "none" \/ initFinished => initStarted
    /\ initThread \in InAction \union {"report"} => ~initFinished
    /\ initSucceeded => initFinished

\* Senders come to the lock only after a successful initialization.
SendersChecked == \A s \in Senders : pc[s] \in {"lock", "write"} => initSucceeded

\* A successful initialization has left an open file, which only closePipe()
\* closes.
SuccessHasFile ==
    initSucceeded \/ (initThread \in {"opened", "report"} /\ initResult)
        => pipeFile # 0 \/ closed

\* Something else than the pipe is written to only after that.
StrayIsLate == strayWrite => initSucceeded /\ closed

\* Whoever has cancelled the initialization knows that it is over.
CancelledIsOver == ownerPc = "close" => initThread \notin InAction

NewIsOpen == ownerPc = "construct" => ~closed

WriterOrder ==
    /\ InitFlags
    /\ SendersChecked
    /\ SuccessHasFile
    /\ StrayIsLate
    /\ CancelledIsOver
    /\ NewIsOpen
    /\ ClosedStaysClosed

WriterInv == TypeOK /\ WriterOrder

(***************************************************************************)
(* TypeOK in parts: the object and its owner, the callers, the pipe.       *)
(***************************************************************************)
OwnerType ==
    /\ pipeFile \in {0, PipeFD}
    /\ lock \in {"free", "init"} \union Senders
    /\ ownerPc \in {"construct", "idle", "cancel", "join", "close", "destroyed"}
    /\ task \in {"none", "close", "destroyWriter", "destroyInit"}
    /\ process \in {"alive", "crashed", "sigpipe"}
    /\ readerOpen \in BOOLEAN
    /\ closed \in BOOLEAN
    /\ strayWrite \in BOOLEAN

CallerPlaces == {"idle", "wait", "waiting", "check", "lock", "write"}

CallerType ==
    /\ pc \in [Callers -> CallerPlaces]
    /\ sends \in [Senders -> 0 .. MaxSends]

PipeType ==
    /\ peers \in 0 .. MaxPeers
    /\ buffered \in 0 .. Capacity

\* The type invariant is its parts.
LEMMA TypeParts ==
    TypeOK <=> InitTypeOK /\ OwnerType /\ CallerType /\ PipeType
  BY DEF TypeOK, OwnerType, CallerType, CallerPlaces, PipeType

\* The same of the next state.
LEMMA TypePartsNext ==
    TypeOK' <=> InitTypeOK' /\ OwnerType' /\ CallerType' /\ PipeType'
  BY DEF TypeOK, OwnerType, CallerType, CallerPlaces, PipeType

\* A step of the owner or of the pipe leaves the initialization as it is.
LEMMA InitKept == InitTypeOK /\ UNCHANGED initVars => InitTypeOK'
  BY DEF InitTypeOK, initVars

\* startInitThread() keeps the types of the initialization.
LEMMA StartType == InitTypeOK /\ startInitThread => InitTypeOK'
  BY DEF InitTypeOK, startInitThread, initVars, ThreadPlaces, Running, InAction

\* Moving a caller keeps the types of the callers.
LEMMA MoveType ==
    ASSUME CallerType, NEW t, NEW from, NEW to \in CallerPlaces,
           CallerAt(t, from, to), UNCHANGED sends
    PROVE  CallerType'
  BY DEF CallerType, CallerAt

-----------------------------------------------------------------------------
(***************************************************************************)
(* Types.                                                                  *)
(***************************************************************************)
USE DEF ownerVars, callVars, peerVars, historyVars

\* A new object has the right types.
LEMMA InitType == Init => TypeOK
<1> SUFFICES ASSUME Init PROVE TypeOK
  OBVIOUS
<1>1. InitTypeOK
  BY DEF Init, InitOfThread, InitTypeOK, ThreadPlaces
<1>2. OwnerType
  BY DEF Init, OwnerType
<1>3. CallerType
  BY WriterAssumption DEF Init, CallerType, CallerPlaces
<1>4. PipeType
  BY WriterAssumption DEF Init, PipeType
<1> QED
  BY <1>1, <1>2, <1>3, <1>4, TypeParts

\* The steps of the initialization thread keep the types.
LEMMA InitThreadType == TypeOK /\ InitThread => TypeOK'
<1> SUFFICES ASSUME TypeOK, InitThread PROVE TypeOK'
  OBVIOUS
<1>0. InitTypeOK /\ OwnerType /\ CallerType /\ PipeType
  BY TypeParts
<1>1. UNCHANGED <<callVars, peerVars>>
  BY DEF InitThread, BeginOpen, FinishOpen, ActOnCancel, LeaveAction, ReportInit
<1>2. CallerType' /\ PipeType'
  BY <1>0, <1>1 DEF CallerType, PipeType
<1>3. InitTypeOK'
  BY <1>0
  DEF InitThread, BeginOpen, FinishOpen, ActOnCancel, LeaveAction, ReportInit,
      ReportResult, NotifyAll, InitTypeOK, ThreadPlaces, Running, InAction
<1>4. OwnerType'
  BY <1>0
  DEF InitThread, BeginOpen, FinishOpen, ActOnCancel, LeaveAction, ReportInit,
      OwnerType
<1> QED
  BY <1>2, <1>3, <1>4, TypePartsNext

\* The steps of the owner keep the types.
LEMMA OwnerAllType == TypeOK /\ (OwnerStep \/ OwnerCall) => TypeOK'
<1> SUFFICES ASSUME TypeOK, OwnerStep \/ OwnerCall PROVE TypeOK'
  OBVIOUS
<1>0. InitTypeOK /\ OwnerType /\ CallerType /\ PipeType
  BY TypeParts
<1>1. UNCHANGED <<callVars, readerOpen, peers>> /\ buffered' \in {buffered, 0}
  BY DEF OwnerStep, OwnerCall, CancelInit, JoinInit, CloseFile, Construct,
         openPipe, closePipe, Destroy
<1>2. CallerType' /\ PipeType'
  BY <1>0, <1>1, WriterAssumption DEF CallerType, PipeType
<1>3. CASE CancelInit
  <2>1. InitTypeOK'
    BY <1>0, <1>3 DEF CancelInit, RequestCancel, InitTypeOK, initVars
  <2>2. OwnerType'
    BY <1>0, <1>3 DEF CancelInit, AfterCancel, OwnerType
  <2> QED
    BY <1>2, <2>1, <2>2, TypePartsNext
<1>4. CASE JoinInit
  <2>1. InitTypeOK'
    BY <1>0, <1>4 DEF JoinInit, Join, InitTypeOK, ThreadPlaces
  <2>2. OwnerType'
    BY <1>0, <1>4 DEF JoinInit, AfterCancel, OwnerType
  <2> QED
    BY <1>2, <2>1, <2>2, TypePartsNext
<1>5. CASE CloseFile
  <2>1. OwnerType'
    BY <1>0, <1>5 DEF CloseFile, OwnerType
  <2> QED
    BY <1>0, <1>2, <1>5, <2>1, InitKept, TypePartsNext DEF CloseFile
<1>6. CASE Construct
  <2>1. OwnerType'
    BY <1>0, <1>6 DEF Construct, OwnerType
  <2> QED
    BY <1>0, <1>2, <1>6, <2>1, InitKept, StartType, TypePartsNext DEF Construct
<1>7. CASE openPipe
  <2>1. OwnerType'
    BY <1>0, <1>7 DEF openPipe, OwnerType
  <2> QED
    BY <1>0, <1>2, <1>7, <2>1, StartType, TypePartsNext DEF openPipe
<1>8. CASE closePipe \/ Destroy
  <2>1. OwnerType'
    BY <1>0, <1>8 DEF closePipe, Destroy, OwnerType
  <2> QED
    BY <1>0, <1>2, <1>8, <2>1, InitKept, TypePartsNext DEF closePipe, Destroy
<1> QED
  BY <1>3, <1>4, <1>5, <1>6, <1>7, <1>8 DEF OwnerStep, OwnerCall

\* The steps of a sender or a waiter keep the types.
LEMMA CallersType ==
    ASSUME TypeOK, NEW t \in Callers,
           \/ t \in Senders /\ (sendData(t) \/ SendStep(t))
           \/ t \in Waiters /\ (CallWaitForInit(t) \/ WaiterStep(t))
    PROVE  TypeOK'
<1>0. InitTypeOK /\ OwnerType /\ CallerType /\ PipeType
  BY TypeParts
<1>1. CASE t \in Senders /\ sendData(t)
  <2>1. UNCHANGED <<initVars, pipeFile, lock, ownerVars, peerVars, process,
                    historyVars>>
    BY <1>1 DEF sendData
  <2>2. CallerType'
    BY <1>0, <1>1, WriterAssumption
    DEF sendData, CallerAt, CallerType, CallerPlaces
  <2> QED
    BY <1>0, <2>1, <2>2, InitKept, TypePartsNext DEF OwnerType, PipeType
<1>2. CASE WaitForInit(t)
  <2>1. InitTypeOK'
    BY <1>0, <1>2, InitKept DEF WaitForInit, BeginWait, InitTypeOK
  <2>2. CallerType'
    BY <1>0, <1>2, MoveType DEF WaitForInit, CallerPlaces
  <2> QED
    BY <1>0, <1>2, <2>1, <2>2, TypePartsNext
    DEF WaitForInit, OwnerType, PipeType
<1>3. CASE CallWaitForInit(t)
  <2>1. CallerType'
    BY <1>0, <1>3, MoveType DEF CallWaitForInit, CallerPlaces
  <2> QED
    BY <1>0, <1>3, <2>1, InitKept, TypePartsNext
    DEF CallWaitForInit, OwnerType, PipeType
<1>4. CASE WakeUp(t)
  <2>1. CallerType'
    BY <1>0, <1>4, MoveType DEF WakeUp, CallerPlaces
  <2> QED
    BY <1>0, <1>4, <2>1, InitKept, TypePartsNext DEF WakeUp, OwnerType, PipeType
<1>5. CASE SendTimeout(t)
  <2>1. InitTypeOK'
    BY <1>0, <1>5 DEF SendTimeout, WaitTimedOut, InitTypeOK
  <2>2. CallerType'
    BY <1>0, <1>5, MoveType DEF SendTimeout, CallerPlaces
  <2> QED
    BY <1>0, <1>5, <2>1, <2>2, TypePartsNext
    DEF SendTimeout, OwnerType, PipeType
<1>6. CASE CheckSuccess(t)
  <2>1. CallerType'
    BY <1>0, <1>6, MoveType DEF CheckSuccess, CallerPlaces
  <2> QED
    BY <1>0, <1>6, <2>1, InitKept, TypePartsNext
    DEF CheckSuccess, OwnerType, PipeType
<1>7. CASE t \in Senders /\ LockPipe(t)
  <2>1. CallerType'
    BY <1>0, <1>7, MoveType DEF LockPipe, CallerPlaces
  <2>2. OwnerType' /\ PipeType'
    BY <1>0, <1>7 DEF LockPipe, OwnerType, PipeType
  <2> QED
    BY <1>0, <1>7, <2>1, <2>2, InitKept, TypePartsNext DEF LockPipe
<1>8. CASE WritePipe(t)
  <2>1. CallerType'
    BY <1>0, <1>8, MoveType DEF WritePipe, CallerType, CallerPlaces
  <2>2. OwnerType'
    BY <1>0, <1>8 DEF WritePipe, OwnerType
  <2>3. PipeType'
    BY <1>0, <1>8, WriterAssumption DEF WritePipe, PipeType
  <2> QED
    BY <1>0, <1>8, <2>1, <2>2, <2>3, InitKept, TypePartsNext DEF WritePipe
<1> QED
  BY <1>1, <1>2, <1>3, <1>4, <1>5, <1>6, <1>7, <1>8 DEF SendStep, WaiterStep

\* The steps of a peer keep the types.
LEMMA PeerType == TypeOK /\ Peer => TypeOK'
<1> SUFFICES ASSUME TypeOK, Peer PROVE TypeOK'
  OBVIOUS
<1>0. InitTypeOK /\ OwnerType /\ CallerType /\ PipeType
  BY TypeParts
<1>1. UNCHANGED <<initVars, pipeFile, lock, ownerVars, callVars, process,
                  historyVars>>
  BY DEF Peer, PeerOpen, PeerRead, PeerClose
<1>2. PipeType'
  BY <1>0, WriterAssumption DEF Peer, PeerOpen, PeerRead, PeerClose, PipeType
<1>3. readerOpen' \in BOOLEAN
  BY <1>0 DEF Peer, PeerOpen, PeerRead, PeerClose, OwnerType
<1> QED
  BY <1>0, <1>1, <1>2, <1>3, InitKept, TypePartsNext DEF OwnerType, CallerType

-----------------------------------------------------------------------------
(***************************************************************************)
(* The order of the threads.                                               *)
(***************************************************************************)
USE DEF WriterOrder, InitFlags, SuccessHasFile, StrayIsLate, CancelledIsOver,
        NewIsOpen, ClosedStaysClosed, InAction, initVars

\* The steps of the initialization thread keep the threads in order.
LEMMA InitThreadOrder == WriterInv /\ InitThread => WriterOrder'
<1> SUFFICES ASSUME WriterInv, InitThread PROVE WriterOrder'
  OBVIOUS
<1> USE DEF WriterInv
<1>1. SendersChecked'
  <2>1. UNCHANGED pc /\ (initSucceeded => initSucceeded')
    BY DEF InitThread, BeginOpen, FinishOpen, ActOnCancel, LeaveAction,
           ReportInit, ReportResult, NotifyAll
  <2> QED
    BY <2>1 DEF SendersChecked
<1>2. CASE BeginOpen
  BY <1>1, <1>2 DEF BeginOpen
<1>3. CASE FinishOpen
  BY <1>1, <1>3 DEF FinishOpen, PipeFD
<1>4. CASE ActOnCancel
  BY <1>1, <1>4 DEF ActOnCancel
<1>5. CASE LeaveAction
  BY <1>1, <1>5 DEF LeaveAction
<1>6. CASE ReportInit
  BY <1>1, <1>6 DEF ReportInit, ReportResult, NotifyAll
<1> QED
  BY <1>2, <1>3, <1>4, <1>5, <1>6 DEF InitThread

\* The steps of the owner keep the threads in order.
LEMMA OwnerOrder == WriterInv /\ (OwnerStep \/ OwnerCall) => WriterOrder'
<1> SUFFICES ASSUME WriterInv, OwnerStep \/ OwnerCall PROVE WriterOrder'
  OBVIOUS
<1> USE DEF WriterInv
<1>1. SendersChecked'
  <2>1. UNCHANGED pc /\ (initSucceeded => initSucceeded')
    BY DEF OwnerStep, OwnerCall, CancelInit, RequestCancel, JoinInit, Join,
           CloseFile, Construct, openPipe, startInitThread, closePipe, Destroy
  <2> QED
    BY <2>1 DEF SendersChecked
<1>2. CASE CancelInit
  BY <1>1, <1>2
  DEF CancelInit, NothingToCancel, AlreadyJoined, RequestCancel, AfterCancel
<1>3. CASE JoinInit
  BY <1>1, <1>3 DEF JoinInit, Join, AfterCancel
<1>4. CASE CloseFile
  BY <1>1, <1>4 DEF CloseFile
<1>5. CASE Construct
  BY <1>1, <1>5 DEF Construct, startInitThread
<1>6. CASE openPipe
  BY <1>1, <1>6 DEF openPipe, startInitThread
<1>7. CASE closePipe
  BY <1>1, <1>7 DEF closePipe
<1>8. CASE Destroy
  BY <1>1, <1>8 DEF Destroy
<1> QED
  BY <1>2, <1>3, <1>4, <1>5, <1>6, <1>7, <1>8 DEF OwnerStep, OwnerCall

\* A step of a caller changes neither the file nor any flag.
LEMMA CallersKeep ==
    ASSUME NEW t \in Callers,
           \/ t \in Senders /\ (sendData(t) \/ SendStep(t))
           \/ t \in Waiters /\ (CallWaitForInit(t) \/ WaiterStep(t))
    PROVE  UNCHANGED <<initStarted, initFinished, initSucceeded, initThread,
                       initResult, pipeFile, ownerPc, closed>>
<1>1. CASE sendData(t) \/ CallWaitForInit(t) \/ WakeUp(t) \/ CheckSuccess(t)
             \/ LockPipe(t)
  BY <1>1 DEF sendData, CallWaitForInit, WakeUp, CheckSuccess, LockPipe
<1>2. CASE WaitForInit(t)
  BY <1>2 DEF WaitForInit, BeginWait
<1>3. CASE SendTimeout(t)
  BY <1>3 DEF SendTimeout, WaitTimedOut
<1>4. CASE WritePipe(t)
  BY <1>4 DEF WritePipe
<1> QED
  BY <1>1, <1>2, <1>3, <1>4 DEF SendStep, WaiterStep

\* The steps of a sender or a waiter keep the threads in order.
LEMMA CallersOrder ==
    ASSUME WriterInv, NEW t \in Callers,
           \/ t \in Senders /\ (sendData(t) \/ SendStep(t))
           \/ t \in Waiters /\ (CallWaitForInit(t) \/ WaiterStep(t))
    PROVE  WriterOrder'
<1>1. UNCHANGED <<initStarted, initFinished, initSucceeded, initThread,
                  initResult, pipeFile, ownerPc, closed>>
  BY CallersKeep
<1>2. CallerType
  BY TypeParts DEF WriterInv
<1>3. SendersChecked'
  <2>1. SUFFICES ASSUME NEW s \in Senders, pc'[s] \in {"lock", "write"}
                 PROVE  initSucceeded
    BY <1>1 DEF SendersChecked
  <2>2. SendersChecked
    BY DEF WriterInv
  <2>3. \/ UNCHANGED pc
        \/ pc' = [pc EXCEPT ![t] = "idle"]
        \/ pc' = [pc EXCEPT ![t] = "wait"]
        \/ pc' = [pc EXCEPT ![t] = "waiting"]
        \/ pc' = [pc EXCEPT ![t] = "check"]
        \/ initSucceeded
        \/ t \in Senders /\ pc[t] = "lock" /\ pc' = [pc EXCEPT ![t] = "write"]
    BY DEF SendStep, WaiterStep, sendData, CallWaitForInit, WaitForInit, WakeUp,
           SendTimeout, CheckSuccess, LockPipe, WritePipe, CallerAt
  <2> QED
    BY <1>2, <2>1, <2>2, <2>3, ThreadsAssumption DEF SendersChecked, CallerType
<1>4. strayWrite' => strayWrite \/ (initSucceeded /\ pipeFile = 0)
  <2>1. CASE t \in Senders /\ WritePipe(t)
    BY <2>1 DEF WritePipe, WriterInv, SendersChecked
  <2> QED
    BY <2>1
    DEF SendStep, WaiterStep, sendData, CallWaitForInit, WaitForInit, WakeUp,
        SendTimeout, CheckSuccess, LockPipe
<1> QED
  BY <1>1, <1>3, <1>4 DEF WriterInv

\* The steps of a peer keep the threads in order.
LEMMA PeerOrder == WriterInv /\ Peer => WriterOrder'
<1> SUFFICES ASSUME WriterInv, Peer PROVE WriterOrder'
  OBVIOUS
<1>1. UNCHANGED <<initVars, pipeFile, ownerVars, callVars, historyVars>>
  BY DEF Peer, PeerOpen, PeerRead, PeerClose
<1> QED
  BY <1>1 DEF WriterInv, SendersChecked

-----------------------------------------------------------------------------
\* A new object is in order.
LEMMA WriterInit == Init => WriterInv
  BY InitType, ThreadsAssumption DEF Init, InitOfThread, WriterInv, SendersChecked

\* Every step keeps the invariant.
LEMMA WriterNext == WriterInv /\ [Next]_vars => WriterInv'
<1> SUFFICES ASSUME WriterInv, [Next]_vars PROVE WriterInv'
  OBVIOUS
<1>0. TypeOK
  BY DEF WriterInv
<1>1. CASE InitThread
  BY <1>0, <1>1, InitThreadType, InitThreadOrder DEF WriterInv
<1>2. CASE OwnerStep \/ OwnerCall
  BY <1>0, <1>2, OwnerAllType, OwnerOrder DEF WriterInv
<1>3. CASE \/ \E s \in Senders : sendData(s) \/ SendStep(s)
           \/ \E w \in Waiters : CallWaitForInit(w) \/ WaiterStep(w)
  BY <1>0, <1>3, CallersType, CallersOrder, ThreadsAssumption DEF WriterInv
<1>4. CASE Peer
  BY <1>0, <1>4, PeerType, PeerOrder DEF WriterInv
<1>5. CASE UNCHANGED vars
  BY <1>5 DEF vars, WriterInv, TypeOK, InitTypeOK, SendersChecked
<1> QED
  BY <1>1, <1>2, <1>3, <1>4, <1>5 DEF Next

\* The threads of a writer are in order in every state.
THEOREM WriterCorrect == Spec => []WriterInv
  BY WriterInit, WriterNext, PTL DEF Spec

\* The variables of a writer keep their types: the descriptor is none or the
\* pipe's, never that of a failed open(), and the pipe is never overfull.
THEOREM WriterTypeCorrect == Spec => []TypeOK
<1>1. WriterInv => TypeOK
  BY DEF WriterInv
<1> QED
  BY <1>1, WriterCorrect, PTL

\* sendData(): until the owner closes the pipe, what is written goes to the
\* pipe, although the flags are read without the lock.
THEOREM StrayCorrect == Spec => []NoStrayWriteBeforeClose
<1>1. WriterInv => NoStrayWriteBeforeClose
  BY DEF WriterInv, NoStrayWriteBeforeClose
<1> QED
  BY <1>1, WriterCorrect, PTL

\* sendData(): no sender waits for the lock while the initialization thread may
\* hold it in open().
THEOREM SendersCorrect == Spec => []SendNeverWaitsForOpen
<1>1. WriterInv => SendNeverWaitsForOpen
  BY DEF WriterInv, SendersChecked, SendNeverWaitsForOpen
<1> QED
  BY <1>1, WriterCorrect, PTL

\* closePipe(): when it has returned, the descriptor is closed, and no thread is
\* left that would open it.
THEOREM ClosedCorrect == Spec => []ClosedStaysClosed
<1>1. WriterInv => ClosedStaysClosed
  BY DEF WriterInv
<1> QED
  BY <1>1, WriterCorrect, PTL
=============================================================================
