---------------------------- MODULE ThreadedInit ----------------------------
(***************************************************************************)
(* ThreadedInit (Source/Shared/ThreadedInit.cpp): an object that a thread  *)
(* of its own initializes.  The module has the object's state and the      *)
(* steps of its functions; a class derived from it is a module that        *)
(* extends this one and adds threadedInitAction() and its own functions.   *)
(*                                                                         *)
(* Every section under initMutex is one step.  A thread that waits on      *)
(* initCondition is in waiting until it is notified; leaving the wait by   *)
(* itself is a timeout, which only a wait with a time limit has.           *)
(***************************************************************************)
CONSTANTS
    Callers,      \* threads that call the object's functions
    InitFaults    \* {"createError"} if pthread_create() may fail

ASSUME InitFaultsAssumption == InitFaults \subseteq {"createError"}

VARIABLES
    initStarted, initFinished, initSucceeded,
    initThread,       \* where the initialization thread is
    initResult,       \* what threadedInitAction() returned
    cancelPending,    \* pthread_cancel() was called on a running thread
    waiting           \* callers blocked on initCondition

initVars == <<initStarted, initFinished, initSucceeded, initThread,
              initResult, cancelPending, waiting>>

(***************************************************************************)
(* The thread is "none" before it is created, "start" before its action,   *)
(* "opening" while it blocks in the action, "opened" when it no longer     *)
(* does, "report" and "notify" after it.  It ends as "done", or as         *)
(* "cancelled", and is "joined" once pthread_join() has seen that.         *)
(***************************************************************************)
InAction == {"start", "opening", "opened"}
Running == InAction \union {"report", "notify"}
ThreadPlaces == {"none"} \union Running \union {"done", "cancelled", "joined"}

InitOfThread ==
    /\ initStarted = FALSE
    /\ initFinished = FALSE
    /\ initSucceeded = FALSE
    /\ initThread = "none"
    /\ initResult = FALSE
    /\ cancelPending = FALSE
    /\ waiting = {}

\* startInitThread(): once in the life of the object.
startInitThread ==
    IF initStarted THEN UNCHANGED initVars
    ELSE /\ initStarted' = TRUE
         /\ \/ /\ initThread' = "start"
               /\ UNCHANGED <<initFinished, initSucceeded>>
            \/ /\ "createError" \in InitFaults
               /\ initFinished' = TRUE
               /\ initSucceeded' = FALSE
               /\ UNCHANGED initThread
         /\ UNCHANGED <<initResult, cancelPending, waiting>>

\* Mutant: the thread that finishes does not signal.
ReportUnsignalled ==
    /\ initThread = "report"
    /\ initFinished' = TRUE
    /\ initSucceeded' = initResult
    /\ initThread' = "done"
    /\ UNCHANGED <<initStarted, initResult, cancelPending, waiting>>

\* threadAction() once the action has returned: the flags, then the signal.
ReportResult ==
    /\ initThread = "report"
    /\ initFinished' = TRUE
    /\ initSucceeded' = initResult
    /\ initThread' = "notify"
    /\ UNCHANGED <<initStarted, initResult, cancelPending, waiting>>

NotifyAll ==
    /\ initThread = "notify"
    /\ waiting' = {}
    /\ initThread' = "done"
    /\ UNCHANGED <<initStarted, initFinished, initSucceeded, initResult,
                   cancelPending>>

\* waitForInit(): the test under the mutex, and the wait that releases it.
BeginWait(t) ==
    /\ ~initFinished
    /\ waiting' = waiting \union {t}
    /\ UNCHANGED <<initStarted, initFinished, initSucceeded, initThread,
                   initResult, cancelPending>>

Notified(t) == t \notin waiting

WaitTimedOut(t) ==
    /\ t \in waiting
    /\ waiting' = waiting \ {t}
    /\ UNCHANGED <<initStarted, initFinished, initSucceeded, initThread,
                   initResult, cancelPending>>

(***************************************************************************)
(* cancelInit(): nothing to do unless the object is initializing, as far   *)
(* as its flags tell; otherwise a request to the thread, and the join.     *)
(* The flags do not tell whether the thread was joined before.             *)
(***************************************************************************)
NothingToCancel == ~initStarted \/ initFinished
AlreadyJoined == initThread = "joined"

RequestCancel ==
    /\ ~NothingToCancel
    /\ cancelPending' = TRUE
    /\ UNCHANGED <<initStarted, initFinished, initSucceeded, initThread,
                   initResult, waiting>>

Join ==
    /\ initThread \in {"done", "cancelled"}
    /\ initThread' = "joined"
    /\ UNCHANGED <<initStarted, initFinished, initSucceeded, initResult,
                   cancelPending, waiting>>

InitTypeOK ==
    /\ initStarted \in BOOLEAN
    /\ initFinished \in BOOLEAN
    /\ initSucceeded \in BOOLEAN
    /\ initThread \in ThreadPlaces
    /\ initResult \in BOOLEAN
    /\ cancelPending \in BOOLEAN
    /\ waiting \subseteq Callers
=============================================================================
