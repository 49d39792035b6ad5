-------------------------- MODULE SingleInstance ---------------------------
(***************************************************************************)
(* What the lock file promises (Daemon.mk, DF_LOCK_FILE_PATH): at most one *)
(* daemon runs its loop at a time.  A daemon process that got its turn     *)
(* keeps every other daemon out until it lets go, runs at most once, and   *)
(* never runs without having the turn.                                     *)
(***************************************************************************)
CONSTANT Daemons

VARIABLES
    holder,     \* set of the daemons that have the turn: at most one
    running,    \* set of the daemons that are running their loop
    served      \* set of the daemons that ever had the turn

vars == <<holder, running, served>>

Init == holder = {} /\ running = {} /\ served = {}

Start(d) ==
    /\ holder = {}
    /\ d \notin served
    /\ holder' = {d}
    /\ running' = {d}
    /\ served' = served \union {d}

\* The loop returns: the daemon still keeps the others out.
Stop(d) ==
    /\ d \in running
    /\ running' = {}
    /\ UNCHANGED <<holder, served>>

\* The daemon lets go, or its process dies, with the loop running or not.
Release(d) ==
    /\ d \in holder
    /\ holder' = {}
    /\ running' = {}
    /\ UNCHANGED served

Next == \E d \in Daemons : Start(d) \/ Stop(d) \/ Release(d)

Spec == Init /\ [][Next]_vars
=============================================================================
