--------------------------- MODULE MessageChannel ---------------------------
(***************************************************************************)
(* What the input pipe promises, however many daemons read from it: a      *)
(* stream of bytes, known by their places 1, 2, 3, ..., of which each      *)
(* receiver is handed pieces in order.  No byte is handed to anyone twice. *)
(* Bytes may be lost, and a piece need not be what was sent by one call.   *)
(***************************************************************************)
EXTENDS Integers, SequencesExt

CONSTANT Receivers

VARIABLES
    sent,         \* bytes sent so far
    delivered     \* the bytes each receiver was handed, one after the other

vars == <<sent, delivered>>

Init ==
    /\ sent = 0
    /\ delivered = [r \in Receivers |-> <<>>]

Send ==
    /\ sent' \in Nat
    /\ sent' > sent
    /\ UNCHANGED delivered

\* A piece of the stream that is new to everybody and later than what this
\* receiver has had.
Deliver(r) ==
    \E first \in 1 .. sent : \E last \in first .. sent :
        /\ \A s \in Receivers : ToSet(delivered[s]) \intersect (first .. last) = {}
        /\ \A b \in ToSet(delivered[r]) : b < first
        /\ delivered' = [delivered EXCEPT ![r] =
                           @ \o [i \in 1 .. last - first + 1 |-> first + i - 1]]
        /\ UNCHANGED sent

Next == Send \/ \E r \in Receivers : Deliver(r)

Spec == Init /\ [][Next]_vars
=============================================================================
