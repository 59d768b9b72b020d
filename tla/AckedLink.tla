------------------------------ MODULE AckedLink ------------------------------
(***************************************************************************)
(* What acknowledged data transfer promises in one direction: the data are *)
(* numbered in the order they are accepted; they are delivered in that     *)
(* order, each at most once and none skipped unless the sender gave it up; *)
(* and the sender forgets a datum only once it was delivered, or by giving *)
(* up all it still holds.                                                  *)
(***************************************************************************)
EXTENDS Integers, Sequences

VARIABLES
    accepted,   \* how many data the sender has accepted
    pending,    \* those it holds until they are acknowledged, in order
    delivered,  \* the datum delivered last, or 0
    dropped     \* those it gave up

vars == <<accepted, pending, delivered, dropped>>

Held == {pending[i] : i \in DOMAIN pending}

Init ==
    /\ accepted = 0 /\ pending = <<>>
    /\ delivered = 0 /\ dropped = {}

Accept ==
    /\ accepted' = accepted + 1
    /\ \/ pending' = Append(pending, accepted') /\ UNCHANGED dropped
       \/ dropped' = dropped \cup {accepted'} /\ UNCHANGED pending
    /\ UNCHANGED delivered

Deliver(d) ==
    /\ delivered < d
    /\ \A e \in delivered + 1 .. d - 1 : e \in dropped
    /\ delivered' = d
    /\ UNCHANGED <<accepted, pending, dropped>>

Acknowledge(n) ==
    /\ \A i \in 1..n : pending[i] <= delivered
    /\ pending' = SubSeq(pending, n + 1, Len(pending))
    /\ UNCHANGED <<accepted, delivered, dropped>>

GiveUp ==
    /\ pending' = <<>>
    /\ dropped' = dropped \cup Held
    /\ UNCHANGED <<accepted, delivered>>

Next ==
    \/ Accept
    \/ \E d \in 1..accepted : Deliver(d)
    \/ \E n \in 1..Len(pending) : Acknowledge(n)
    \/ GiveUp

Spec == Init /\ [][Next]_vars
=============================================================================
