-------------------------------- MODULE Fifo --------------------------------
(***************************************************************************)
(* What a message queue promises: messages are taken in the order they     *)
(* were put in, each once, and one that was taken is in the hands of one   *)
(* worker until it is done with.                                           *)
(***************************************************************************)
EXTENDS Sequences

CONSTANT Messages

VARIABLES
    queue,  \* the messages that wait, the oldest first
    taken   \* the messages that a worker is busy with

vars == <<queue, taken>>

Waiting == {queue[i] : i \in DOMAIN queue}

Init == queue = <<>> /\ taken = {}

Put(m) ==
    /\ m \notin Waiting \cup taken
    /\ queue' = Append(queue, m)
    /\ UNCHANGED taken

Take ==
    /\ queue # <<>>
    /\ queue' = Tail(queue)
    /\ taken' = taken \cup {Head(queue)}

Finish(m) ==
    /\ m \in taken
    /\ taken' = taken \ {m}
    /\ UNCHANGED queue

Next == Take \/ \E m \in Messages : Put(m) \/ Finish(m)

Spec == Init /\ [][Next]_vars
=============================================================================
