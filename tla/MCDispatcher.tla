---------------------------- MODULE MCDispatcher ----------------------------
(* Small instances of the dispatcher: relays for one message name and plain   *)
(* handlers for every name with a filter; a message that a handler consumes   *)
(* by returning true, or a broadcast that goes to every handler.              *)
EXTENDS Dispatcher, TLC

MCKinds ==
    { [name |-> "call", filter |-> NoFilter, priority |-> 1, relay |-> TRUE],
      [name |-> AnyName, filter |-> "x", priority |-> 2, relay |-> FALSE] }

MCMessages == { [name |-> "call", param |-> "x", broadcast |-> FALSE] }

MCBroadcasts == { [name |-> "call", param |-> "x", broadcast |-> TRUE] }

MCParams == {"x", "y"}

ThreadSymmetry == Permutations(Threads)
=============================================================================
