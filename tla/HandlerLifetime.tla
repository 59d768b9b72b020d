--------------------------- MODULE HandlerLifetime ---------------------------
(***************************************************************************)
(* What the dispatcher promises to the modules that install handlers, with *)
(* the set of users of each handler in place of counters, locks and lists: *)
(* a handler is entered only while it is installed, and its memory is      *)
(* reclaimed only once every thread that entered it has left it.           *)
(***************************************************************************)
CONSTANTS Users, Objects

VARIABLES
    life,   \* per object: free, installed, or leaving (no longer to be entered)
    users   \* per object: the threads inside it

vars == <<life, users>>

Init ==
    /\ life = [o \in Objects |-> "free"]
    /\ users = [o \in Objects |-> {}]

Register(o) ==
    /\ life[o] = "free"
    /\ life' = [life EXCEPT ![o] = "installed"]
    /\ UNCHANGED users

Enter(u, o) ==
    /\ life[o] = "installed"
    /\ users' = [users EXCEPT ![o] = @ \cup {u}]
    /\ UNCHANGED life

Leave(u, o) ==
    /\ u \in users[o]
    /\ users' = [users EXCEPT ![o] = @ \ {u}]
    /\ UNCHANGED life

\* The owner withdraws the object; it must wait if somebody is inside.
Unregister(o) ==
    /\ life[o] = "installed"
    /\ life' = [life EXCEPT ![o] = IF users[o] = {} THEN "free" ELSE "leaving"]
    /\ UNCHANGED users

Reclaim(o) ==
    /\ life[o] = "leaving"
    /\ users[o] = {}
    /\ life' = [life EXCEPT ![o] = "free"]
    /\ UNCHANGED users

\* The end of the program: everything goes, with nobody left inside anything.
Shutdown ==
    /\ \A o \in Objects : users[o] = {}
    /\ life' = [o \in Objects |-> "free"]
    /\ UNCHANGED users

Next ==
    \/ \E o \in Objects : Register(o) \/ Unregister(o) \/ Reclaim(o)
    \/ \E u \in Users, o \in Objects : Enter(u, o) \/ Leave(u, o)
    \/ Shutdown

Spec == Init /\ [][Next]_vars

\* Nobody is inside an object whose memory has been reclaimed.
NoUseAfterFree == \A o \in Objects : life[o] = "free" => users[o] = {}
=============================================================================
