------------------------------ MODULE PostHooks ------------------------------
(***************************************************************************)
(* The post dispatch hooks of the message dispatcher (engine/Message.cpp,  *)
(* the end of MessageDispatcher::dispatch() and setHook()).                *)
(*                                                                         *)
(* Each dispatch walks the list of hooks and drops the lock around every   *)
(* call.  Removing a hook only leaves a hole in the list; the holes are    *)
(* compacted by a dispatch that sees no other one walking (m_hookCount),   *)
(* which frees list nodes.  The walk runs under a READ lock, yet it writes *)
(* m_hookCount and compacts: with real read/write locks (SharedReaders) two*)
(* threads do that at once, with read/write locks disabled (option -Dr) the*)
(* lock is a mutex.                                                        *)
(***************************************************************************)
EXTENDS Integers, Sequences, FiniteSets, SequencesExt

CONSTANTS
    Threads,        \* threads that dispatch messages
    Hooks,          \* the hooks that modules set and remove
    Nodes,          \* list nodes: their number bounds the length of the list
    HeadNode,       \* the node m_hooks itself, part of the dispatcher
    None,           \* the null pointer
    SharedReaders   \* RLock on m_hooksLock lets several readers in

ASSUME NodeAssumption == HeadNode \in Nodes /\ None \notin Nodes \cup Hooks
ASSUME LockAssumption == SharedReaders \in BOOLEAN
ASSUME ThreadAssumption == IsFiniteSet(Threads)

VARIABLES
    nodes,          \* the nodes of m_hooks from HeadNode on, in order
    obj,            \* per node: the hook it points to, or None (a hole)
    m_hookAppend,   \* the node new hooks are appended from
    m_hookCount,    \* how many dispatches walk the list
    m_hookHole,     \* a hook was removed since the last compaction
    readers,        \* the threads that hold m_hooksLock for reading
    pc,             \* per thread: where it is in dispatch()
    l,              \* per thread: the node its walk stands on
    reg,            \* per thread: m_hookCount as read, for the ++ or -- under way
    \* History variables:
    must,           \* per thread: hooks set since before its walk began
    called          \* per thread: how often its walk has called each hook

list == <<nodes, obj, m_hookAppend>>
vars == <<list, m_hookCount, m_hookHole, readers, pc, l, reg, must, called>>

\* enter - lock held, list not looked at; inc - between the read and the write of
\* m_hookCount++; walk - lock held, on a node or past the end; calling - in the
\* hook's dispatched(), lock dropped; dec - between the read and write of
\* m_hookCount--.
Phases == {"idle", "enter", "inc", "walk", "calling", "dec"}

Walking(t) == pc[t] \in {"walk", "calling", "dec"}

Listed == {nodes[i] : i \in 1..Len(nodes)}

Set == {obj[n] : n \in Listed} \ {None}

-----------------------------------------------------------------------------
(* ObjList *)

\* ObjList::skipNull() and skipNext(): the first node with a hook from place i on.
FirstFrom(i) ==
    LET full == {j \in i..Len(nodes) : obj[nodes[j]] # None}
    IN  IF full = {} THEN None ELSE nodes[CHOOSE j \in full : \A k \in full : j <= k]

PlaceOf(n) == CHOOSE i \in 1..Len(nodes) : nodes[i] = n

\* The nodes that compaction keeps: a run of holes and the hook that follows it
\* end up in the run's first node, as ObjList::remove() moves the next node's
\* object into the node it is called on and frees the next one.
Kept == {i \in 1..Len(nodes) : i = 1 \/ obj[nodes[i - 1]] # None}

\* The list of the nodes at the places that keep lists in ascending order.
Keeps(keep) ==
    /\ {keep[i] : i \in DOMAIN keep} = Kept
    /\ \A i, j \in DOMAIN keep : i < j => keep[i] < keep[j]
    /\ nodes' = [i \in DOMAIN keep |-> nodes[keep[i]]]

\* Faulty: the node that is freed may be the one new hooks are appended from.
CompactKeepAppend ==
    /\ \E n \in 1..Len(nodes) : \E keep \in [1..n -> Kept] : Keeps(keep)
    /\ obj' = [n \in Nodes |->
                  IF n \in {nodes[i] : i \in Kept} /\ FirstFrom(PlaceOf(n)) # None
                  THEN obj[FirstFrom(PlaceOf(n))] ELSE None]
    /\ UNCHANGED m_hookAppend

Compact ==
    /\ \E n \in 1..Len(nodes) : \E keep \in [1..n -> Kept] : Keeps(keep)
    /\ obj' = [n \in Nodes |->
                  IF n \in {nodes[i] : i \in Kept} /\ FirstFrom(PlaceOf(n)) # None
                  THEN obj[FirstFrom(PlaceOf(n))] ELSE None]
    /\ m_hookAppend' = IF m_hookAppend \in {nodes[i] : i \in Kept} THEN m_hookAppend ELSE HeadNode

-----------------------------------------------------------------------------
(* MessageDispatcher::setHook(), under the write lock *)

\* A module sets and removes hooks between dispatches or from inside a hook.
MaySetHook(t) == pc[t] \in {"idle", "calling"} /\ readers = {}

\* m_hookAppend->append(hook): the last node is taken if it is a hole, else a new
\* node is linked after it.
AddHook(t, h) ==
    /\ MaySetHook(t)
    /\ h \notin Set
    /\ LET last == Last(nodes)
       IN  \/ /\ obj[last] = None
              /\ obj' = [obj EXCEPT ![last] = h]
              /\ m_hookAppend' = last
              /\ UNCHANGED nodes
           \/ /\ obj[last] # None
              /\ \E n \in Nodes \ Listed :
                    /\ nodes' = Append(nodes, n)
                    /\ obj' = [obj EXCEPT ![n] = h]
                    /\ m_hookAppend' = n
    /\ UNCHANGED <<m_hookCount, m_hookHole, readers, pc, l, reg, must, called>>

RemoveHook(t, h) ==
    /\ MaySetHook(t)
    /\ h \in Set
    /\ \E n \in Listed : obj[n] = h /\ obj' = [obj EXCEPT ![n] = None]
    /\ m_hookHole' = TRUE
    /\ must' = [u \in Threads |-> must[u] \ {h}]
    /\ UNCHANGED <<nodes, m_hookAppend, m_hookCount, readers, pc, l, reg, called>>

\* MessageDispatcher::clear(), as the engine is destroyed and nothing is dispatched;
\* m_hookHole keeps its value.
ClearHooks ==
    /\ \A t \in Threads : pc[t] = "idle"
    /\ nodes' = <<HeadNode>>
    /\ obj' = [n \in Nodes |-> None]
    /\ m_hookAppend' = HeadNode
    /\ UNCHANGED <<m_hookCount, m_hookHole, readers, pc, l, reg, must, called>>

-----------------------------------------------------------------------------
(* The hook loop of MessageDispatcher::dispatch(), under the read lock *)

MayRead == SharedReaders \/ readers = {}

\* Message::dispatched() is done, the hooks follow: lck.acquire(m_hooksLock).
EnterHooks(t) ==
    /\ pc[t] = "idle"
    /\ MayRead
    /\ readers' = readers \cup {t}
    /\ pc' = [pc EXCEPT ![t] = "enter"]
    /\ must' = [must EXCEPT ![t] = Set]
    /\ UNCHANGED <<list, m_hookCount, m_hookHole, l, reg, called>>

\* Faulty: holes are compacted whoever walks the list.
CompactOrNotAlways(t) ==
    /\ pc[t] = "enter"
    /\ IF m_hookHole
       THEN Compact /\ m_hookHole' = FALSE
       ELSE UNCHANGED <<list, m_hookHole>>
    /\ pc' = [pc EXCEPT ![t] = "inc"]
    /\ reg' = [reg EXCEPT ![t] = m_hookCount]
    /\ UNCHANGED <<m_hookCount, readers, l, must, called>>

\* The compaction if it is safe, and the read of m_hookCount++.
CompactOrNot(t) ==
    /\ pc[t] = "enter"
    /\ IF m_hookHole /\ m_hookCount = 0
       THEN Compact /\ m_hookHole' = FALSE
       ELSE UNCHANGED <<list, m_hookHole>>
    /\ pc' = [pc EXCEPT ![t] = "inc"]
    /\ reg' = [reg EXCEPT ![t] = m_hookCount]
    /\ UNCHANGED <<m_hookCount, readers, l, must, called>>

\* The write of m_hookCount++ and the first node of the walk.
StartWalk(t) ==
    /\ pc[t] = "inc"
    /\ m_hookCount' = reg[t] + 1
    /\ l' = [l EXCEPT ![t] = FirstFrom(1)]
    /\ pc' = [pc EXCEPT ![t] = "walk"]
    /\ reg' = [reg EXCEPT ![t] = 0]
    /\ UNCHANGED <<list, m_hookHole, readers, must, called>>

\* The walk takes a reference to the node's hook, drops the lock and calls it.
CallHook(t) ==
    /\ pc[t] = "walk"
    /\ l[t] # None
    /\ readers' = readers \ {t}
    /\ called' = [called EXCEPT ![t][obj[l[t]]] = @ + 1]
    /\ pc' = [pc EXCEPT ![t] = "calling"]
    /\ UNCHANGED <<list, m_hookCount, m_hookHole, l, reg, must>>

\* Faulty: the walk starts again at the head after each hook.
HookReturnsToHead(t) ==
    /\ pc[t] = "calling"
    /\ MayRead
    /\ readers' = readers \cup {t}
    /\ l' = [l EXCEPT ![t] =
                IF \A h \in Hooks : called[t][h] < 2 THEN FirstFrom(1) ELSE None]
    /\ pc' = [pc EXCEPT ![t] = "walk"]
    /\ UNCHANGED <<list, m_hookCount, m_hookHole, reg, must, called>>

\* The hook returned: the walk takes the lock again and goes on from its node, a
\* pointer that must not have been freed meanwhile.
HookReturns(t) ==
    /\ pc[t] = "calling"
    /\ MayRead
    /\ l[t] \in Listed
    /\ readers' = readers \cup {t}
    /\ l' = [l EXCEPT ![t] = FirstFrom(PlaceOf(l[t]) + 1)]
    /\ pc' = [pc EXCEPT ![t] = "walk"]
    /\ UNCHANGED <<list, m_hookCount, m_hookHole, reg, must, called>>

\* The end of the list: the read of m_hookCount--.
EndWalk(t) ==
    /\ pc[t] = "walk"
    /\ l[t] = None
    /\ reg' = [reg EXCEPT ![t] = m_hookCount]
    /\ pc' = [pc EXCEPT ![t] = "dec"]
    /\ UNCHANGED <<list, m_hookCount, m_hookHole, readers, l, must, called>>

\* Faulty: the decrement is made again when dispatch() cleans up.
LeaveHooksTwice(t) ==
    /\ pc[t] = "dec"
    /\ m_hookCount' = reg[t] - 2
    /\ readers' = readers \ {t}
    /\ pc' = [pc EXCEPT ![t] = "idle"]
    /\ reg' = [reg EXCEPT ![t] = 0]
    /\ must' = [must EXCEPT ![t] = {}]
    /\ called' = [called EXCEPT ![t] = [h \in Hooks |-> 0]]
    /\ UNCHANGED <<list, m_hookHole, l>>

\* The write of m_hookCount--, the lock is dropped and dispatch() returns.
LeaveHooks(t) ==
    /\ pc[t] = "dec"
    /\ m_hookCount' = reg[t] - 1
    /\ readers' = readers \ {t}
    /\ pc' = [pc EXCEPT ![t] = "idle"]
    /\ reg' = [reg EXCEPT ![t] = 0]
    /\ must' = [must EXCEPT ![t] = {}]
    /\ called' = [called EXCEPT ![t] = [h \in Hooks |-> 0]]
    /\ UNCHANGED <<list, m_hookHole, l>>

-----------------------------------------------------------------------------
Init ==
    /\ nodes = <<HeadNode>>
    /\ obj = [n \in Nodes |-> None]
    /\ m_hookAppend = HeadNode
    /\ m_hookCount = 0
    /\ m_hookHole = FALSE
    /\ readers = {}
    /\ pc = [t \in Threads |-> "idle"]
    /\ l = [t \in Threads |-> None]
    /\ reg = [t \in Threads |-> 0]
    /\ must = [t \in Threads |-> {}]
    /\ called = [t \in Threads |-> [h \in Hooks |-> 0]]

Walk(t) ==
    \/ CompactOrNot(t) \/ StartWalk(t) \/ CallHook(t) \/ HookReturns(t)
    \/ EndWalk(t) \/ LeaveHooks(t)

Next ==
    \/ \E t \in Threads :
          \/ EnterHooks(t) \/ Walk(t)
          \/ \E h \in Hooks : AddHook(t, h) \/ RemoveHook(t, h)
    \/ ClearHooks

Spec == Init /\ [][Next]_vars

-----------------------------------------------------------------------------
(* Properties *)

TypeOK ==
    /\ nodes \in Seq(Nodes) /\ nodes[1] = HeadNode
    /\ obj \in [Nodes -> Hooks \cup {None}]
    /\ m_hookAppend \in Nodes
    /\ m_hookCount \in Nat
    /\ m_hookHole \in BOOLEAN
    /\ readers \subseteq Threads
    /\ pc \in [Threads -> Phases]
    /\ l \in [Threads -> Nodes \cup {None}]
    /\ reg \in [Threads -> Nat]
    /\ must \in [Threads -> SUBSET Hooks] /\ called \in [Threads -> [Hooks -> Nat]]

\* "We'll compact it later when safe" (setHook()): no node is freed under a walk
\* that stands on it while its hook is called.
WalkOnList == \A t \in Threads : Walking(t) => l[t] \in Listed \cup {None}

\* The node from which the next hook will be appended has not been freed.
AppendOnList == m_hookAppend \in Listed

\* A walk calls every hook that stays set while it lasts exactly once, however
\* many hooks are removed and added around it and whatever nodes are reused.
EachHookOnce ==
    \A t \in Threads : pc[t] = "dec" =>
        \A h \in must[t] : called[t][h] = 1

\* What the induction needs beyond the above, for an exclusive lock.  A node and a hook
\* are in the list once.
WellLinked ==
    /\ nodes # <<>>
    /\ \A i, j \in 1..Len(nodes) :
          nodes[i] = nodes[j] \/ (obj[nodes[i]] = obj[nodes[j]] /\ obj[nodes[i]] # None) => i = j

\* One thread at a time has the lock, and m_hookCount counts the walks.
Exclusive ==
    /\ \A t, u \in readers : t = u
    /\ \A t \in Threads : t \in readers <=> pc[t] \in {"enter", "inc", "walk", "dec"}
    /\ \A t \in Threads : pc[t] \in {"inc", "dec"} => reg[t] = m_hookCount
    /\ m_hookCount = Cardinality({t \in Threads : Walking(t)})

\* The walk of thread t has been through the node at place i.
Passed(t, i) ==
    \/ l[t] = None
    \/ \E p \in 1..Len(nodes) : nodes[p] = l[t] /\ (i < p \/ (i = p /\ pc[t] = "calling"))

\* The hooks that a walk must call are in the list; those at places it has been
\* through have been called and the others have not.
OnCourse(t) ==
    /\ must[t] \subseteq Set
    /\ pc[t] = "idle" => must[t] = {}
    /\ pc[t] = "dec" => l[t] = None
    /\ pc[t] = "walk" /\ l[t] # None => obj[l[t]] # None
    /\ ~Walking(t) => \A h \in Hooks : called[t][h] = 0
    /\ Walking(t) =>
          \A i \in 1..Len(nodes) : obj[nodes[i]] \in must[t] =>
              called[t][obj[nodes[i]]] = IF Passed(t, i) THEN 1 ELSE 0

IndInv ==
    /\ TypeOK /\ WalkOnList /\ AppendOnList /\ WellLinked /\ Exclusive
    /\ \A t \in Threads : OnCourse(t)
=============================================================================
