----------------------------- MODULE Dispatcher -----------------------------
(***************************************************************************)
(* The message dispatcher of the engine: MessageDispatcher, MessageHandler *)
(* and MessageRelay (engine/Message.cpp, yatengine.h).                     *)
(*                                                                         *)
(* Threads dispatch messages to the handlers of a list sorted by priority  *)
(* and address, without holding the list's lock while a handler runs;      *)
(* other threads install and uninstall handlers at the same time.  What is *)
(* hard: a handler must never be deleted while a dispatch still needs it,  *)
(* and a dispatch must find its place again in a list that changed.        *)
(*                                                                         *)
(* Every section of code that runs under m_handlersLock is one action.     *)
(* A dispatch made from inside a handler is a frame like that of another   *)
(* thread, so "Threads" is the set of dispatch frames that can be active.  *)
(***************************************************************************)
EXTENDS Integers, Sequences, FiniteSets

CONSTANTS
    Threads,      \* concurrent dispatch frames
    Addresses,    \* memory addresses of handler objects, compared as pointers
    Kinds,        \* the constructor arguments of the handlers the modules create
    Messages,     \* the messages dispatched: [name, param, broadcast]
    Params,       \* values of the message parameter the handlers' filters look at
    AnyName,      \* the null name of a handler that receives every message
    NoFilter,     \* the filter of a handler without one
    None,         \* the null pointer
    MaxChanges    \* bound on m_changes (an unsigned int in the code)

ASSUME AddressAssumption == Addresses \subseteq Nat /\ None \notin Addresses
ASSUME ThreadAssumption  == IsFiniteSet(Threads)
ASSUME KindAssumption    ==
    /\ None \notin Kinds
    /\ \A k \in Kinds : k.priority \in Nat /\ k.relay \in BOOLEAN
ASSUME MessageAssumption ==
    /\ None \notin Messages
    /\ \A m \in Messages : m.param \in Params /\ m.broadcast \in BOOLEAN
ASSUME BoundAssumption   == MaxChanges \in Nat

VARIABLES
    m_handlers,   \* the list of installed handlers, as a sequence of addresses
    m_changes,    \* incremented by every change of the list
    m_unsafe,     \* per handler: how many dispatches forbid its destruction
    state,        \* per address: free, installed, leaving (out of the list)
    kind,         \* per address: the constructor arguments of the handler there
    fr,           \* per thread: the local variables of dispatch()
    un,           \* per thread: the handler uninstall() works on, or None
    \* History variables, read by the properties only:
    seen,         \* per thread: the handlers its dispatch has considered, in order
    standing,     \* per thread: handlers installed since its dispatch began
    lost,         \* per thread: how often its current handler was uninstalled
    reused        \* per thread: such a handler's address was taken by another one

code == <<m_handlers, m_changes, m_unsafe, state, kind, fr, un>>
history == <<seen, standing, lost, reused>>
vars == <<code, history>>

-----------------------------------------------------------------------------
(* Data *)

HandlerStates == {"free", "installed", "leaving"}

\* Where a dispatch() is: entering - MessageRelay::receivedInternal() before its
\* safeNowInternal(); received - inside the received() of a plain handler;
\* receiver - inside the received() of a relay's receiver, the relay no longer
\* protected; back - receivedInternal() returned; done - past the handler loop.
Phases == {"idle", "entering", "received", "receiver", "back", "done"}

\* The local variables of dispatch(): the handler h last called with its
\* priority p, the list node l (here: its index) it was found at, the value c of
\* m_changes then, the message (whose parameter handlers may change), retv.
Frame == [pc : Phases, h : Addresses \cup {None}, p : Nat, l : Nat, c : Nat,
          msg : Messages \cup {None}, param : Params \cup {None}, retv : BOOLEAN]

IdleFrame == [pc |-> "idle", h |-> None, p |-> 0, l |-> 0, c |-> 0,
              msg |-> None, param |-> None, retv |-> FALSE]

\* After the loop over the list only the message and retv still matter.
LoopLeft(f) == [IdleFrame EXCEPT !.pc = "done", !.msg = f.msg, !.retv = f.retv]

\* The sort order of the list: by priority, then by pointer.
Precedes(p, a, q, b) == p < q \/ (p = q /\ a < b)

Installed == {a \in Addresses : state[a] = "installed"}

\* The test dispatch() makes on each handler of the list.
Matches(a, msg, param) ==
    /\ kind[a].name \in {AnyName, msg.name}
    /\ kind[a].filter \in {NoFilter, param}

\* A thread holds a handler between m_unsafe++ and safeNowInternal().
Holds(t, a) == fr[t].pc \in {"entering", "received"} /\ fr[t].h = a

Holders(a) == {t \in Threads : Holds(t, a)}

\* A dispatch for which the pointer h is still its place in the list.
InCall(t, a) ==
    fr[t].pc \in {"entering", "received", "receiver", "back"} /\ fr[t].h = a

-----------------------------------------------------------------------------
(* The handlers' life: constructor, install(), uninstall(), delete *)

\* Faulty: handlers of one priority stay in the order they were installed in.
InsertPlaceByPriority(a, p) ==
    LET past == {i \in 1..Len(m_handlers) : kind[m_handlers[i]].priority > p}
    IN  IF past = {} THEN Len(m_handlers) + 1
        ELSE CHOOSE i \in past : \A j \in past : i <= j

\* The place at which install() inserts: before the first handler that is past
\* the new one in the sort order, at the end if there is none.
InsertPlace(a, p) ==
    LET past == {i \in 1..Len(m_handlers) :
                    Precedes(p, a, kind[m_handlers[i]].priority, m_handlers[i])}
    IN  IF past = {} THEN Len(m_handlers) + 1
        ELSE CHOOSE i \in past : \A j \in past : i <= j

\* ObjList::insert() and ObjList::remove() at place i of the list.
Inserted(s, i, a) ==
    [n \in 1..(Len(s) + 1) |-> IF n < i THEN s[n] ELSE IF n = i THEN a ELSE s[n - 1]]

Removed(s, i) == [n \in 1..(Len(s) - 1) |-> IF n < i THEN s[n] ELSE s[n + 1]]

PlaceOf(a) == CHOOSE i \in 1..Len(m_handlers) : m_handlers[i] = a

\* A module constructs a MessageHandler or a MessageRelay and installs it:
\* MessageDispatcher::install().  The new object may lie at any free address,
\* that of a deleted handler too.
Install(a, k) ==
    /\ state[a] = "free"
    /\ m_changes < MaxChanges
    /\ m_handlers' = Inserted(m_handlers, InsertPlace(a, k.priority), a)
    /\ m_changes' = m_changes + 1
    /\ state' = [state EXCEPT ![a] = "installed"]
    /\ kind' = [kind EXCEPT ![a] = k]
    /\ reused' = [t \in Threads |-> reused[t] \/ InCall(t, a)]
    /\ UNCHANGED <<m_unsafe, fr, un, seen, standing, lost>>

\* Any thread may uninstall a handler between dispatches; a relay's receiver may
\* do it too while it is called, even with the relay that called it.
MayUninstall(t) == un[t] = None /\ fr[t].pc \in {"idle", "receiver"}

\* The thread goes on into the wait loop as long as the handler is unsafe,
\* otherwise uninstall() returns and the caller deletes the handler.
Delete(a) ==
    /\ state' = [state EXCEPT ![a] = "free"]
    /\ kind' = [kind EXCEPT ![a] = None]

\* Faulty: the handler is deleted without waiting for its dispatches.
UninstallNoWait(t, a) ==
    /\ MayUninstall(t)
    /\ state[a] = "installed"
    /\ m_changes < MaxChanges
    /\ m_handlers' = Removed(m_handlers, PlaceOf(a))
    /\ m_changes' = m_changes + 1
    /\ Delete(a)
    /\ standing' = [u \in Threads |-> standing[u] \ {a}]
    /\ lost' = [u \in Threads |-> IF InCall(u, a) THEN lost[u] + 1 ELSE lost[u]]
    /\ UNCHANGED <<m_unsafe, fr, un, seen, reused>>

\* MessageDispatcher::uninstall(), called by ~MessageHandler() or destruct().
Uninstall(t, a) ==
    /\ MayUninstall(t)
    /\ state[a] = "installed"
    /\ m_changes < MaxChanges
    /\ m_handlers' = Removed(m_handlers, PlaceOf(a))
    /\ m_changes' = m_changes + 1
    /\ IF m_unsafe[a] > 0
       THEN /\ un' = [un EXCEPT ![t] = a]
            /\ state' = [state EXCEPT ![a] = "leaving"]
            /\ UNCHANGED kind
       ELSE /\ Delete(a)
            /\ UNCHANGED un
    /\ standing' = [u \in Threads |-> standing[u] \ {a}]
    /\ lost' = [u \in Threads |-> IF InCall(u, a) THEN lost[u] + 1 ELSE lost[u]]
    /\ UNCHANGED <<m_unsafe, fr, seen, reused>>

\* Faulty: the wait ends one holder too early.
UninstallDoneEarly(t) ==
    /\ un[t] # None
    /\ m_unsafe[un[t]] <= 1
    /\ Delete(un[t])
    /\ un' = [un EXCEPT ![t] = None]
    /\ UNCHANGED <<m_handlers, m_changes, m_unsafe, fr, history>>

\* The end of the wait loop in MessageDispatcher::uninstall().
UninstallDone(t) ==
    /\ un[t] # None
    /\ m_unsafe[un[t]] <= 0
    /\ Delete(un[t])
    /\ un' = [un EXCEPT ![t] = None]
    /\ UNCHANGED <<m_handlers, m_changes, m_unsafe, fr, history>>

\* MessageDispatcher::clear(), called by ~Engine() after every thread has ended:
\* the list's handlers are destroyed without any wait.
Clear ==
    /\ \A t \in Threads : fr[t].pc = "idle" /\ un[t] = None
    /\ m_handlers # <<>>
    /\ m_handlers' = <<>>
    /\ state' = [a \in Addresses |-> "free"]
    /\ kind' = [a \in Addresses |-> None]
    /\ UNCHANGED <<m_changes, m_unsafe, fr, un, history>>

-----------------------------------------------------------------------------
(* MessageDispatcher::dispatch() *)

\* The handlers from place i to place j of the list, as the history keeps them.
Considered(i, j) ==
    [n \in 1..(j - i + 1) |-> [p |-> kind[m_handlers[i + n - 1]].priority,
                               a |-> m_handlers[i + n - 1]]]

\* The loop over the list from the node after l: skip what does not match, then
\* mark the first match unsafe and drop the lock to call it; or leave the loop.
\* f is the frame so far, s what the history has of this dispatch.
ScanFrom(t, l, f, s) ==
    LET matching == {i \in (l + 1)..Len(m_handlers) :
                        Matches(m_handlers[i], f.msg, f.param)}
        next == CHOOSE i \in matching : \A j \in matching : i <= j
        h == m_handlers[next]
    IN  IF matching = {}
        THEN /\ fr' = [fr EXCEPT ![t] = LoopLeft(f)]
             /\ seen' = [seen EXCEPT ![t] = s \o Considered(l + 1, Len(m_handlers))]
             /\ UNCHANGED m_unsafe
        ELSE /\ fr' = [fr EXCEPT ![t] =
                        [f EXCEPT !.pc = IF kind[h].relay THEN "entering" ELSE "received",
                                  !.h = h, !.p = kind[h].priority,
                                  !.l = next, !.c = m_changes]]
             /\ seen' = [seen EXCEPT ![t] = s \o Considered(l + 1, next)]
             /\ m_unsafe' = [m_unsafe EXCEPT ![h] = @ + 1]

\* dispatch(msg) up to the first call of a handler.
Dispatch(t, msg) ==
    /\ fr[t].pc = "idle"
    /\ un[t] = None
    /\ ScanFrom(t, 0, [IdleFrame EXCEPT !.msg = msg, !.param = msg.param], <<>>)
    /\ standing' = [standing EXCEPT ![t] = Installed]
    /\ lost' = [lost EXCEPT ![t] = 0]
    /\ reused' = [reused EXCEPT ![t] = FALSE]
    /\ UNCHANGED <<m_handlers, m_changes, state, kind, un>>

\* MessageHandler::safeNowInternal()
SafeNow(a) == m_unsafe' = [m_unsafe EXCEPT ![a] = @ - 1]

\* Faulty: safeNowInternal() is left out when received() returned true.
HandlerReturnsUnsafe(t, ok, param) ==
    /\ fr[t].pc = "received"
    /\ IF ok THEN UNCHANGED m_unsafe ELSE SafeNow(fr[t].h)
    /\ fr' = [fr EXCEPT ![t].pc = "back", ![t].retv = ok \/ @, ![t].param = param]
    /\ UNCHANGED <<m_handlers, m_changes, state, kind, un, history>>

\* MessageHandler::receivedInternal(): received() returns, then safeNowInternal().
HandlerReturns(t, ok, param) ==
    /\ fr[t].pc = "received"
    /\ SafeNow(fr[t].h)
    /\ fr' = [fr EXCEPT ![t].pc = "back", ![t].retv = ok \/ @, ![t].param = param]
    /\ UNCHANGED <<m_handlers, m_changes, state, kind, un, history>>

\* Faulty: the receiver is called with the relay still marked unsafe.
RelayEntersUnsafe(t) ==
    /\ fr[t].pc = "entering"
    /\ fr' = [fr EXCEPT ![t].pc = "receiver"]
    /\ UNCHANGED <<m_handlers, m_changes, m_unsafe, state, kind, un, history>>

\* MessageRelay::receivedInternal() up to the call of its receiver.
RelayEnters(t) ==
    /\ fr[t].pc = "entering"
    /\ SafeNow(fr[t].h)
    /\ fr' = [fr EXCEPT ![t].pc = "receiver"]
    /\ UNCHANGED <<m_handlers, m_changes, state, kind, un, history>>

\* Faulty: safeNowInternal() again after the receiver returned.
ReceiverReturnsTwiceSafe(t, ok, param) ==
    /\ fr[t].pc = "receiver"
    /\ un[t] = None
    /\ SafeNow(fr[t].h)
    /\ fr' = [fr EXCEPT ![t].pc = "back", ![t].retv = ok \/ @, ![t].param = param]
    /\ UNCHANGED <<m_handlers, m_changes, state, kind, un, history>>

\* MessageRelay::receivedInternal(): the receiver's received() returns.
ReceiverReturns(t, ok, param) ==
    /\ fr[t].pc = "receiver"
    /\ un[t] = None
    /\ fr' = [fr EXCEPT ![t].pc = "back", ![t].retv = ok \/ @, ![t].param = param]
    /\ UNCHANGED <<m_handlers, m_changes, m_unsafe, state, kind, un, history>>

\* Faulty: the loop goes on from the head when the handler is gone.
RescanFromHead(h, p) ==
    IF \E i \in 1..Len(m_handlers) : m_handlers[i] = h
    THEN CHOOSE i \in 1..Len(m_handlers) : m_handlers[i] = h
    ELSE IF m_handlers = <<>> THEN 0 ELSE 1

\* Faulty: steps over the handler after the one just called.
RescanOnePast(h, p) ==
    LET stop == {i \in 1..Len(m_handlers) :
                    \/ m_handlers[i] = h
                    \/ Precedes(p, h, kind[m_handlers[i]].priority, m_handlers[i])}
    IN  IF stop = {} \/ stop = {Len(m_handlers)} THEN 0
        ELSE 1 + (CHOOSE i \in stop : \A j \in stop : i <= j)

\* The list node at which the loop goes on after the list changed: the handler
\* just called if it is still there; otherwise the node before the first handler
\* past it - which is that handler's own node when it is the list's first one.
\* 0 stands for the null pointer: no handler is left.
Rescan(h, p) ==
    LET stop == {i \in 1..Len(m_handlers) :
                    \/ m_handlers[i] = h
                    \/ Precedes(p, h, kind[m_handlers[i]].priority, m_handlers[i])}
        first == CHOOSE i \in stop : \A j \in stop : i <= j
    IN  IF stop = {} THEN 0
        ELSE IF m_handlers[first] = h THEN first
        ELSE IF first = 1 THEN 1 ELSE first - 1

\* dispatch() after a handler returned: stop if it consumed the message, else
\* go on from the same node, or from the one found again if the list changed.
Resume(t) ==
    LET f == fr[t]
        l == IF f.c = m_changes THEN f.l ELSE Rescan(f.h, f.p)
    IN  /\ f.pc = "back"
        /\ \/ /\ (f.retv /\ ~f.msg.broadcast) \/ l = 0
              /\ fr' = [fr EXCEPT ![t] = LoopLeft(f)]
              /\ UNCHANGED <<seen, m_unsafe>>
           \/ /\ ~(f.retv /\ ~f.msg.broadcast)
              /\ l # 0
              /\ ScanFrom(t, l, f, seen[t])
        /\ UNCHANGED <<m_handlers, m_changes, state, kind, un, standing, lost, reused>>

\* Message::dispatched(), the post hooks (module PostHooks), and return.
DispatchReturns(t) ==
    /\ fr[t].pc = "done"
    /\ fr' = [fr EXCEPT ![t] = IdleFrame]
    /\ seen' = [seen EXCEPT ![t] = <<>>]
    /\ standing' = [standing EXCEPT ![t] = {}]
    /\ lost' = [lost EXCEPT ![t] = 0]
    /\ reused' = [reused EXCEPT ![t] = FALSE]
    /\ UNCHANGED <<m_handlers, m_changes, m_unsafe, state, kind, un>>
-----------------------------------------------------------------------------
Init ==
    /\ m_handlers = <<>>
    /\ m_changes = 0
    /\ m_unsafe = [a \in Addresses |-> 0]
    /\ state = [a \in Addresses |-> "free"]
    /\ kind = [a \in Addresses |-> None]
    /\ fr = [t \in Threads |-> IdleFrame]
    /\ un = [t \in Threads |-> None]
    /\ seen = [t \in Threads |-> <<>>]
    /\ standing = [t \in Threads |-> {}]
    /\ lost = [t \in Threads |-> 0]
    /\ reused = [t \in Threads |-> FALSE]

\* What the code in progress in thread t does next.
Step(t) ==
    \/ UninstallDone(t)
    \/ RelayEnters(t)
    \/ \E ok \in BOOLEAN, param \in Params :
          HandlerReturns(t, ok, param) \/ ReceiverReturns(t, ok, param)
    \/ Resume(t)
    \/ DispatchReturns(t)

Next ==
    \/ \E a \in Addresses, k \in Kinds : Install(a, k)
    \/ \E t \in Threads, a \in Addresses : Uninstall(t, a)
    \/ \E t \in Threads, msg \in Messages : Dispatch(t, msg)
    \/ \E t \in Threads : Step(t)
    \/ Clear

Spec == Init /\ [][Next]_vars

\* Threads keep running and the handlers' received() return.
FairSpec == Spec /\ \A t \in Threads : WF_vars(Step(t))

-----------------------------------------------------------------------------
(* Properties *)

TypeOK ==
    /\ m_handlers \in Seq(Addresses)
    /\ m_changes \in Nat
    /\ m_unsafe \in [Addresses -> Nat]
    /\ state \in [Addresses -> HandlerStates]
    /\ kind \in [Addresses -> Kinds \cup {None}]
    /\ fr \in [Threads -> Frame]
    /\ un \in [Threads -> Addresses \cup {None}]
    /\ \A t \in Threads : fr[t].pc \in {"entering", "received"} => fr[t].h \in Addresses

\* A handler is never deleted while a dispatch is inside its receivedInternal()
\* before safeNowInternal(): uninstall() waits for m_unsafe to reach zero.
NoUseAfterDelete ==
    \A t \in Threads, a \in Addresses :
        Holds(t, a) => state[a] \in {"installed", "leaving"}

\* m_unsafe is exactly the number of dispatches that hold the handler: it never
\* drops below zero (the DebugFail in safeNowInternal()), is zero when uninstall()
\* returns (the DebugFail there), and never stays up after the last holder left.
UnsafeIsExact == \A a \in Addresses : m_unsafe[a] = Cardinality(Holders(a))

\* The list holds exactly the installed handlers, each once, sorted by priority
\* and then by address, which the rescan in dispatch() relies on.
ListSorted ==
    /\ \A i \in 1..Len(m_handlers) : m_handlers[i] \in Installed
    /\ \A a \in Installed : \E i \in 1..Len(m_handlers) : m_handlers[i] = a
    /\ \A i, j \in 1..Len(m_handlers) : i < j =>
          Precedes(kind[m_handlers[i]].priority, m_handlers[i],
                   kind[m_handlers[j]].priority, m_handlers[j])

\* A handler's constructor arguments are known as long as it is not deleted, and
\* each handler that uninstall() waits for is out of the list, with one waiter.
UninstallOwned ==
    /\ \A a \in Addresses : state[a] # "free" => kind[a] \in Kinds
    /\ \A t \in Threads : un[t] # None => state[un[t]] = "leaving"
    /\ \A t, u \in Threads : un[t] # None /\ un[t] = un[u] => t = u

\* The inductive invariant from which the safety properties follow.
IndInv ==
    /\ TypeOK
    /\ UnsafeIsExact
    /\ NoUseAfterDelete
    /\ ListSorted
    /\ UninstallOwned

\* Handlers in strictly increasing order, by priority and address.
Ordered(s) ==
    \A i, j \in 1..Len(s) : i < j => Precedes(s[i].p, s[i].a, s[j].p, s[j].a)

\* One dispatch considers handlers in strictly increasing order, hence none twice,
\* whatever is installed and uninstalled meanwhile - unless a new handler took
\* the address of the one being called.
InOrder == \A t \in Threads : ~reused[t] => Ordered(seen[t])

\* The handlers that stayed installed throughout a dispatch that ran to the end of
\* the list and that it did not consider.
Missed(t) ==
    IF fr[t].pc = "done" /\ ~(fr[t].retv /\ ~fr[t].msg.broadcast) /\ ~reused[t]
    THEN standing[t] \ {seen[t][i].a : i \in 1..Len(seen[t])}
    ELSE {}

\* A dispatch that nobody consumed has considered every handler that stayed
\* installed, up to one for each time the handler it was calling was uninstalled.
Complete == \A t \in Threads : Cardinality(Missed(t)) <= lost[t]

\* The history variables keep their types.
HistoryTyped ==
    /\ seen \in [Threads -> Seq([p : Nat, a : Addresses])]
    /\ standing \in [Threads -> SUBSET Addresses]
    /\ lost \in [Threads -> Nat]
    /\ reused \in [Threads -> BOOLEAN]

\* The standing handlers that a dispatch, calling a handler, has left behind: it has
\* not considered them and they are not past the handler it calls.
Skipped(t) ==
    {a \in standing[t] :
        /\ \A i \in 1..Len(seen[t]) : seen[t][i].a # a
        /\ ~Precedes(fr[t].p, fr[t].h, kind[a].priority, a)}

\* What a dispatch that calls a handler knows of its place: the handler is the last
\* it considered, its node is good while the list is unchanged, its priority while
\* it is installed; and a handler is left behind only by one that is uninstalled.
Placed(t) ==
    LET f == fr[t]
        n == Len(seen[t])
    IN  /\ f.h \in Addresses
        /\ n > 0 /\ seen[t][n] = [p |-> f.p, a |-> f.h]
        /\ f.c <= m_changes
        /\ f.c = m_changes => /\ f.l \in 1..Len(m_handlers)
                              /\ m_handlers[f.l] = f.h
                              /\ kind[f.h].priority = f.p
        /\ ~reused[t] =>
              /\ state[f.h] = "installed" => kind[f.h].priority = f.p
              /\ IF state[f.h] = "installed"
                 THEN Cardinality(Skipped(t)) <= lost[t]
                 ELSE Cardinality(Skipped(t)) + 1 <= lost[t]

\* One dispatch and its history, between any two steps.
Walks(t) ==
    /\ standing[t] \subseteq Installed
    /\ fr[t].pc = "idle" => seen[t] = <<>> /\ standing[t] = {}
    /\ fr[t].pc \in {"entering", "received", "receiver", "back"} => Placed(t)
    /\ ~reused[t] => Ordered(seen[t])
    /\ Cardinality(Missed(t)) <= lost[t]

\* The strengthening from which, with IndInv, InOrder and Complete follow.
WalkInv == HistoryTyped /\ \A t \in Threads : Walks(t)

\* What the comment in the rescan promises, "l will advance in the outer for loop
\* so use previous": the first handler past the removed one is considered next.
NoneMissed == \A t \in Threads : Missed(t) = {}

\* The dispatcher implements the abstract handler life cycle: its counters, its
\* list and its waiting give what HandlerLifetime states with sets of users.
Lifetime == INSTANCE HandlerLifetime
    WITH Users <- Threads, Objects <- Addresses,
         life <- state, users <- [a \in Addresses |-> Holders(a)]

LifetimeSpec == Lifetime!Spec

\* uninstall() returns: no cycle of threads waits for each other's handlers, even
\* when a relay's receiver uninstalls the relay that is calling it.
UninstallReturns == \A t \in Threads : un[t] # None ~> un[t] = None

=============================================================================
