---------------------------- MODULE CallEndpoint ----------------------------
(***************************************************************************)
(* Call endpoints and their peers: CallEndpoint::connect(), disconnect(),  *)
(* setPeer() and destroyed() (engine/Channel.cpp), with the reference      *)
(* counts of RefObject that keep a connected endpoint in memory.           *)
(*                                                                         *)
(* An endpoint is connected to at most one other one and each of the two   *)
(* holds a pointer to its peer and one reference for being connected.      *)
(* disconnect() changes both sides under the common mutex; connect() itself*)
(* takes no lock, and is called bare by most modules and under the common  *)
(* mutex by some (CallersLock).                                            *)
(*                                                                         *)
(* A thread runs an operation as a list of the steps still to do; a step   *)
(* that calls another function puts that function's steps in front.        *)
(***************************************************************************)
EXTENDS Integers, Sequences, FiniteSets

CONSTANTS
    Endpoints,      \* call endpoints
    Threads,        \* threads that connect and disconnect them
    None,           \* the null pointer
    CallersLock     \* connect() is called with the common mutex held

ASSUME EndpointAssumption == None \notin Endpoints \cup Threads
ASSUME LockAssumption == CallersLock \in BOOLEAN

VARIABLES
    m_peer,         \* per endpoint: its peer, or None
    m_refcount,     \* per endpoint: the reference count
    owned,          \* per endpoint: its creator still holds its first reference
    destroyed,      \* per endpoint: its memory is gone
    s_mutex,        \* the thread that holds the common (recursive) mutex, or None
    todo            \* per thread: the steps of its operation still to do

vars == <<m_peer, m_refcount, owned, destroyed, s_mutex, todo>>

-----------------------------------------------------------------------------
(* Steps *)

S(op, a, b) == [op |-> op, a |-> a, b |-> b]

Ops == {"check", "ref", "test", "swap", "refPeer", "set", "setPeer", "unlock",
        "deref", "delete"}

Steps == [op : Ops, a : Endpoints \cup {None}, b : Endpoints \cup {None}]

\* disconnect(): the unlocked test of m_peer, then the locked part.
Disconnect(a) == <<S("test", a, None), S("swap", a, None)>>

\* connect(peer) once the peer is known to be new.
Connect(a, b) ==
    <<S("ref", a, b)>> \o Disconnect(a) \o <<S("refPeer", a, b)>> \o Disconnect(b)
    \o <<S("set", a, b), S("setPeer", b, a)>>

\* The caller's side: it holds a reference to what it operates on, and possibly the
\* common mutex.
Release(es) == IF CallersLock THEN <<S("unlock", None, None)>> \o es ELSE es

Idle(t) == todo[t] = <<>>

Quiet == \A t \in Threads : Idle(t)

Now(t, op) == ~Idle(t) /\ todo[t][1].op = op

\* The thread goes on with the steps s and then what it still had to do after the
\* current step, or after dropping n steps.
Go(t, s, n) == todo' = [todo EXCEPT ![t] = s \o SubSeq(@, n + 1, Len(@))]

CanLock(t) == s_mutex \in {None, t}

Alive(a) == m_refcount[a] > 0

-----------------------------------------------------------------------------
(* Operations of the callers *)

\* A caller with references to both endpoints connects the first to the second.
CallConnect(t, a, b) ==
    /\ Idle(t)
    /\ a # b /\ Alive(a) /\ Alive(b) /\ owned[a] /\ owned[b]
    /\ CallersLock => s_mutex = None
    /\ s_mutex' = IF CallersLock THEN t ELSE s_mutex
    /\ m_refcount' = [m_refcount EXCEPT ![a] = @ + 1, ![b] = @ + 1]
    /\ todo' = [todo EXCEPT ![t] =
                  <<S("check", a, b)>>
                  \o Release(<<S("deref", a, None), S("deref", b, None)>>)]
    /\ UNCHANGED <<m_peer, owned, destroyed>>

\* A caller with a reference to an endpoint disconnects it.
CallDisconnect(t, a) ==
    /\ Idle(t)
    /\ Alive(a) /\ owned[a]
    /\ m_refcount' = [m_refcount EXCEPT ![a] = @ + 1]
    /\ todo' = [todo EXCEPT ![t] = Disconnect(a) \o <<S("deref", a, None)>>]
    /\ UNCHANGED <<m_peer, owned, destroyed, s_mutex>>

\* The owner lets an endpoint go: the reference of its creation is dropped.
CallRelease(t, a) ==
    /\ Idle(t)
    /\ owned[a]
    /\ owned' = [owned EXCEPT ![a] = FALSE]
    /\ todo' = [todo EXCEPT ![t] = <<S("deref", a, None)>>]
    /\ UNCHANGED <<m_peer, m_refcount, destroyed, s_mutex>>

-----------------------------------------------------------------------------
(* CallEndpoint::connect() *)

\* Faulty: returns to its caller past the release of the mutex.
CheckReturnsLocked(t) ==
    /\ Now(t, "check")
    /\ LET s == todo[t][1]
       IN  IF m_peer[s.a] = s.b THEN Go(t, <<>>, 2) ELSE Go(t, Connect(s.a, s.b), 1)
    /\ UNCHANGED <<m_peer, m_refcount, owned, destroyed, s_mutex>>

\* The peer it already has: nothing to do.
Check(t) ==
    /\ Now(t, "check")
    /\ LET s == todo[t][1]
       IN  IF m_peer[s.a] = s.b THEN Go(t, <<>>, 1) ELSE Go(t, Connect(s.a, s.b), 1)
    /\ UNCHANGED <<m_peer, m_refcount, owned, destroyed, s_mutex>>

\* if (!ref()) return false;
Ref(t) ==
    /\ Now(t, "ref")
    /\ LET a == todo[t][1].a
       IN  IF Alive(a)
           THEN /\ m_refcount' = [m_refcount EXCEPT ![a] = @ + 1]
                /\ Go(t, <<>>, 1)
           ELSE /\ UNCHANGED m_refcount
                /\ Go(t, <<>>, Len(Connect(a, a)))
    /\ UNCHANGED <<m_peer, owned, destroyed, s_mutex>>

\* Faulty: the peer is connected without a reference of its own.
RefPeerForgotten(t) ==
    /\ Now(t, "refPeer")
    /\ Go(t, <<>>, 1)
    /\ UNCHANGED <<m_peer, m_refcount, owned, destroyed, s_mutex>>

\* if (!peer->ref()) { deref(); return false; }
RefPeer(t) ==
    /\ Now(t, "refPeer")
    /\ LET s == todo[t][1]
       IN  IF Alive(s.b)
           THEN /\ m_refcount' = [m_refcount EXCEPT ![s.b] = @ + 1]
                /\ Go(t, <<>>, 1)
           ELSE /\ UNCHANGED m_refcount
                /\ Go(t, <<S("deref", s.a, None)>>, 5)
    /\ UNCHANGED <<m_peer, owned, destroyed, s_mutex>>

\* m_peer = peer; and, a step later, peer->setPeer(this,reason,notify).
SetPeer(t) ==
    /\ Now(t, "set") \/ Now(t, "setPeer")
    /\ m_peer' = [m_peer EXCEPT ![todo[t][1].a] = todo[t][1].b]
    /\ Go(t, <<>>, 1)
    /\ UNCHANGED <<m_refcount, owned, destroyed, s_mutex>>

\* The caller drops the common mutex.
Unlock(t) ==
    /\ Now(t, "unlock")
    /\ s_mutex' = None
    /\ Go(t, <<>>, 1)
    /\ UNCHANGED <<m_peer, m_refcount, owned, destroyed>>

-----------------------------------------------------------------------------
(* CallEndpoint::disconnect() *)

\* if (!m_peer) return false; without the mutex.
Test(t) ==
    /\ Now(t, "test")
    /\ IF m_peer[todo[t][1].a] = None THEN Go(t, <<>>, 2) ELSE Go(t, <<>>, 1)
    /\ UNCHANGED <<m_peer, m_refcount, owned, destroyed, s_mutex>>

\* Faulty: the references are dropped again if the peer is gone in the meantime.
SwapUnchecked(t) ==
    /\ Now(t, "swap")
    /\ CanLock(t)
    /\ LET a == todo[t][1].a
           temp == m_peer[a]
       IN  /\ m_peer' = [e \in Endpoints |-> IF e \in {a, temp} THEN None ELSE m_peer[e]]
           /\ Go(t, (IF temp = None THEN <<>> ELSE <<S("deref", temp, None)>>)
                    \o (IF Alive(a) THEN <<S("deref", a, None)>> ELSE <<>>), 1)
    /\ UNCHANGED <<m_refcount, owned, destroyed, s_mutex>>

\* Faulty: only the near side forgets its peer.
SwapOneSide(t) ==
    /\ Now(t, "swap")
    /\ CanLock(t)
    /\ LET a == todo[t][1].a
           temp == m_peer[a]
       IN  IF temp = None
           THEN Go(t, <<>>, 1) /\ UNCHANGED m_peer
           ELSE /\ m_peer' = [m_peer EXCEPT ![a] = None]
                /\ Go(t, <<S("deref", temp, None)>>
                         \o (IF Alive(a) THEN <<S("deref", a, None)>> ELSE <<>>), 1)
    /\ UNCHANGED <<m_refcount, owned, destroyed, s_mutex>>

\* The part under the common mutex: both sides forget each other; the references
\* are dropped after the mutex, this one's own unless it is being destroyed.
Swap(t) ==
    /\ Now(t, "swap")
    /\ CanLock(t)
    /\ LET a == todo[t][1].a
           temp == m_peer[a]
       IN  IF temp = None
           THEN Go(t, <<>>, 1) /\ UNCHANGED m_peer
           ELSE /\ m_peer' = [m_peer EXCEPT ![a] = None, ![temp] = None]
                /\ Go(t, <<S("deref", temp, None)>>
                         \o (IF Alive(a) THEN <<S("deref", a, None)>> ELSE <<>>), 1)
    /\ UNCHANGED <<m_refcount, owned, destroyed, s_mutex>>

\* Faulty: the reference of being connected goes along with the caller's own.
DerefTwice(t) ==
    /\ Now(t, "deref")
    /\ LET a == todo[t][1].a
       IN  /\ m_refcount' = [m_refcount EXCEPT ![a] = IF @ > 0 THEN @ - 2 ELSE @]
           /\ Go(t, IF m_refcount[a] <= 2
                    THEN Disconnect(a) \o <<S("delete", a, None)>> ELSE <<>>, 1)
    /\ UNCHANGED <<m_peer, owned, destroyed, s_mutex>>

\* RefObject::deref(): the last reference calls destroyed(), which disconnects, and
\* deletes the object.
Deref(t) ==
    /\ Now(t, "deref")
    /\ LET a == todo[t][1].a
       IN  /\ m_refcount' = [m_refcount EXCEPT ![a] = IF @ > 0 THEN @ - 1 ELSE @]
           /\ Go(t, IF m_refcount[a] = 1
                    THEN Disconnect(a) \o <<S("delete", a, None)>> ELSE <<>>, 1)
    /\ UNCHANGED <<m_peer, owned, destroyed, s_mutex>>

Delete(t) ==
    /\ Now(t, "delete")
    /\ destroyed' = [destroyed EXCEPT ![todo[t][1].a] = TRUE]
    /\ Go(t, <<>>, 1)
    /\ UNCHANGED <<m_peer, m_refcount, owned, s_mutex>>

-----------------------------------------------------------------------------
Init ==
    /\ m_peer = [a \in Endpoints |-> None]
    /\ m_refcount = [a \in Endpoints |-> 1]
    /\ owned = [a \in Endpoints |-> TRUE]
    /\ destroyed = [a \in Endpoints |-> FALSE]
    /\ s_mutex = None
    /\ todo = [t \in Threads |-> <<>>]

Step(t) ==
    \/ Check(t) \/ Ref(t) \/ RefPeer(t) \/ SetPeer(t) \/ Unlock(t)
    \/ Test(t) \/ Swap(t) \/ Deref(t) \/ Delete(t)

Next ==
    \E t \in Threads :
        \/ Step(t)
        \/ \E a, b \in Endpoints : CallConnect(t, a, b)
        \/ \E a \in Endpoints : CallDisconnect(t, a) \/ CallRelease(t, a)

Spec == Init /\ [][Next]_vars

\* Threads keep running; a thread may wait for the mutex for ever.
FairSpec == Spec /\ \A t \in Threads : WF_vars(Step(t))

-----------------------------------------------------------------------------
(* Properties *)

TypeOK ==
    /\ m_peer \in [Endpoints -> Endpoints \cup {None}]
    /\ m_refcount \in [Endpoints -> Nat]
    /\ owned \in [Endpoints -> BOOLEAN]
    /\ destroyed \in [Endpoints -> BOOLEAN]
    /\ s_mutex \in Threads \cup {None}
    /\ todo \in [Threads -> Seq(Steps)]

\* "This is to protect against two threads trying to (dis)connect a pair of call
\* endpoints at the same time": when no operation is under way, each endpoint is
\* the peer of its peer.
PeersMutual ==
    Quiet => \A a \in Endpoints : m_peer[a] # None => m_peer[m_peer[a]] = a

\* No reference is lost or dropped twice: when no operation is under way an
\* endpoint has one for its owner and one for being connected, and one that has
\* none is deleted.
RefsExact ==
    Quiet => \A a \in Endpoints :
        /\ m_refcount[a] = (IF owned[a] THEN 1 ELSE 0) + (IF m_peer[a] # None THEN 1 ELSE 0)
        /\ destroyed[a] <=> m_refcount[a] = 0

\* No step works on an endpoint whose memory is gone, and no endpoint has one as
\* its peer.
NoUseAfterDestroy ==
    /\ \A t \in Threads : ~Idle(t) =>
          LET s == todo[t][1] IN {s.a, s.b} \cap {a \in Endpoints : destroyed[a]} = {}
    /\ \A a \in Endpoints : destroyed[a] =>
          m_peer[a] = None /\ \A b \in Endpoints : m_peer[b] # a

\* The common mutex is always released again, by whatever path connect() returns
\* and however its nested disconnects and destructions take it.
MutexReleased == s_mutex # None ~> s_mutex = None

-----------------------------------------------------------------------------
(* The inductive invariant, for callers that lock. What a thread has still to do *)
(* is read from its end, where the operation began.                              *)

At(l, k) == l[Len(l) + 1 - k]

Drop(a) == S("deref", a, None)

\* What connect() and its caller have still to do, the last step first, ...
Connects(a, b) ==
    <<Drop(b), Drop(a), S("unlock", None, None), S("setPeer", b, a), S("set", a, b),
      S("swap", b, None), S("test", b, None), S("refPeer", a, b), S("swap", a, None),
      S("test", a, None), S("ref", a, b)>>

\* ... the same before it has looked at the peer ...
Checks(a, b) == <<Drop(b), Drop(a), S("unlock", None, None), S("check", a, b)>>

\* ... and a disconnect, or the end of one, or a release.
Disconnects(a) == <<Drop(a), S("swap", a, None), S("test", a, None)>>

\* The list l is the last p steps of f, q references to drop before that, and before
\* these the g steps left of destroying an endpoint.
Destroys(l, e, g) ==
    /\ At(l, Len(l) + 1 - g) = S("delete", e, None)
    /\ g = 3 => /\ At(l, Len(l) - 1) = S("swap", e, None)
                /\ At(l, Len(l)) = S("test", e, None)

Job(l, f, p, q, g) ==
    /\ Len(l) = p + q + g
    /\ \A k \in 1..p : At(l, k) = f[k]
    /\ \A k \in (p + 1)..(p + q) : \E e \in Endpoints : At(l, k) = Drop(e)
    /\ g > 0 => \E e \in Endpoints : Destroys(l, e, g)

\* A connect holds the mutex until it is done, and its two endpoints have no peers
\* from when it has disconnected them until it connects them.
Connecting(t, a, b, p) ==
    /\ p >= 3 => s_mutex = t
    /\ p \in 5..8 => m_peer[a] = None
    /\ p \in 4..5 => m_peer[b] = None
    /\ p = 4 => m_peer[a] = b

OnCourse(t, f, p) ==
    \/ f = <<>>
    \/ \E a \in Endpoints : f = Disconnects(a)
    \/ \E a, b \in Endpoints :
          /\ a # b
          /\ \/ f = Checks(a, b) /\ (p >= 3 => s_mutex = t)
             \/ f = Connects(a, b) /\ Connecting(t, a, b, p)

Courses ==
    {<<>>} \cup {Disconnects(a) : a \in Endpoints}
    \cup {Checks(a, b) : a, b \in Endpoints} \cup {Connects(a, b) : a, b \in Endpoints}

HasCourse(t) ==
    \E f \in Courses : \E p \in 0..Len(f), q \in 0..Len(todo[t]), g \in {0, 1, 3} :
        Job(todo[t], f, p, q, g) /\ OnCourse(t, f, p)

AllOnCourse == \A t \in Threads : HasCourse(t)

\* Of two endpoints one of which has the other as its peer the other has the one, or
\* is about to.
Coupled ==
    \A x \in Endpoints : m_peer[x] # None =>
        /\ m_peer[x] # x
        /\ \/ m_peer[m_peer[x]] = x
           \/ \E t \in Threads : ~Idle(t) /\ todo[t][1] = S("setPeer", m_peer[x], x)

\* The steps of a thread that stand for a reference: the drops, and the pointers that
\* are to be set and whose reference has been taken.
Holds(l, k, x) ==
    /\ At(l, k).a = x
    /\ \/ At(l, k).op = "deref"
       \/ At(l, k).op = "set" /\ \A j \in (k + 1)..Len(l) : At(l, j).op # "ref"
       \/ At(l, k).op = "setPeer" /\ \A j \in (k + 1)..Len(l) : At(l, j).op # "refPeer"

HeldBy(l, x) == {k \in 1..Len(l) : Holds(l, k, x)}

Held(x) == UNION {{t} \X HeldBy(todo[t], x) : t \in Threads}

Counted ==
    \A x \in Endpoints :
        /\ IsFiniteSet(Held(x))
        /\ m_refcount[x] = (IF owned[x] THEN 1 ELSE 0) + (IF m_peer[x] # None THEN 1 ELSE 0)
                           + Cardinality(Held(x))

\* An endpoint without references has been deleted or one thread is about to.
Deletes(l, e) == \E k \in 1..Len(l) : At(l, k) = S("delete", e, None)

Condemned ==
    \A e \in Endpoints :
        /\ destroyed[e] => m_refcount[e] = 0
        /\ m_refcount[e] = 0 => destroyed[e] \/ \E t \in Threads : Deletes(todo[t], e)
        /\ \A t \in Threads : Deletes(todo[t], e) => m_refcount[e] = 0 /\ ~destroyed[e]
        /\ \A t1, t2 \in Threads : Deletes(todo[t1], e) /\ Deletes(todo[t2], e) => t1 = t2

IndInv == TypeOK /\ AllOnCourse /\ Coupled /\ Counted /\ Condemned
=============================================================================
