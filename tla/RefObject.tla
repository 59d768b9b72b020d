------------------------------ MODULE RefObject ------------------------------
(***************************************************************************)
(* RefObject, the reference counting under every channel, endpoint, engine *)
(* and session (engine/TelEngine.cpp: ref(), deref(), zeroRefs()).         *)
(*                                                                         *)
(* An object may be on lists that hold a plain pointer and no reference: a *)
(* finder takes the list's lock, finds the object and calls ref(), which   *)
(* must fail once the last reference is gone; destroyed() takes the object *)
(* off its lists, one lock at a time, before the memory is freed.          *)
(*                                                                         *)
(* ref() (built with ATOMIC_OPS, the default with gcc) adds one and, if    *)
(* that did not give at least two, takes it back: two steps.  A thread     *)
(* stands for one reference that it may hold.                              *)
(***************************************************************************)
EXTENDS Integers, FiniteSets

CONSTANTS
    Threads,        \* threads, each with room for one reference
    Creator,        \* the thread that constructs the object
    Lists,          \* the lists the object is on, each with its lock
    None            \* no thread

ASSUME ThreadAssumption ==
    IsFiniteSet(Threads) /\ Creator \in Threads /\ None \notin Threads

VARIABLES
    m_refcount,     \* the counter
    held,           \* the threads that hold a reference
    listed,         \* the lists that still hold the object
    lock,           \* per list: the thread that has locked it, or None
    pc,             \* per thread: where it is
    gone            \* the memory was freed

vars == <<m_refcount, held, listed, lock, pc, gone>>

\* finding - has found the object on a list and keeps the list locked; undo - its
\* ref() has added one in vain and must take it back; zero - inside zeroRefs().
Phases == {"idle", "finding", "undo", "zero"}

Is(p) == {t \in Threads : pc[t] = p}

Unlocked(t) == [k \in Lists |-> IF lock[k] = t THEN None ELSE lock[k]]

-----------------------------------------------------------------------------
(* ref() *)

\* A thread finds the object on a list, under the list's lock.
Find(t, k) ==
    /\ pc[t] = "idle" /\ t \notin held
    /\ k \in listed /\ lock[k] = None
    /\ lock' = [lock EXCEPT ![k] = t]
    /\ pc' = [pc EXCEPT ![t] = "finding"]
    /\ UNCHANGED <<m_refcount, held, listed, gone>>

\* Faulty: the reference counter is not looked at.
RefUnchecked(t) ==
    /\ pc[t] = "finding"
    /\ m_refcount' = m_refcount + 1
    /\ held' = held \cup {t}
    /\ pc' = [pc EXCEPT ![t] = "idle"]
    /\ lock' = Unlocked(t)
    /\ UNCHANGED <<listed, gone>>

\* ref() up to its result, which the sum of add_and_fetch decides.  The finder
\* unlocks the list when ref() returns.
Ref(t) ==
    /\ pc[t] = "finding"
    /\ m_refcount' = m_refcount + 1
    /\ \/ /\ m_refcount' > 1
          /\ held' = held \cup {t}
          /\ pc' = [pc EXCEPT ![t] = "idle"]
          /\ lock' = Unlocked(t)
       \/ /\ m_refcount' <= 1
          /\ pc' = [pc EXCEPT ![t] = "undo"]
          /\ UNCHANGED <<held, lock>>
    /\ UNCHANGED <<listed, gone>>

\* Faulty: ref() returns without taking the vain increment back.
UndoForgotten(t) ==
    /\ pc[t] = "undo"
    /\ pc' = [pc EXCEPT ![t] = "idle"]
    /\ lock' = Unlocked(t)
    /\ UNCHANGED <<m_refcount, held, listed, gone>>

\* Faulty: the vain increment is taken back twice.
UndoTwice(t) ==
    /\ pc[t] = "undo"
    /\ m_refcount' = m_refcount - 2
    /\ pc' = [pc EXCEPT ![t] = "idle"]
    /\ lock' = Unlocked(t)
    /\ UNCHANGED <<held, listed, gone>>

\* The rest of a ref() that failed: __sync_sub_and_fetch, return false.
Undo(t) ==
    /\ pc[t] = "undo"
    /\ m_refcount' = m_refcount - 1
    /\ pc' = [pc EXCEPT ![t] = "idle"]
    /\ lock' = Unlocked(t)
    /\ UNCHANGED <<held, listed, gone>>

\* A thread with a reference gives another thread one: RefPointer's assign().
Copy(t, u) ==
    /\ pc[t] = "idle" /\ t \in held
    /\ pc[u] = "idle" /\ u \notin held
    /\ m_refcount' = m_refcount + 1
    /\ held' = held \cup {u}
    /\ UNCHANGED <<listed, lock, pc, gone>>

-----------------------------------------------------------------------------
(* deref() *)

\* Faulty: the object is destroyed when one reference is left.
DerefEarly(t) ==
    /\ pc[t] = "idle" /\ t \in held
    /\ m_refcount' = m_refcount - 1
    /\ held' = held \ {t}
    /\ pc' = [pc EXCEPT ![t] = IF m_refcount <= 2 THEN "zero" ELSE @]
    /\ UNCHANGED <<listed, lock, gone>>

\* Faulty: deref() tests for a counter below one after the decrement was lost.
DerefNever(t) ==
    /\ pc[t] = "idle" /\ t \in held
    /\ m_refcount' = m_refcount - 1
    /\ held' = held \ {t}
    /\ pc' = [pc EXCEPT ![t] = IF m_refcount = 0 THEN "zero" ELSE @]
    /\ UNCHANGED <<listed, lock, gone>>

\* The decrement; the one that took the last reference goes on to zeroRefs().
Deref(t) ==
    /\ pc[t] = "idle" /\ t \in held
    /\ m_refcount' = m_refcount - 1
    /\ held' = held \ {t}
    /\ pc' = [pc EXCEPT ![t] = IF m_refcount = 1 THEN "zero" ELSE @]
    /\ UNCHANGED <<listed, lock, gone>>

\* Faulty: destroyed() takes the object off a list somebody is searching.
UnlistUnlocked(t, k) ==
    /\ pc[t] = "zero"
    /\ k \in listed
    /\ listed' = listed \ {k}
    /\ UNCHANGED <<m_refcount, held, lock, pc, gone>>

\* destroyed() takes the object off a list, under the list's lock.
Unlist(t, k) ==
    /\ pc[t] = "zero"
    /\ k \in listed /\ lock[k] = None
    /\ listed' = listed \ {k}
    /\ UNCHANGED <<m_refcount, held, lock, pc, gone>>

\* delete this, the end of zeroRefs().
Delete(t) ==
    /\ pc[t] = "zero"
    /\ listed = {}
    /\ gone' = TRUE
    /\ pc' = [pc EXCEPT ![t] = "idle"]
    /\ UNCHANGED <<m_refcount, held, listed, lock>>

-----------------------------------------------------------------------------
Init ==
    /\ m_refcount = 1
    /\ held = {Creator}
    /\ listed = Lists
    /\ lock = [k \in Lists |-> None]
    /\ pc = [t \in Threads |-> "idle"]
    /\ gone = FALSE

Step(t) ==
    \/ Ref(t) \/ Undo(t) \/ Delete(t)
    \/ \E k \in Lists : Unlist(t, k)

Next ==
    \/ \E t \in Threads : Step(t) \/ Deref(t)
    \/ \E t \in Threads, k \in Lists : Find(t, k)
    \/ \E t, u \in Threads : Copy(t, u)

Spec == Init /\ [][Next]_vars

\* Threads keep running, a mutex is not withheld from one thread for ever.
FairSpec == Spec /\ \A t \in Threads : WF_vars(Ref(t)) /\ WF_vars(Undo(t))
                 /\ WF_vars(Delete(t)) /\ \A k \in Lists : SF_vars(Unlist(t, k))

-----------------------------------------------------------------------------
(* Properties *)

TypeOK ==
    /\ m_refcount \in Nat
    /\ held \subseteq Threads
    /\ listed \subseteq Lists
    /\ lock \in [Lists -> Threads \cup {None}]
    /\ pc \in [Threads -> Phases]
    /\ gone \in BOOLEAN

\* "True if the object was successfully referenced and is safe to access" (ref()):
\* nobody holds a reference to an object that is being destroyed or is freed.
HeldIsAlive == held # {} => ~gone /\ Is("zero") = {}

\* The counter is the number of references, plus the ref() calls about to take a
\* vain increment back: no reference is lost or counted twice.
CountExact == m_refcount = Cardinality(held) + Cardinality(Is("undo"))

\* zeroRefs() runs at most once for an object.
DestroyedOnce ==
    /\ \A t, u \in Is("zero") : t = u
    /\ gone => Is("zero") = {}

\* ref() never touches the counter of an object that is freed.
NoRefAfterDelete == gone => Is("finding") \cup Is("undo") = {}

\* A finder keeps the list on which it found the object locked, so the object
\* stays on it; it has no reference yet; a freed object is on no list.
FoundIsListed ==
    /\ \A t \in Is("finding") \cup Is("undo") :
          t \notin held /\ \E k \in listed : lock[k] = t
    /\ gone => listed = {}

\* The object is being destroyed or freed exactly if nobody holds a reference, and
\* ref() fails only then.
DeadUnheld ==
    /\ held = {} <=> gone \/ Is("zero") # {}
    /\ Is("undo") # {} => held = {}

\* The inductive invariant, for an object on one list.
IndInv == TypeOK /\ CountExact /\ DestroyedOnce /\ FoundIsListed /\ DeadUnheld

\* An object that nobody references is destroyed and freed in the end, though
\* finders go on locking its lists and trying to reference it.
Freed == held = {} ~> gone
=============================================================================
