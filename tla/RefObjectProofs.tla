--------------------------- MODULE RefObjectProofs ---------------------------
(***************************************************************************)
(* Reference counting is safe for any number of threads, for an object     *)
(* that finders reach through one list: they call ref() one at a time.     *)
(* (Run RefObjectLists shows what two lists lead to.)                      *)
(***************************************************************************)
EXTENDS RefObject, FiniteSetTheorems, TLAPS

\* Subsets of the threads are finite, so that their sizes are numbers, and an empty
\* one is one of size zero.
LEMMA SetsOfThreads ==
    ASSUME NEW S, S \subseteq Threads
    PROVE  IsFiniteSet(S) /\ Cardinality(S) \in Nat /\ (Cardinality(S) = 0 <=> S = {})
  BY ThreadAssumption, FS_Subset, FS_CardinalityType, FS_EmptySet

\* What a thread that joins or leaves a set of threads does to its size.
LEMMA SizeChanges ==
    ASSUME NEW S, S \subseteq Threads, NEW t \in Threads
    PROVE  /\ t \notin S => Cardinality(S \cup {t}) = Cardinality(S) + 1
           /\ t \in S => Cardinality(S \ {t}) = Cardinality(S) - 1
  BY SetsOfThreads, FS_AddElement, FS_RemoveElement

LEMMA InitInd == ASSUME Init PROVE IndInv
  <1>1. Is("zero") = {} /\ Is("undo") = {} /\ Is("finding") = {}
    BY DEF Init, Is
  <1>2. TypeOK
    BY ThreadAssumption DEF Init, TypeOK, Phases
  <1>3. Cardinality({Creator}) = 1 /\ Cardinality({}) = 0
    BY FS_Singleton, FS_EmptySet
  <1> QED  BY <1>1, <1>2, <1>3 DEF Init, IndInv, CountExact, DestroyedOnce,
                                   FoundIsListed, DeadUnheld

\* With one list there is at most one thread between finding the object and the
\* end of its ref().
LEMMA OneFinder ==
    ASSUME IndInv, NEW k, Lists = {k},
           NEW t \in Is("finding") \cup Is("undo"), NEW u \in Is("finding") \cup Is("undo")
    PROVE  t = u
  BY DEF IndInv, TypeOK, FoundIsListed

LEMMA FindInd ==
    ASSUME IndInv, NEW t \in Threads, NEW k \in Lists, Find(t, k)
    PROVE  IndInv'
  <1>1. /\ Is("zero")' = Is("zero") /\ Is("undo")' = Is("undo")
        /\ Is("finding")' = Is("finding") \cup {t}
    BY DEF Find, Is, IndInv, TypeOK
  <1>2. TypeOK'
    BY DEF Find, IndInv, TypeOK, Phases
  <1>3. FoundIsListed'
    BY <1>1, ThreadAssumption DEF Find, IndInv, TypeOK, FoundIsListed, Is
  <1> QED  BY <1>1, <1>2, <1>3 DEF Find, IndInv, CountExact, DestroyedOnce, DeadUnheld

\* ref(): only the finder itself can have made the counter exceed the number of
\* references, so the sum is greater than one only if somebody holds one.
LEMMA RefInd ==
    ASSUME IndInv, NEW k, Lists = {k}, NEW t \in Threads, Ref(t)
    PROVE  IndInv'
  <1>1. t \in Is("finding")
    BY DEF Ref, Is
  <1>2. Is("undo") = {}
    BY <1>1, OneFinder DEF Is
  <1>3. m_refcount = Cardinality(held) /\ Cardinality(held) \in Nat /\ held \subseteq Threads
    BY <1>2, SetsOfThreads, FS_EmptySet DEF IndInv, CountExact, TypeOK
  <1>4. Is("finding") = {t}
    BY <1>1, OneFinder
  <1>5. t \in Threads /\ pc[t] = "finding" /\ pc \in [Threads -> Phases]
    BY DEF Ref, IndInv, TypeOK
  <1>6. CASE m_refcount' > 1
    <2>1. held # {}
      BY <1>3, <1>6, SetsOfThreads DEF Ref
    <2>2. gone = FALSE /\ Is("zero") = {}
      BY <2>1 DEF IndInv, DeadUnheld, TypeOK
    <2>3. Is("zero")' = {} /\ Is("undo")' = {} /\ Is("finding")' = {}
      BY <1>2, <1>4, <1>5, <1>6, <2>2 DEF Ref, Is
    <2>4. TypeOK'
      BY <1>3, <1>6 DEF Ref, IndInv, TypeOK, Phases, Unlocked
    <2>5. t \notin held
      BY <1>1 DEF IndInv, FoundIsListed
    <2>6. CountExact'
      <3>1. held' = held \cup {t} /\ m_refcount' = m_refcount + 1
        BY <1>6 DEF Ref
      <3>2. Cardinality(held') = Cardinality(held) + 1
        BY <1>3, <2>5, <3>1, SizeChanges
      <3>3. Cardinality(Is("undo")') = 0
        BY <2>3, FS_EmptySet
      <3> QED  BY <1>3, <3>1, <3>2, <3>3 DEF CountExact
    <2> QED  BY <1>6, <2>1, <2>2, <2>3, <2>4, <2>6
             DEF Ref, IndInv, DestroyedOnce, FoundIsListed, DeadUnheld
  <1>7. CASE m_refcount' <= 1
    <2>1. m_refcount = 0 /\ held = {}
      BY <1>3, <1>7, SetsOfThreads DEF Ref
    <2>2. Is("zero")' = Is("zero") /\ Is("undo")' = {t} /\ Is("finding")' = {}
      BY <1>2, <1>4, <1>5, <1>7 DEF Ref, Is
    <2>3. TypeOK'
      BY <1>3, <1>7 DEF Ref, IndInv, TypeOK, Phases
    <2>4. CountExact'
      BY <1>7, <2>1, <2>2, FS_Singleton, FS_EmptySet DEF Ref, CountExact
    <2>5. FoundIsListed'
      BY <1>1, <1>7, <2>1, <2>2 DEF Ref, IndInv, FoundIsListed
    <2> QED  BY <1>7, <2>1, <2>2, <2>3, <2>4, <2>5
             DEF Ref, IndInv, DestroyedOnce, DeadUnheld
  <1> QED  BY <1>3, <1>6, <1>7 DEF Ref

LEMMA UndoInd ==
    ASSUME IndInv, NEW k, Lists = {k}, NEW t \in Threads, Undo(t)
    PROVE  IndInv'
  <1>1. t \in Is("undo") /\ pc[t] = "undo" /\ pc \in [Threads -> Phases]
    BY DEF Undo, Is, IndInv, TypeOK
  <1>2. Is("undo") = {t} /\ Is("finding") = {}
    BY <1>1, OneFinder DEF Is
  <1>3. held = {} /\ m_refcount = 1
    <2>1. held = {}
      BY <1>1 DEF IndInv, DeadUnheld
    <2>2. Cardinality(held) = 0 /\ Cardinality(Is("undo")) = 1
      BY <1>2, <2>1, FS_Singleton, FS_EmptySet
    <2> QED  BY <2>1, <2>2 DEF IndInv, CountExact
  <1>4. Is("zero")' = Is("zero") /\ Is("undo")' = {} /\ Is("finding")' = {}
    BY <1>1, <1>2 DEF Undo, Is
  <1>5. TypeOK'
    BY <1>3 DEF Undo, IndInv, TypeOK, Phases, Unlocked
  <1>6. CountExact'
    BY <1>3, <1>4, FS_EmptySet DEF Undo, CountExact
  <1> QED  BY <1>3, <1>4, <1>5, <1>6
           DEF Undo, IndInv, DestroyedOnce, FoundIsListed, DeadUnheld

LEMMA CopyInd ==
    ASSUME IndInv, NEW t \in Threads, NEW u \in Threads, Copy(t, u)
    PROVE  IndInv'
  <1>1. Is("zero")' = Is("zero") /\ Is("undo")' = Is("undo")
        /\ Is("finding")' = Is("finding")
    BY DEF Copy, Is
  <1>2. TypeOK'
    BY DEF Copy, IndInv, TypeOK
  <1>3. held \subseteq Threads /\ Cardinality(held') = Cardinality(held) + 1
    BY SizeChanges DEF Copy, IndInv, TypeOK
  <1>4. Is("undo") \subseteq Threads /\ Cardinality(Is("undo")) \in Nat
    BY SetsOfThreads DEF Is
  <1>5. CountExact'
    BY <1>1, <1>3, <1>4, SetsOfThreads DEF Copy, IndInv, CountExact
  <1>6. FoundIsListed'
    BY <1>1 DEF Copy, IndInv, FoundIsListed, Is
  <1> QED  BY <1>1, <1>2, <1>5, <1>6 DEF Copy, IndInv, DestroyedOnce, DeadUnheld

\* deref(): the thread that takes the counter to zero took the last reference.
LEMMA DerefInd ==
    ASSUME IndInv, NEW t \in Threads, Deref(t)
    PROVE  IndInv'
  <1>1. t \in held /\ held \subseteq Threads /\ pc \in [Threads -> Phases] /\ pc[t] = "idle"
    BY DEF Deref, IndInv, TypeOK
  <1>2. gone = FALSE /\ Is("zero") = {} /\ Is("undo") = {}
    BY <1>1 DEF IndInv, DeadUnheld, TypeOK
  <1>3. m_refcount = Cardinality(held) /\ Cardinality(held) \in Nat /\ m_refcount # 0
    BY <1>1, <1>2, SetsOfThreads, FS_EmptySet DEF IndInv, CountExact
  <1>4. held' = held \ {t} /\ m_refcount' = Cardinality(held')
    BY <1>1, <1>3, SizeChanges DEF Deref
  <1>5. held' = {} <=> m_refcount = 1
    BY <1>1, <1>3, <1>4, SetsOfThreads DEF Deref
  <1>6. Is("undo")' = {} /\ Is("finding")' = Is("finding")
    BY <1>1, <1>2 DEF Deref, Is
  <1>7. Is("zero")' = IF m_refcount = 1 THEN {t} ELSE {}
    BY <1>1, <1>2 DEF Deref, Is
  <1>8. TypeOK'
    BY <1>3 DEF Deref, IndInv, TypeOK, Phases
  <1>9. CountExact'
    BY <1>1, <1>4, <1>6, SetsOfThreads, FS_EmptySet DEF CountExact
  <1> QED  BY <1>2, <1>4, <1>5, <1>6, <1>7, <1>8, <1>9
           DEF Deref, IndInv, DestroyedOnce, FoundIsListed, DeadUnheld

LEMMA UnlistInd ==
    ASSUME IndInv, NEW t \in Threads, NEW k \in Lists, Unlist(t, k)
    PROVE  IndInv'
  <1>1. Is("zero")' = Is("zero") /\ Is("undo")' = Is("undo")
        /\ Is("finding")' = Is("finding")
    BY DEF Unlist, Is
  <1>2. TypeOK'
    BY DEF Unlist, IndInv, TypeOK
  <1>3. FoundIsListed'
    BY <1>1, ThreadAssumption DEF Unlist, IndInv, FoundIsListed, Is
  <1> QED  BY <1>1, <1>2, <1>3
           DEF Unlist, IndInv, CountExact, DestroyedOnce, DeadUnheld

LEMMA DeleteInd ==
    ASSUME IndInv, NEW t \in Threads, Delete(t)
    PROVE  IndInv'
  <1>1. t \in Is("zero") /\ pc \in [Threads -> Phases]
    BY DEF Delete, Is, IndInv, TypeOK
  <1>2. Is("zero") = {t}
    BY <1>1 DEF IndInv, DestroyedOnce
  <1>3. Is("zero")' = {} /\ Is("undo")' = Is("undo") /\ Is("finding")' = Is("finding")
    BY <1>1, <1>2 DEF Delete, Is
  <1>4. TypeOK'
    BY DEF Delete, IndInv, TypeOK, Phases
  <1> QED  BY <1>1, <1>3, <1>4
           DEF Delete, IndInv, CountExact, DestroyedOnce, FoundIsListed, DeadUnheld

LEMMA NextInd ==
    ASSUME NEW k, Lists = {k}
    PROVE  IndInv /\ [Next]_vars => IndInv'
  <1> SUFFICES ASSUME IndInv, [Next]_vars PROVE IndInv'
    OBVIOUS
  <1>1. CASE UNCHANGED vars
    BY <1>1 DEF vars, IndInv, TypeOK, CountExact, DestroyedOnce, FoundIsListed,
                DeadUnheld, Is
  <1>2. CASE Next
    <2>1. ASSUME NEW t \in Threads, Step(t) PROVE IndInv'
      BY <2>1, RefInd, UndoInd, DeleteInd, UnlistInd DEF Step
    <2> QED  BY <1>2, <2>1, DerefInd, FindInd, CopyInd DEF Next
  <1> QED  BY <1>1, <1>2

\* For an object that is found through one list the inductive invariant holds, for
\* every number of threads.
THEOREM IndInvAlways ==
    ASSUME NEW k, Lists = {k}
    PROVE  Spec => []IndInv
  <1>1. Init => IndInv
    BY InitInd
  <1>2. IndInv /\ [Next]_vars => IndInv'
    BY NextInd
  <1> QED  BY <1>1, <1>2, PTL DEF Spec

\* A reference that ref() granted keeps the object from being destroyed.
THEOREM ReferencedIsAlive ==
    ASSUME NEW k, Lists = {k}
    PROVE  Spec => []HeldIsAlive
  <1>1. IndInv => HeldIsAlive
    BY DEF IndInv, DeadUnheld, HeldIsAlive
  <1> QED  BY <1>1, IndInvAlways, PTL

\* No reference is lost or counted twice.
THEOREM ReferencesCounted ==
    ASSUME NEW k, Lists = {k}
    PROVE  Spec => []CountExact
  <1>1. IndInv => CountExact
    BY DEF IndInv
  <1> QED  BY <1>1, IndInvAlways, PTL

\* zeroRefs() runs at most once.
THEOREM DestroyedOnlyOnce ==
    ASSUME NEW k, Lists = {k}
    PROVE  Spec => []DestroyedOnce
  <1>1. IndInv => DestroyedOnce
    BY DEF IndInv
  <1> QED  BY <1>1, IndInvAlways, PTL

\* ref() never works on freed memory.
THEOREM DeletedIsUntouched ==
    ASSUME NEW k, Lists = {k}
    PROVE  Spec => []NoRefAfterDelete
  <1>1. IndInv => NoRefAfterDelete
    BY DEF IndInv, FoundIsListed, NoRefAfterDelete
  <1> QED  BY <1>1, IndInvAlways, PTL

\* Every variable keeps its type; the counter, counted down after a failed ref(),
\* never gets below zero.
THEOREM TypeCorrect ==
    ASSUME NEW k, Lists = {k}
    PROVE  Spec => []TypeOK
  <1>1. IndInv => TypeOK
    BY DEF IndInv
  <1> QED  BY <1>1, IndInvAlways, PTL
=============================================================================
