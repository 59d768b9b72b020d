--------------------------- MODULE PostHooksProofs ---------------------------
(***************************************************************************)
(* The hook walk is safe and complete for any number of threads, hooks and *)
(* list nodes, when the lock is exclusive.  (Run PostHooksShared shows     *)
(* what a shared lock leads to.)                                           *)
(***************************************************************************)
EXTENDS PostHooks, FiniteSetTheorems, WellFoundedInduction, TLAPS

(***************************************************************************)
(* Numbers and sets of threads                                             *)
(***************************************************************************)

Below == {pair \in Nat \X Nat : pair[1] < pair[2]}

LEMMA BelowWellFounded == IsWellFoundedOn(Below, Nat)
  BY NatLessThanWellFounded DEF OpToRel, Below

\* A set of numbers that is not empty has a smallest one.
LEMMA Smallest ==
    ASSUME NEW S, S \subseteq Nat, S # {}
    PROVE  \E m \in S : \A k \in S : m <= k
  <1>1. PICK m \in S : \A k \in S : <<k, m>> \notin Below
    BY BelowWellFounded, WFMin
  <1>2. \A k \in S : ~(k < m)
    BY <1>1 DEF Below
  <1> QED  BY <1>2

\* What a thread that starts or ends its walk does to the number of walks.
LEMMA CountChanges ==
    ASSUME NEW S, S \subseteq Threads, NEW t \in Threads
    PROVE  /\ Cardinality(S) \in Nat /\ (Cardinality(S) = 0 <=> S = {})
           /\ t \notin S => Cardinality(S \cup {t}) = Cardinality(S) + 1
           /\ t \in S => Cardinality(S \ {t}) = Cardinality(S) - 1
  <1>1. IsFiniteSet(S)
    BY ThreadAssumption, FS_Subset
  <1> QED  BY <1>1, FS_CardinalityType, FS_EmptySet, FS_AddElement, FS_RemoveElement

(***************************************************************************)
(* The list                                                                *)
(***************************************************************************)

\* The list as a function from places to nodes.
LEMMA ListShape ==
    ASSUME IndInv
    PROVE  /\ Len(nodes) \in Nat \ {0} /\ nodes \in [1..Len(nodes) -> Nodes]
           /\ nodes \in Seq(Nodes) /\ nodes[1] = HeadNode
           /\ obj \in [Nodes -> Hooks \cup {None}] /\ None \notin Nodes /\ None \notin Hooks
           /\ Listed \subseteq Nodes /\ HeadNode \in Listed
           /\ \A i \in 1..Len(nodes) : nodes[i] \in Listed
           /\ \A i, j \in 1..Len(nodes) : nodes[i] = nodes[j] => i = j
  BY NodeAssumption DEF IndInv, TypeOK, WellLinked, Listed

\* skipNull() and skipNext(): the first hook from a place on, or there is none.
LEMMA FirstFromFinds ==
    ASSUME IndInv, NEW i \in 1..Len(nodes) + 1
    PROVE  \/ /\ FirstFrom(i) = None
              /\ \A k \in i..Len(nodes) : obj[nodes[k]] = None
           \/ \E j \in i..Len(nodes) :
                 /\ FirstFrom(i) = nodes[j] /\ obj[nodes[j]] # None
                 /\ \A k \in i..j - 1 : obj[nodes[k]] = None
  <1> DEFINE full == {j \in i..Len(nodes) : obj[nodes[j]] # None}
             first == CHOOSE j \in full : \A k \in full : j <= k
  <1>1. FirstFrom(i) = IF full = {} THEN None ELSE nodes[first]
    BY DEF FirstFrom
  <1>2. Len(nodes) \in Nat
    BY ListShape
  <1>3. CASE full = {}
    BY <1>1, <1>3
  <1>4. CASE full # {}
    <2>1. full \subseteq Nat
      BY <1>2
    <2>2. \E m \in full : \A k \in full : m <= k
      <3> HIDE DEF full
      <3> QED  BY <1>4, <2>1, Smallest
    <2>3. first \in full /\ \A k \in full : first <= k
      <3> HIDE DEF full
      <3> QED  BY <2>2
    <2> HIDE DEF first
    <2>4. \A k \in i..first - 1 : obj[nodes[k]] = None
      BY <1>2, <2>3
    <2> QED  BY <1>1, <1>4, <2>3, <2>4
  <1> QED  BY <1>3, <1>4

LEMMA PlaceOfFinds ==
    ASSUME IndInv, NEW i \in 1..Len(nodes)
    PROVE  PlaceOf(nodes[i]) = i
  <1>1. \E j \in 1..Len(nodes) : nodes[j] = nodes[i]
    OBVIOUS
  <1>2. PlaceOf(nodes[i]) \in 1..Len(nodes) /\ nodes[PlaceOf(nodes[i])] = nodes[i]
    BY <1>1 DEF PlaceOf
  <1> QED  BY <1>2, ListShape

LEMMA InitInd == ASSUME Init PROVE IndInv
  <1>1. called \in [Threads -> [Hooks -> Nat]]
    BY DEF Init
  <1>2. TypeOK
    <2>1. nodes \in Seq(Nodes) /\ nodes[1] = HeadNode /\ m_hookAppend \in Nodes
      BY NodeAssumption DEF Init
    <2>2. obj \in [Nodes -> Hooks \cup {None}] /\ m_hookCount \in Nat /\ m_hookHole \in BOOLEAN
      BY DEF Init
    <2>3. /\ readers \subseteq Threads /\ pc \in [Threads -> Phases]
          /\ l \in [Threads -> Nodes \cup {None}] /\ reg \in [Threads -> Nat]
      BY DEF Init, Phases
    <2>4. must \in [Threads -> SUBSET Hooks]
      BY DEF Init
    <2> QED  BY <1>1, <2>1, <2>2, <2>3, <2>4 DEF TypeOK
  <1>3. Len(nodes) = 1 /\ nodes[1] = HeadNode /\ nodes # <<>>
    BY DEF Init
  <1>4. WalkOnList /\ AppendOnList
    BY <1>3 DEF Init, WalkOnList, AppendOnList, Walking, Listed
  <1>5. WellLinked
    BY <1>3 DEF WellLinked
  <1>6. {t \in Threads : Walking(t)} = {}
    BY DEF Init, Walking
  <1>7. Exclusive
    BY <1>6, FS_EmptySet DEF Init, Exclusive
  <1>8. \A t \in Threads : OnCourse(t)
    BY DEF Init, OnCourse, Walking
  <1> QED  BY <1>2, <1>4, <1>5, <1>7, <1>8 DEF IndInv

(***************************************************************************)
(* Steps of the walk, which leave the list alone                           *)
(***************************************************************************)

LEMMA SameList ==
    ASSUME IndInv, UNCHANGED <<nodes, obj, m_hookAppend>>
    PROVE  Listed' = Listed /\ Set' = Set /\ AppendOnList' /\ WellLinked'
  BY DEF IndInv, Listed, Set, AppendOnList, WellLinked

\* A thread that a step does not concern stays on its course.
LEMMA OthersKeep ==
    ASSUME IndInv, NEW u \in Threads, UNCHANGED <<nodes, obj>>, pc'[u] = pc[u], l'[u] = l[u],
           must'[u] = must[u], called'[u] = called[u]
    PROVE  OnCourse(u)'
  BY DEF IndInv, OnCourse, Walking, Passed, Set, Listed

LEMMA EnterHooksInd ==
    ASSUME ~SharedReaders, IndInv, NEW t \in Threads, EnterHooks(t)
    PROVE  IndInv'
  <1>1. /\ pc \in [Threads -> Phases] /\ pc[t] = "idle" /\ pc' = [pc EXCEPT ![t] = "enter"]
        /\ readers = {} /\ readers' = {t}
        /\ must \in [Threads -> SUBSET Hooks] /\ must' = [must EXCEPT ![t] = Set]
        /\ UNCHANGED <<nodes, obj, m_hookAppend, m_hookCount, m_hookHole, l, reg, called>>
    BY DEF EnterHooks, MayRead, IndInv, TypeOK, list
  <1>2. Listed' = Listed /\ Set' = Set /\ AppendOnList' /\ WellLinked'
    BY <1>1, SameList
  <1>3. \A u \in Threads : Walking(u)' <=> Walking(u)
    BY <1>1 DEF Walking
  <1>4. Set \subseteq Hooks
    BY ListShape DEF Set
  <1>5. TypeOK'
    BY <1>1, <1>4 DEF IndInv, TypeOK, Phases
  <1>6. WalkOnList'
    BY <1>1, <1>2, <1>3 DEF IndInv, WalkOnList
  <1>7. Exclusive'
    <2>1. {u \in Threads : Walking(u)}' = {u \in Threads : Walking(u)}
      BY <1>3
    <2> QED  BY <1>1, <2>1 DEF IndInv, Exclusive
  <1>8. \A u \in Threads : OnCourse(u)'
    <2>1. OnCourse(t)'
      BY <1>1, <1>2 DEF IndInv, OnCourse, Walking
    <2>2. ASSUME NEW u \in Threads, u # t PROVE OnCourse(u)'
      BY <1>1, <2>2, OthersKeep
    <2> QED  BY <2>1, <2>2
  <1> QED  BY <1>2, <1>5, <1>6, <1>7, <1>8 DEF IndInv

LEMMA StartWalkInd ==
    ASSUME IndInv, NEW t \in Threads, StartWalk(t)
    PROVE  IndInv'
  <1> DEFINE walks == {u \in Threads : Walking(u)}
  <1>1. /\ pc \in [Threads -> Phases] /\ pc[t] = "inc" /\ pc' = [pc EXCEPT ![t] = "walk"]
        /\ reg \in [Threads -> Nat] /\ reg' = [reg EXCEPT ![t] = 0]
        /\ l \in [Threads -> Nodes \cup {None}] /\ l' = [l EXCEPT ![t] = FirstFrom(1)]
        /\ m_hookCount' = m_hookCount + 1 /\ m_hookCount \in Nat
        /\ UNCHANGED <<nodes, obj, m_hookAppend, m_hookHole, readers, must, called>>
        /\ t \in readers /\ \A u \in readers : u = t
    BY DEF StartWalk, IndInv, TypeOK, Exclusive, list
  <1>2. Listed' = Listed /\ Set' = Set /\ AppendOnList' /\ WellLinked'
    BY <1>1, SameList
  <1>3. \/ /\ FirstFrom(1) = None
           /\ \A k \in 1..Len(nodes) : obj[nodes[k]] = None
        \/ \E j \in 1..Len(nodes) :
              /\ FirstFrom(1) = nodes[j] /\ obj[nodes[j]] # None
              /\ \A k \in 1..j - 1 : obj[nodes[k]] = None
    BY ListShape, FirstFromFinds
  <1>4. FirstFrom(1) \in Listed \cup {None} /\ Listed \subseteq Nodes
    BY <1>3, ListShape DEF Listed
  <1>5. TypeOK'
    BY <1>1, <1>4 DEF IndInv, TypeOK, Phases
  <1>6. WalkOnList'
    BY <1>1, <1>2, <1>4 DEF IndInv, WalkOnList, Walking
  <1>7. Exclusive'
    <2>1. walks' = walks \cup {t} /\ t \notin walks
      BY <1>1 DEF Walking
    <2>2. Cardinality(walks') = m_hookCount + 1
      BY <2>1, CountChanges DEF IndInv, Exclusive
    <2>3. \A u \in Threads : u # t => pc[u] \notin {"inc", "dec"}
      BY <1>1 DEF IndInv, Exclusive
    <2>4. \A u \in Threads : u \in readers' <=> pc'[u] \in {"enter", "inc", "walk", "dec"}
      BY <1>1 DEF IndInv, Exclusive
    <2>5. \A u \in Threads : pc'[u] \in {"inc", "dec"} => reg'[u] = m_hookCount'
      BY <1>1, <2>3
    <2> QED  BY <1>1, <2>2, <2>4, <2>5 DEF Exclusive
  <1>8. \A u \in Threads : OnCourse(u)'
    <2>1. /\ \A h \in Hooks : called[t][h] = 0
          /\ must[t] \subseteq Set /\ must[t] \subseteq Hooks
      BY <1>1 DEF IndInv, OnCourse, Walking, TypeOK
    <2>2. ASSUME NEW i \in 1..Len(nodes), obj[nodes[i]] # None PROVE ~Passed(t, i)'
      <3>1. PICK j \in 1..Len(nodes) :
              /\ FirstFrom(1) = nodes[j] /\ obj[nodes[j]] # None
              /\ \A k \in 1..j - 1 : obj[nodes[k]] = None
        BY <1>3, <2>2
      <3>2. i >= j
        BY <2>2, <3>1, ListShape
      <3>3. l'[t] = nodes[j] /\ l'[t] # None /\ pc'[t] = "walk"
        BY <1>1, <3>1, ListShape
      <3>4. \A p \in 1..Len(nodes) : nodes[p] = l'[t] => p = j
        BY <3>3, ListShape
      <3> QED  BY <1>1, <3>2, <3>3, <3>4 DEF Passed
    <2>3. l'[t] # None => obj'[l'[t]] # None
      BY <1>1, <1>3
    <2>4. ASSUME NEW i \in 1..Len(nodes'), obj'[nodes'[i]] \in must'[t]
          PROVE  called'[t][obj'[nodes'[i]]] = IF Passed(t, i)' THEN 1 ELSE 0
      <3>1. obj[nodes[i]] \in Hooks /\ obj[nodes[i]] # None
        BY <1>1, <2>1, <2>4, NodeAssumption
      <3>2. ~Passed(t, i)'
        BY <1>1, <2>2, <3>1
      <3> QED  BY <1>1, <2>1, <3>1, <3>2
    <2>5. OnCourse(t)'
      BY <1>1, <1>2, <2>1, <2>3, <2>4 DEF OnCourse, Walking
    <2>6. ASSUME NEW u \in Threads, u # t PROVE OnCourse(u)'
      BY <1>1, <2>6, OthersKeep
    <2> QED  BY <2>5, <2>6
  <1> QED  BY <1>2, <1>5, <1>6, <1>7, <1>8 DEF IndInv

LEMMA CallHookInd ==
    ASSUME IndInv, NEW t \in Threads, CallHook(t)
    PROVE  IndInv'
  <1> DEFINE hook == obj[l[t]]
  <1>1. /\ pc \in [Threads -> Phases] /\ pc[t] = "walk" /\ pc' = [pc EXCEPT ![t] = "calling"]
        /\ l[t] # None /\ readers' = readers \ {t}
        /\ UNCHANGED <<nodes, obj, m_hookAppend, m_hookCount, m_hookHole, l, reg, must>>
        /\ t \in readers /\ \A u \in readers : u = t
    BY DEF CallHook, IndInv, TypeOK, Exclusive, list
  <1>2. Listed' = Listed /\ Set' = Set /\ AppendOnList' /\ WellLinked'
    BY <1>1, SameList
  <1>3. l[t] \in Listed /\ hook \in Hooks /\ hook # None
    BY <1>1, ListShape DEF IndInv, WalkOnList, Walking, OnCourse
  <1>4. PICK p \in 1..Len(nodes) : nodes[p] = l[t]
    BY <1>3 DEF Listed
  <1>5. /\ called \in [Threads -> [Hooks -> Nat]] /\ called' \in [Threads -> [Hooks -> Nat]]
        /\ \A u \in Threads : u # t => called'[u] = called[u]
        /\ \A h \in Hooks : called'[t][h] = IF h = hook THEN called[t][h] + 1 ELSE called[t][h]
    <2>1. called \in [Threads -> [Hooks -> Nat]]
      BY DEF IndInv, TypeOK
    <2>2. called' = [called EXCEPT ![t] = [called[t] EXCEPT ![hook] = called[t][hook] + 1]]
      BY DEF CallHook
    <2>3. [called[t] EXCEPT ![hook] = called[t][hook] + 1] \in [Hooks -> Nat]
      BY <1>3, <2>1
    <2> QED  BY <1>3, <2>1, <2>2, <2>3
  <1>6. \A u \in Threads : Walking(u)' <=> Walking(u)
    BY <1>1 DEF Walking
  <1>7. TypeOK'
    BY <1>1, <1>5 DEF IndInv, TypeOK, Phases
  <1>8. WalkOnList'
    BY <1>1, <1>2, <1>6 DEF IndInv, WalkOnList
  <1>9. Exclusive'
    <2>1. {u \in Threads : Walking(u)}' = {u \in Threads : Walking(u)}
      BY <1>6
    <2> QED  BY <1>1, <2>1 DEF IndInv, Exclusive
  <1>10. OnCourse(t)'
    <2>1. ASSUME NEW i \in 1..Len(nodes), obj[nodes[i]] \in must[t]
          PROVE  called'[t][obj[nodes[i]]] = IF Passed(t, i)' THEN 1 ELSE 0
      <3>1. called[t][obj[nodes[i]]] = IF Passed(t, i) THEN 1 ELSE 0
        BY <1>1, <2>1 DEF IndInv, OnCourse, Walking
      <3>2. Passed(t, i) <=> i < p
        BY <1>1, <1>4, ListShape DEF Passed
      <3>3. Passed(t, i)' <=> i <= p
        BY <1>1, <1>4, ListShape DEF Passed
      <3>4. obj[nodes[i]] = hook => i = p
        BY <1>3, <1>4 DEF IndInv, WellLinked
      <3>5. obj[nodes[i]] \in Hooks
        BY <2>1 DEF IndInv, TypeOK
      <3>6. CASE i = p
        BY <1>4, <1>5, <3>1, <3>2, <3>3, <3>5, <3>6, ListShape
      <3>7. CASE i # p
        BY <1>5, <3>1, <3>2, <3>3, <3>4, <3>5, <3>7, ListShape
      <3> QED  BY <3>6, <3>7
    <2> QED  BY <1>1, <1>2, <2>1 DEF IndInv, OnCourse, Walking
  <1>11. \A u \in Threads : u # t => OnCourse(u)'
    BY <1>1, <1>5, OthersKeep
  <1> QED  BY <1>2, <1>7, <1>8, <1>9, <1>10, <1>11 DEF IndInv

LEMMA HookReturnsInd ==
    ASSUME ~SharedReaders, IndInv, NEW t \in Threads, HookReturns(t)
    PROVE  IndInv'
  <1>1. /\ pc \in [Threads -> Phases] /\ pc[t] = "calling" /\ pc' = [pc EXCEPT ![t] = "walk"]
        /\ readers = {} /\ readers' = {t} /\ l[t] \in Listed
        /\ l \in [Threads -> Nodes \cup {None}]
        /\ l' = [l EXCEPT ![t] = FirstFrom(PlaceOf(l[t]) + 1)]
        /\ UNCHANGED <<nodes, obj, m_hookAppend, m_hookCount, m_hookHole, reg, must, called>>
    BY DEF HookReturns, MayRead, IndInv, TypeOK, list
  <1>2. Listed' = Listed /\ Set' = Set /\ AppendOnList' /\ WellLinked'
    BY <1>1, SameList
  <1>3. PICK p \in 1..Len(nodes) : nodes[p] = l[t]
    BY <1>1 DEF Listed
  <1>4. PlaceOf(l[t]) = p /\ p + 1 \in 1..Len(nodes) + 1
    BY <1>3, PlaceOfFinds, ListShape
  <1>5. \/ /\ FirstFrom(p + 1) = None
           /\ \A k \in p + 1..Len(nodes) : obj[nodes[k]] = None
        \/ \E j \in p + 1..Len(nodes) :
              /\ FirstFrom(p + 1) = nodes[j] /\ obj[nodes[j]] # None
              /\ \A k \in p + 1..j - 1 : obj[nodes[k]] = None
    BY <1>4, FirstFromFinds
  <1>6. l'[t] = FirstFrom(p + 1) /\ l'[t] \in Listed \cup {None} /\ Listed \subseteq Nodes
    <2>1. \A j \in p + 1..Len(nodes) : j \in 1..Len(nodes)
      BY <1>4, ListShape
    <2> QED  BY <1>1, <1>4, <1>5, <2>1, ListShape
  <1>7. \A u \in Threads : Walking(u)' <=> Walking(u)
    BY <1>1 DEF Walking
  <1>8. TypeOK'
    BY <1>1, <1>4, <1>6 DEF IndInv, TypeOK, Phases
  <1>9. WalkOnList'
    BY <1>1, <1>2, <1>6, <1>7 DEF IndInv, WalkOnList
  <1>10. Exclusive'
    <2>1. {u \in Threads : Walking(u)}' = {u \in Threads : Walking(u)}
      BY <1>7
    <2> QED  BY <1>1, <2>1 DEF IndInv, Exclusive
  <1>11. OnCourse(t)'
    <2>1. ASSUME NEW i \in 1..Len(nodes), obj[nodes[i]] # None
          PROVE  Passed(t, i)' <=> Passed(t, i)
      <3>1. Passed(t, i) <=> i <= p
        BY <1>1, <1>3, ListShape DEF Passed
      <3>2. CASE l'[t] = None
        <4>1. i <= p
          <5>1. \A j \in p + 1..Len(nodes) : nodes[j] # None
            BY <1>4, ListShape
          <5>2. \A k \in p + 1..Len(nodes) : obj[nodes[k]] = None
            BY <1>5, <1>6, <3>2, <5>1
          <5> QED  BY <1>4, <2>1, <5>2, ListShape
        <4> QED  BY <3>1, <3>2, <4>1 DEF Passed
      <3>3. CASE l'[t] # None
        <4>1. PICK j \in p + 1..Len(nodes) :
                /\ FirstFrom(p + 1) = nodes[j] /\ obj[nodes[j]] # None
                /\ \A k \in p + 1..j - 1 : obj[nodes[k]] = None
          BY <1>5, <1>6, <3>3
        <4>2. j \in 1..Len(nodes) /\ j > p /\ ~(p < i /\ i < j)
          BY <1>4, <2>1, <4>1, ListShape
        <4>3. Passed(t, i)' <=> i < j
          BY <1>1, <1>6, <3>3, <4>1, <4>2, ListShape DEF Passed
        <4> QED  BY <3>1, <4>2, <4>3, ListShape
      <3> QED  BY <3>2, <3>3
    <2>2. l'[t] # None => obj[l'[t]] # None
      BY <1>5, <1>6
    <2>3. ASSUME NEW i \in 1..Len(nodes), obj[nodes[i]] \in must[t]
          PROVE  called[t][obj[nodes[i]]] = IF Passed(t, i)' THEN 1 ELSE 0
      <3>1. obj[nodes[i]] # None
        BY <2>3, ListShape DEF IndInv, TypeOK
      <3> QED  BY <1>1, <2>1, <2>3, <3>1 DEF IndInv, OnCourse, Walking
    <2> QED  BY <1>1, <1>2, <2>2, <2>3 DEF IndInv, OnCourse, Walking
  <1>12. \A u \in Threads : u # t => OnCourse(u)'
    BY <1>1, OthersKeep
  <1> QED  BY <1>2, <1>8, <1>9, <1>10, <1>11, <1>12 DEF IndInv

LEMMA EndWalkInd ==
    ASSUME IndInv, NEW t \in Threads, EndWalk(t)
    PROVE  IndInv'
  <1>1. /\ pc \in [Threads -> Phases] /\ pc[t] = "walk" /\ pc' = [pc EXCEPT ![t] = "dec"]
        /\ l[t] = None /\ m_hookCount \in Nat
        /\ reg \in [Threads -> Nat] /\ reg' = [reg EXCEPT ![t] = m_hookCount]
        /\ UNCHANGED <<nodes, obj, m_hookAppend, m_hookCount, m_hookHole, readers, l, must, called>>
    BY DEF EndWalk, IndInv, TypeOK, list
  <1>2. Listed' = Listed /\ Set' = Set /\ AppendOnList' /\ WellLinked'
    BY <1>1, SameList
  <1>3. \A u \in Threads : Walking(u)' <=> Walking(u)
    BY <1>1 DEF Walking
  <1>4. TypeOK'
    BY <1>1 DEF IndInv, TypeOK, Phases
  <1>5. WalkOnList'
    BY <1>1, <1>2, <1>3 DEF IndInv, WalkOnList
  <1>6. Exclusive'
    <2>1. {u \in Threads : Walking(u)}' = {u \in Threads : Walking(u)}
      BY <1>3
    <2> QED  BY <1>1, <2>1 DEF IndInv, Exclusive
  <1>7. OnCourse(t)'
    BY <1>1, <1>2 DEF IndInv, OnCourse, Walking, Passed
  <1>8. \A u \in Threads : u # t => OnCourse(u)'
    BY <1>1, OthersKeep
  <1> QED  BY <1>2, <1>4, <1>5, <1>6, <1>7, <1>8 DEF IndInv

LEMMA LeaveHooksInd ==
    ASSUME IndInv, NEW t \in Threads, LeaveHooks(t)
    PROVE  IndInv'
  <1> DEFINE walks == {u \in Threads : Walking(u)}
  <1>1. /\ pc \in [Threads -> Phases] /\ pc[t] = "dec" /\ pc' = [pc EXCEPT ![t] = "idle"]
        /\ reg \in [Threads -> Nat] /\ reg' = [reg EXCEPT ![t] = 0]
        /\ must \in [Threads -> SUBSET Hooks] /\ must' = [must EXCEPT ![t] = {}]
        /\ called \in [Threads -> [Hooks -> Nat]] /\ called' = [called EXCEPT ![t] = [h \in Hooks |-> 0]]
        /\ m_hookCount' = m_hookCount - 1 /\ m_hookCount \in Nat
        /\ readers' = readers \ {t} /\ t \in readers /\ \A u \in readers : u = t
        /\ UNCHANGED <<nodes, obj, m_hookAppend, m_hookHole, l>>
    BY DEF LeaveHooks, IndInv, TypeOK, Exclusive, list
  <1>2. Listed' = Listed /\ Set' = Set /\ AppendOnList' /\ WellLinked'
    BY <1>1, SameList
  <1>3. walks' = walks \ {t} /\ t \in walks
    BY <1>1 DEF Walking
  <1>4. Cardinality(walks') = m_hookCount - 1 /\ m_hookCount # 0
    <2>1. m_hookCount = Cardinality(walks) /\ walks \subseteq Threads /\ walks # {}
      BY <1>3 DEF IndInv, Exclusive
    <2> HIDE DEF walks
    <2> QED  BY <1>3, <2>1, CountChanges
  <1>5. TypeOK'
    <2>1. m_hookCount' \in Nat
      BY <1>1, <1>4
    <2>2. called' \in [Threads -> [Hooks -> Nat]]
      <3>1. [h \in Hooks |-> 0] \in [Hooks -> Nat]
        OBVIOUS
      <3> QED  BY <1>1, <3>1
    <2> QED  BY <1>1, <2>1, <2>2 DEF IndInv, TypeOK, Phases
  <1>6. WalkOnList'
    BY <1>1, <1>2, <1>3 DEF IndInv, WalkOnList, Walking
  <1>7. Exclusive'
    <2>1. \A u \in Threads : u # t => pc[u] \notin {"inc", "dec"}
      BY <1>1 DEF IndInv, Exclusive
    <2>2. \A u \in Threads : u \in readers' <=> pc'[u] \in {"enter", "inc", "walk", "dec"}
      BY <1>1 DEF IndInv, Exclusive
    <2>3. \A u \in Threads : pc'[u] \in {"inc", "dec"} => reg'[u] = m_hookCount'
      BY <1>1, <2>1
    <2> QED  BY <1>1, <1>4, <2>2, <2>3 DEF Exclusive
  <1>8. OnCourse(t)'
    BY <1>1 DEF OnCourse, Walking
  <1>9. \A u \in Threads : u # t => OnCourse(u)'
    BY <1>1, OthersKeep
  <1> QED  BY <1>2, <1>5, <1>6, <1>7, <1>8, <1>9 DEF IndInv

(***************************************************************************)
(* Steps that change the list                                              *)
(***************************************************************************)

\* While nobody reads, a thread has no walk or is in the middle of one.
LEMMA NobodyReads ==
    ASSUME IndInv, readers = {}, NEW u \in Threads
    PROVE  pc[u] \in {"idle", "calling"}
  BY DEF IndInv, TypeOK, Exclusive, Phases

\* What stays when a step changes only the list and the hooks that must be called.
LEMMA SameWalks ==
    ASSUME IndInv, UNCHANGED <<m_hookCount, readers, pc, l, reg, called>>
    PROVE  Exclusive' /\ \A u \in Threads : Walking(u)' <=> Walking(u)
  <1>1. \A u \in Threads : Walking(u)' <=> Walking(u)
    BY DEF Walking
  <1>2. {u \in Threads : Walking(u)}' = {u \in Threads : Walking(u)}
    BY <1>1
  <1> QED  BY <1>1, <1>2 DEF IndInv, Exclusive

\* setHook(hook): either way the hook is in the last node of the new list.
LEMMA Appended ==
    ASSUME IndInv, NEW t \in Threads, NEW h \in Hooks, AddHook(t, h)
    PROVE  /\ nodes' \in Seq(Nodes) /\ Len(nodes') \in {Len(nodes), Len(nodes) + 1}
           /\ \A i \in 1..Len(nodes) : nodes'[i] = nodes[i]
           /\ \A i \in 1..Len(nodes') : i # Len(nodes') => i \in 1..Len(nodes)
           /\ nodes'[Len(nodes')] = m_hookAppend' /\ m_hookAppend' \in Nodes
           /\ obj' = [obj EXCEPT ![m_hookAppend'] = h]
           /\ m_hookAppend' \in Listed => Len(nodes') = Len(nodes) /\ obj[m_hookAppend'] = None
           /\ \A i, j \in 1..Len(nodes') : nodes'[i] = nodes'[j] => i = j
  <1>1. Last(nodes) = nodes[Len(nodes)] /\ Len(nodes) \in 1..Len(nodes)
    BY ListShape DEF Last
  <1>2. CASE /\ obj[Last(nodes)] = None /\ obj' = [obj EXCEPT ![Last(nodes)] = h]
             /\ m_hookAppend' = Last(nodes) /\ UNCHANGED nodes
    BY <1>1, <1>2, ListShape
  <1>3. CASE \E n \in Nodes \ Listed :
                /\ nodes' = Append(nodes, n) /\ obj' = [obj EXCEPT ![n] = h]
                /\ m_hookAppend' = n
    <2>1. PICK n \in Nodes \ Listed :
                /\ nodes' = Append(nodes, n) /\ obj' = [obj EXCEPT ![n] = h]
                /\ m_hookAppend' = n
      BY <1>3
    <2>2. /\ nodes' \in Seq(Nodes) /\ Len(nodes') = Len(nodes) + 1 /\ nodes'[Len(nodes) + 1] = n
          /\ \A i \in 1..Len(nodes) : nodes'[i] = nodes[i]
      BY <2>1, ListShape
    <2>3. \A i \in 1..Len(nodes') : i # Len(nodes') => i \in 1..Len(nodes)
      BY <2>2, ListShape
    <2>4. \A i \in 1..Len(nodes) : nodes[i] # n
      BY <2>1, ListShape
    <2>5. \A i, j \in 1..Len(nodes') : nodes'[i] = nodes'[j] => i = j
      BY <2>2, <2>3, <2>4, ListShape
    <2> QED  BY <2>1, <2>2, <2>3, <2>5
  <1> QED  BY <1>2, <1>3 DEF AddHook

LEMMA AddHookInd ==
    ASSUME IndInv, NEW t \in Threads, NEW h \in Hooks, AddHook(t, h)
    PROVE  IndInv'
  <1>1. /\ readers = {} /\ h \notin Set
        /\ UNCHANGED <<m_hookCount, m_hookHole, readers, pc, l, reg, must, called>>
    BY DEF AddHook, MaySetHook
  <1> DEFINE last == Len(nodes')
  <1>2. /\ nodes' \in Seq(Nodes) /\ last \in {Len(nodes), Len(nodes) + 1}
        /\ \A i \in 1..Len(nodes) : nodes'[i] = nodes[i]
        /\ \A i \in 1..last : i # last => i \in 1..Len(nodes)
        /\ nodes'[last] = m_hookAppend' /\ m_hookAppend' \in Nodes
        /\ obj' = [obj EXCEPT ![m_hookAppend'] = h]
        /\ m_hookAppend' \in Listed => last = Len(nodes) /\ obj[m_hookAppend'] = None
        /\ \A i, j \in 1..last : nodes'[i] = nodes'[j] => i = j
    BY Appended
  <1>3. 1..Len(nodes) \subseteq 1..last /\ last \in 1..last /\ last \in Nat
    BY <1>2, ListShape
  <1>4. \A i \in 1..last : i # last => obj'[nodes'[i]] = obj[nodes[i]] /\ nodes'[i] # nodes'[last]
    BY <1>2, <1>3, ListShape
  <1>5. obj'[nodes'[last]] = h /\ h # None
    BY <1>2, ListShape
  <1>6. Listed \subseteq Listed' /\ m_hookAppend' \in Listed' /\ Listed' \subseteq Nodes
    BY <1>2, <1>3 DEF Listed
  <1>7. Set \subseteq Set'
    <2>1. ASSUME NEW n \in Listed, obj[n] # None PROVE obj'[n] = obj[n]
      BY <1>2, <2>1, ListShape
    <2> QED  BY <1>6, <2>1 DEF Set
  <1>8. Exclusive' /\ \A u \in Threads : Walking(u)' <=> Walking(u)
    BY <1>1, SameWalks
  <1>9. TypeOK'
    <2>1. obj' \in [Nodes -> Hooks \cup {None}]
      BY <1>2, ListShape
    <2>2. nodes'[1] = HeadNode
      BY <1>2, ListShape
    <2> QED  BY <1>1, <1>2, <2>1, <2>2 DEF IndInv, TypeOK
  <1>10. AppendOnList' /\ WalkOnList'
    BY <1>1, <1>6, <1>8 DEF IndInv, AppendOnList, WalkOnList
  <1>11. WellLinked'
    <2>1. nodes' # <<>>
      BY <1>3
    <2>2. ASSUME NEW i \in 1..last, NEW j \in 1..last,
                 obj'[nodes'[i]] = obj'[nodes'[j]], obj'[nodes'[i]] # None
          PROVE  i = j
      <3>1. \A k \in 1..last : k # last /\ obj'[nodes'[k]] # None => obj'[nodes'[k]] \in Set
        BY <1>2, <1>4, ListShape DEF Set
      <3>2. CASE i = last \/ j = last
        BY <1>1, <1>5, <2>2, <3>1, <3>2
      <3>3. CASE i # last /\ j # last
        BY <1>2, <1>4, <2>2, <3>3 DEF IndInv, WellLinked
      <3> QED  BY <3>2, <3>3
    <2> QED  BY <1>2, <2>1, <2>2 DEF WellLinked
  <1>12. ASSUME NEW u \in Threads PROVE OnCourse(u)'
    <2>1. pc[u] \in {"idle", "calling"}
      BY <1>1, NobodyReads
    <2>2. must[u] \subseteq Set /\ must[u] \subseteq Hooks
      BY DEF IndInv, OnCourse, TypeOK
    <2>3. ASSUME Walking(u), NEW i \in 1..last, obj'[nodes'[i]] \in must[u]
          PROVE  called[u][obj'[nodes'[i]]] = IF Passed(u, i)' THEN 1 ELSE 0
      <3>1. i # last /\ i \in 1..Len(nodes) /\ obj'[nodes'[i]] = obj[nodes[i]]
        BY <1>1, <1>2, <1>4, <1>5, <2>2, <2>3
      <3>2. called[u][obj[nodes[i]]] = IF Passed(u, i) THEN 1 ELSE 0
        BY <2>3, <3>1 DEF IndInv, OnCourse
      <3>3. l[u] \in Listed \cup {None}
        BY <2>3 DEF IndInv, WalkOnList
      <3>4. Passed(u, i)' <=> Passed(u, i)
        <4>1. CASE l[u] = None
          BY <1>1, <4>1 DEF Passed
        <4>2. CASE l[u] # None
          <5>1. PICK p \in 1..Len(nodes) : nodes[p] = l[u]
            BY <3>3, <4>2 DEF Listed
          <5>2. p \in 1..last /\ nodes'[p] = l[u]
            BY <1>2, <1>3, <5>1
          <5>3. Passed(u, i) <=> i < p \/ (i = p /\ pc[u] = "calling")
            BY <4>2, <5>1, ListShape DEF Passed
          <5>4. Passed(u, i)' <=> i < p \/ (i = p /\ pc[u] = "calling")
            BY <1>1, <1>2, <4>2, <5>2 DEF Passed
          <5> QED  BY <5>3, <5>4
        <4> QED  BY <4>1, <4>2
      <3> QED  BY <3>1, <3>2, <3>4
    <2> QED  BY <1>1, <1>7, <1>8, <2>1, <2>2, <2>3 DEF IndInv, OnCourse
  <1> QED  BY <1>8, <1>9, <1>10, <1>11, <1>12 DEF IndInv

LEMMA RemoveHookInd ==
    ASSUME IndInv, NEW t \in Threads, NEW h \in Hooks, RemoveHook(t, h)
    PROVE  IndInv'
  <1>1. PICK n \in Listed : obj[n] = h /\ obj' = [obj EXCEPT ![n] = None]
    BY DEF RemoveHook
  <1>2. /\ readers = {} /\ m_hookHole' = TRUE /\ must' = [u \in Threads |-> must[u] \ {h}]
        /\ UNCHANGED <<nodes, m_hookAppend, m_hookCount, readers, pc, l, reg, called>>
    BY DEF RemoveHook, MaySetHook
  <1>3. Listed' = Listed /\ n \in Nodes
    BY <1>2, ListShape DEF Listed
  <1>4. \A k \in Nodes : obj'[k] = IF k = n THEN None ELSE obj[k]
    BY <1>1, <1>3, ListShape
  <1>5. Set \ {h} \subseteq Set'
    BY <1>1, <1>3, <1>4, ListShape DEF Set
  <1>6. Exclusive' /\ \A u \in Threads : Walking(u)' <=> Walking(u)
    BY <1>2, SameWalks
  <1>7. TypeOK'
    <2>1. must' \in [Threads -> SUBSET Hooks]
      BY <1>2 DEF IndInv, TypeOK
    <2> QED  BY <1>1, <1>2, <2>1 DEF IndInv, TypeOK
  <1>8. AppendOnList' /\ WalkOnList'
    BY <1>2, <1>3, <1>6 DEF IndInv, AppendOnList, WalkOnList
  <1>9. WellLinked'
    BY <1>2, <1>4, ListShape DEF IndInv, WellLinked
  <1>10. ASSUME NEW u \in Threads PROVE OnCourse(u)'
    <2>1. pc[u] \in {"idle", "calling"}
      BY <1>2, NobodyReads
    <2>2. must[u] \subseteq Set /\ must[u] \subseteq Hooks /\ must'[u] = must[u] \ {h}
      BY <1>2 DEF IndInv, OnCourse, TypeOK
    <2>3. ASSUME Walking(u), NEW i \in 1..Len(nodes), obj'[nodes[i]] \in must'[u]
          PROVE  called[u][obj'[nodes[i]]] = IF Passed(u, i)' THEN 1 ELSE 0
      <3>1. obj'[nodes[i]] = obj[nodes[i]] /\ obj[nodes[i]] \in must[u]
        BY <1>4, <2>2, <2>3, ListShape
      <3>2. called[u][obj[nodes[i]]] = IF Passed(u, i) THEN 1 ELSE 0
        BY <2>3, <3>1 DEF IndInv, OnCourse
      <3>3. Passed(u, i)' <=> Passed(u, i)
        BY <1>2 DEF Passed
      <3> QED  BY <3>1, <3>2, <3>3
    <2>4. pc[u] = "idle" => must'[u] = {}
      BY <2>2 DEF IndInv, OnCourse
    <2>5. ~Walking(u) => \A k \in Hooks : called[u][k] = 0
      BY DEF IndInv, OnCourse
    <2> QED  BY <1>2, <1>5, <1>6, <2>1, <2>2, <2>3, <2>4, <2>5 DEF OnCourse
  <1> QED  BY <1>6, <1>7, <1>8, <1>9, <1>10 DEF IndInv

LEMMA ClearHooksInd == ASSUME IndInv, ClearHooks PROVE IndInv'
  <1>1. /\ \A u \in Threads : pc[u] = "idle"
        /\ nodes' = <<HeadNode>> /\ obj' = [n \in Nodes |-> None] /\ m_hookAppend' = HeadNode
        /\ UNCHANGED <<m_hookCount, m_hookHole, readers, pc, l, reg, must, called>>
    BY DEF ClearHooks
  <1>2. Len(nodes') = 1 /\ nodes'[1] = HeadNode /\ nodes' # <<>> /\ nodes' \in Seq(Nodes)
    BY <1>1, NodeAssumption
  <1>3. Exclusive' /\ \A u \in Threads : Walking(u)' <=> Walking(u)
    BY <1>1, SameWalks
  <1>4. TypeOK'
    BY <1>1, <1>2, NodeAssumption DEF IndInv, TypeOK
  <1>5. AppendOnList' /\ WalkOnList'
    BY <1>1, <1>2 DEF AppendOnList, WalkOnList, Walking, Listed
  <1>6. WellLinked'
    BY <1>2 DEF WellLinked
  <1>7. \A u \in Threads : OnCourse(u)'
    BY <1>1 DEF IndInv, OnCourse, Walking
  <1> QED  BY <1>3, <1>4, <1>5, <1>6, <1>7 DEF IndInv

(***************************************************************************)
(* Compaction                                                              *)
(***************************************************************************)

KeptNodes == {nodes[i] : i \in Kept}

\* The nodes that are left: the kept ones, each once, the head first.
LEMMA CompactedList ==
    ASSUME IndInv, Compact
    PROVE  /\ nodes' \in Seq(Nodes) /\ nodes'[1] = HeadNode /\ nodes' # <<>>
           /\ Listed' = KeptNodes /\ KeptNodes \subseteq Listed
           /\ \E keep \in [1..Len(nodes') -> Kept] :
                 /\ \A i \in 1..Len(nodes') : nodes'[i] = nodes[keep[i]]
                 /\ \A i, j \in 1..Len(nodes') : i < j => keep[i] < keep[j]
  <1>1. PICK n \in 1..Len(nodes) : \E keep \in [1..n -> Kept] : Keeps(keep)
    BY DEF Compact
  <1>2. PICK keep \in [1..n -> Kept] : Keeps(keep)
    BY <1>1
  <1>3. /\ {keep[i] : i \in 1..n} = Kept
        /\ \A i, j \in 1..n : i < j => keep[i] < keep[j]
        /\ nodes' = [i \in 1..n |-> nodes[keep[i]]]
    BY <1>2 DEF Keeps
  <1>4. Kept \subseteq 1..Len(nodes) /\ 1 \in Kept /\ n \in Nat \ {0}
    BY <1>1, ListShape DEF Kept
  <1>5. nodes' \in [1..n -> Nodes]
    BY <1>2, <1>3, <1>4, ListShape
  <1>6. nodes' \in Seq(Nodes) /\ Len(nodes') = n
    BY <1>4, <1>5
  <1>7. keep[1] = 1
    <2>1. PICK i \in 1..n : keep[i] = 1
      BY <1>3, <1>4
    <2>2. keep[1] \in 1..Len(nodes) /\ 1 \in 1..n
      <3>1. 1 \in 1..n
        BY <1>4
      <3>2. keep[1] \in Kept
        BY <1>2, <3>1
      <3> QED  BY <1>4, <3>1, <3>2
    <2>3. CASE i # 1
      <3>1. keep[1] < 1
        BY <1>3, <2>1, <2>2, <2>3
      <3> QED  BY <2>2, <3>1
    <2> QED  BY <2>1, <2>3
  <1>8. Listed' = KeptNodes
    <2>1. Listed' = {nodes[keep[i]] : i \in 1..n}
      BY <1>3, <1>6 DEF Listed
    <2> QED  BY <1>3, <2>1 DEF KeptNodes
  <1>9. KeptNodes \subseteq Listed
    BY <1>4 DEF KeptNodes, Listed
  <1>10. nodes'[1] = HeadNode /\ nodes' # <<>>
    BY <1>3, <1>4, <1>6, <1>7, ListShape
  <1>11. \A i \in 1..Len(nodes') : nodes'[i] = nodes[keep[i]]
    BY <1>3, <1>6
  <1> QED  BY <1>2, <1>3, <1>6, <1>8, <1>9, <1>10, <1>11

\* A kept node has the first hook from its place on; the place before it is no hole.
LEMMA CompactedHook ==
    ASSUME IndInv, Compact, NEW i \in Kept
    PROVE  /\ i \in 1..Len(nodes) /\ (i # 1 => obj[nodes[i - 1]] # None)
           /\ \/ /\ obj'[nodes[i]] = None
                 /\ \A k \in i..Len(nodes) : obj[nodes[k]] = None
              \/ \E j \in i..Len(nodes) :
                    /\ obj'[nodes[i]] = obj[nodes[j]] /\ obj[nodes[j]] # None
                    /\ \A k \in i..j - 1 : obj[nodes[k]] = None
  <1>1. i \in 1..Len(nodes) /\ (i # 1 => obj[nodes[i - 1]] # None) /\ i \in 1..Len(nodes) + 1
    BY ListShape DEF Kept
  <1>2. PlaceOf(nodes[i]) = i
    BY <1>1, PlaceOfFinds
  <1>3. obj'[nodes[i]] = IF FirstFrom(i) # None THEN obj[FirstFrom(i)] ELSE None
    BY <1>1, <1>2, ListShape DEF Compact
  <1>4. \A j \in i..Len(nodes) : nodes[j] # None
    BY <1>1, ListShape
  <1>5. \/ /\ FirstFrom(i) = None
           /\ \A k \in i..Len(nodes) : obj[nodes[k]] = None
        \/ \E j \in i..Len(nodes) :
              /\ FirstFrom(i) = nodes[j] /\ obj[nodes[j]] # None
              /\ \A k \in i..j - 1 : obj[nodes[k]] = None
    BY <1>1, FirstFromFinds
  <1> QED  BY <1>1, <1>3, <1>4, <1>5

\* No hook is lost: the holes before it, if any, end in a node that is kept.
LEMMA CompactKeepsHooks ==
    ASSUME IndInv, Compact
    PROVE  Set \subseteq Set'
  <1> SUFFICES ASSUME NEW h \in Set PROVE h \in Set'
    OBVIOUS
  <1>1. PICK q \in 1..Len(nodes) : obj[nodes[q]] = h
    BY DEF Set, Listed
  <1>2. h # None /\ Len(nodes) \in Nat
    BY ListShape DEF Set
  <1> DEFINE holes == {i \in 1..q : \A k \in i..q - 1 : obj[nodes[k]] = None}
  <1>3. PICK m \in holes : \A k \in holes : m <= k
    <2>1. q \in holes
      BY <1>2
    <2>2. holes \subseteq Nat
      BY <1>2
    <2> HIDE DEF holes
    <2> QED  BY <2>1, <2>2, Smallest
  <1>4. m \in 1..Len(nodes) /\ m <= q
    BY <1>2, <1>3
  <1>5. m # 1 => obj[nodes[m - 1]] # None
    <2>1. ASSUME m # 1, obj[nodes[m - 1]] = None PROVE m - 1 \in holes
      <3>1. m - 1 \in 1..q
        BY <1>2, <1>4, <2>1
      <3>2. \A k \in m - 1..q - 1 : k = m - 1 \/ k \in m..q - 1
        BY <1>2, <1>4
      <3> QED  BY <1>3, <2>1, <3>1, <3>2
    <2> HIDE DEF holes
    <2> QED  BY <1>2, <1>3, <1>4, <2>1
  <1>6. m \in Kept
    BY <1>4, <1>5 DEF Kept
  <1>7. obj'[nodes[m]] = h
    <2>1. q \in m..Len(nodes)
      BY <1>2, <1>4
    <2>2. PICK j \in m..Len(nodes) :
            /\ obj'[nodes[m]] = obj[nodes[j]] /\ obj[nodes[j]] # None
            /\ \A k \in m..j - 1 : obj[nodes[k]] = None
      BY <1>1, <1>2, <1>6, <2>1, CompactedHook
    <2>3. ~(j < q)
      BY <1>2, <1>3, <1>4, <2>2
    <2>4. ~(q < j)
      BY <1>1, <1>2, <1>4, <2>2
    <2>5. j = q
      BY <1>2, <1>4, <2>3, <2>4
    <2> QED  BY <1>1, <2>2, <2>5
  <1>8. nodes[m] \in Listed'
    BY <1>6, CompactedList DEF KeptNodes
  <1> QED  BY <1>2, <1>7, <1>8 DEF Set

\* No hook is doubled: two kept nodes have a hook between them, which the first takes.
LEMMA CompactedOnce ==
    ASSUME IndInv, Compact, NEW i \in Kept, NEW j \in Kept, i < j
    PROVE  obj'[nodes[i]] # obj'[nodes[j]] \/ obj'[nodes[j]] = None
  <1> SUFFICES ASSUME obj'[nodes[j]] # None PROVE obj'[nodes[i]] # obj'[nodes[j]]
    OBVIOUS
  <1>1. i \in 1..Len(nodes) /\ j \in 1..Len(nodes) /\ j # 1 /\ Len(nodes) \in Nat
    BY CompactedHook, ListShape
  <1>2. obj[nodes[j - 1]] # None /\ j - 1 \in i..Len(nodes)
    BY <1>1, CompactedHook
  <1>3. PICK a \in i..Len(nodes) :
          /\ obj'[nodes[i]] = obj[nodes[a]] /\ obj[nodes[a]] # None
          /\ \A k \in i..a - 1 : obj[nodes[k]] = None
    BY <1>2, CompactedHook
  <1>4. PICK b \in j..Len(nodes) : obj'[nodes[j]] = obj[nodes[b]] /\ obj[nodes[b]] # None
    BY CompactedHook
  <1>5. a < b /\ a \in 1..Len(nodes) /\ b \in 1..Len(nodes)
    BY <1>1, <1>2, <1>3, <1>4
  <1>6. obj[nodes[a]] # obj[nodes[b]]
    BY <1>3, <1>5 DEF IndInv, WellLinked
  <1> QED  BY <1>3, <1>4, <1>6

LEMMA CompactedWell ==
    ASSUME IndInv, Compact
    PROVE  WellLinked' /\ AppendOnList' /\ obj' \in [Nodes -> Hooks \cup {None}]
  <1>1. PICK keep \in [1..Len(nodes') -> Kept] :
          /\ \A i \in 1..Len(nodes') : nodes'[i] = nodes[keep[i]]
          /\ \A i, j \in 1..Len(nodes') : i < j => keep[i] < keep[j]
    BY CompactedList
  <1>2. Kept \subseteq 1..Len(nodes) /\ nodes' \in Seq(Nodes) /\ nodes'[1] = HeadNode
        /\ nodes' # <<>> /\ Listed' = KeptNodes
    BY CompactedList DEF Kept
  <1>3. ASSUME NEW i \in 1..Len(nodes'), NEW j \in 1..Len(nodes'), i < j
        PROVE  /\ nodes'[i] # nodes'[j]
               /\ obj'[nodes'[i]] # obj'[nodes'[j]] \/ obj'[nodes'[i]] = None
    <2>1. keep[i] \in Kept /\ keep[j] \in Kept /\ keep[i] < keep[j]
      BY <1>1, <1>3
    <2>2. nodes[keep[i]] # nodes[keep[j]]
      <3>1. keep[i] \in 1..Len(nodes) /\ keep[j] \in 1..Len(nodes)
        BY <1>2, <2>1
      <3>2. keep[i] # keep[j]
        BY <2>1, <3>1
      <3> QED  BY <3>1, <3>2, ListShape
    <2>3. obj'[nodes[keep[i]]] # obj'[nodes[keep[j]]] \/ obj'[nodes[keep[j]]] = None
      BY <2>1, CompactedOnce
    <2> QED  BY <1>1, <2>2, <2>3
  <1>4. WellLinked'
    <2>1. ASSUME NEW i \in 1..Len(nodes'), NEW j \in 1..Len(nodes'),
                 nodes'[i] = nodes'[j]
                 \/ (obj'[nodes'[i]] = obj'[nodes'[j]] /\ obj'[nodes'[i]] # None)
          PROVE  i = j
      <3>1. ~(i < j)
        BY <1>3, <2>1
      <3>2. ~(j < i)
        BY <1>3, <2>1
      <3> QED  BY <3>1, <3>2
    <2> QED  BY <1>2, <2>1 DEF WellLinked
  <1>5. HeadNode \in Listed'
    BY <1>2 DEF Listed
  <1>6. AppendOnList'
    BY <1>2, <1>5 DEF Compact, AppendOnList, KeptNodes
  <1>7. obj' \in [Nodes -> Hooks \cup {None}]
    <2>1. ASSUME NEW n \in KeptNodes PROVE obj'[n] \in Hooks \cup {None}
      <3>1. PICK i \in Kept : n = nodes[i]
        BY <2>1 DEF KeptNodes
      <3>2. i \in 1..Len(nodes) /\ \A j \in i..Len(nodes) : obj[nodes[j]] \in Hooks \cup {None}
        BY <1>2, ListShape
      <3> QED  BY <3>1, <3>2, CompactedHook
    <2>2. ASSUME NEW n \in Nodes \ KeptNodes PROVE obj'[n] = None
      BY <2>2 DEF Compact, KeptNodes
    <2>3. \E val : obj' = [n \in Nodes |-> val[n]]
      <3> DEFINE val == [n \in Nodes |->
                  IF n \in {nodes[i] : i \in Kept} /\ FirstFrom(PlaceOf(n)) # None
                  THEN obj[FirstFrom(PlaceOf(n))] ELSE None]
      <3>1. obj' = val
        BY DEF Compact
      <3>2. val = [n \in Nodes |-> val[n]]
        OBVIOUS
      <3> HIDE DEF val
      <3> QED  BY <3>1, <3>2
    <2>4. PICK val : obj' = [n \in Nodes |-> val[n]]
      BY <2>3
    <2>5. \A n \in Nodes : val[n] \in Hooks \cup {None}
      BY <2>1, <2>2, <2>4
    <2> QED  BY <2>4, <2>5
  <1> QED  BY <1>4, <1>6, <1>7

LEMMA CompactOrNotInd ==
    ASSUME IndInv, NEW t \in Threads, CompactOrNot(t)
    PROVE  IndInv'
  <1>1. /\ pc \in [Threads -> Phases] /\ pc[t] = "enter" /\ pc' = [pc EXCEPT ![t] = "inc"]
        /\ reg \in [Threads -> Nat] /\ reg' = [reg EXCEPT ![t] = m_hookCount]
        /\ m_hookCount \in Nat /\ m_hookHole' \in BOOLEAN
        /\ UNCHANGED <<m_hookCount, readers, l, must, called>>
        /\ t \in readers /\ \A u \in readers : u = t
    BY DEF CompactOrNot, IndInv, TypeOK, Exclusive
  <1>2. \A u \in Threads : Walking(u)' <=> Walking(u)
    BY <1>1 DEF Walking
  <1>3. Exclusive'
    <2>1. {u \in Threads : Walking(u)}' = {u \in Threads : Walking(u)}
      BY <1>2
    <2>2. \A u \in Threads : u \in readers' <=> pc'[u] \in {"enter", "inc", "walk", "dec"}
      BY <1>1 DEF IndInv, Exclusive
    <2>3. \A u \in Threads : pc'[u] \in {"inc", "dec"} => reg'[u] = m_hookCount'
      BY <1>1 DEF IndInv, Exclusive
    <2> QED  BY <1>1, <2>1, <2>2, <2>3 DEF IndInv, Exclusive
  <1>4. CASE m_hookHole /\ m_hookCount = 0
    <2>1. Compact
      BY <1>4 DEF CompactOrNot
    <2>2. /\ WellLinked' /\ AppendOnList' /\ obj' \in [Nodes -> Hooks \cup {None}]
          /\ nodes' \in Seq(Nodes) /\ nodes'[1] = HeadNode /\ Set \subseteq Set'
      BY <2>1, CompactedWell, CompactedList, CompactKeepsHooks
    <2>3. m_hookAppend' \in Nodes
      BY <2>1, NodeAssumption DEF Compact, IndInv, TypeOK
    <2>4. TypeOK'
      BY <1>1, <2>2, <2>3 DEF IndInv, TypeOK, Phases
    <2>5. \A u \in Threads : ~Walking(u)
      <3>1. {u \in Threads : Walking(u)} = {}
        BY <1>4, CountChanges DEF IndInv, Exclusive
      <3> QED  BY <3>1
    <2>6. WalkOnList'
      BY <1>2, <2>5 DEF WalkOnList
    <2>7. ASSUME NEW u \in Threads PROVE OnCourse(u)'
      <3>1. must[u] \subseteq Set' /\ \A h \in Hooks : called[u][h] = 0
        BY <2>2, <2>5 DEF IndInv, OnCourse
      <3>2. pc'[u] = "idle" => must[u] = {}
        BY <1>1 DEF IndInv, OnCourse
      <3>3. pc'[u] \notin {"walk", "calling", "dec"}
        BY <1>2, <2>5 DEF Walking
      <3> QED  BY <1>1, <1>2, <2>5, <3>1, <3>2, <3>3 DEF OnCourse
    <2> QED  BY <1>3, <2>2, <2>4, <2>6, <2>7 DEF IndInv
  <1>5. CASE ~(m_hookHole /\ m_hookCount = 0)
    <2>1. UNCHANGED <<nodes, obj, m_hookAppend>>
      BY <1>5 DEF CompactOrNot, list
    <2>2. Listed' = Listed /\ Set' = Set /\ AppendOnList' /\ WellLinked'
      BY <2>1, SameList
    <2>3. TypeOK'
      BY <1>1, <2>1 DEF IndInv, TypeOK, Phases
    <2>4. WalkOnList'
      BY <1>1, <1>2, <2>2 DEF IndInv, WalkOnList
    <2>5. OnCourse(t)'
      BY <1>1, <2>2 DEF IndInv, OnCourse, Walking
    <2>6. \A u \in Threads : u # t => OnCourse(u)'
      BY <1>1, <2>1, OthersKeep
    <2> QED  BY <1>3, <2>2, <2>3, <2>4, <2>5, <2>6 DEF IndInv
  <1> QED  BY <1>4, <1>5

LEMMA NextInd ==
    ASSUME ~SharedReaders, IndInv, [Next]_vars
    PROVE  IndInv'
  <1>1. CASE UNCHANGED vars
    <2>1. UNCHANGED <<nodes, obj, m_hookAppend, m_hookCount, m_hookHole, readers, pc, l, reg,
                      must, called>>
      BY <1>1 DEF vars, list
    <2>2. Exclusive' /\ \A u \in Threads : Walking(u)' <=> Walking(u)
      BY <2>1, SameWalks
    <2>3. Listed' = Listed /\ Set' = Set /\ AppendOnList' /\ WellLinked'
      BY <2>1, SameList
    <2>4. TypeOK' /\ WalkOnList'
      BY <2>1, <2>2, <2>3 DEF IndInv, TypeOK, WalkOnList
    <2>5. \A u \in Threads : OnCourse(u)'
      BY <2>1, OthersKeep
    <2> QED  BY <2>2, <2>3, <2>4, <2>5 DEF IndInv
  <1>2. ASSUME NEW t \in Threads, Walk(t) PROVE IndInv'
    BY <1>2, CompactOrNotInd, StartWalkInd, CallHookInd, HookReturnsInd, EndWalkInd, LeaveHooksInd
       DEF Walk
  <1>3. ASSUME NEW t \in Threads, EnterHooks(t) PROVE IndInv'
    BY <1>3, EnterHooksInd
  <1>4. ASSUME NEW t \in Threads, NEW h \in Hooks, AddHook(t, h) \/ RemoveHook(t, h) PROVE IndInv'
    BY <1>4, AddHookInd, RemoveHookInd
  <1>5. CASE ClearHooks
    BY <1>5, ClearHooksInd
  <1> QED  BY <1>1, <1>2, <1>3, <1>4, <1>5 DEF Next

(***************************************************************************)
(* Theorems                                                                *)
(***************************************************************************)

\* With an exclusive m_hooksLock the strengthened invariant always holds.
THEOREM IndInvAlways == ASSUME ~SharedReaders PROVE Spec => []IndInv
  <1>1. Init => IndInv
    BY InitInd
  <1>2. IndInv /\ [Next]_vars => IndInv'
    BY NextInd
  <1> QED  BY <1>1, <1>2, PTL DEF Spec

\* Every variable keeps its type; m_hookCount, counted down and up, never gets
\* below zero.
THEOREM TypeCorrect == ASSUME ~SharedReaders PROVE Spec => []TypeOK
  <1>1. IndInv => TypeOK
    BY DEF IndInv
  <1> QED  BY <1>1, IndInvAlways, PTL

\* No compaction frees a node that a walk stands on while its hook is called.
THEOREM WalksStayOnList == ASSUME ~SharedReaders PROVE Spec => []WalkOnList
  <1>1. IndInv => WalkOnList
    BY DEF IndInv
  <1> QED  BY <1>1, IndInvAlways, PTL

\* setHook() always appends from a node that is in the list.
THEOREM AppendsToLiveNode == ASSUME ~SharedReaders PROVE Spec => []AppendOnList
  <1>1. IndInv => AppendOnList
    BY DEF IndInv
  <1> QED  BY <1>1, IndInvAlways, PTL

\* dispatch() calls each hook that stays set during its walk exactly once.
THEOREM EachHookCalledOnce == ASSUME ~SharedReaders PROVE Spec => []EachHookOnce
  <1>1. IndInv => EachHookOnce
    <2> SUFFICES ASSUME IndInv, NEW t \in Threads, pc[t] = "dec", NEW h \in must[t]
                 PROVE  called[t][h] = 1
      BY DEF EachHookOnce
    <2>1. h \in Set /\ l[t] = None /\ Walking(t)
      BY DEF IndInv, OnCourse, Walking
    <2>2. PICK i \in 1..Len(nodes) : obj[nodes[i]] = h
      BY <2>1 DEF Set, Listed
    <2>3. Passed(t, i)
      BY <2>1 DEF Passed
    <2> QED  BY <2>1, <2>2, <2>3 DEF IndInv, OnCourse
  <1> QED  BY <1>1, IndInvAlways, PTL
=============================================================================
