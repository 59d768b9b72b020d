-------------------------- MODULE DispatcherProofs --------------------------
(***************************************************************************)
(* Proofs about the message dispatcher for any number of threads, handlers,*)
(* messages and list changes.                                              *)
(***************************************************************************)
EXTENDS Dispatcher, FiniteSetTheorems, WellFoundedInduction, TLAPS

(* The number of holders of a handler: what a step adds to or removes from it. *)
LEMMA HoldersFinite ==
    ASSUME NEW a
    PROVE  /\ IsFiniteSet(Holders(a))
           /\ Cardinality(Holders(a)) \in Nat
<1>1. Holders(a) \subseteq Threads
    BY DEF Holders
<1>2. IsFiniteSet(Holders(a))
    BY <1>1, ThreadAssumption, FS_Subset
<1> QED
    BY <1>2, FS_CardinalityType

(* A thread that starts to hold a handler adds one to the handler's count. *)
LEMMA HolderAdded ==
    ASSUME NEW a, NEW t \in Threads, t \notin Holders(a),
           Holders(a)' = Holders(a) \cup {t}
    PROVE  Cardinality(Holders(a)') = Cardinality(Holders(a)) + 1
BY HoldersFinite, FS_AddElement

(* A thread that no longer holds a handler takes one off the handler's count. *)
LEMMA HolderRemoved ==
    ASSUME NEW a, NEW t \in Threads, t \in Holders(a),
           Holders(a)' = Holders(a) \ {t}
    PROVE  /\ Cardinality(Holders(a)') = Cardinality(Holders(a)) - 1
           /\ Cardinality(Holders(a)) > 0
<1>1. Cardinality(Holders(a)') = Cardinality(Holders(a)) - 1
    BY HoldersFinite, FS_RemoveElement
<1>2. Cardinality(Holders(a)) # 0
    BY HoldersFinite, FS_EmptySet
<1> QED
    BY <1>1, <1>2, HoldersFinite

(* A non-empty set of places of a list has a first one. *)
LEMMA LeastElement ==
    ASSUME NEW n \in Nat, NEW S \in SUBSET (1..n), S # {}
    PROVE  \E m \in S : \A j \in S : m <= j
<1>1. IsWellFoundedOn(OpToRel(<, Nat), Nat)
    BY NatLessThanWellFounded
<1>2. S \subseteq Nat
    OBVIOUS
<1>3. PICK m \in S : \A j \in S : ~(<<j, m>> \in OpToRel(<, Nat))
    BY <1>1, <1>2, WFMin
<1>4. \A j \in S : ~(j < m)
    BY <1>2, <1>3 DEF OpToRel
<1> QED
    BY <1>2, <1>4

(* The locals of every thread's dispatch() are a frame, *)
LEMMA FramesTyped ==
    ASSUME IndInv, NEW t \in Threads
    PROVE  fr[t] \in Frame
    BY DEF IndInv, TypeOK

(* and stay one when a relay goes on to its receiver *)
LEMMA FrameAtReceiver ==
    ASSUME NEW f \in Frame
    PROVE  LET g == [f EXCEPT !.pc = "receiver"]
           IN  g \in Frame /\ g.pc \notin {"entering", "received"}
    BY DEF Frame, Phases

(* or the handler returns. *)
LEMMA FrameLeft ==
    ASSUME NEW f \in Frame, NEW ok \in BOOLEAN, NEW param \in Params
    PROVE  LET g == [f EXCEPT !.pc = "back", !.retv = ok \/ @, !.param = param]
           IN  g \in Frame /\ g.pc \notin {"entering", "received"}
    BY DEF Frame, Phases

(* The initial state satisfies the inductive invariant. *)
LEMMA InitInd == Init => IndInv
<1> SUFFICES ASSUME Init PROVE IndInv
    OBVIOUS
<1>1. TypeOK
    BY DEF Init, TypeOK, HandlerStates, Frame, IdleFrame, Phases
<1>2. \A a \in Addresses : Holders(a) = {}
    BY DEF Init, Holders, Holds, IdleFrame
<1>3. UnsafeIsExact
    BY <1>2, FS_EmptySet DEF Init, UnsafeIsExact
<1>4. NoUseAfterDelete
    BY <1>2 DEF NoUseAfterDelete, Holders
<1>5. ListSorted
    BY DEF Init, ListSorted, Installed
<1>6. UninstallOwned
    BY DEF Init, UninstallOwned
<1> QED
    BY <1>1, <1>3, <1>4, <1>5, <1>6 DEF IndInv

(* The places of the list hold installed handlers, and only they do. *)
LEMMA ListFacts ==
    ASSUME IndInv
    PROVE  /\ m_handlers \in Seq(Addresses)
           /\ Len(m_handlers) \in Nat
           /\ Addresses \subseteq Nat
           /\ \A i \in 1..Len(m_handlers) :
                 /\ m_handlers[i] \in Addresses
                 /\ state[m_handlers[i]] = "installed"
                 /\ kind[m_handlers[i]].priority \in Nat
           /\ \A a \in Addresses : state[a] = "installed" =>
                 \E i \in 1..Len(m_handlers) : m_handlers[i] = a
           /\ \A i, j \in 1..Len(m_handlers) : i < j =>
                 Precedes(kind[m_handlers[i]].priority, m_handlers[i],
                          kind[m_handlers[j]].priority, m_handlers[j])
           /\ \A i, j \in 1..Len(m_handlers) : m_handlers[i] = m_handlers[j] => i = j
<1>1. /\ m_handlers \in Seq(Addresses)
      /\ Len(m_handlers) \in Nat
      /\ Addresses \subseteq Nat
    BY AddressAssumption DEF IndInv, TypeOK
<1>2. ASSUME NEW i \in 1..Len(m_handlers)
      PROVE  /\ m_handlers[i] \in Addresses
             /\ state[m_handlers[i]] = "installed"
             /\ kind[m_handlers[i]].priority \in Nat
  <2>1. m_handlers[i] \in Installed
      BY DEF IndInv, ListSorted
  <2>2. m_handlers[i] \in Addresses /\ state[m_handlers[i]] = "installed"
      BY <2>1 DEF Installed
  <2>3. kind[m_handlers[i]] \in Kinds
      BY <2>2 DEF IndInv, UninstallOwned
  <2> QED
      BY <2>2, <2>3, KindAssumption
<1>3. ASSUME NEW a \in Addresses, state[a] = "installed"
      PROVE  \E i \in 1..Len(m_handlers) : m_handlers[i] = a
  <2>1. a \in Installed
      BY <1>3 DEF Installed
  <2> QED
      BY <2>1 DEF IndInv, ListSorted
<1>4. \A i, j \in 1..Len(m_handlers) : i < j =>
        Precedes(kind[m_handlers[i]].priority, m_handlers[i],
                 kind[m_handlers[j]].priority, m_handlers[j])
    BY DEF IndInv, ListSorted
<1>5. ASSUME NEW i \in 1..Len(m_handlers), NEW j \in 1..Len(m_handlers),
             m_handlers[i] = m_handlers[j]
      PROVE  i = j
  <2>0. ~Precedes(kind[m_handlers[i]].priority, m_handlers[i],
                 kind[m_handlers[j]].priority, m_handlers[j])
    <3>1. m_handlers[i] \in Nat /\ kind[m_handlers[i]].priority \in Nat
        BY <1>1, <1>2
    <3> QED
        BY <1>5, <3>1 DEF Precedes
  <2>a. ~Precedes(kind[m_handlers[j]].priority, m_handlers[j],
                 kind[m_handlers[i]].priority, m_handlers[i])
      BY <1>5, <2>0
  <2>1. ~(i < j) /\ ~(j < i)
      BY <1>4, <2>0, <2>a
  <2>2. i \in Nat /\ j \in Nat
      BY <1>1
  <2> QED
      BY <2>1, <2>2
<1> QED
    BY <1>1, <1>2, <1>3, <1>4, <1>5

(* The order of the list is transitive. *)
LEMMA PrecedesTransitive ==
    ASSUME NEW p \in Nat, NEW a \in Nat, NEW q \in Nat, NEW b \in Nat,
           NEW r \in Nat, NEW c \in Nat,
           Precedes(p, a, q, b), Precedes(q, b, r, c)
    PROVE  Precedes(p, a, r, c)
    BY DEF Precedes

(* install() finds the one place that keeps the list sorted. *)
LEMMA InsertPlaceSorts ==
    ASSUME IndInv, NEW a \in Addresses, NEW p \in Nat, state[a] # "installed"
    PROVE  /\ InsertPlace(a, p) \in 1..(Len(m_handlers) + 1)
           /\ \A j \in 1..Len(m_handlers) : j < InsertPlace(a, p) =>
                 Precedes(kind[m_handlers[j]].priority, m_handlers[j], p, a)
           /\ \A j \in 1..Len(m_handlers) : InsertPlace(a, p) <= j =>
                 Precedes(p, a, kind[m_handlers[j]].priority, m_handlers[j])
<1> DEFINE past == {j \in 1..Len(m_handlers) :
                       Precedes(p, a, kind[m_handlers[j]].priority, m_handlers[j])}
<1>1. \A j \in 1..Len(m_handlers) : j \notin past =>
        Precedes(kind[m_handlers[j]].priority, m_handlers[j], p, a)
    BY ListFacts DEF Precedes
<1>2. CASE past = {}
  <2>1. InsertPlace(a, p) = Len(m_handlers) + 1
      BY <1>2 DEF InsertPlace
  <2> QED
      BY <1>1, <1>2, <2>1, ListFacts
<1>3. CASE past # {}
  <2>1. \E m \in past : \A j \in past : m <= j
    <3>1. past \in SUBSET (1..Len(m_handlers)) /\ Len(m_handlers) \in Nat
        BY ListFacts
    <3> QED
        BY <1>3, <3>1, LeastElement
  <2>2. InsertPlace(a, p) = CHOOSE i \in past : \A j \in past : i <= j
      BY <1>3 DEF InsertPlace
  <2>3. InsertPlace(a, p) \in past /\ \A j \in past : InsertPlace(a, p) <= j
      BY <2>1, <2>2
  <2> HIDE DEF past
  <2>4. InsertPlace(a, p) \in 1..Len(m_handlers)
      BY <2>3 DEF past
  <2>5. \A j \in 1..Len(m_handlers) : j < InsertPlace(a, p) => j \notin past
      BY <2>3, <2>4, ListFacts
  <2>6. ASSUME NEW j \in 1..Len(m_handlers), InsertPlace(a, p) < j
        PROVE  Precedes(p, a, kind[m_handlers[j]].priority, m_handlers[j])
    <3> DEFINE b == m_handlers[InsertPlace(a, p)]
               q == kind[b].priority
               c == m_handlers[j]
               r == kind[c].priority
    <3>1. a \in Nat /\ b \in Nat /\ q \in Nat /\ c \in Nat /\ r \in Nat
        BY <2>4, ListFacts
    <3>2. Precedes(p, a, q, b)
        BY <2>3 DEF past
    <3>3. Precedes(q, b, r, c)
        BY <2>4, <2>6, ListFacts
    <3> HIDE DEF b, q, c, r
    <3>4. Precedes(p, a, r, c)
        BY <3>1, <3>2, <3>3, PrecedesTransitive
    <3> QED
        BY <3>4 DEF r, c
  <2>7. \A j \in 1..Len(m_handlers) : InsertPlace(a, p) <= j =>
          Precedes(p, a, kind[m_handlers[j]].priority, m_handlers[j])
      BY <2>3, <2>4, <2>6, ListFacts DEF past
  <2>8. InsertPlace(a, p) \in 1..(Len(m_handlers) + 1)
      BY <2>4, ListFacts
  <2>9. \A j \in 1..Len(m_handlers) : j < InsertPlace(a, p) =>
          Precedes(kind[m_handlers[j]].priority, m_handlers[j], p, a)
      BY <1>1, <2>5
  <2> QED
      BY <2>7, <2>8, <2>9
<1> QED
    BY <1>2, <1>3

(* install(): the new handler is inserted in sort order, and nobody holds it. *)
LEMMA InstallInd ==
    ASSUME IndInv, NEW a \in Addresses, NEW k \in Kinds, Install(a, k)
    PROVE  IndInv'
<1> DEFINE i == InsertPlace(a, k.priority)
           n == Len(m_handlers)
<1>1. /\ k.priority \in Nat
      /\ state[a] = "free"
      /\ state' = [state EXCEPT ![a] = "installed"]
      /\ kind' = [kind EXCEPT ![a] = k]
      /\ UNCHANGED <<m_unsafe, fr, un>>
    BY KindAssumption DEF Install
<1>2. /\ i \in 1..(n + 1)
      /\ \A j \in 1..n : j < i =>
            Precedes(kind[m_handlers[j]].priority, m_handlers[j], k.priority, a)
      /\ \A j \in 1..n : i <= j =>
            Precedes(k.priority, a, kind[m_handlers[j]].priority, m_handlers[j])
    BY <1>1, InsertPlaceSorts
<1>3. m_handlers' = Inserted(m_handlers, i, a)
    BY DEF Install
<1> HIDE DEF i, n
<1>4. /\ m_handlers' \in Seq(Addresses)
      /\ Len(m_handlers') = n + 1
      /\ \A j \in 1..(n + 1) : m_handlers'[j] =
            IF j < i THEN m_handlers[j] ELSE IF j = i THEN a ELSE m_handlers[j - 1]
  <2>1. \A j \in 1..(n + 1) : ~(j < i) /\ j # i => j - 1 \in 1..n
      BY <1>2, ListFacts DEF n
  <2>2. \A j \in 1..(n + 1) : j < i => j \in 1..n
      BY <1>2, ListFacts DEF n
  <2> QED
      BY <1>3, <2>1, <2>2, ListFacts DEF Inserted, n
<1>5. \A j \in 1..n : /\ m_handlers[j] # a
                      /\ state'[m_handlers[j]] = "installed"
                      /\ kind'[m_handlers[j]] = kind[m_handlers[j]]
    BY <1>1, ListFacts DEF IndInv, TypeOK, n
<1>6. TypeOK'
    BY <1>1, <1>4 DEF IndInv, TypeOK, Install, HandlerStates
<1>7. UnsafeIsExact'
    BY <1>1 DEF IndInv, UnsafeIsExact, Holders, Holds
<1>8. NoUseAfterDelete'
    BY <1>1 DEF IndInv, TypeOK, NoUseAfterDelete, Holds
<1>9. UninstallOwned'
    BY <1>1 DEF IndInv, TypeOK, UninstallOwned
<1>10. /\ n \in Nat
       /\ \A x, y \in 1..n : x < y =>
             Precedes(kind[m_handlers[x]].priority, m_handlers[x],
                      kind[m_handlers[y]].priority, m_handlers[y])
    BY ListFacts DEF n
<1>11. ASSUME NEW x \in 1..(n + 1)
       PROVE  \/ x < i /\ x \in 1..n /\ m_handlers'[x] = m_handlers[x]
              \/ x = i /\ m_handlers'[x] = a
              \/ /\ i <= x - 1 /\ x - 1 \in 1..n
                 /\ m_handlers'[x] = m_handlers[x - 1]
    BY <1>2, <1>4, <1>10
<1>12. kind'[a] = k /\ state'[a] = "installed"
    BY <1>1 DEF IndInv, TypeOK
<1>13. ListSorted'
  <2>1. ASSUME NEW x \in 1..(n + 1) PROVE m_handlers'[x] \in Installed'
    <3>1. /\ m_handlers'[x] \in Addresses
          /\ state'[m_handlers'[x]] = "installed"
      <4>1. \A j \in 1..n : m_handlers[j] \in Addresses
          BY ListFacts DEF n
      <4> QED
          BY <1>5, <1>11, <1>12, <4>1
    <3> QED
        BY <3>1 DEF Installed
  <2>2. ASSUME NEW b \in Installed'
        PROVE  \E j \in 1..(n + 1) : m_handlers'[j] = b
    <3>1. CASE b = a
        BY <1>2, <1>4, <3>1
    <3>2. CASE b # a
      <4>1. PICK j \in 1..n : m_handlers[j] = b
          BY <1>1, <3>2, ListFacts DEF Installed, IndInv, TypeOK, n
      <4>2. CASE j < i
        <5>1. j \in 1..(n + 1) /\ m_handlers'[j] = m_handlers[j]
            BY <1>4, <1>10, <4>2
        <5> QED
            BY <4>1, <5>1
      <4>3. CASE ~(j < i)
        <5>1. j + 1 \in 1..(n + 1) /\ ~(j + 1 < i) /\ j + 1 # i /\ (j + 1) - 1 = j
            BY <1>2, <1>10, <4>3
        <5>2. m_handlers'[j + 1] = m_handlers[j]
            BY <1>4, <5>1
        <5> QED
            BY <4>1, <5>1, <5>2
      <4> QED
          BY <4>2, <4>3
    <3> QED
        BY <3>1, <3>2
  <2>3. ASSUME NEW x \in 1..(n + 1), NEW y \in 1..(n + 1), x < y
        PROVE  Precedes(kind'[m_handlers'[x]].priority, m_handlers'[x],
                        kind'[m_handlers'[y]].priority, m_handlers'[y])
    <3>1. CASE x < i /\ y < i
      <4>1. x \in 1..n /\ y \in 1..n
          BY <1>2, <1>10, <3>1
      <4>2. m_handlers'[x] = m_handlers[x] /\ m_handlers'[y] = m_handlers[y]
          BY <1>4, <3>1
      <4> QED
          BY <1>5, <1>10, <2>3, <4>1, <4>2
    <3>2. CASE x < i /\ y = i
      <4>1. x \in 1..n /\ m_handlers'[x] = m_handlers[x] /\ m_handlers'[y] = a
          BY <1>2, <1>4, <1>10, <3>2
      <4> QED
          BY <1>2, <1>5, <1>12, <3>2, <4>1
    <3>3. CASE x < i /\ i < y
      <4>1. x \in 1..n /\ y - 1 \in 1..n /\ x < y - 1
          BY <1>2, <1>10, <3>3
      <4>2. m_handlers'[x] = m_handlers[x] /\ m_handlers'[y] = m_handlers[y - 1]
          BY <1>2, <1>4, <3>3
      <4> QED
          BY <1>5, <1>10, <4>1, <4>2
    <3>4. CASE x = i /\ i < y
      <4>1. y - 1 \in 1..n /\ i <= y - 1
          BY <1>2, <1>10, <3>4
      <4>2. m_handlers'[x] = a /\ m_handlers'[y] = m_handlers[y - 1]
          BY <1>2, <1>4, <3>4
      <4> QED
          BY <1>2, <1>5, <1>12, <4>1, <4>2
    <3>5. CASE i < x /\ i < y
      <4>1. x - 1 \in 1..n /\ y - 1 \in 1..n /\ x - 1 < y - 1
          BY <1>2, <1>10, <2>3, <3>5
      <4>2. m_handlers'[x] = m_handlers[x - 1] /\ m_handlers'[y] = m_handlers[y - 1]
          BY <1>2, <1>4, <3>5
      <4> QED
          BY <1>5, <1>10, <4>1, <4>2
    <3> QED
        BY <1>2, <2>3, <3>1, <3>2, <3>3, <3>4, <3>5
  <2> QED
      BY <1>4, <2>1, <2>2, <2>3 DEF ListSorted
<1> QED
    BY <1>6, <1>7, <1>8, <1>9, <1>13 DEF IndInv

(* Taking one handler out of the list keeps the rest of it sorted. *)
LEMMA RemovedSorted ==
    ASSUME IndInv, NEW a \in Addresses, state[a] = "installed",
           m_handlers' = Removed(m_handlers, PlaceOf(a)),
           NEW st, st # "installed", state' = [state EXCEPT ![a] = st],
           \A b \in Addresses \ {a} : kind'[b] = kind[b]
    PROVE  ListSorted' /\ m_handlers' \in Seq(Addresses)
<1> DEFINE i == PlaceOf(a)
           n == Len(m_handlers)
<1>1. /\ i \in 1..n
      /\ m_handlers[i] = a
    BY ListFacts DEF PlaceOf
<1>2. m_handlers' = Removed(m_handlers, i)
    OBVIOUS
<1>3. /\ n \in Nat
      /\ n - 1 \in Nat
      /\ \A x, y \in 1..n : x < y =>
            Precedes(kind[m_handlers[x]].priority, m_handlers[x],
                     kind[m_handlers[y]].priority, m_handlers[y])
      /\ \A x \in 1..n : m_handlers[x] \in Addresses
    BY <1>1, ListFacts
<1>4. \A x \in 1..n : x # i =>
         /\ m_handlers[x] # a
         /\ state'[m_handlers[x]] = "installed"
         /\ kind'[m_handlers[x]] = kind[m_handlers[x]]
  <2> SUFFICES ASSUME NEW x \in 1..n, x # i
               PROVE  /\ m_handlers[x] # a
                      /\ state'[m_handlers[x]] = "installed"
                      /\ kind'[m_handlers[x]] = kind[m_handlers[x]]
      OBVIOUS
  <2>1. m_handlers[x] # a
      BY <1>1, ListFacts
  <2>2. m_handlers[x] \in Addresses /\ state[m_handlers[x]] = "installed"
      BY ListFacts
  <2> QED
      BY <2>1, <2>2 DEF IndInv, TypeOK
<1> HIDE DEF i
<1>5. /\ m_handlers' \in Seq(Addresses)
      /\ Len(m_handlers') = n - 1
      /\ \A x \in 1..(n - 1) : m_handlers'[x] =
            IF x < i THEN m_handlers[x] ELSE m_handlers[x + 1]
  <2>1. \A x \in 1..(n - 1) : x \in 1..n /\ x + 1 \in 1..n
      BY <1>3
  <2> QED
      BY <1>2, <1>3, <2>1 DEF Removed
<1> HIDE DEF n
<1>6. ASSUME NEW x \in 1..(n - 1)
      PROVE  \/ x < i /\ x \in 1..n /\ m_handlers'[x] = m_handlers[x]
             \/ i < x + 1 /\ x + 1 \in 1..n /\ m_handlers'[x] = m_handlers[x + 1]
    BY <1>1, <1>3, <1>5
<1>7. ASSUME NEW x \in 1..(n - 1) PROVE m_handlers'[x] \in Installed'
  <2>1. /\ m_handlers'[x] \in Addresses
        /\ state'[m_handlers'[x]] = "installed"
      BY <1>1, <1>3, <1>4, <1>6
  <2> QED
      BY <2>1 DEF Installed
<1>8. ASSUME NEW b \in Installed'
      PROVE  \E x \in 1..(n - 1) : m_handlers'[x] = b
  <2>1. b \in Addresses /\ b # a /\ state[b] = "installed"
      BY DEF Installed, IndInv, TypeOK
  <2>2. PICK x \in 1..n : m_handlers[x] = b
      BY <2>1, ListFacts DEF n
  <2>3. CASE x < i
    <3>1. x \in 1..(n - 1) /\ m_handlers'[x] = m_handlers[x]
        BY <1>1, <1>3, <1>5, <2>3
    <3> QED
        BY <2>2, <3>1
  <2>4. CASE ~(x < i)
    <3>1. x # i
        BY <1>1, <2>1, <2>2
    <3>2. x - 1 \in 1..(n - 1) /\ ~(x - 1 < i) /\ (x - 1) + 1 = x
        BY <1>1, <1>3, <2>4, <3>1
    <3>3. m_handlers'[x - 1] = m_handlers[x]
        BY <1>5, <3>2
    <3> QED
        BY <2>2, <3>2, <3>3
  <2> QED
      BY <2>3, <2>4
<1>9. ASSUME NEW x \in 1..(n - 1), NEW y \in 1..(n - 1), x < y
      PROVE  Precedes(kind'[m_handlers'[x]].priority, m_handlers'[x],
                      kind'[m_handlers'[y]].priority, m_handlers'[y])
  <2>1. CASE x < i /\ y < i
    <3>1. /\ x \in 1..n /\ y \in 1..n /\ x # i /\ y # i
          /\ m_handlers'[x] = m_handlers[x] /\ m_handlers'[y] = m_handlers[y]
        BY <1>1, <1>3, <1>5, <2>1
    <3> QED
        BY <1>3, <1>4, <1>9, <3>1
  <2>2. CASE x < i /\ ~(y < i)
    <3>1. /\ x \in 1..n /\ y + 1 \in 1..n /\ x # i /\ y + 1 # i /\ x < y + 1
          /\ m_handlers'[x] = m_handlers[x] /\ m_handlers'[y] = m_handlers[y + 1]
        BY <1>1, <1>3, <1>5, <1>9, <2>2
    <3> QED
        BY <1>3, <1>4, <3>1
  <2>3. CASE ~(x < i) /\ ~(y < i)
    <3>1. /\ x + 1 \in 1..n /\ y + 1 \in 1..n /\ x + 1 # i /\ y + 1 # i
          /\ x + 1 < y + 1
          /\ m_handlers'[x] = m_handlers[x + 1] /\ m_handlers'[y] = m_handlers[y + 1]
        BY <1>1, <1>3, <1>5, <1>9, <2>3
    <3> QED
        BY <1>3, <1>4, <3>1
  <2> QED
      BY <1>1, <1>9, <2>1, <2>2, <2>3
<1> QED
    BY <1>5, <1>7, <1>8, <1>9 DEF ListSorted

(* A handler whose unsafe counter is zero has no holders. *)
LEMMA SafeMeansUnheld ==
    ASSUME IndInv, NEW a \in Addresses, m_unsafe[a] <= 0
    PROVE  \A t \in Threads : ~Holds(t, a)
<1>1. Cardinality(Holders(a)) = 0
    BY HoldersFinite DEF IndInv, TypeOK, UnsafeIsExact
<1>2. Holders(a) = {}
    BY <1>1, HoldersFinite, FS_EmptySet
<1> QED
    BY <1>2 DEF Holders

(* uninstall(): the list loses the handler, which is deleted only if unheld. *)
LEMMA UninstallInd ==
    ASSUME IndInv, NEW t \in Threads, NEW a \in Addresses, Uninstall(t, a)
    PROVE  IndInv'
<1>1. /\ state[a] = "installed"
      /\ m_handlers' = Removed(m_handlers, PlaceOf(a))
      /\ m_changes' = m_changes + 1
      /\ un[t] = None
      /\ UNCHANGED <<m_unsafe, fr>>
    BY DEF Uninstall, MayUninstall
<1>2. None \notin Addresses
    BY AddressAssumption
<1>3. CASE m_unsafe[a] > 0
  <2>1. /\ un' = [un EXCEPT ![t] = a]
        /\ state' = [state EXCEPT ![a] = "leaving"]
        /\ kind' = kind
      BY <1>3 DEF Uninstall
  <2>2. ListSorted' /\ m_handlers' \in Seq(Addresses)
      BY <1>1, <2>1, RemovedSorted
  <2>3. TypeOK'
      BY <1>1, <2>1, <2>2 DEF IndInv, TypeOK, HandlerStates
  <2>4. UnsafeIsExact'
      BY <1>1 DEF IndInv, UnsafeIsExact, Holders, Holds
  <2>5. NoUseAfterDelete'
      BY <1>1, <2>1 DEF IndInv, TypeOK, NoUseAfterDelete, Holds
  <2>6. UninstallOwned'
    <3>1. \A u \in Threads : un[u] # a
        BY <1>1, <1>2 DEF IndInv, UninstallOwned
    <3> QED
        BY <1>1, <1>2, <2>1, <3>1 DEF IndInv, TypeOK, UninstallOwned
  <2> QED
      BY <2>2, <2>3, <2>4, <2>5, <2>6 DEF IndInv
<1>4. CASE ~(m_unsafe[a] > 0)
  <2>1. /\ un' = un
        /\ state' = [state EXCEPT ![a] = "free"]
        /\ kind' = [kind EXCEPT ![a] = None]
      BY <1>4 DEF Uninstall, Delete
  <2>2. ListSorted' /\ m_handlers' \in Seq(Addresses)
    <3>1. \A b \in Addresses \ {a} : kind'[b] = kind[b]
        BY <2>1 DEF IndInv, TypeOK
    <3> QED
        BY <1>1, <2>1, <3>1, RemovedSorted
  <2>3. TypeOK'
      BY <1>1, <2>1, <2>2 DEF IndInv, TypeOK, HandlerStates
  <2>4. UnsafeIsExact'
      BY <1>1 DEF IndInv, UnsafeIsExact, Holders, Holds
  <2>5. NoUseAfterDelete'
    <3>1. \A u \in Threads : ~Holds(u, a)
      <4>1. m_unsafe[a] <= 0
          BY <1>4 DEF IndInv, TypeOK
      <4> QED
          BY <4>1, SafeMeansUnheld
    <3> QED
        BY <1>1, <2>1, <3>1 DEF IndInv, TypeOK, NoUseAfterDelete, Holds
  <2>6. UninstallOwned'
      BY <1>1, <1>2, <2>1 DEF IndInv, TypeOK, UninstallOwned
  <2> QED
      BY <2>2, <2>3, <2>4, <2>5, <2>6 DEF IndInv
<1> QED
    BY <1>3, <1>4

(* uninstall() ends its wait: the handler it deletes is out of the list, unheld *)
(* and waited for by no other thread.                                           *)
LEMMA UninstallDoneInd ==
    ASSUME IndInv, NEW t \in Threads, UninstallDone(t)
    PROVE  IndInv'
<1> DEFINE a == un[t]
<1>1. /\ a \in Addresses
      /\ a # None
      /\ state[a] = "leaving"
      /\ m_unsafe[a] <= 0
      /\ state' = [state EXCEPT ![a] = "free"]
      /\ kind' = [kind EXCEPT ![a] = None]
      /\ un' = [un EXCEPT ![t] = None]
      /\ UNCHANGED <<m_handlers, m_changes, m_unsafe, fr>>
    BY DEF UninstallDone, Delete, IndInv, TypeOK, UninstallOwned
<1>2. \A u \in Threads : ~Holds(u, a)
    BY <1>1, SafeMeansUnheld
<1>3. \A u \in Threads : u # t => un[u] # a
    BY <1>1 DEF IndInv, UninstallOwned
<1> HIDE DEF a
<1>4. TypeOK'
    BY <1>1 DEF IndInv, TypeOK, HandlerStates
<1>5. UnsafeIsExact'
    BY <1>1 DEF IndInv, UnsafeIsExact, Holders, Holds
<1>6. NoUseAfterDelete'
    BY <1>1, <1>2 DEF IndInv, TypeOK, NoUseAfterDelete, Holds
<1>7. UninstallOwned'
    BY <1>1, <1>3 DEF IndInv, TypeOK, UninstallOwned
<1>8. ListSorted'
  <2>1. \A i \in 1..Len(m_handlers) :
          m_handlers[i] # a /\ kind'[m_handlers[i]] = kind[m_handlers[i]]
      BY <1>1, ListFacts DEF IndInv, TypeOK
  <2>2. Installed' = Installed
      BY <1>1 DEF IndInv, TypeOK, Installed
  <2> QED
      BY <1>1, <2>1, <2>2 DEF IndInv, ListSorted
<1> QED
    BY <1>4, <1>5, <1>6, <1>7, <1>8 DEF IndInv

(* clear() destroys every handler when no thread is in a dispatch any more. *)
LEMMA ClearInd ==
    ASSUME IndInv, Clear
    PROVE  IndInv'
<1>1. /\ m_handlers' = <<>>
      /\ state' = [a \in Addresses |-> "free"]
      /\ kind' = [a \in Addresses |-> None]
      /\ \A t \in Threads : fr[t].pc = "idle" /\ un[t] = None
      /\ UNCHANGED <<m_changes, m_unsafe, fr, un>>
    BY DEF Clear
<1>2. TypeOK'
    BY <1>1 DEF IndInv, TypeOK, HandlerStates
<1>3. UnsafeIsExact'
    BY <1>1 DEF IndInv, UnsafeIsExact, Holders, Holds
<1>4. NoUseAfterDelete'
    BY <1>1 DEF NoUseAfterDelete, Holds
<1>5. ListSorted'
    BY <1>1 DEF ListSorted, Installed
<1>6. UninstallOwned'
    BY <1>1 DEF UninstallOwned
<1> QED
    BY <1>2, <1>3, <1>4, <1>5, <1>6 DEF IndInv

(* A step that changes nothing but the frame of one thread which neither starts *)
(* nor stops to hold a handler by it.                                           *)
LEMMA FrameStepInd ==
    ASSUME IndInv, NEW t \in Threads, NEW f \in Frame,
           fr[t].pc \notin {"entering", "received"},
           f.pc \notin {"entering", "received"},
           fr' = [fr EXCEPT ![t] = f],
           UNCHANGED <<m_handlers, m_changes, m_unsafe, state, kind, un>>
    PROVE  IndInv'
<1>1. \A u \in Threads, a \in Addresses : Holds(u, a)' <=> Holds(u, a)
    BY DEF IndInv, TypeOK, Holds
<1>2. TypeOK'
    BY DEF IndInv, TypeOK
<1>3. UnsafeIsExact'
  <2>1. \A a \in Addresses : Holders(a)' = Holders(a)
      BY <1>1 DEF Holders
  <2> QED
      BY <2>1 DEF IndInv, UnsafeIsExact
<1>4. NoUseAfterDelete'
    BY <1>1 DEF IndInv, NoUseAfterDelete
<1>5. ListSorted' /\ UninstallOwned'
    BY DEF IndInv, ListSorted, Installed, UninstallOwned
<1> QED
    BY <1>2, <1>3, <1>4, <1>5 DEF IndInv

(* safeNowInternal(): the thread leaves the handler it held. *)
LEMMA SafeNowInd ==
    ASSUME IndInv, NEW t \in Threads, NEW f \in Frame,
           fr[t].pc \in {"entering", "received"}, fr[t].h \in Addresses,
           f.pc \notin {"entering", "received"},
           SafeNow(fr[t].h), fr' = [fr EXCEPT ![t] = f],
           UNCHANGED <<m_handlers, m_changes, state, kind, un>>
    PROVE  IndInv'
<1>0. PICK h \in Addresses : h = fr[t].h
    OBVIOUS
<1>1. /\ Holds(t, h)
      /\ \A a \in Addresses : ~Holds(t, a)'
      /\ \A a \in Addresses \ {h} : ~Holds(t, a)
      /\ \A u \in Threads \ {t}, a \in Addresses : Holds(u, a)' <=> Holds(u, a)
    BY <1>0 DEF IndInv, TypeOK, Holds
<1>2. m_unsafe' = [m_unsafe EXCEPT ![h] = @ - 1]
    BY <1>0 DEF SafeNow
<1>3. Cardinality(Holders(h)') = Cardinality(Holders(h)) - 1 /\ Cardinality(Holders(h)) > 0
  <2>1. t \in Holders(h) /\ Holders(h)' = Holders(h) \ {t}
      BY <1>1, <1>0 DEF Holders
  <2> QED
      BY <2>1, HolderRemoved
<1>4. \A a \in Addresses \ {h} : Holders(a)' = Holders(a)
    BY <1>1 DEF Holders
<1>5. m_unsafe[h] = Cardinality(Holders(h))
    BY <1>0 DEF IndInv, UnsafeIsExact
<1>6. TypeOK'
  <2>1. m_unsafe[h] - 1 \in Nat
      BY <1>0, <1>3, <1>5 DEF IndInv, TypeOK
  <2> QED
      BY <1>2, <2>1 DEF IndInv, TypeOK
<1>7. UnsafeIsExact'
  <2> SUFFICES ASSUME NEW a \in Addresses PROVE m_unsafe'[a] = Cardinality(Holders(a)')
      BY DEF UnsafeIsExact
  <2>1. CASE a = h
      BY <1>2, <1>3, <1>5, <2>1 DEF IndInv, TypeOK
  <2>2. CASE a # h
      BY <1>2, <1>4, <2>2 DEF IndInv, TypeOK, UnsafeIsExact
  <2> QED
      BY <2>1, <2>2
<1>8. NoUseAfterDelete'
    BY <1>1 DEF IndInv, NoUseAfterDelete
<1>9. ListSorted' /\ UninstallOwned'
    BY DEF IndInv, ListSorted, Installed, UninstallOwned
<1> QED
    BY <1>6, <1>7, <1>8, <1>9 DEF IndInv

(* The loop of dispatch() either enters an installed handler or ends. *)
LEMMA ScanInd ==
    ASSUME IndInv, NEW t \in Threads, NEW l \in Nat, NEW f \in Frame, NEW s,
           fr[t].pc \notin {"entering", "received"},
           ScanFrom(t, l, f, s),
           UNCHANGED <<m_handlers, m_changes, state, kind, un>>
    PROVE  IndInv'
<1> DEFINE matching == {i \in (l + 1)..Len(m_handlers) :
                           Matches(m_handlers[i], f.msg, f.param)}
           next == CHOOSE i \in matching : \A j \in matching : i <= j
<1>1. CASE matching = {}
  <2>1. fr' = [fr EXCEPT ![t] = LoopLeft(f)] /\ UNCHANGED m_unsafe
      BY <1>1 DEF ScanFrom
  <2>2. LoopLeft(f) \in Frame /\ LoopLeft(f).pc = "done"
      BY DEF LoopLeft, IdleFrame, Frame, Phases
  <2> QED
      BY <2>1, <2>2, FrameStepInd
<1>2. CASE matching # {}
  <2>1. next \in 1..Len(m_handlers)
    <3>1. matching \in SUBSET (1..Len(m_handlers)) /\ Len(m_handlers) \in Nat
        BY ListFacts
    <3>2. \E m \in matching : \A j \in matching : m <= j
        BY <1>2, <3>1, LeastElement
    <3>3. next \in matching
        BY <3>2
    <3> QED
        BY <3>1, <3>3
  <2>2. PICK h \in Addresses : /\ h = m_handlers[next]
                              /\ state[h] = "installed"
                              /\ kind[h].priority \in Nat
      BY <2>1, ListFacts
  <2> DEFINE g == [f EXCEPT !.pc = IF kind[h].relay THEN "entering" ELSE "received",
                            !.h = h, !.p = kind[h].priority,
                            !.l = next, !.c = m_changes]
  <2>3. /\ fr' = [fr EXCEPT ![t] = g]
        /\ m_unsafe' = [m_unsafe EXCEPT ![h] = @ + 1]
      BY <1>2, <2>2 DEF ScanFrom
  <2> HIDE DEF next
  <2>4. next \in Nat
      BY <2>1, ListFacts
  <2>5. /\ g \in Frame
        /\ g.pc \in {"entering", "received"}
        /\ g.h = h
      BY <2>2, <2>4 DEF IndInv, TypeOK, Frame, Phases
  <2> HIDE DEF g
  <2>6. /\ Holds(t, h)'
        /\ \A a \in Addresses \ {h} : ~Holds(t, a)'
        /\ \A a \in Addresses : ~Holds(t, a)
        /\ \A u \in Threads \ {t}, a \in Addresses : Holds(u, a)' <=> Holds(u, a)
      BY <2>3, <2>5 DEF IndInv, TypeOK, Holds
  <2>7. Cardinality(Holders(h)') = Cardinality(Holders(h)) + 1
    <3>1. t \notin Holders(h) /\ Holders(h)' = Holders(h) \cup {t}
        BY <2>2, <2>6 DEF Holders
    <3> QED
        BY <3>1, HolderAdded
  <2>8. \A a \in Addresses \ {h} : Holders(a)' = Holders(a)
      BY <2>6 DEF Holders
  <2>9. TypeOK'
      BY <2>3, <2>2, <2>5 DEF IndInv, TypeOK
  <2>10. UnsafeIsExact'
    <3> SUFFICES ASSUME NEW a \in Addresses PROVE m_unsafe'[a] = Cardinality(Holders(a)')
        BY DEF UnsafeIsExact
    <3>1. CASE a = h
        BY <2>3, <2>2, <2>7, <3>1 DEF IndInv, TypeOK, UnsafeIsExact
    <3>2. CASE a # h
        BY <2>3, <2>8, <3>2 DEF IndInv, TypeOK, UnsafeIsExact
    <3> QED
        BY <3>1, <3>2
  <2>11. NoUseAfterDelete'
      BY <2>2, <2>6 DEF IndInv, NoUseAfterDelete
  <2>12. ListSorted' /\ UninstallOwned'
      BY DEF IndInv, ListSorted, Installed, UninstallOwned
  <2> QED
      BY <2>9, <2>10, <2>11, <2>12 DEF IndInv
<1> QED
    BY <1>1, <1>2

(* The rescan finds a place of the list, or 0 when no handler is left to call. *)
LEMMA RescanNat ==
    ASSUME IndInv, NEW h, NEW p, Rescan(h, p) # 0
    PROVE  Rescan(h, p) \in Nat
<1> DEFINE stop == {i \in 1..Len(m_handlers) :
                       \/ m_handlers[i] = h
                       \/ Precedes(p, h, kind[m_handlers[i]].priority, m_handlers[i])}
           first == CHOOSE i \in stop : \A j \in stop : i <= j
<1>1. stop # {}
    BY DEF Rescan
<1>2. first \in 1..Len(m_handlers)
  <2>1. stop \in SUBSET (1..Len(m_handlers)) /\ Len(m_handlers) \in Nat
      BY ListFacts
  <2>2. \E m \in stop : \A j \in stop : m <= j
      BY <1>1, <2>1, LeastElement
  <2>3. first \in stop
      BY <2>2
  <2> QED
      BY <2>1, <2>3
<1>3. Rescan(h, p) \in {first, 1, first - 1}
    BY <1>1 DEF Rescan
<1>4. Len(m_handlers) \in Nat
    BY ListFacts
<1> HIDE DEF first, stop
<1> QED
    BY <1>2, <1>3, <1>4

(* Every step of the dispatcher preserves the inductive invariant. *)
LEMMA NextInd == IndInv /\ [Next]_vars => IndInv'
<1> SUFFICES ASSUME IndInv, [Next]_vars PROVE IndInv'
    OBVIOUS
<1>1. ASSUME NEW a \in Addresses, NEW k \in Kinds, Install(a, k) PROVE IndInv'
    BY <1>1, InstallInd
<1>2. ASSUME NEW t \in Threads, NEW a \in Addresses, Uninstall(t, a) PROVE IndInv'
    BY <1>2, UninstallInd
<1>3. ASSUME NEW t \in Threads, NEW msg \in Messages, Dispatch(t, msg) PROVE IndInv'
  <2> DEFINE f == [IdleFrame EXCEPT !.msg = msg, !.param = msg.param]
  <2>1. f \in Frame
      BY MessageAssumption DEF IdleFrame, Frame, Phases
  <2>2. /\ fr[t].pc \notin {"entering", "received"}
        /\ ScanFrom(t, 0, f, <<>>)
        /\ UNCHANGED <<m_handlers, m_changes, state, kind, un>>
      BY <1>3 DEF Dispatch
  <2> HIDE DEF f
  <2> QED
      BY <2>1, <2>2, ScanInd
<1>4. ASSUME NEW t \in Threads, UninstallDone(t) PROVE IndInv'
    BY <1>4, UninstallDoneInd
<1>5. ASSUME NEW t \in Threads, RelayEnters(t) PROVE IndInv'
  <2> DEFINE f == [fr[t] EXCEPT !.pc = "receiver"]
  <2>1. /\ fr[t].pc \in {"entering", "received"}
        /\ fr[t].h \in Addresses
        /\ f \in Frame /\ f.pc \notin {"entering", "received"}
        /\ SafeNow(fr[t].h) /\ fr' = [fr EXCEPT ![t] = f]
        /\ UNCHANGED <<m_handlers, m_changes, state, kind, un>>
    <3>1. f \in Frame /\ f.pc \notin {"entering", "received"}
        BY FramesTyped, FrameAtReceiver
    <3>2. /\ fr[t].pc \in {"entering", "received"}
          /\ SafeNow(fr[t].h) /\ fr' = [fr EXCEPT ![t] = f]
          /\ UNCHANGED <<m_handlers, m_changes, state, kind, un>>
        BY <1>5 DEF RelayEnters
    <3>3. fr[t].h \in Addresses
        BY <3>2 DEF IndInv, TypeOK
    <3> QED
        BY <3>1, <3>2, <3>3
  <2> HIDE DEF f
  <2> QED
      BY <2>1, SafeNowInd
<1>6. ASSUME NEW t \in Threads, NEW ok \in BOOLEAN, NEW param \in Params,
             HandlerReturns(t, ok, param)
      PROVE  IndInv'
  <2> DEFINE f == [fr[t] EXCEPT !.pc = "back", !.retv = ok \/ @, !.param = param]
  <2>1. /\ fr[t].pc \in {"entering", "received"}
        /\ fr[t].h \in Addresses
        /\ f \in Frame /\ f.pc \notin {"entering", "received"}
        /\ SafeNow(fr[t].h) /\ fr' = [fr EXCEPT ![t] = f]
        /\ UNCHANGED <<m_handlers, m_changes, state, kind, un>>
    <3>1. f \in Frame /\ f.pc \notin {"entering", "received"}
        BY FramesTyped, FrameLeft
    <3>2. /\ fr[t].pc \in {"entering", "received"}
          /\ SafeNow(fr[t].h) /\ fr' = [fr EXCEPT ![t] = f]
          /\ UNCHANGED <<m_handlers, m_changes, state, kind, un>>
        BY <1>6 DEF HandlerReturns
    <3>3. fr[t].h \in Addresses
        BY <3>2 DEF IndInv, TypeOK
    <3> QED
        BY <3>1, <3>2, <3>3
  <2> HIDE DEF f
  <2> QED
      BY <2>1, SafeNowInd
<1>7. ASSUME NEW t \in Threads, NEW ok \in BOOLEAN, NEW param \in Params,
             ReceiverReturns(t, ok, param)
      PROVE  IndInv'
  <2> DEFINE f == [fr[t] EXCEPT !.pc = "back", !.retv = ok \/ @, !.param = param]
  <2>1. fr[t] \in Frame
      BY DEF IndInv, TypeOK
  <2>2. f \in Frame /\ f.pc = "back"
      BY <2>1 DEF Frame, Phases
  <2>3. /\ fr[t].pc = "receiver"
        /\ fr' = [fr EXCEPT ![t] = f]
        /\ UNCHANGED <<m_handlers, m_changes, m_unsafe, state, kind, un>>
      BY <1>7 DEF ReceiverReturns
  <2> HIDE DEF f
  <2> QED
      BY <2>2, <2>3, FrameStepInd
<1>8. ASSUME NEW t \in Threads, Resume(t) PROVE IndInv'
  <2> DEFINE f == fr[t]
             l == IF f.c = m_changes THEN f.l ELSE Rescan(f.h, f.p)
  <2>1. /\ f \in Frame /\ f.pc = "back"
        /\ UNCHANGED <<m_handlers, m_changes, state, kind, un>>
      BY <1>8 DEF Resume, IndInv, TypeOK
  <2>2. CASE fr' = [fr EXCEPT ![t] = LoopLeft(f)] /\ UNCHANGED m_unsafe
    <3>1. LoopLeft(f) \in Frame /\ LoopLeft(f).pc = "done"
        BY <2>1 DEF LoopLeft, IdleFrame, Frame, Phases
    <3> QED
        BY <2>1, <2>2, <3>1, FrameStepInd
  <2>3. CASE l # 0 /\ ScanFrom(t, l, f, seen[t])
    <3>1. l \in Nat
      <4>1. CASE f.c = m_changes
          BY <2>1, <4>1 DEF Frame
      <4>2. CASE f.c # m_changes
          BY <2>3, <4>2, RescanNat
      <4> QED
          BY <4>1, <4>2
    <3> HIDE DEF f, l
    <3>2. fr[t].pc \notin {"entering", "received"}
        BY <2>1 DEF f
    <3> QED
        BY <2>1, <2>3, <3>1, <3>2, ScanInd
  <2> QED
      BY <1>8, <2>2, <2>3 DEF Resume
<1>9. ASSUME NEW t \in Threads, DispatchReturns(t) PROVE IndInv'
  <2>1. /\ fr[t].pc \notin {"entering", "received"}
        /\ IdleFrame \in Frame /\ IdleFrame.pc \notin {"entering", "received"}
        /\ fr' = [fr EXCEPT ![t] = IdleFrame]
        /\ UNCHANGED <<m_handlers, m_changes, m_unsafe, state, kind, un>>
      BY <1>9 DEF DispatchReturns, IdleFrame, Frame, Phases
  <2> QED
      BY <2>1, FrameStepInd
<1>10. ASSUME Clear PROVE IndInv'
    BY <1>10, ClearInd
<1>11. ASSUME UNCHANGED vars PROVE IndInv'
  <2>1. UNCHANGED <<m_handlers, m_changes, m_unsafe, state, kind, fr, un>>
      BY <1>11 DEF vars, code
  <2> QED
      BY <2>1 DEF IndInv, TypeOK, UnsafeIsExact, Holders, Holds, NoUseAfterDelete,
                  ListSorted, Installed, UninstallOwned
<1> QED
    BY <1>1, <1>2, <1>3, <1>4, <1>5, <1>6, <1>7, <1>8, <1>9, <1>10, <1>11 DEF Next, Step

(* The inductive invariant holds in every reachable state. *)
THEOREM IndInvAlways == Spec => []IndInv
BY InitInd, NextInd, PTL DEF Spec

(* The variables of the dispatcher keep their types; m_unsafe is never negative. *)
THEOREM TypeCorrect == Spec => []TypeOK
<1>1. IndInv => TypeOK
    BY DEF IndInv
<1> QED
    BY <1>1, IndInvAlways, PTL

(* No handler is deleted while a dispatch is inside it: for any number of threads, *)
(* handlers and list changes, with relays that uninstall themselves.               *)
THEOREM HandlersOutliveUse == Spec => []NoUseAfterDelete
<1>1. IndInv => NoUseAfterDelete
    BY DEF IndInv
<1> QED
    BY <1>1, IndInvAlways, PTL

(* m_unsafe counts the dispatches inside each handler exactly. *)
THEOREM UnsafeCounts == Spec => []UnsafeIsExact
<1>1. IndInv => UnsafeIsExact
    BY DEF IndInv
<1> QED
    BY <1>1, IndInvAlways, PTL

(* The list holds exactly the installed handlers, sorted by priority and address. *)
THEOREM HandlersSorted == Spec => []ListSorted
<1>1. IndInv => ListSorted
    BY DEF IndInv
<1> QED
    BY <1>1, IndInvAlways, PTL

(* What a step does to the users of the handlers, in the terms of HandlerLifetime. *)
LEMMA NobodyMoves ==
    ASSUME \A t \in Threads, a \in Addresses : Holds(t, a)' <=> Holds(t, a)
    PROVE  [a \in Addresses |-> Holders(a)]' = [a \in Addresses |-> Holders(a)]
BY DEF Holders

(* Nobody is inside a handler exactly when its unsafe counter is zero. *)
LEMMA UnheldMeansSafe ==
    ASSUME IndInv, NEW a \in Addresses
    PROVE  Holders(a) = {} <=> ~(m_unsafe[a] > 0)
<1>1. m_unsafe[a] = Cardinality(Holders(a)) /\ m_unsafe[a] \in Nat
    BY DEF IndInv, TypeOK, UnsafeIsExact
<1>2. Cardinality(Holders(a)) = 0 <=> Holders(a) = {}
    BY HoldersFinite, FS_EmptySet
<1> QED
    BY <1>1, <1>2

(* safeNowInternal() is the abstract Leave. *)
LEMMA SafeNowLeaves ==
    ASSUME IndInv, NEW t \in Threads, NEW f \in Frame,
           fr[t].pc \in {"entering", "received"},
           f.pc \notin {"entering", "received"},
           fr' = [fr EXCEPT ![t] = f], state' = state
    PROVE  [Lifetime!Next]_(Lifetime!vars)
<1>1. PICK h \in Addresses : h = fr[t].h
    BY DEF IndInv, TypeOK
<1>2. /\ Holds(t, h)
      /\ \A a \in Addresses : ~Holds(t, a)'
      /\ \A a \in Addresses \ {h} : ~Holds(t, a)
      /\ \A u \in Threads \ {t}, a \in Addresses : Holds(u, a)' <=> Holds(u, a)
    BY <1>1 DEF IndInv, TypeOK, Holds
<1>3. t \in Holders(h) /\ Holders(h)' = Holders(h) \ {t}
    BY <1>2 DEF Holders
<1>4. \A a \in Addresses \ {h} : Holders(a)' = Holders(a)
    BY <1>2 DEF Holders
<1>5. Lifetime!Leave(t, h)
    BY <1>3, <1>4 DEF Lifetime!Leave
<1> QED
    BY <1>5 DEF Lifetime!Next

(* The loop of dispatch() is the abstract Enter, or it changes nothing there. *)
LEMMA ScanEnters ==
    ASSUME IndInv, NEW t \in Threads, NEW l \in Nat, NEW f \in Frame, NEW s,
           fr[t].pc \notin {"entering", "received"},
           ScanFrom(t, l, f, s), state' = state
    PROVE  [Lifetime!Next]_(Lifetime!vars)
<1> DEFINE matching == {i \in (l + 1)..Len(m_handlers) :
                           Matches(m_handlers[i], f.msg, f.param)}
           next == CHOOSE i \in matching : \A j \in matching : i <= j
<1>1. CASE matching = {}
  <2>1. fr' = [fr EXCEPT ![t] = LoopLeft(f)]
      BY <1>1 DEF ScanFrom
  <2>2. LoopLeft(f).pc = "done"
      BY DEF LoopLeft, IdleFrame
  <2>3. \A u \in Threads, a \in Addresses : Holds(u, a)' <=> Holds(u, a)
      BY <2>1, <2>2 DEF IndInv, TypeOK, Holds
  <2> QED
      BY <2>3, NobodyMoves DEF Lifetime!vars
<1>2. CASE matching # {}
  <2>1. next \in 1..Len(m_handlers)
    <3>1. matching \in SUBSET (1..Len(m_handlers)) /\ Len(m_handlers) \in Nat
        BY ListFacts
    <3>2. \E m \in matching : \A j \in matching : m <= j
        BY <1>2, <3>1, LeastElement
    <3>3. next \in matching
        BY <3>2
    <3> QED
        BY <3>1, <3>3
  <2>2. PICK h \in Addresses : h = m_handlers[next] /\ state[h] = "installed"
      BY <2>1, ListFacts
  <2> DEFINE g == [f EXCEPT !.pc = IF kind[h].relay THEN "entering" ELSE "received",
                            !.h = h, !.p = kind[h].priority,
                            !.l = next, !.c = m_changes]
  <2>3. fr' = [fr EXCEPT ![t] = g]
      BY <1>2, <2>2 DEF ScanFrom
  <2>4. g.pc \in {"entering", "received"} /\ g.h = h
      BY DEF Frame
  <2> HIDE DEF g
  <2>5. /\ Holds(t, h)'
        /\ \A a \in Addresses \ {h} : ~Holds(t, a)'
        /\ \A a \in Addresses : ~Holds(t, a)
        /\ \A u \in Threads \ {t}, a \in Addresses : Holds(u, a)' <=> Holds(u, a)
      BY <2>3, <2>4 DEF IndInv, TypeOK, Holds
  <2>6. Holders(h)' = Holders(h) \cup {t}
      BY <2>5 DEF Holders
  <2>7. \A a \in Addresses \ {h} : Holders(a)' = Holders(a)
      BY <2>5 DEF Holders
  <2>8. Lifetime!Enter(t, h)
      BY <2>2, <2>6, <2>7 DEF Lifetime!Enter
  <2> QED
      BY <2>8 DEF Lifetime!Next
<1> QED
    BY <1>1, <1>2

(* Every step of the dispatcher is a step of HandlerLifetime or changes nothing there. *)
LEMMA StepRefines == IndInv /\ [Next]_vars => [Lifetime!Next]_(Lifetime!vars)
<1> SUFFICES ASSUME IndInv, [Next]_vars PROVE [Lifetime!Next]_(Lifetime!vars)
    OBVIOUS
<1>1. ASSUME fr' = fr PROVE [a \in Addresses |-> Holders(a)]' = [a \in Addresses |-> Holders(a)]
    BY <1>1 DEF Holders, Holds
<1>2. ASSUME NEW a \in Addresses, NEW k \in Kinds, Install(a, k)
      PROVE  Lifetime!Next
  <2>1. Lifetime!Register(a)
      BY <1>1, <1>2 DEF Install, Lifetime!Register
  <2> QED
      BY <2>1 DEF Lifetime!Next
<1>3. ASSUME NEW t \in Threads, NEW a \in Addresses, Uninstall(t, a)
      PROVE  Lifetime!Next
  <2>1. fr' = fr /\ state[a] = "installed"
      BY <1>3 DEF Uninstall
  <2>2. state' = [state EXCEPT ![a] = IF Holders(a) = {} THEN "free" ELSE "leaving"]
      BY <1>3, UnheldMeansSafe DEF Uninstall, Delete
  <2>3. Lifetime!Unregister(a)
      BY <1>1, <2>1, <2>2 DEF Lifetime!Unregister
  <2> QED
      BY <2>3 DEF Lifetime!Next
<1>4. ASSUME NEW t \in Threads, UninstallDone(t) PROVE Lifetime!Next
  <2>1. PICK a \in Addresses : a = un[t]
      BY <1>4 DEF UninstallDone, IndInv, TypeOK
  <2>2. /\ state[a] = "leaving"
        /\ m_unsafe[a] <= 0
        /\ state' = [state EXCEPT ![a] = "free"]
        /\ fr' = fr
      BY <1>4, <2>1 DEF UninstallDone, Delete, IndInv, UninstallOwned
  <2>3. Holders(a) = {}
      BY <2>2, SafeMeansUnheld DEF Holders
  <2>4. Lifetime!Reclaim(a)
      BY <1>1, <2>2, <2>3 DEF Lifetime!Reclaim
  <2> QED
      BY <2>4 DEF Lifetime!Next
<1>5. ASSUME Clear PROVE Lifetime!Next
  <2>1. \A a \in Addresses : Holders(a) = {}
      BY <1>5 DEF Clear, Holders, Holds
  <2>2. Lifetime!Shutdown
      BY <1>1, <1>5, <2>1 DEF Clear, Lifetime!Shutdown
  <2> QED
      BY <2>2 DEF Lifetime!Next
<1>6. ASSUME NEW t \in Threads, NEW msg \in Messages, Dispatch(t, msg)
      PROVE  [Lifetime!Next]_(Lifetime!vars)
  <2> DEFINE f == [IdleFrame EXCEPT !.msg = msg, !.param = msg.param]
  <2>1. f \in Frame
      BY MessageAssumption DEF IdleFrame, Frame, Phases
  <2>2. /\ fr[t].pc \notin {"entering", "received"}
        /\ ScanFrom(t, 0, f, <<>>)
        /\ state' = state
      BY <1>6 DEF Dispatch
  <2> HIDE DEF f
  <2> QED
      BY <2>1, <2>2, ScanEnters
<1>7. ASSUME NEW t \in Threads, RelayEnters(t) PROVE [Lifetime!Next]_(Lifetime!vars)
  <2> DEFINE f == [fr[t] EXCEPT !.pc = "receiver"]
  <2>1. f \in Frame /\ f.pc \notin {"entering", "received"}
      BY FramesTyped, FrameAtReceiver
  <2>2. /\ fr[t].pc \in {"entering", "received"}
        /\ fr' = [fr EXCEPT ![t] = f] /\ state' = state
      BY <1>7 DEF RelayEnters
  <2> HIDE DEF f
  <2> QED
      BY <2>1, <2>2, SafeNowLeaves
<1>8. ASSUME NEW t \in Threads, NEW ok \in BOOLEAN, NEW param \in Params,
             HandlerReturns(t, ok, param)
      PROVE  [Lifetime!Next]_(Lifetime!vars)
  <2> DEFINE f == [fr[t] EXCEPT !.pc = "back", !.retv = ok \/ @, !.param = param]
  <2>1. f \in Frame /\ f.pc \notin {"entering", "received"}
      BY FramesTyped, FrameLeft
  <2>2. /\ fr[t].pc \in {"entering", "received"}
        /\ fr' = [fr EXCEPT ![t] = f] /\ state' = state
      BY <1>8 DEF HandlerReturns
  <2> HIDE DEF f
  <2> QED
      BY <2>1, <2>2, SafeNowLeaves
<1>9. ASSUME NEW t \in Threads, NEW f, f.pc \notin {"entering", "received"},
             fr[t].pc \notin {"entering", "received"},
             fr' = [fr EXCEPT ![t] = f], state' = state
      PROVE  UNCHANGED Lifetime!vars
  <2>1. \A u \in Threads, a \in Addresses : Holds(u, a)' <=> Holds(u, a)
      BY <1>9 DEF IndInv, TypeOK, Holds
  <2> QED
      BY <1>9, <2>1, NobodyMoves DEF Lifetime!vars
<1>10. ASSUME NEW t \in Threads, NEW ok \in BOOLEAN, NEW param \in Params,
              ReceiverReturns(t, ok, param)
       PROVE  UNCHANGED Lifetime!vars
  <2> DEFINE f == [fr[t] EXCEPT !.pc = "back", !.retv = ok \/ @, !.param = param]
  <2>1. f.pc = "back"
      BY DEF IndInv, TypeOK, Frame
  <2>2. /\ fr[t].pc = "receiver"
        /\ fr' = [fr EXCEPT ![t] = f] /\ state' = state
      BY <1>10 DEF ReceiverReturns
  <2> HIDE DEF f
  <2> QED
      BY <1>9, <2>1, <2>2
<1>11. ASSUME NEW t \in Threads, Resume(t) PROVE [Lifetime!Next]_(Lifetime!vars)
  <2> DEFINE f == fr[t]
             l == IF f.c = m_changes THEN f.l ELSE Rescan(f.h, f.p)
  <2>1. /\ f \in Frame /\ f.pc = "back"
        /\ state' = state
      BY <1>11 DEF Resume, IndInv, TypeOK
  <2>2. CASE fr' = [fr EXCEPT ![t] = LoopLeft(f)] /\ UNCHANGED m_unsafe
    <3>1. LoopLeft(f).pc = "done"
        BY DEF LoopLeft, IdleFrame
    <3> QED
        BY <1>9, <2>1, <2>2, <3>1
  <2>3. CASE l # 0 /\ ScanFrom(t, l, f, seen[t])
    <3>1. l \in Nat
      <4>1. CASE f.c = m_changes
          BY <2>1, <4>1 DEF Frame
      <4>2. CASE f.c # m_changes
          BY <2>3, <4>2, RescanNat
      <4> QED
          BY <4>1, <4>2
    <3> HIDE DEF f, l
    <3>2. fr[t].pc \notin {"entering", "received"}
        BY <2>1 DEF f
    <3> QED
        BY <2>1, <2>3, <3>1, <3>2, ScanEnters
  <2> QED
      BY <1>11, <2>2, <2>3 DEF Resume
<1>12. ASSUME NEW t \in Threads, DispatchReturns(t) PROVE UNCHANGED Lifetime!vars
  <2>1. /\ fr[t].pc = "done"
        /\ IdleFrame.pc = "idle"
        /\ fr' = [fr EXCEPT ![t] = IdleFrame] /\ state' = state
      BY <1>12 DEF DispatchReturns, IdleFrame
  <2> QED
      BY <1>9, <2>1
<1>13. ASSUME UNCHANGED vars PROVE UNCHANGED Lifetime!vars
    BY <1>1, <1>13 DEF vars, code, Lifetime!vars
<1> QED
    BY <1>2, <1>3, <1>4, <1>5, <1>6, <1>7, <1>8, <1>10, <1>11, <1>12, <1>13 DEF Next, Step

(* The dispatcher implements HandlerLifetime: whatever the threads do, its counter *)
(* and its waiting loop give each handler a life in which it is entered only while *)
(* installed and reclaimed only when nobody is inside.                             *)
THEOREM ImplementsLifetime == Spec => LifetimeSpec
<1>1. Init => Lifetime!Init
  <2> SUFFICES ASSUME Init PROVE Lifetime!Init
      OBVIOUS
  <2>1. \A a \in Addresses : Holders(a) = {}
      BY DEF Init, Holders, Holds, IdleFrame
  <2> QED
      BY <2>1 DEF Init, Lifetime!Init
<1> QED
    BY <1>1, StepRefines, IndInvAlways, PTL DEF Spec, LifetimeSpec, Lifetime!Spec

-----------------------------------------------------------------------------
(***************************************************************************)
(* The walk of dispatch() through a list that changes under it: the order  *)
(* in which handlers are considered, and how many can be missed.           *)
(***************************************************************************)

(* What the history keeps of a handler. *)
Visit == [p : Nat, a : Addresses]

(* The standing handlers that a walk which goes on after place l, with history s, *)
(* will not consider any more.                                                    *)
Unreached(X, s, l) ==
    {a \in X : /\ \A i \in 1..Len(s) : s[i].a # a
               /\ \A j \in (l + 1)..Len(m_handlers) : m_handlers[j] # a}

(* The list is finite, so that what a dispatch can miss can be counted. *)
LEMMA InstalledFinite ==
    ASSUME IndInv
    PROVE  IsFiniteSet(Installed)
<1>1. /\ m_handlers \in [1..Len(m_handlers) -> Installed]
      /\ \A a \in Installed : \E i \in 1..Len(m_handlers) : m_handlers[i] = a
      /\ Len(m_handlers) \in Nat
    BY ListFacts DEF Installed
<1>2. m_handlers \in Surjection(1..Len(m_handlers), Installed)
    BY <1>1 DEF Surjection
<1>3. IsFiniteSet(1..Len(m_handlers))
    BY <1>1, FS_Interval
<1> QED
    BY <1>2, <1>3, FS_Surjection

(* A part of a set of installed handlers has no more elements than the whole. *)
LEMMA CountSmaller ==
    ASSUME IndInv, NEW S \in SUBSET Installed, NEW T \in SUBSET S
    PROVE  /\ IsFiniteSet(S) /\ IsFiniteSet(T)
           /\ Cardinality(S) \in Nat /\ Cardinality(T) \in Nat
           /\ Cardinality(T) <= Cardinality(S)
<1>1. IsFiniteSet(S)
    BY InstalledFinite, FS_Subset
<1>2. IsFiniteSet(T) /\ Cardinality(T) <= Cardinality(S)
    BY <1>1, FS_Subset
<1> QED
    BY <1>1, <1>2, FS_CardinalityType

(* One more handler makes the count larger by one at most. *)
LEMMA CountOneMore ==
    ASSUME IndInv, NEW S \in SUBSET Installed, NEW a, NEW T \in SUBSET Installed,
           T \subseteq S \cup {a}
    PROVE  /\ Cardinality(S) \in Nat /\ Cardinality(T) \in Nat
           /\ Cardinality(T) <= Cardinality(S) + 1
<1>1. IsFiniteSet(S) /\ Cardinality(S) \in Nat /\ Cardinality(T) \in Nat
    BY CountSmaller
<1>2. /\ IsFiniteSet(S \cup {a})
      /\ Cardinality(S \cup {a}) <= Cardinality(S) + 1
    BY <1>1, FS_AddElement
<1>3. Cardinality(T) <= Cardinality(S \cup {a}) /\ Cardinality(S \cup {a}) \in Nat
    BY <1>2, FS_Subset, FS_CardinalityType
<1> QED
    BY <1>1, <1>2, <1>3

(* What the scan appends to the history. *)
LEMMA ConsideredFacts ==
    ASSUME IndInv, NEW l \in Nat, NEW k \in Nat, l <= k, k <= Len(m_handlers),
           NEW s \in Seq(Visit)
    PROVE  LET w == s \o Considered(l + 1, k)
           IN  /\ w \in Seq(Visit)
               /\ Len(s) \in Nat
               /\ Len(w) = Len(s) + k - l
               /\ \A i \in 1..Len(s) : w[i] = s[i]
               /\ \A j \in (l + 1)..k :
                     w[Len(s) + j - l] = [p |-> kind[m_handlers[j]].priority,
                                          a |-> m_handlers[j]]
<1> DEFINE c == Considered(l + 1, k)
<1>1. /\ k - (l + 1) + 1 = k - l
      /\ k - l \in Nat
      /\ \A n \in 1..(k - l) : /\ l + 1 + n - 1 = l + n
                               /\ l + n \in 1..Len(m_handlers)
  <2>1. Len(m_handlers) \in Nat
      BY ListFacts
  <2> QED
      BY <2>1
<1>2. c = [n \in 1..(k - l) |-> [p |-> kind[m_handlers[l + n]].priority,
                                 a |-> m_handlers[l + n]]]
    BY <1>1 DEF Considered
<1>3. \A n \in 1..(k - l) : [p |-> kind[m_handlers[l + n]].priority,
                             a |-> m_handlers[l + n]] \in Visit
    BY <1>1, ListFacts DEF Visit
<1> HIDE DEF c
<1>4. c \in Seq(Visit) /\ Len(c) = k - l
  <2>1. c \in [1..(k - l) -> Visit] /\ DOMAIN c = 1..(k - l)
      BY <1>2, <1>3
  <2> QED
      BY <1>1, <2>1
<1>5. \A j \in (l + 1)..k :
        /\ j - l \in 1..(k - l)
        /\ l + (j - l) = j
        /\ Len(s) + j - l = Len(s) + (j - l)
  <2>1. Len(s) \in Nat
      OBVIOUS
  <2> QED
      BY <2>1
<1>6. \A j \in (l + 1)..k :
        c[j - l] = [p |-> kind[m_handlers[j]].priority, a |-> m_handlers[j]]
    BY <1>2, <1>5
<1>7. /\ s \o c \in Seq(Visit)
      /\ Len(s \o c) = Len(s) + (k - l)
      /\ \A i \in 1..Len(s) : (s \o c)[i] = s[i]
      /\ \A n \in 1..(k - l) : (s \o c)[Len(s) + n] = c[n]
    BY <1>1, <1>4
<1> QED
    BY <1>5, <1>6, <1>7 DEF c

(* The handler at a place of the list is past another one in the sort order. *)
Past(p, h, j) == Precedes(p, h, kind[m_handlers[j]].priority, m_handlers[j])

(* The history stays ordered if what the scan appends is past what it holds. *)
LEMMA ScanOrdered ==
    ASSUME IndInv, NEW l \in Nat, NEW k \in Nat, l <= k, k <= Len(m_handlers),
           NEW s \in Seq(Visit), Ordered(s),
           \A i \in 1..Len(s), j \in (l + 1)..k : Past(s[i].p, s[i].a, j)
    PROVE  Ordered(s \o Considered(l + 1, k))
<1> DEFINE w == s \o Considered(l + 1, k)
           m == Len(s)
<1>1. /\ m \in Nat
      /\ Len(w) = m + k - l
      /\ \A i \in 1..m : w[i] = s[i]
      /\ \A j \in (l + 1)..k : w[m + j - l] = [p |-> kind[m_handlers[j]].priority,
                                               a |-> m_handlers[j]]
    BY ConsideredFacts
<1>2. \A i, j \in (l + 1)..k : i < j =>
        Precedes(kind[m_handlers[i]].priority, m_handlers[i],
                 kind[m_handlers[j]].priority, m_handlers[j])
  <2>1. Len(m_handlers) \in Nat
      BY ListFacts
  <2>2. (l + 1)..k \subseteq 1..Len(m_handlers)
      BY <2>1
  <2> QED
      BY <2>2, ListFacts
<1> HIDE DEF w
<1> SUFFICES ASSUME NEW x \in 1..Len(w), NEW y \in 1..Len(w), x < y
             PROVE  Precedes(w[x].p, w[x].a, w[y].p, w[y].a)
    BY DEF Ordered, w
<1>3. CASE y <= m
  <2>1. x \in 1..m /\ y \in 1..m
      BY <1>1, <1>3
  <2> QED
      BY <1>1, <2>1 DEF Ordered
<1>4. CASE x <= m /\ m < y
  <2>1. x \in 1..m /\ y - m + l \in (l + 1)..k /\ m + (y - m + l) - l = y
      BY <1>1, <1>4
  <2>2. Past(s[x].p, s[x].a, y - m + l)
      BY <2>1
  <2>3. w[y] = [p |-> kind[m_handlers[y - m + l]].priority, a |-> m_handlers[y - m + l]]
    <3>1. w[m + (y - m + l) - l] = [p |-> kind[m_handlers[y - m + l]].priority,
                                    a |-> m_handlers[y - m + l]]
        BY <1>1, <2>1
    <3> QED
        BY <2>1, <3>1
  <2> QED
      BY <1>1, <2>1, <2>2, <2>3 DEF Past
<1>5. CASE m < x
  <2>1. /\ x - m + l \in (l + 1)..k /\ m + (x - m + l) - l = x
        /\ y - m + l \in (l + 1)..k /\ m + (y - m + l) - l = y
        /\ x - m + l < y - m + l
      BY <1>1, <1>5
  <2>2. ASSUME NEW z \in 1..Len(w), z - m + l \in (l + 1)..k, m + (z - m + l) - l = z
        PROVE  w[z] = [p |-> kind[m_handlers[z - m + l]].priority, a |-> m_handlers[z - m + l]]
    <3>1. w[m + (z - m + l) - l] = [p |-> kind[m_handlers[z - m + l]].priority,
                                    a |-> m_handlers[z - m + l]]
        BY <1>1, <2>2
    <3> QED
        BY <2>2, <3>1
  <2>3. /\ w[x] = [p |-> kind[m_handlers[x - m + l]].priority, a |-> m_handlers[x - m + l]]
        /\ w[y] = [p |-> kind[m_handlers[y - m + l]].priority, a |-> m_handlers[y - m + l]]
      BY <2>1, <2>2
  <2>4. Precedes(kind[m_handlers[x - m + l]].priority, m_handlers[x - m + l],
                 kind[m_handlers[y - m + l]].priority, m_handlers[y - m + l])
      BY <1>2, <2>1
  <2> QED
      BY <2>3, <2>4
<1> QED
    BY <1>1, <1>3, <1>4, <1>5

(* If the last handler of an ordered history comes before a place of the list, all do. *)
LEMMA LastIsEnough ==
    ASSUME IndInv, NEW s \in Seq(Visit), Ordered(s), NEW n, n = Len(s), n > 0,
           NEW j \in 1..Len(m_handlers), Past(s[n].p, s[n].a, j),
           NEW i \in 1..Len(s)
    PROVE  Past(s[i].p, s[i].a, j)
<1>1. n \in Nat /\ n \in 1..Len(s)
    OBVIOUS
<1>2. CASE i = n
    BY <1>2
<1>3. CASE i # n
  <2>1. i < n
      BY <1>1, <1>3
  <2> DEFINE p == s[i].p
             a == s[i].a
             q == s[n].p
             b == s[n].a
             r == kind[m_handlers[j]].priority
             c == m_handlers[j]
  <2>2. Precedes(p, a, q, b)
      BY <1>1, <2>1 DEF Ordered
  <2>3. s[i] \in Visit /\ s[n] \in Visit
      BY <1>1
  <2>4. p \in Nat /\ a \in Nat /\ q \in Nat /\ b \in Nat /\ r \in Nat /\ c \in Nat
      BY <2>3, ListFacts DEF Visit
  <2>5. Precedes(q, b, r, c)
      BY DEF Past
  <2> HIDE DEF p, a, q, b, r, c
  <2>6. Precedes(p, a, r, c)
      BY <2>2, <2>4, <2>5, PrecedesTransitive
  <2> QED
      BY <2>6 DEF Past, p, a, r, c
<1> QED
    BY <1>2, <1>3

(* The loop over the list from the node after l: it leaves the history in order, and *)
(* what it will not reach any more is what it could not reach before.                *)
LEMMA ScanWalks ==
    ASSUME IndInv, NEW t \in Threads, NEW l \in Nat, l <= Len(m_handlers),
           NEW f \in Frame, NEW s \in Seq(Visit), NEW X \in SUBSET Installed,
           NEW n \in Nat, ScanFrom(t, l, f, s),
           UNCHANGED <<m_handlers, m_changes, state, kind>>,
           seen \in [Threads -> Seq(Visit)],
           standing'[t] = X, lost'[t] = n,
           ~reused'[t] =>
              /\ Ordered(s)
              /\ \A i \in 1..Len(s), j \in (l + 1)..Len(m_handlers) :
                    Past(s[i].p, s[i].a, j)
              /\ Cardinality(Unreached(X, s, l)) <= n
    PROVE  Walks(t)' /\ seen' \in [Threads -> Seq(Visit)]
<1> DEFINE matching == {i \in (l + 1)..Len(m_handlers) :
                           Matches(m_handlers[i], f.msg, f.param)}
           next == CHOOSE i \in matching : \A j \in matching : i <= j
           U == Unreached(X, s, l)
           N == Len(m_handlers)
<1>1. /\ N \in Nat
      /\ fr \in [Threads -> Frame]
      /\ U \in SUBSET X
      /\ \A a \in X : \E j \in 1..N : m_handlers[j] = a
      /\ Installed' = Installed
    BY ListFacts DEF IndInv, TypeOK, Unreached, Installed
<1>2. \A T \in SUBSET U : ~reused'[t] => Cardinality(T) <= n
  <2> SUFFICES ASSUME NEW T \in SUBSET U, ~reused'[t] PROVE Cardinality(T) <= n
      OBVIOUS
  <2>1. U \in SUBSET Installed
      BY <1>1
  <2> HIDE DEF U
  <2>2. Cardinality(T) \in Nat /\ Cardinality(U) \in Nat /\ Cardinality(T) <= Cardinality(U)
      BY <2>1, CountSmaller
  <2> QED
      BY <2>2 DEF U
<1>3. Cardinality({}) = 0
    BY FS_EmptySet
<1>4. CASE matching = {}
  <2> DEFINE w == s \o Considered(l + 1, N)
  <2>1. /\ fr'[t] = LoopLeft(f)
        /\ seen' = [seen EXCEPT ![t] = w]
      BY <1>1, <1>4 DEF ScanFrom
  <2>2. LoopLeft(f).pc = "done"
      BY DEF LoopLeft, IdleFrame
  <2>3. /\ w \in Seq(Visit)
        /\ Len(s) \in Nat
        /\ Len(w) = Len(s) + N - l
        /\ \A i \in 1..Len(s) : w[i] = s[i]
        /\ \A j \in (l + 1)..N : w[Len(s) + j - l] =
              [p |-> kind[m_handlers[j]].priority, a |-> m_handlers[j]]
    <3>1. N \in Nat /\ l <= N /\ N <= Len(m_handlers)
        BY <1>1
    <3> HIDE DEF N
    <3> QED
        BY <3>1, ConsideredFacts
  <2>4. ~reused'[t] => Ordered(w)
      BY <1>1, ScanOrdered
  <2> HIDE DEF w
  <2>5. seen'[t] = w /\ seen' \in [Threads -> Seq(Visit)]
      BY <2>1, <2>3
  <2>6. ASSUME NEW a \in X, \A i \in 1..Len(w) : w[i].a # a PROVE a \in U
    <3>1. ASSUME NEW i \in 1..Len(s) PROVE s[i].a # a
      <4>1. i \in 1..Len(w)
          BY <1>1, <2>3
      <4> QED
          BY <2>3, <2>6, <4>1
    <3>2. ASSUME NEW j \in (l + 1)..N PROVE m_handlers[j] # a
      <4>1. Len(s) + j - l \in 1..Len(w)
          BY <1>1, <2>3
      <4>2. w[Len(s) + j - l] = [p |-> kind[m_handlers[j]].priority, a |-> m_handlers[j]]
          BY <2>3
      <4> QED
          BY <2>6, <4>1, <4>2
    <3> QED
        BY <3>1, <3>2 DEF Unreached
  <2>7. ASSUME reused'[t] PROVE Missed(t)' = {}
      BY <2>7 DEF Missed
  <2>8. Missed(t)' \subseteq U
      BY <2>5, <2>6 DEF Missed
  <2>9. Cardinality(Missed(t)') <= n
    <3>1. CASE reused'[t]
      <4>1. Missed(t)' = {}
          BY <2>7, <3>1
      <4>2. Cardinality(Missed(t)') = 0
          BY <1>3, <4>1
      <4> QED
          BY <4>2
    <3>2. CASE ~reused'[t]
      <4> HIDE DEF U
      <4> QED
          BY <1>2, <2>8, <3>2
    <3> QED
        BY <3>1, <3>2
  <2>10. (standing[t] \subseteq Installed)'
      BY <1>1
  <2> QED
      BY <2>1, <2>2, <2>4, <2>5, <2>9, <2>10 DEF Walks
<1>5. CASE matching # {}
  <2>1. next \in (l + 1)..N /\ next \in 1..N
    <3>1. matching \in SUBSET (1..N) /\ N \in Nat
        BY <1>1
    <3> HIDE DEF N
    <3>2. \E m \in matching : \A j \in matching : m <= j
        BY <1>5, <3>1, LeastElement DEF N
    <3>3. next \in matching
        BY <3>2
    <3> QED
        BY <3>1, <3>3
  <2>2. PICK h \in Addresses : /\ h = m_handlers[next]
                              /\ state[h] = "installed"
                              /\ kind[h].priority \in Nat
      BY <2>1, ListFacts
  <2> DEFINE w == s \o Considered(l + 1, next)
  <2>3. /\ fr'[t].pc \in {"entering", "received"}
        /\ fr'[t].h = h /\ fr'[t].p = kind[h].priority
        /\ fr'[t].l = next /\ fr'[t].c = m_changes
        /\ seen' = [seen EXCEPT ![t] = w]
    <3> DEFINE g == [f EXCEPT !.pc = IF kind[h].relay THEN "entering" ELSE "received",
                              !.h = h, !.p = kind[h].priority,
                              !.l = next, !.c = m_changes]
    <3>1. fr' = [fr EXCEPT ![t] = g] /\ seen' = [seen EXCEPT ![t] = w]
        BY <1>5, <2>2 DEF ScanFrom
    <3>2. /\ g.pc \in {"entering", "received"} /\ g.h = h /\ g.p = kind[h].priority
          /\ g.l = next /\ g.c = m_changes
        BY DEF Frame
    <3>3. fr'[t] = g
        BY <1>1, <3>1
    <3> HIDE DEF g, next, w
    <3> QED
        BY <3>1, <3>2, <3>3
  <2> HIDE DEF next
  <2>4. /\ next \in Nat /\ l <= next /\ next <= N /\ next \in (l + 1)..next
      BY <1>1, <2>1
  <2>5. /\ w \in Seq(Visit)
        /\ Len(s) \in Nat
        /\ Len(w) = Len(s) + next - l
        /\ \A i \in 1..Len(s) : w[i] = s[i]
        /\ \A j \in (l + 1)..next : w[Len(s) + j - l] =
              [p |-> kind[m_handlers[j]].priority, a |-> m_handlers[j]]
      BY <2>4, ConsideredFacts
  <2>6. ~reused'[t] => Ordered(w)
    <3>1. \A j \in (l + 1)..next : j \in (l + 1)..N
        BY <1>1, <2>4
    <3> QED
        BY <2>4, <3>1, ScanOrdered
  <2> HIDE DEF w
  <2>7. seen'[t] = w /\ seen' \in [Threads -> Seq(Visit)]
      BY <2>3, <2>5
  <2>8. Len(w) > 0 /\ w[Len(w)] = [p |-> kind[h].priority, a |-> h]
      BY <2>2, <2>4, <2>5
  <2>9. ASSUME NEW a \in X, \A i \in 1..Len(w) : w[i].a # a,
               ~Precedes(kind[h].priority, h, kind[a].priority, a)
        PROVE  a \in U
    <3>1. ASSUME NEW i \in 1..Len(s) PROVE s[i].a # a
      <4>1. i \in 1..Len(w)
          BY <2>4, <2>5
      <4> QED
          BY <2>5, <2>9, <4>1
    <3>2. ASSUME NEW j \in (l + 1)..N PROVE m_handlers[j] # a
      <4>1. CASE j <= next
        <5>1. Len(s) + j - l \in 1..Len(w) /\ j \in (l + 1)..next
            BY <1>1, <2>4, <2>5, <4>1
        <5>2. w[Len(s) + j - l] = [p |-> kind[m_handlers[j]].priority, a |-> m_handlers[j]]
            BY <2>5, <5>1
        <5> QED
            BY <2>9, <5>1, <5>2
      <4>2. CASE next < j
        <5>1. j \in 1..N
            BY <1>1
        <5>2. Precedes(kind[h].priority, h, kind[m_handlers[j]].priority, m_handlers[j])
            BY <2>1, <2>2, <4>2, <5>1, ListFacts
        <5> QED
            BY <2>9, <5>2
      <4> QED
          BY <1>1, <2>4, <4>1, <4>2
    <3> QED
        BY <3>1, <3>2 DEF Unreached
  <2>10. Skipped(t)' \subseteq U
      BY <2>3, <2>7, <2>9 DEF Skipped
  <2>11. m_changes \in Nat
      BY DEF IndInv, TypeOK
  <2>12. Placed(t)'
      BY <1>2, <2>1, <2>2, <2>3, <2>7, <2>8, <2>10, <2>11 DEF Placed
  <2>13. Missed(t)' = {}
      BY <2>3 DEF Missed
  <2>14. (standing[t] \subseteq Installed)'
      BY <1>1
  <2>15. Cardinality(Missed(t)') <= n
      BY <1>3, <2>13
  <2> QED
      BY <2>3, <2>6, <2>7, <2>12, <2>14, <2>15 DEF Walks
<1> QED
    BY <1>4, <1>5

(* The rescan after a change of the list: all that follows the place it finds is past *)
(* the handler just called, and nothing that is past it comes before that place -     *)
(* except the first handler, when the one just called is gone.                        *)
LEMMA RescanFacts ==
    ASSUME IndInv, NEW h \in Addresses, NEW p \in Nat
    PROVE  LET r == Rescan(h, p)
           IN  /\ r \in Nat /\ r <= Len(m_handlers)
               /\ (state[h] = "installed" => kind[h].priority = p) =>
                     /\ \A j \in (r + 1)..Len(m_handlers) : r # 0 => Past(p, h, j)
                     /\ r = 0 => \A i \in 1..Len(m_handlers) : ~Past(p, h, i)
                     /\ \A i \in 1..r : \/ m_handlers[i] = h
                                        \/ ~Past(p, h, i)
                                        \/ i = 1 /\ state[h] # "installed"
<1> DEFINE N == Len(m_handlers)
           stop == {i \in 1..N : \/ m_handlers[i] = h
                                 \/ Precedes(p, h, kind[m_handlers[i]].priority, m_handlers[i])}
           first == CHOOSE i \in stop : \A j \in stop : i <= j
           r == Rescan(h, p)
<1>1. N \in Nat /\ h \in Nat
    BY ListFacts
<1>2. r = IF stop = {} THEN 0
          ELSE IF m_handlers[first] = h THEN first
          ELSE IF first = 1 THEN 1 ELSE first - 1
    BY DEF Rescan
<1>3. CASE stop = {}
  <2>1. r = 0
      BY <1>2, <1>3
  <2>2. \A i \in 1..N : ~Past(p, h, i)
      BY <1>3 DEF Past
  <2> QED
      BY <1>1, <2>1, <2>2
<1>4. CASE stop # {}
  <2>1. first \in stop /\ \A j \in stop : first <= j
    <3>1. stop \in SUBSET (1..N)
        OBVIOUS
    <3> HIDE DEF stop, N
    <3>2. \E m \in stop : \A j \in stop : m <= j
        BY <1>1, <1>4, <3>1, LeastElement
    <3> QED
        BY <3>2
  <2>2. /\ first \in 1..N
        /\ \/ m_handlers[first] = h
           \/ Past(p, h, first)
      BY <2>1 DEF Past
  <2>3. \A i \in 1..N : i < first => m_handlers[i] # h /\ ~Past(p, h, i)
    <3> SUFFICES ASSUME NEW i \in 1..N, i < first PROVE i \notin stop
        BY DEF Past
    <3> HIDE DEF stop, first
    <3> QED
        BY <2>1, <2>2
  <2>4. r = IF m_handlers[first] = h THEN first ELSE IF first = 1 THEN 1 ELSE first - 1
      BY <1>2, <1>4
  <2> HIDE DEF stop, first, r, N
  <2>5. r \in Nat /\ r <= N /\ r # 0
      BY <1>1, <2>2, <2>4
  <2> SUFFICES ASSUME state[h] = "installed" => kind[h].priority = p
               PROVE  /\ \A j \in (r + 1)..N : Past(p, h, j)
                      /\ \A i \in 1..r : \/ m_handlers[i] = h
                                         \/ ~Past(p, h, i)
                                         \/ i = 1 /\ state[h] # "installed"
      BY <2>5 DEF r, N
  <2>6. \A i, j \in 1..N : i < j =>
           Precedes(kind[m_handlers[i]].priority, m_handlers[i],
                    kind[m_handlers[j]].priority, m_handlers[j])
      BY ListFacts DEF N
  <2>7. ASSUME NEW j \in 1..N, first < j PROVE Past(p, h, j)
    <3> DEFINE q == kind[m_handlers[first]].priority
               b == m_handlers[first]
               c == m_handlers[j]
               k == kind[m_handlers[j]].priority
    <3>1. /\ q \in Nat /\ b \in Nat /\ c \in Nat /\ k \in Nat
          /\ b = h => q = p
        BY <2>2, ListFacts DEF N
    <3>2. Precedes(q, b, k, c)
        BY <2>2, <2>6, <2>7
    <3>3. b = h \/ Precedes(p, h, q, b)
        BY <2>2 DEF Past
    <3> HIDE DEF q, b, c, k
    <3>4. Precedes(p, h, k, c)
        BY <1>1, <3>1, <3>2, <3>3, PrecedesTransitive
    <3> QED
        BY <3>4 DEF Past, c, k
  <2>8. CASE m_handlers[first] = h
    <3>1. r = first
        BY <2>4, <2>8
    <3> QED
        BY <1>1, <2>2, <2>3, <2>7, <2>8, <3>1
  <2>9. CASE m_handlers[first] # h
    <3>1. Past(p, h, first)
        BY <2>2, <2>9
    <3>2. state[h] # "installed"
      <4> SUFFICES ASSUME state[h] = "installed" PROVE FALSE
          OBVIOUS
      <4>1. PICK i \in 1..N : m_handlers[i] = h
          BY ListFacts DEF N
      <4>2. first < i
          BY <1>1, <2>2, <2>3, <2>9, <4>1
      <4>3. Precedes(kind[m_handlers[first]].priority, m_handlers[first], p, h)
          BY <2>2, <2>6, <4>1, <4>2
      <4>4. /\ kind[m_handlers[first]].priority \in Nat
            /\ m_handlers[first] \in Nat
          BY <2>2, ListFacts DEF N
      <4> QED
          BY <1>1, <3>1, <4>3, <4>4 DEF Past, Precedes
    <3>3. CASE first = 1
      <4>1. r = 1
          BY <2>4, <2>9, <3>3
      <4> QED
          BY <1>1, <2>7, <3>2, <3>3, <4>1
    <3>4. CASE first # 1
      <4>1. r = first - 1
          BY <2>4, <2>9, <3>4
      <4>2. \A j \in (r + 1)..N : j = first \/ (j \in 1..N /\ first < j)
          BY <1>1, <2>2, <4>1
      <4>3. \A i \in 1..r : i \in 1..N /\ i < first
          BY <1>1, <2>2, <4>1
      <4> QED
          BY <2>3, <2>7, <3>1, <4>2, <4>3
    <3> QED
        BY <3>3, <3>4
  <2> QED
      BY <2>8, <2>9
<1> QED
    BY <1>3, <1>4

(* The place at which a dispatch goes on when a handler has returned. *)
GoOnAt(t) == IF fr[t].c = m_changes THEN fr[t].l ELSE Rescan(fr[t].h, fr[t].p)

(* What follows that place is past the handler just called, and what precedes it was *)
(* considered or left behind before, the first handler excepted if that one is gone. *)
LEMMA PlaceFound ==
    ASSUME IndInv, NEW t \in Threads, Placed(t)
    PROVE  /\ GoOnAt(t) \in Nat /\ GoOnAt(t) <= Len(m_handlers)
           /\ ~reused[t] =>
                 /\ GoOnAt(t) # 0 => \A j \in (GoOnAt(t) + 1)..Len(m_handlers) :
                                        Past(fr[t].p, fr[t].h, j)
                 /\ GoOnAt(t) = 0 => \A i \in 1..Len(m_handlers) : ~Past(fr[t].p, fr[t].h, i)
                 /\ \A i \in 1..GoOnAt(t) :
                       \/ m_handlers[i] = fr[t].h
                       \/ ~Past(fr[t].p, fr[t].h, i)
                       \/ i = 1 /\ state[fr[t].h] # "installed"
<1>1. /\ fr[t].h \in Addresses /\ fr[t].p \in Nat
      /\ Len(m_handlers) \in Nat
    BY ListFacts, FramesTyped DEF Placed, Frame
<1>2. CASE fr[t].c = m_changes
  <2>1. GoOnAt(t) = fr[t].l
      BY <1>2 DEF GoOnAt
  <2>2. /\ fr[t].l \in 1..Len(m_handlers)
        /\ m_handlers[fr[t].l] = fr[t].h
        /\ kind[fr[t].h].priority = fr[t].p
      BY <1>2 DEF Placed
  <2>3. ASSUME NEW j \in (fr[t].l + 1)..Len(m_handlers) PROVE Past(fr[t].p, fr[t].h, j)
    <3>1. j \in 1..Len(m_handlers) /\ fr[t].l < j
        BY <1>1, <2>2
    <3> QED
        BY <2>2, <3>1, ListFacts DEF Past
  <2>4. ASSUME NEW i \in 1..fr[t].l, i # fr[t].l PROVE ~Past(fr[t].p, fr[t].h, i)
    <3>1. i \in 1..Len(m_handlers) /\ i < fr[t].l
        BY <1>1, <2>2, <2>4
    <3>2. /\ Precedes(kind[m_handlers[i]].priority, m_handlers[i], fr[t].p, fr[t].h)
          /\ kind[m_handlers[i]].priority \in Nat
          /\ m_handlers[i] \in Nat /\ fr[t].h \in Nat
        BY <1>1, <2>2, <3>1, ListFacts
    <3> QED
        BY <1>1, <3>2 DEF Past, Precedes
  <2>5. fr[t].l \in Nat /\ fr[t].l <= Len(m_handlers) /\ fr[t].l # 0
      BY <1>1, <2>2
  <2> QED
      BY <2>1, <2>2, <2>3, <2>4, <2>5
<1>3. CASE fr[t].c # m_changes
  <2>1. GoOnAt(t) = Rescan(fr[t].h, fr[t].p)
      BY <1>3 DEF GoOnAt
  <2>2. ~reused[t] => (state[fr[t].h] = "installed" => kind[fr[t].h].priority = fr[t].p)
      BY DEF Placed
  <2> DEFINE h == fr[t].h
             p == fr[t].p
             r == Rescan(h, p)
  <2>3. h \in Addresses /\ p \in Nat
      BY <1>1
  <2> HIDE DEF h, p
  <2>4. /\ r \in Nat /\ r <= Len(m_handlers)
        /\ (state[h] = "installed" => kind[h].priority = p) =>
              /\ \A j \in (r + 1)..Len(m_handlers) : r # 0 => Past(p, h, j)
              /\ r = 0 => \A i \in 1..Len(m_handlers) : ~Past(p, h, i)
              /\ \A i \in 1..r : \/ m_handlers[i] = h
                                 \/ ~Past(p, h, i)
                                 \/ i = 1 /\ state[h] # "installed"
      BY <2>3, RescanFacts
  <2>5. GoOnAt(t) = r
      BY <2>1 DEF h, p
  <2> HIDE DEF r
  <2>6. ~reused[t] => (state[h] = "installed" => kind[h].priority = p)
      BY <2>2 DEF h, p
  <2>7. /\ GoOnAt(t) \in Nat /\ GoOnAt(t) <= Len(m_handlers)
        /\ ~reused[t] =>
              /\ GoOnAt(t) # 0 => \A j \in (GoOnAt(t) + 1)..Len(m_handlers) : Past(p, h, j)
              /\ GoOnAt(t) = 0 => \A i \in 1..Len(m_handlers) : ~Past(p, h, i)
              /\ \A i \in 1..GoOnAt(t) : \/ m_handlers[i] = h
                                         \/ ~Past(p, h, i)
                                         \/ i = 1 /\ state[h] # "installed"
      BY <2>4, <2>5, <2>6
  <2> QED
      BY <2>7 DEF h, p
<1> QED
    BY <1>2, <1>3

(* A dispatch that a step does not touch, with the list as it was. *)
LEMMA OthersWalk ==
    ASSUME NEW t \in Threads, Walks(t),
           fr'[t] = fr[t], seen'[t] = seen[t], standing'[t] = standing[t],
           lost'[t] = lost[t], reused'[t] = reused[t],
           UNCHANGED <<m_handlers, m_changes, state, kind>>
    PROVE  Walks(t)'
<1>1. Missed(t)' = Missed(t)
    BY DEF Missed
<1>2. Skipped(t)' = Skipped(t)
    BY DEF Skipped
<1>3. Placed(t)' <=> Placed(t)
    BY <1>2 DEF Placed
<1> QED
    BY <1>1, <1>3 DEF Walks, Installed

(* A handler, or a relay's receiver, is entered or returns. *)
LEMMA CallGoesOn ==
    ASSUME NEW t \in Threads, Walks(t),
           fr[t].pc \in {"entering", "received", "receiver", "back"},
           fr'[t].pc \in {"entering", "received", "receiver", "back"},
           fr'[t].h = fr[t].h, fr'[t].p = fr[t].p, fr'[t].l = fr[t].l, fr'[t].c = fr[t].c,
           UNCHANGED <<m_handlers, m_changes, state, kind, history>>
    PROVE  Walks(t)'
<1>1. Missed(t)' = Missed(t)
    BY DEF Missed
<1>2. Skipped(t)' = Skipped(t)
    BY DEF Skipped, history
<1>3. Placed(t)' <=> Placed(t)
    BY <1>2 DEF Placed, history
<1> QED
    BY <1>1, <1>3 DEF Walks, Installed, history

(* A step that changes nothing but the frame of a thread inside a call. *)
LEMMA CallStepWalks ==
    ASSUME IndInv, WalkInv, NEW t \in Threads, NEW f \in Frame,
           fr[t].pc \in {"entering", "received", "receiver", "back"},
           f.pc \in {"entering", "received", "receiver", "back"},
           f.h = fr[t].h, f.p = fr[t].p, f.l = fr[t].l, f.c = fr[t].c,
           fr' = [fr EXCEPT ![t] = f],
           UNCHANGED <<m_handlers, m_changes, state, kind, history>>
    PROVE  WalkInv'
<1>1. fr'[t] = f /\ \A u \in Threads \ {t} : fr'[u] = fr[u]
    BY DEF IndInv, TypeOK
<1>2. Walks(t)'
    BY <1>1, CallGoesOn DEF WalkInv
<1>3. ASSUME NEW u \in Threads, u # t PROVE Walks(u)'
    BY <1>1, <1>3, OthersWalk DEF WalkInv, history
<1>4. HistoryTyped'
    BY DEF WalkInv, HistoryTyped, history
<1> QED
    BY <1>2, <1>3, <1>4 DEF WalkInv

(* The history of a dispatch that has not begun. *)
LEMMA EmptyHistory == <<>> \in Seq(Visit) /\ Len(<<>>) = 0 /\ Ordered(<<>>)
<1>1. <<>> \in Seq(Visit) /\ Len(<<>>) = 0
    OBVIOUS
<1>2. 1..0 = {}
    OBVIOUS
<1> QED
    BY <1>1, <1>2 DEF Ordered

(* dispatch() begins: nothing is left behind. *)
LEMMA DispatchWalks ==
    ASSUME IndInv, WalkInv, NEW t \in Threads, NEW msg \in Messages, Dispatch(t, msg)
    PROVE  WalkInv'
<1> DEFINE f == [IdleFrame EXCEPT !.msg = msg, !.param = msg.param]
<1>1. f \in Frame
    BY MessageAssumption DEF IdleFrame, Frame, Phases
<1>2. /\ ScanFrom(t, 0, f, <<>>)
      /\ standing' = [standing EXCEPT ![t] = Installed]
      /\ lost' = [lost EXCEPT ![t] = 0]
      /\ reused' = [reused EXCEPT ![t] = FALSE]
      /\ UNCHANGED <<m_handlers, m_changes, state, kind>>
    BY DEF Dispatch
<1> HIDE DEF f
<1>3. HistoryTyped /\ Installed \subseteq Addresses
    BY DEF WalkInv, Installed
<1>4. /\ <<>> \in Seq(Visit) /\ Len(<<>>) = 0 /\ Ordered(<<>>)
      /\ 0 <= Len(m_handlers)
      /\ seen \in [Threads -> Seq(Visit)]
  <2>1. Len(m_handlers) \in Nat
      BY ListFacts
  <2>2. seen \in [Threads -> Seq(Visit)]
      BY <1>3 DEF HistoryTyped, Visit
  <2> QED
      BY <2>1, <2>2, EmptyHistory
<1>5. Unreached(Installed, <<>>, 0) = {}
  <2> SUFFICES ASSUME NEW a \in Installed PROVE \E j \in (0 + 1)..Len(m_handlers) : m_handlers[j] = a
      BY DEF Unreached
  <2> QED
      BY ListFacts DEF Installed
<1>6. Cardinality(Unreached(Installed, <<>>, 0)) <= 0
    BY <1>5, FS_EmptySet
<1>7. /\ standing'[t] = Installed /\ lost'[t] = 0
      /\ \A u \in Threads \ {t} : /\ standing'[u] = standing[u]
                                 /\ lost'[u] = lost[u] /\ reused'[u] = reused[u]
      /\ standing' \in [Threads -> SUBSET Addresses]
      /\ lost' \in [Threads -> Nat]
      /\ reused' \in [Threads -> BOOLEAN]
    BY <1>2, <1>3 DEF HistoryTyped
<1>8. Walks(t)' /\ seen' \in [Threads -> Seq(Visit)]
  <2> DEFINE X == Installed
             s == <<>>
  <2>1. /\ X \in SUBSET Installed /\ s \in Seq(Visit)
        /\ 0 \in Nat /\ standing'[t] = X /\ ScanFrom(t, 0, f, s)
      BY <1>2, <1>4, <1>7
  <2>2. /\ Ordered(s)
        /\ \A i \in 1..Len(s), j \in (0 + 1)..Len(m_handlers) : Past(s[i].p, s[i].a, j)
        /\ Cardinality(Unreached(X, s, 0)) <= 0
      BY <1>4, <1>6
  <2>3. UNCHANGED <<m_handlers, m_changes, state, kind>>
      BY <1>2
  <2> HIDE DEF X, s
  <2> QED
      BY <1>1, <1>4, <1>7, <2>1, <2>2, <2>3, ScanWalks
<1>9. ASSUME NEW u \in Threads, u # t PROVE Walks(u)'
  <2>1. fr'[u] = fr[u] /\ seen'[u] = seen[u]
      BY <1>2, <1>4, <1>9 DEF ScanFrom, IndInv, TypeOK
  <2> QED
      BY <1>2, <1>7, <1>9, <2>1, OthersWalk DEF WalkInv
<1> QED
    BY <1>7, <1>8, <1>9 DEF WalkInv, HistoryTyped, Visit

(* dispatch() ends: the history of the thread is cleared. *)
LEMMA DispatchReturnsWalks ==
    ASSUME IndInv, WalkInv, NEW t \in Threads, DispatchReturns(t)
    PROVE  WalkInv'
<1>1. /\ fr' = [fr EXCEPT ![t] = IdleFrame]
      /\ seen' = [seen EXCEPT ![t] = <<>>]
      /\ standing' = [standing EXCEPT ![t] = {}]
      /\ lost' = [lost EXCEPT ![t] = 0]
      /\ reused' = [reused EXCEPT ![t] = FALSE]
      /\ UNCHANGED <<m_handlers, m_changes, state, kind>>
    BY DEF DispatchReturns
<1>2. HistoryTyped'
    BY <1>1, EmptyHistory DEF WalkInv, HistoryTyped, Visit
<1>3. Walks(t)'
  <2>1. /\ fr'[t].pc = "idle" /\ seen'[t] = <<>> /\ standing'[t] = {} /\ lost'[t] = 0
      BY <1>1 DEF IndInv, TypeOK, WalkInv, HistoryTyped, IdleFrame
  <2>2. Missed(t)' = {}
      BY <2>1 DEF Missed
  <2>3. Cardinality(Missed(t)') = 0
      BY <2>2, FS_EmptySet
  <2> QED
      BY <2>1, <2>3 DEF Walks, Ordered
<1>4. ASSUME NEW u \in Threads, u # t PROVE Walks(u)'
  <2>1. /\ fr'[u] = fr[u] /\ seen'[u] = seen[u] /\ standing'[u] = standing[u]
        /\ lost'[u] = lost[u] /\ reused'[u] = reused[u]
      BY <1>1, <1>4 DEF IndInv, TypeOK, WalkInv, HistoryTyped
  <2> QED
      BY <1>1, <2>1, OthersWalk DEF WalkInv
<1> QED
    BY <1>2, <1>3, <1>4 DEF WalkInv

(* The handlers that a walk has not considered and will not, from the place at which *)
(* it goes on, are as few as the times its handler was uninstalled.                  *)
LEMMA UnreachedFew ==
    ASSUME IndInv, HistoryTyped, NEW t \in Threads, Walks(t), Placed(t), ~reused[t]
    PROVE  /\ GoOnAt(t) # 0 =>
                Cardinality(Unreached(standing[t], seen[t], GoOnAt(t))) <= lost[t]
           /\ GoOnAt(t) = 0 =>
                Cardinality({a \in standing[t] : \A i \in 1..Len(seen[t]) : seen[t][i].a # a})
                   <= lost[t]
<1> DEFINE S == Skipped(t)
           h == fr[t].h
           p == fr[t].p
           l == GoOnAt(t)
           N == Len(m_handlers)
           Unseen == {a \in standing[t] : \A i \in 1..Len(seen[t]) : seen[t][i].a # a}
<1>1. /\ standing[t] \subseteq Installed
      /\ S \subseteq Installed
      /\ lost[t] \in Nat
      /\ Cardinality(S) \in Nat
      /\ Cardinality(S) <= lost[t]
      /\ state[h] # "installed" => Cardinality(S) + 1 <= lost[t]
  <2>1. standing[t] \subseteq Installed /\ lost[t] \in Nat
      BY DEF Walks, HistoryTyped
  <2>2. S \subseteq Installed
      BY <2>1 DEF Skipped
  <2>3. Cardinality(S) \in Nat
      BY <2>2, CountSmaller
  <2>4. IF state[h] = "installed" THEN Cardinality(S) <= lost[t]
        ELSE Cardinality(S) + 1 <= lost[t]
      BY DEF Placed
  <2> HIDE DEF S, h
  <2> QED
      BY <2>1, <2>2, <2>3, <2>4
<1>2. \A a \in Unseen : a # h
  <2>1. Len(seen[t]) \in 1..Len(seen[t]) /\ seen[t][Len(seen[t])].a = h
      BY DEF Placed, HistoryTyped
  <2> QED
      BY <2>1
<1>3. \A a \in Unseen : a \in S \/ Precedes(p, h, kind[a].priority, a)
    BY DEF Skipped
<1>4. /\ l \in Nat /\ l <= N /\ N \in Nat
      /\ l = 0 => \A i \in 1..N : ~Past(p, h, i)
      /\ \A i \in 1..l : \/ m_handlers[i] = h
                         \/ ~Past(p, h, i)
                         \/ i = 1 /\ state[h] # "installed"
      /\ \A a \in Installed : \E i \in 1..N : m_handlers[i] = a
    BY PlaceFound, ListFacts DEF Installed
<1> HIDE DEF S, h, p, l, N
<1>5. CASE l = 0
  <2>1. Unseen \subseteq S
      BY <1>1, <1>3, <1>4, <1>5 DEF Past
  <2> HIDE DEF Unseen
  <2>2. Cardinality(Unseen) \in Nat /\ Cardinality(Unseen) <= Cardinality(S)
      BY <1>1, <2>1, CountSmaller
  <2>3. Cardinality(Unseen) <= lost[t]
      BY <1>1, <2>2
  <2> QED
      BY <1>5, <2>3 DEF l, Unseen
<1>6. CASE l # 0
  <2> DEFINE U == Unreached(standing[t], seen[t], l)
  <2>1. ASSUME NEW a \in U
        PROVE  a \in S \/ (a = m_handlers[1] /\ state[h] # "installed")
    <3>1. a \in Unseen /\ a \in standing[t]
        BY DEF Unreached
    <3>2. PICK i \in 1..N : m_handlers[i] = a
        BY <1>1, <1>4, <3>1
    <3>3. i \notin (l + 1)..N
        BY <3>2 DEF Unreached, N
    <3>4. i \in 1..l
        BY <1>4, <3>3
    <3>5. ~Past(p, h, i) \/ (i = 1 /\ state[h] # "installed")
        BY <1>2, <1>4, <3>1, <3>2, <3>4
    <3> QED
        BY <1>3, <3>1, <3>2, <3>5 DEF Past
  <2>2. U \subseteq Installed
      BY <1>1 DEF Unreached
  <2> HIDE DEF U
  <2>3. CASE state[h] = "installed"
    <3>1. U \subseteq S
        BY <2>1, <2>3
    <3>2. Cardinality(U) \in Nat /\ Cardinality(U) <= Cardinality(S)
        BY <1>1, <3>1, CountSmaller
    <3>3. Cardinality(U) <= lost[t]
        BY <1>1, <3>2
    <3> QED
        BY <1>6, <3>3 DEF U, l
  <2>4. CASE state[h] # "installed"
    <3>1. U \subseteq S \cup {m_handlers[1]}
        BY <2>1
    <3>2. Cardinality(U) \in Nat /\ Cardinality(U) <= Cardinality(S) + 1
        BY <1>1, <2>2, <3>1, CountOneMore
    <3>3. Cardinality(U) <= lost[t]
        BY <1>1, <2>4, <3>2
    <3> QED
        BY <1>6, <3>3 DEF U, l
  <2> QED
      BY <2>3, <2>4
<1> QED
    BY <1>5, <1>6 DEF l

(* dispatch() leaves its loop: the message is consumed, or no handler is left. *)
LEMMA LoopLeftWalks ==
    ASSUME IndInv, WalkInv, NEW t \in Threads,
           fr[t].pc = "back", fr'[t] = LoopLeft(fr[t]),
           (fr[t].retv /\ ~fr[t].msg.broadcast) \/ GoOnAt(t) = 0,
           UNCHANGED <<m_handlers, m_changes, state, kind, history>>
    PROVE  Walks(t)'
<1>1. HistoryTyped /\ Walks(t) /\ Placed(t)
    BY DEF WalkInv, Walks
<1>2. /\ fr'[t].pc = "done" /\ fr'[t].retv = fr[t].retv /\ fr'[t].msg = fr[t].msg
    BY DEF LoopLeft, IdleFrame
<1>3. lost[t] \in Nat /\ lost'[t] = lost[t]
    BY <1>1 DEF HistoryTyped, history
<1>4. Cardinality(Missed(t)') <= lost[t]
  <2>1. CASE Missed(t)' = {}
    <3>1. Cardinality(Missed(t)') = 0
        BY <2>1, FS_EmptySet
    <3> QED
        BY <1>3, <3>1
  <2>2. CASE Missed(t)' # {}
    <3>1. /\ ~reused[t] /\ ~(fr[t].retv /\ ~fr[t].msg.broadcast)
          /\ Missed(t)' = standing[t] \ {seen[t][i].a : i \in 1..Len(seen[t])}
        BY <1>2, <2>2 DEF Missed, history
    <3>2. Missed(t)' = {a \in standing[t] : \A i \in 1..Len(seen[t]) : seen[t][i].a # a}
        BY <3>1
    <3>3. GoOnAt(t) = 0
        BY <3>1
    <3>4. Cardinality({a \in standing[t] : \A i \in 1..Len(seen[t]) : seen[t][i].a # a})
             <= lost[t]
        BY <1>1, <3>1, <3>3, UnreachedFew
    <3> QED
        BY <3>2, <3>4
  <2> QED
      BY <2>1, <2>2
<1> QED
    BY <1>1, <1>2, <1>3, <1>4 DEF Walks, Installed, history

(* dispatch() after a handler returned. *)
LEMMA ResumeWalks ==
    ASSUME IndInv, WalkInv, NEW t \in Threads, Resume(t)
    PROVE  WalkInv'
<1>1. /\ fr[t].pc = "back" /\ fr[t] \in Frame
      /\ fr \in [Threads -> Frame]
      /\ HistoryTyped /\ Walks(t) /\ Placed(t)
      /\ UNCHANGED <<m_handlers, m_changes, state, kind, standing, lost, reused>>
    BY DEF Resume, WalkInv, Walks, IndInv, TypeOK
<1>2. \/ /\ (fr[t].retv /\ ~fr[t].msg.broadcast) \/ GoOnAt(t) = 0
         /\ fr' = [fr EXCEPT ![t] = LoopLeft(fr[t])]
         /\ seen' = seen
      \/ GoOnAt(t) # 0 /\ ScanFrom(t, GoOnAt(t), fr[t], seen[t])
    BY DEF Resume, GoOnAt
<1>3. /\ \A u \in Threads \ {t} : fr'[u] = fr[u] /\ seen'[u] = seen[u]
    BY <1>1, <1>2 DEF ScanFrom, HistoryTyped
<1>4. Walks(t)' /\ seen' \in [Threads -> Seq(Visit)]
  <2>1. CASE /\ (fr[t].retv /\ ~fr[t].msg.broadcast) \/ GoOnAt(t) = 0
             /\ fr' = [fr EXCEPT ![t] = LoopLeft(fr[t])]
             /\ seen' = seen
    <3>1. fr'[t] = LoopLeft(fr[t])
        BY <1>1, <2>1
    <3>2. UNCHANGED <<m_handlers, m_changes, state, kind, history>>
        BY <1>1, <2>1 DEF history
    <3> QED
        BY <1>1, <2>1, <3>1, <3>2, LoopLeftWalks DEF HistoryTyped, Visit
  <2>2. CASE GoOnAt(t) # 0 /\ ScanFrom(t, GoOnAt(t), fr[t], seen[t])
    <3> DEFINE l == GoOnAt(t)
               s == seen[t]
               X == standing[t]
               n == lost[t]
    <3>1. /\ l \in Nat /\ l <= Len(m_handlers)
          /\ s \in Seq(Visit) /\ X \in SUBSET Installed /\ n \in Nat
          /\ seen \in [Threads -> Seq(Visit)]
          /\ standing'[t] = X /\ lost'[t] = n
      <4>1. l \in Nat /\ l <= Len(m_handlers)
          BY <1>1, PlaceFound
      <4>2. seen \in [Threads -> Seq(Visit)] /\ n \in Nat /\ X \in SUBSET Installed
          BY <1>1 DEF HistoryTyped, Visit, Walks
      <4> QED
          BY <1>1, <4>1, <4>2
    <3>2. ASSUME ~reused'[t]
          PROVE  /\ Ordered(s)
                 /\ \A i \in 1..Len(s), j \in (l + 1)..Len(m_handlers) :
                       Past(s[i].p, s[i].a, j)
                 /\ Cardinality(Unreached(X, s, l)) <= n
      <4>1. ~reused[t]
          BY <1>1, <3>2
      <4>2. Ordered(s)
          BY <1>1, <4>1 DEF Walks
      <4>3. \A j \in (l + 1)..Len(m_handlers) : Past(fr[t].p, fr[t].h, j)
          BY <1>1, <2>2, <4>1, PlaceFound
      <4>4. Len(s) > 0 /\ s[Len(s)].p = fr[t].p /\ s[Len(s)].a = fr[t].h
          BY <1>1 DEF Placed
      <4>5. Cardinality(Unreached(X, s, l)) <= n
          BY <1>1, <2>2, <4>1, UnreachedFew
      <4>6. \A j \in (l + 1)..Len(m_handlers) : j \in 1..Len(m_handlers)
          BY <3>1, ListFacts
      <4> HIDE DEF s, l
      <4>7. ASSUME NEW i \in 1..Len(s), NEW j \in (l + 1)..Len(m_handlers)
            PROVE  Past(s[i].p, s[i].a, j)
        <5>1. j \in 1..Len(m_handlers) /\ Past(s[Len(s)].p, s[Len(s)].a, j)
            BY <4>3, <4>4, <4>6
        <5> QED
            BY <3>1, <4>2, <4>4, <5>1, LastIsEnough
      <4> QED
          BY <4>2, <4>5, <4>7
    <3>3. ScanFrom(t, l, fr[t], s)
        BY <2>2
    <3> HIDE DEF l, s, X, n
    <3> QED
        BY <1>1, <3>1, <3>2, <3>3, ScanWalks
  <2> QED
      BY <1>2, <2>1, <2>2
<1>5. ASSUME NEW u \in Threads, u # t PROVE Walks(u)'
    BY <1>1, <1>3, <1>5, OthersWalk DEF WalkInv
<1> QED
    BY <1>1, <1>4, <1>5 DEF WalkInv, HistoryTyped, Visit

(* A change of the list, seen from a dispatch: handlers that stay installed keep their *)
(* priority, a change makes m_changes larger, and the loss of the handler it is        *)
(* calling is counted.                                                                 *)
LEMMA ListChangeWalks ==
    ASSUME IndInv, HistoryTyped, NEW u \in Threads, Walks(u),
           UNCHANGED <<fr, seen>>, m_changes' = m_changes + 1,
           standing'[u] \subseteq standing[u], standing'[u] \subseteq Installed',
           \A b \in standing'[u] : kind'[b] = kind[b],
           lost'[u] \in Nat, lost[u] <= lost'[u],
           ~reused'[u] => ~reused[u],
           fr[u].pc = "done" => reused'[u] = reused[u],
           ASSUME fr[u].pc \in {"entering", "received", "receiver", "back"}, ~reused'[u]
           PROVE  \/ /\ state'[fr[u].h] = state[fr[u].h]
                     /\ kind'[fr[u].h] = kind[fr[u].h]
                  \/ /\ state[fr[u].h] = "installed" /\ state'[fr[u].h] # "installed"
                     /\ lost'[u] = lost[u] + 1
    PROVE  Walks(u)'
<1>1. /\ standing[u] \subseteq Installed /\ lost[u] \in Nat /\ fr'[u] = fr[u]
      /\ m_changes \in Nat
    BY DEF Walks, HistoryTyped, IndInv, TypeOK
<1>2. Missed(u)' \subseteq Missed(u) /\ Missed(u) \subseteq Installed
    BY <1>1 DEF Missed
<1>3. Cardinality(Missed(u)') <= lost'[u]
  <2>1. /\ Cardinality(Missed(u)) \in Nat /\ Cardinality(Missed(u)') \in Nat
        /\ Cardinality(Missed(u)') <= Cardinality(Missed(u))
      BY <1>2, CountSmaller
  <2>2. Cardinality(Missed(u)) <= lost[u]
      BY DEF Walks
  <2> QED
      BY <1>1, <2>1, <2>2
<1>4. ASSUME fr[u].pc \in {"entering", "received", "receiver", "back"}
      PROVE  Placed(u)'
  <2>1. Placed(u)
      BY <1>4 DEF Walks
  <2>2. fr[u].c \in Nat /\ fr[u].c <= m_changes /\ fr[u].c # m_changes'
      BY <1>1, <2>1, FramesTyped DEF Placed, Frame
  <2>3. Skipped(u)' \subseteq Skipped(u) /\ Skipped(u) \subseteq Installed
      BY <1>1 DEF Skipped
  <2>4. /\ Cardinality(Skipped(u)) \in Nat /\ Cardinality(Skipped(u)') \in Nat
        /\ Cardinality(Skipped(u)') <= Cardinality(Skipped(u))
      BY <2>3, CountSmaller
  <2>5. ASSUME ~reused'[u]
        PROVE  /\ state'[fr[u].h] = "installed" => kind'[fr[u].h].priority = fr[u].p
               /\ IF state'[fr[u].h] = "installed"
                  THEN Cardinality(Skipped(u)') <= lost'[u]
                  ELSE Cardinality(Skipped(u)') + 1 <= lost'[u]
    <3>1. /\ state[fr[u].h] = "installed" => kind[fr[u].h].priority = fr[u].p
          /\ IF state[fr[u].h] = "installed"
             THEN Cardinality(Skipped(u)) <= lost[u]
             ELSE Cardinality(Skipped(u)) + 1 <= lost[u]
        BY <2>1, <2>5 DEF Placed
    <3>2. CASE /\ state'[fr[u].h] = state[fr[u].h]
               /\ kind'[fr[u].h] = kind[fr[u].h]
        BY <1>1, <2>4, <3>1, <3>2
    <3>3. CASE /\ state[fr[u].h] = "installed" /\ state'[fr[u].h] # "installed"
               /\ lost'[u] = lost[u] + 1
        BY <1>1, <2>4, <3>1, <3>3
    <3> QED
        BY <1>4, <2>5, <3>2, <3>3
  <2>6. fr[u].c <= m_changes'
      BY <1>1, <2>2
  <2> QED
      BY <1>1, <2>1, <2>2, <2>5, <2>6 DEF Placed
<1> QED
    BY <1>1, <1>3, <1>4 DEF Walks

(* install() *)
LEMMA InstallWalks ==
    ASSUME IndInv, WalkInv, NEW a \in Addresses, NEW k \in Kinds, Install(a, k)
    PROVE  WalkInv'
<1>1. /\ state[a] = "free"
      /\ m_changes' = m_changes + 1 /\ m_changes \in Nat
      /\ state' = [state EXCEPT ![a] = "installed"]
      /\ kind' = [kind EXCEPT ![a] = k]
      /\ reused' = [t \in Threads |-> reused[t] \/ InCall(t, a)]
      /\ UNCHANGED <<fr, seen, standing, lost>>
    BY DEF Install, IndInv, TypeOK
<1>2. \A b \in Addresses : b # a => state'[b] = state[b] /\ kind'[b] = kind[b]
    BY <1>1 DEF IndInv, TypeOK
<1>3. Installed \subseteq Installed' /\ a \notin Installed
    BY <1>1 DEF IndInv, TypeOK, Installed
<1>4. HistoryTyped'
    BY <1>1 DEF WalkInv, HistoryTyped, InCall
<1>5. ASSUME NEW u \in Threads PROVE Walks(u)'
  <2>1. HistoryTyped /\ Walks(u)
      BY DEF WalkInv
  <2>2. /\ standing'[u] = standing[u] /\ lost'[u] = lost[u] /\ lost[u] \in Nat
        /\ standing[u] \subseteq Installed
        /\ reused'[u] = (reused[u] \/ InCall(u, a)) /\ reused[u] \in BOOLEAN
      BY <1>1, <2>1 DEF HistoryTyped, Walks
  <2>3. \A b \in standing'[u] : kind'[b] = kind[b]
      BY <1>2, <1>3, <2>2 DEF Installed
  <2>4. ASSUME fr[u].pc \in {"entering", "received", "receiver", "back"}, ~reused'[u]
        PROVE  state'[fr[u].h] = state[fr[u].h] /\ kind'[fr[u].h] = kind[fr[u].h]
    <3>1. fr[u].h # a
        BY <2>2, <2>4 DEF InCall
    <3>2. fr[u].h \in Addresses
        BY <2>1, <2>4 DEF Walks, Placed
    <3> QED
        BY <1>2, <3>1, <3>2
  <2>5. fr[u].pc = "done" => reused'[u] = reused[u]
      BY <2>2 DEF InCall
  <2>6. ~reused'[u] => ~reused[u]
      BY <2>2
  <2>7. m_changes' = m_changes + 1 /\ lost[u] <= lost'[u] /\ lost'[u] \in Nat
      BY <1>1, <2>2
  <2>8. standing'[u] \subseteq standing[u] /\ standing'[u] \subseteq Installed'
      BY <1>3, <2>2
  <2> QED
      BY <1>1, <2>1, <2>3, <2>4, <2>5, <2>6, <2>7, <2>8, ListChangeWalks
<1> QED
    BY <1>4, <1>5 DEF WalkInv

(* uninstall() *)
LEMMA UninstallWalks ==
    ASSUME IndInv, WalkInv, NEW t \in Threads, NEW a \in Addresses, Uninstall(t, a)
    PROVE  WalkInv'
<1>1. /\ state[a] = "installed"
      /\ m_changes' = m_changes + 1 /\ m_changes \in Nat
      /\ standing' = [u \in Threads |-> standing[u] \ {a}]
      /\ lost' = [u \in Threads |-> IF InCall(u, a) THEN lost[u] + 1 ELSE lost[u]]
      /\ UNCHANGED <<fr, seen, reused>>
    BY DEF Uninstall, IndInv, TypeOK
<1>2. /\ \A b \in Addresses : b # a => state'[b] = state[b] /\ kind'[b] = kind[b]
      /\ state'[a] # "installed"
    BY DEF Uninstall, Delete, IndInv, TypeOK
<1>3. Installed \ {a} \subseteq Installed'
    BY <1>2 DEF Installed
<1>4. HistoryTyped'
  <2>1. HistoryTyped
      BY DEF WalkInv
  <2>2. \A u \in Threads : /\ standing[u] \ {a} \in SUBSET Addresses
                           /\ lost[u] \in Nat /\ lost[u] + 1 \in Nat
      BY <2>1 DEF HistoryTyped
  <2>3. /\ standing' \in [Threads -> SUBSET Addresses]
        /\ lost' \in [Threads -> Nat]
      BY <1>1, <2>2
  <2> QED
      BY <1>1, <2>1, <2>3 DEF HistoryTyped
<1>5. ASSUME NEW u \in Threads PROVE Walks(u)'
  <2>1. HistoryTyped /\ Walks(u)
      BY DEF WalkInv
  <2>2. /\ standing'[u] = standing[u] \ {a}
        /\ standing[u] \subseteq Installed
        /\ lost[u] \in Nat /\ lost'[u] \in Nat /\ lost[u] <= lost'[u]
        /\ lost'[u] = IF InCall(u, a) THEN lost[u] + 1 ELSE lost[u]
        /\ reused'[u] = reused[u]
      BY <1>1, <2>1 DEF HistoryTyped, Walks
  <2>3. \A b \in standing'[u] : kind'[b] = kind[b]
      BY <1>2, <2>2 DEF Installed
  <2>4. ASSUME fr[u].pc \in {"entering", "received", "receiver", "back"}, ~reused'[u]
        PROVE  \/ /\ state'[fr[u].h] = state[fr[u].h]
                  /\ kind'[fr[u].h] = kind[fr[u].h]
               \/ /\ state[fr[u].h] = "installed" /\ state'[fr[u].h] # "installed"
                  /\ lost'[u] = lost[u] + 1
    <3>1. CASE fr[u].h = a
      <4>1. lost'[u] = lost[u] + 1
          BY <2>2, <2>4, <3>1 DEF InCall
      <4> QED
          BY <1>1, <1>2, <3>1, <4>1
    <3>2. CASE fr[u].h # a
      <4>1. fr[u].h \in Addresses
          BY <2>1, <2>4 DEF Walks, Placed
      <4> QED
          BY <1>2, <3>2, <4>1
    <3> QED
        BY <3>1, <3>2
  <2>5. m_changes' = m_changes + 1
      BY <1>1
  <2>6. standing'[u] \subseteq standing[u] /\ standing'[u] \subseteq Installed'
      BY <1>3, <2>2
  <2> QED
      BY <1>1, <2>1, <2>2, <2>3, <2>4, <2>5, <2>6, ListChangeWalks
<1> QED
    BY <1>4, <1>5 DEF WalkInv

(* The wait of uninstall() ends: no installed handler changes. *)
LEMMA UninstallDoneWalks ==
    ASSUME IndInv, WalkInv, NEW t \in Threads, UninstallDone(t)
    PROVE  WalkInv'
<1> DEFINE a == un[t]
<1>1. /\ a \in Addresses /\ state[a] = "leaving"
      /\ state' = [state EXCEPT ![a] = "free"]
      /\ kind' = [kind EXCEPT ![a] = None]
      /\ UNCHANGED <<m_handlers, m_changes, fr, history>>
    BY DEF UninstallDone, Delete, IndInv, TypeOK, UninstallOwned
<1> HIDE DEF a
<1>2. /\ Installed' = Installed
      /\ \A b \in Addresses : (state'[b] = "installed") <=> (state[b] = "installed")
      /\ \A b \in Addresses : state[b] = "installed" => kind'[b] = kind[b]
    BY <1>1 DEF IndInv, TypeOK, Installed
<1>3. HistoryTyped'
    BY <1>1 DEF WalkInv, HistoryTyped, history
<1>4. ASSUME NEW u \in Threads PROVE Walks(u)'
  <2>1. Walks(u)
      BY DEF WalkInv
  <2>2. \A b \in standing[u] : b \in Addresses /\ state[b] = "installed"
      BY <2>1 DEF Walks, Installed
  <2>3. Missed(u)' = Missed(u)
      BY <1>1 DEF Missed, history
  <2>4. Skipped(u)' = Skipped(u)
      BY <1>1, <1>2, <2>2 DEF Skipped, history
  <2>5. ASSUME fr[u].pc \in {"entering", "received", "receiver", "back"}
        PROVE  Placed(u)'
    <3>1. Placed(u)
        BY <2>1, <2>5 DEF Walks
    <3>2. \A i \in 1..Len(m_handlers) : kind'[m_handlers[i]] = kind[m_handlers[i]]
        BY <1>2, ListFacts
    <3> QED
        BY <1>1, <1>2, <2>4, <3>1, <3>2 DEF Placed, history
  <2> QED
      BY <1>1, <1>2, <2>1, <2>3, <2>5 DEF Walks, history
<1> QED
    BY <1>3, <1>4 DEF WalkInv

(* clear(): no dispatch is under way. *)
LEMMA ClearWalks ==
    ASSUME IndInv, WalkInv, Clear
    PROVE  WalkInv'
<1>1. /\ \A t \in Threads : fr[t].pc = "idle"
      /\ UNCHANGED <<fr, history>>
    BY DEF Clear
<1>2. HistoryTyped'
    BY <1>1 DEF WalkInv, HistoryTyped, history
<1>3. ASSUME NEW u \in Threads PROVE Walks(u)'
  <2>1. Walks(u) /\ fr[u].pc = "idle"
      BY <1>1 DEF WalkInv
  <2>2. Missed(u)' = Missed(u)
      BY <1>1, <2>1 DEF Missed
  <2> QED
      BY <1>1, <2>1, <2>2 DEF Walks, history
<1> QED
    BY <1>2, <1>3 DEF WalkInv

(* The initial state satisfies the invariant of the walks. *)
LEMMA InitWalks == Init => WalkInv
<1> SUFFICES ASSUME Init PROVE WalkInv
    OBVIOUS
<1>1. HistoryTyped
    BY EmptyHistory DEF Init, HistoryTyped, Visit
<1>2. ASSUME NEW t \in Threads PROVE Walks(t)
  <2>1. fr[t].pc = "idle" /\ seen[t] = <<>> /\ standing[t] = {} /\ lost[t] = 0
      BY DEF Init, IdleFrame
  <2>2. Missed(t) = {}
      BY <2>1 DEF Missed
  <2>3. Cardinality(Missed(t)) = 0
      BY <2>2, FS_EmptySet
  <2> QED
      BY <2>1, <2>3, EmptyHistory DEF Walks
<1> QED
    BY <1>1, <1>2 DEF WalkInv

(* Every step of the dispatcher preserves it. *)
LEMMA NextWalks == IndInv /\ WalkInv /\ [Next]_vars => WalkInv'
<1> SUFFICES ASSUME IndInv, WalkInv, [Next]_vars PROVE WalkInv'
    OBVIOUS
<1>1. ASSUME NEW t \in Threads, RelayEnters(t) PROVE WalkInv'
  <2> DEFINE f == [fr[t] EXCEPT !.pc = "receiver"]
  <2>1. /\ f.pc \in {"entering", "received", "receiver", "back"} /\ f.h = fr[t].h /\ f.p = fr[t].p
        /\ f.l = fr[t].l /\ f.c = fr[t].c /\ f \in Frame
      BY FramesTyped DEF Frame, Phases
  <2>2. /\ fr[t].pc \in {"entering", "received", "receiver", "back"}
        /\ fr' = [fr EXCEPT ![t] = f]
        /\ UNCHANGED <<m_handlers, m_changes, state, kind, history>>
      BY <1>1 DEF RelayEnters
  <2> HIDE DEF f
  <2> QED
      BY <2>1, <2>2, CallStepWalks
<1>2. ASSUME NEW t \in Threads, NEW ok \in BOOLEAN, NEW param \in Params,
             HandlerReturns(t, ok, param) \/ ReceiverReturns(t, ok, param)
      PROVE  WalkInv'
  <2> DEFINE f == [fr[t] EXCEPT !.pc = "back", !.retv = ok \/ @, !.param = param]
  <2>1. /\ f.pc \in {"entering", "received", "receiver", "back"} /\ f.h = fr[t].h /\ f.p = fr[t].p
        /\ f.l = fr[t].l /\ f.c = fr[t].c /\ f \in Frame
      BY FramesTyped DEF Frame, Phases
  <2>2. /\ fr[t].pc \in {"entering", "received", "receiver", "back"}
        /\ fr' = [fr EXCEPT ![t] = f]
        /\ UNCHANGED <<m_handlers, m_changes, state, kind, history>>
      BY <1>2 DEF HandlerReturns, ReceiverReturns
  <2> HIDE DEF f
  <2> QED
      BY <2>1, <2>2, CallStepWalks
<1>3. ASSUME UNCHANGED vars PROVE WalkInv'
  <2>1. UNCHANGED <<m_handlers, m_changes, state, kind, fr, history>>
      BY <1>3 DEF vars, code
  <2>2. \A t \in Threads : Walks(t)'
      BY <2>1, OthersWalk DEF WalkInv, history
  <2>3. HistoryTyped'
      BY <2>1 DEF WalkInv, HistoryTyped, history
  <2> QED
      BY <2>2, <2>3 DEF WalkInv
<1>4. ASSUME NEW t \in Threads, Step(t) PROVE WalkInv'
    BY <1>1, <1>2, <1>4, UninstallDoneWalks, ResumeWalks, DispatchReturnsWalks DEF Step
<1> QED
    BY <1>3, <1>4, InstallWalks, UninstallWalks, DispatchWalks, ClearWalks DEF Next

(* The walk of every dispatch, between any two steps, is as WalkInv says. *)
THEOREM WalkInvAlways == Spec => []WalkInv
BY InitWalks, NextWalks, IndInvAlways, PTL DEF Spec

(* A dispatch considers handlers in strictly increasing order, whatever is installed *)
(* and uninstalled while it runs: the rescan finds the right place, for any number   *)
(* of threads, handlers and changes.                                                 *)
THEOREM WalksInOrder == Spec => []InOrder
<1>1. WalkInv => InOrder
    BY DEF WalkInv, Walks, InOrder
<1> QED
    BY <1>1, WalkInvAlways, PTL

(* A dispatch that nobody consumed misses a handler that was installed throughout at *)
(* most once for each time that the handler it was calling was uninstalled.          *)
THEOREM WalksAreComplete == Spec => []Complete
<1>1. WalkInv => Complete
    BY DEF WalkInv, Walks, Complete
<1> QED
    BY <1>1, WalkInvAlways, PTL
=============================================================================
