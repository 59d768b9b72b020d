-------------------------- MODULE EngineQueueProofs --------------------------
(***************************************************************************)
(* The queue and the worker pool for any number of senders, workers,       *)
(* messages and list nodes: the list is a first-in first-out queue, new    *)
(* messages are appended to a live node, and no wake-up is lost.           *)
(***************************************************************************)
EXTENDS EngineQueue, FiniteSetTheorems, TLAPS

\* The semaphore's maximum is a number, one at least.
LEMMA MaximumPositive == Cardinality(FirstWorkers) \in Nat /\ Cardinality(FirstWorkers) > 0
  BY ThreadAssumption, FS_Subset, FS_CardinalityType, FS_EmptySet

LEMMA InitInd == ASSUME Init PROVE IndInv
  <1>1. TypeOK
    BY NodeAssumption, ThreadAssumption DEF Init, TypeOK, Phases, Threads
  <1>2. AppendIsLast /\ WellLinked
    BY NodeAssumption DEF Init, AppendIsLast, WellLinked, Listed, Last
  <1>3. OneOwner
    BY ThreadAssumption DEF Init, OneOwner, Threads
  <1>4. Queued = {}
    BY NodeAssumption DEF Init, Queued, Listed
  <1> QED  BY <1>1, <1>2, <1>3, <1>4 DEF IndInv, Woken

\* The first node is empty only when the whole queue is.
LEMMA HeadEmpty ==
    ASSUME IndInv
    PROVE  obj[HeadNode] = None <=> Queued = {}
  <1>1. Len(nodes) \in Nat \ {0} /\ nodes \in [1..Len(nodes) -> Nodes] /\ nodes[1] = HeadNode
    BY DEF IndInv, TypeOK, WellLinked
  <1>2. HeadNode \in Listed
    BY <1>1 DEF Listed
  <1>3. CASE Len(nodes) = 1
    BY <1>1, <1>2, <1>3 DEF Queued, Listed
  <1>4. CASE Len(nodes) > 1
    BY <1>1, <1>2, <1>4 DEF Queued, IndInv, WellLinked
  <1> QED  BY <1>1, <1>3, <1>4

\* The queue as a sequence of messages is empty only when the head is.
LEMMA ListNotEmpty ==
    ASSUME IndInv, obj[HeadNode] # None
    PROVE  Queue # <<>>
  <1>1. Len(nodes) \in Nat \ {0} /\ Queue = [i \in 1..Len(nodes) |-> obj[nodes[i]]]
    BY DEF IndInv, TypeOK, WellLinked, Queue
  <1>2. Len(Queue) = Len(nodes)
    BY <1>1
  <1> QED  BY <1>1, <1>2

LEMMA EnqueueInd ==
    ASSUME IndInv, NEW t \in Senders, NEW m \in Messages, Enqueue(t, m)
    PROVE  IndInv'
  <1> DEFINE last == nodes[Len(nodes)]
  <1>1. /\ Len(nodes) \in Nat \ {0} /\ nodes \in [1..Len(nodes) -> Nodes] /\ nodes[1] = HeadNode
        /\ obj \in [Nodes -> Messages \cup {None}] /\ pc \in [Threads -> Phases]
        /\ t \in Threads /\ m # None /\ last \in Listed /\ Listed \subseteq Nodes
    BY NodeAssumption DEF IndInv, TypeOK, WellLinked, Threads, Listed
  <1>2. /\ pc' = [pc EXCEPT ![t] = "post"] /\ In({"post", "posting", "start"})' # {}
        /\ s_semWorkers' = s_semWorkers /\ s_makeworker' = s_makeworker /\ msg' = msg
        /\ s_semWorkers \in Nat /\ s_makeworker \in BOOLEAN
        /\ msg \in [Workers -> Messages \cup {None}]
        /\ pc' \in [Threads -> Phases]
    BY <1>1 DEF Enqueue, In, IndInv, TypeOK, Phases
  <1>3. \A n \in Nodes : obj[n] # m
    BY <1>1 DEF Enqueue, Queued, IndInv, WellLinked
  <1>4. \A w \in Workers : msg[w] # m /\ msg'[w] = msg[w]
    BY NodeAssumption DEF Enqueue, Running
  <1>5. \A w \in Workers : pc'[w] = pc[w]
    BY <1>2, ThreadAssumption, <1>1 DEF Threads
  <1>6. CASE obj[last] = None
    <2>1. obj' = [obj EXCEPT ![last] = m] /\ m_msgAppend' = last /\ nodes' = nodes
      BY <1>6 DEF Enqueue, Last
    <2>2. Len(nodes) = 1
      BY <1>1, <1>6 DEF IndInv, WellLinked
    <2>3. TypeOK'
      BY <1>1, <1>2, <2>1 DEF IndInv, TypeOK, Listed
    <2>4. AppendIsLast' /\ WellLinked'
      BY <1>1, <2>1, <2>2 DEF IndInv, AppendIsLast, WellLinked, Last, Listed
    <2>5. OneOwner'
      <3>1. \A k, j \in Nodes : obj'[k] = obj'[j] => k = j \/ obj'[k] = None
        BY <1>1, <1>3, <2>1 DEF IndInv, OneOwner
      <3>2. \A k \in Nodes, w \in Workers : obj'[k] = msg'[w] => obj'[k] = None
        BY <1>1, <1>4, <2>1 DEF IndInv, OneOwner
      <3> QED  BY <1>2, <1>5, <3>1, <3>2 DEF IndInv, OneOwner
    <2> QED  BY <1>2, <2>3, <2>4, <2>5 DEF IndInv, Woken
  <1>7. CASE obj[last] # None
    <2>1. PICK n \in Nodes \ Listed :
             nodes' = Append(nodes, n) /\ obj' = [obj EXCEPT ![n] = m] /\ m_msgAppend' = n
      BY <1>7 DEF Enqueue, Last
    <2>2. /\ Len(nodes') = Len(nodes) + 1 /\ nodes'[Len(nodes')] = n
          /\ \A i \in 1..Len(nodes) : nodes'[i] = nodes[i]
          /\ nodes' \in Seq(Nodes)
      <3>1. nodes \in Seq(Nodes) /\ n \in Nodes
        BY DEF IndInv, TypeOK
      <3> QED  BY <2>1, <3>1
    <2>3. Listed' = Listed \cup {n}
      BY <1>1, <2>2 DEF Listed
    <2>4. TypeOK'
      BY <1>1, <1>2, <2>1, <2>2 DEF TypeOK
    <2>5. None \notin {obj[k] : k \in Listed}
      <3>1. CASE Len(nodes) = 1
        BY <1>1, <1>7, <3>1 DEF Listed
      <3>2. CASE Len(nodes) > 1
        BY <3>2 DEF IndInv, WellLinked
      <3> QED  BY <1>1, <3>1, <3>2
    <2>6. WellLinked'
      <3>1. \A i, j \in DOMAIN nodes' : nodes'[i] = nodes'[j] => i = j
        BY <1>1, <2>1, <2>2 DEF IndInv, WellLinked, Listed
      <3>2. \A k \in Nodes \ Listed' : obj'[k] = None
        BY <1>1, <2>1, <2>3 DEF IndInv, WellLinked
      <3>3. None \notin {obj'[k] : k \in Listed'}
        BY <1>1, <2>1, <2>3, <2>5
      <3> QED  BY <1>1, <2>2, <3>1, <3>2, <3>3 DEF WellLinked
    <2>7. AppendIsLast'
      BY <2>1, <2>2 DEF AppendIsLast, Last
    <2>8. OneOwner'
      <3>1. \A k, j \in Nodes : obj'[k] = obj'[j] => k = j \/ obj'[k] = None
        BY <1>1, <1>3, <2>1 DEF IndInv, OneOwner
      <3>2. \A k \in Nodes, w \in Workers : obj'[k] = msg'[w] => obj'[k] = None
        BY <1>1, <1>4, <2>1 DEF IndInv, OneOwner
      <3> QED  BY <1>2, <1>5, <3>1, <3>2 DEF IndInv, OneOwner
    <2> QED  BY <1>2, <2>4, <2>6, <2>7, <2>8 DEF IndInv, Woken
  <1> QED  BY <1>6, <1>7

\* The list after ObjList::remove() of the first node: the others move up, and the
\* message of the second is now in the first.
LEMMA Shifted ==
    ASSUME IndInv, NEW w \in Workers, Dequeue(w), Len(nodes) > 1
    PROVE  /\ nodes' \in Seq(Nodes) /\ Len(nodes') = Len(nodes) - 1
           /\ nodes'[1] = HeadNode
           /\ \A i \in 2..Len(nodes') : nodes'[i] = nodes[i + 1]
           /\ Listed' = Listed \ {nodes[2]}
           /\ nodes[2] \in Listed /\ nodes[2] # HeadNode
           /\ obj' = [obj EXCEPT ![HeadNode] = obj[nodes[2]], ![nodes[2]] = None]
  <1>1. /\ Len(nodes) \in Nat /\ nodes \in [1..Len(nodes) -> Nodes] /\ nodes[1] = HeadNode
        /\ nodes' = <<HeadNode>> \o SubSeq(nodes, 3, Len(nodes)) /\ HeadNode \in Nodes
        /\ obj' = [obj EXCEPT ![HeadNode] = obj[nodes[2]], ![nodes[2]] = None]
        /\ nodes \in Seq(Nodes)
    BY NodeAssumption DEF Dequeue, IndInv, TypeOK
  <1>2. SubSeq(nodes, 3, Len(nodes)) \in Seq(Nodes) /\ <<HeadNode>> \in Seq(Nodes)
    BY <1>1
  <1>3. /\ Len(SubSeq(nodes, 3, Len(nodes))) = Len(nodes) - 2
        /\ \A i \in 1..Len(nodes) - 2 : SubSeq(nodes, 3, Len(nodes))[i] = nodes[i + 2]
    BY <1>1
  <1>4. /\ nodes' \in Seq(Nodes) /\ Len(nodes') = Len(nodes) - 1 /\ nodes'[1] = HeadNode
        /\ \A i \in 2..Len(nodes') : nodes'[i] = nodes[i + 1]
    <2> DEFINE rest == SubSeq(nodes, 3, Len(nodes))
    <2>1. nodes' = <<HeadNode>> \o rest /\ rest \in Seq(Nodes) /\ Len(rest) = Len(nodes) - 2
      BY <1>1, <1>2, <1>3
    <2>2. \A i \in 1..Len(nodes) - 2 : rest[i] = nodes[i + 2]
      BY <1>3
    <2> HIDE DEF rest
    <2>3. /\ nodes' \in Seq(Nodes) /\ Len(nodes') = 1 + Len(rest) /\ nodes'[1] = HeadNode
          /\ \A i \in 1..Len(rest) : nodes'[1 + i] = rest[i]
      BY <1>2, <2>1
    <2>4. ASSUME NEW i \in 2..Len(nodes') PROVE nodes'[i] = nodes[i + 1]
      <3>1. i - 1 \in 1..Len(rest) /\ 1 + (i - 1) = i /\ i - 1 \in 1..Len(nodes) - 2
        BY <1>1, <2>1, <2>3
      <3>2. nodes'[i] = rest[i - 1]
        BY <2>3, <3>1
      <3>3. rest[i - 1] = nodes[(i - 1) + 2] /\ (i - 1) + 2 = i + 1
        BY <2>2, <3>1
      <3> QED  BY <3>2, <3>3
    <2> QED  BY <1>1, <2>1, <2>3, <2>4
  <1>5. \A i, j \in 1..Len(nodes) : nodes[i] = nodes[j] => i = j
    BY <1>1 DEF IndInv, WellLinked
  <1>6. Listed' = Listed \ {nodes[2]}
    <2>1. ASSUME NEW n \in Listed' PROVE n \in Listed \ {nodes[2]}
      <3>1. PICK i \in 1..Len(nodes') : n = nodes'[i]
        BY DEF Listed
      <3>2. CASE i = 1
        <4>1. 1 \in 1..Len(nodes) /\ 2 \in 1..Len(nodes) /\ n = nodes[1]
          BY <1>1, <1>4, <3>1, <3>2
        <4>2. n # nodes[2]
          BY <1>5, <4>1
        <4>3. n \in Listed
          BY <4>1 DEF Listed
        <4> QED  BY <4>2, <4>3
      <3>3. CASE i > 1
        <4>1. i + 1 \in 1..Len(nodes) /\ i + 1 # 2 /\ 2 \in 1..Len(nodes) /\ n = nodes[i + 1]
          <5>1. Len(nodes) \in Nat /\ Len(nodes') = Len(nodes) - 1 /\ i \in 2..Len(nodes')
            BY <1>1, <1>4, <3>1, <3>3
          <5> QED  BY <1>4, <3>1, <5>1
        <4>2. n # nodes[2]
          BY <1>5, <4>1
        <4>3. n \in Listed
          BY <4>1 DEF Listed
        <4> QED  BY <4>2, <4>3
      <3> QED  BY <3>1, <3>2, <3>3, <1>4
    <2>2. ASSUME NEW n \in Listed \ {nodes[2]} PROVE n \in Listed'
      <3>1. PICK i \in 1..Len(nodes) : n = nodes[i] /\ i # 2
        BY <1>1 DEF Listed
      <3>2. CASE i = 1
        BY <1>1, <1>4, <3>1, <3>2 DEF Listed
      <3>3. CASE i > 2
        <4>1. i - 1 \in 2..Len(nodes') /\ nodes'[i - 1] = n
          BY <1>1, <1>4, <3>1, <3>3
        <4> QED  BY <4>1, <1>4 DEF Listed
      <3> QED  BY <3>1, <3>2, <3>3
    <2> QED  BY <2>1, <2>2
  <1>7. 1 \in 1..Len(nodes) /\ 2 \in 1..Len(nodes)
    BY <1>1
  <1>8. nodes[2] \in Listed /\ nodes[2] # HeadNode
    BY <1>1, <1>5, <1>7 DEF Listed
  <1> QED  BY <1>1, <1>4, <1>6, <1>8

LEMMA DequeueInd ==
    ASSUME IndInv, NEW w \in Workers, Dequeue(w)
    PROVE  IndInv'
  <1>1. /\ Len(nodes) \in Nat \ {0} /\ nodes \in [1..Len(nodes) -> Nodes] /\ nodes[1] = HeadNode
        /\ obj \in [Nodes -> Messages \cup {None}] /\ pc \in [Threads -> Phases]
        /\ msg \in [Workers -> Messages \cup {None}]
        /\ w \in Threads /\ HeadNode \in Nodes /\ Listed \subseteq Nodes
        /\ m_msgAppend = nodes[Len(nodes)] /\ s_semWorkers \in Nat
    BY NodeAssumption DEF IndInv, TypeOK, WellLinked, AppendIsLast, Last, Threads, Listed
  <1>2. /\ pc[w] = "dequeue" /\ pc' = [pc EXCEPT ![w] = "running"]
        /\ msg' = [msg EXCEPT ![w] = obj[HeadNode]] /\ obj[HeadNode] # None /\ msg[w] = None
        /\ s_semWorkers' = s_semWorkers /\ s_makeworker' = s_makeworker
        /\ s_makeworker \in BOOLEAN /\ nodes \in Seq(Nodes)
        /\ pc' \in [Threads -> Phases] /\ msg' \in [Workers -> Messages \cup {None}]
    BY <1>1 DEF Dequeue, IndInv, OneOwner, TypeOK, Phases
  <1>3. In({"post", "posting", "start"})' = In({"post", "posting", "start"})
    BY <1>1, <1>2 DEF In
  <1>4. CASE Len(nodes) = 1
    <2>1. /\ nodes' = nodes /\ obj' = [obj EXCEPT ![HeadNode] = None]
          /\ m_msgAppend' = m_msgAppend
      BY <1>4 DEF Dequeue
    <2>2. Listed = {HeadNode}
      BY <1>1, <1>4 DEF Listed
    <2>3. Listed' = {HeadNode}
      BY <2>1, <2>2 DEF Listed
    <2>4. obj' \in [Nodes -> Messages \cup {None}] /\ obj'[HeadNode] = None
      BY <1>1, <2>1
    <2>5. Queued' = {}
      BY <2>3, <2>4 DEF Queued
    <2>6. TypeOK'
      BY <1>1, <1>2, <2>1, <2>4 DEF TypeOK
    <2>7. WellLinked'
      <3>1. nodes' # <<>> /\ \A i, j \in DOMAIN nodes' : nodes'[i] = nodes'[j] => i = j
        BY <2>1 DEF IndInv, WellLinked
      <3>2. \A n \in Nodes \ Listed' : obj'[n] = None
        BY <1>1, <2>1, <2>2, <2>3 DEF IndInv, WellLinked
      <3> QED  BY <3>1, <3>2, <1>4, <2>1 DEF WellLinked
    <2>8. AppendIsLast'
      BY <2>1 DEF IndInv, AppendIsLast
    <2>9. OneOwner'
      <3>1. \A n, k \in Nodes : obj'[n] = obj'[k] => n = k \/ obj'[n] = None
        BY <1>1, <2>1 DEF IndInv, OneOwner
      <3>2. \A u, v \in Workers : msg'[u] = msg'[v] => u = v \/ msg'[u] = None
        BY <1>1, <1>2 DEF IndInv, OneOwner
      <3>3. \A n \in Nodes, v \in Workers : obj'[n] = msg'[v] => obj'[n] = None
        BY <1>1, <1>2, <2>1 DEF IndInv, OneOwner
      <3>4. \A v \in Workers : pc'[v] = "running" <=> msg'[v] # None
        BY <1>1, <1>2, ThreadAssumption DEF IndInv, OneOwner, Threads
      <3> QED  BY <3>1, <3>2, <3>3, <3>4 DEF OneOwner
    <2> QED  BY <2>5, <2>6, <2>7, <2>8, <2>9 DEF IndInv, Woken
  <1>5. CASE Len(nodes) > 1
    <2> DEFINE second == nodes[2]
    <2>1. /\ nodes' \in Seq(Nodes) /\ Len(nodes') = Len(nodes) - 1
          /\ nodes'[1] = HeadNode
          /\ \A i \in 2..Len(nodes') : nodes'[i] = nodes[i + 1]
          /\ Listed' = Listed \ {second}
          /\ second \in Listed /\ second # HeadNode
          /\ obj' = [obj EXCEPT ![HeadNode] = obj[second], ![second] = None]
      BY <1>5, Shifted
    <2>2. obj[second] # None /\ HeadNode \in Listed
      <3>1. obj[second] # None
        BY <1>5, <2>1 DEF IndInv, WellLinked
      <3>2. HeadNode \in Listed
        BY <1>1 DEF Listed
      <3> QED  BY <3>1, <3>2
    <2>3. TypeOK'
      <3>1. m_msgAppend' = IF second = m_msgAppend THEN HeadNode ELSE m_msgAppend
        BY <1>5 DEF Dequeue
      <3>2. obj' \in [Nodes -> Messages \cup {None}] /\ m_msgAppend' \in Nodes
        BY <1>1, <2>1, <3>1 DEF IndInv, TypeOK
      <3> QED  BY <1>1, <1>2, <2>1, <3>2 DEF TypeOK
    <2>4. WellLinked'
      <3>1. ASSUME NEW i \in DOMAIN nodes', NEW j \in DOMAIN nodes', nodes'[i] = nodes'[j]
            PROVE  i = j
        <4> DEFINE at(k) == IF k = 1 THEN 1 ELSE k + 1
        <4>1. \A k \in DOMAIN nodes' : at(k) \in 1..Len(nodes) /\ nodes'[k] = nodes[at(k)]
          BY <1>1, <1>5, <2>1
        <4>2. \A k, m \in 1..Len(nodes) : nodes[k] = nodes[m] => k = m
          BY <1>1 DEF IndInv, WellLinked
        <4>3. at(i) = at(j)
          BY <3>1, <4>1, <4>2
        <4> QED  BY <1>1, <2>1, <4>3
      <3>2. \A n \in Nodes \ Listed' : obj'[n] = None
        BY <1>1, <2>1, <2>2 DEF IndInv, WellLinked
      <3>3. \A n \in Listed : obj[n] # None
        BY <1>5 DEF IndInv, WellLinked
      <3>4. None \notin {obj'[n] : n \in Listed'}
        BY <1>1, <2>1, <2>2, <3>3
      <3>5. nodes' # <<>>
        BY <1>1, <1>5, <2>1
      <3> QED  BY <3>1, <3>2, <3>4, <3>5 DEF WellLinked
    <2>5. AppendIsLast'
      <3>1. m_msgAppend' = IF second = m_msgAppend THEN HeadNode ELSE m_msgAppend
        BY <1>5 DEF Dequeue
      <3>2. CASE Len(nodes) = 2
        BY <1>1, <2>1, <3>1, <3>2 DEF AppendIsLast, Last
      <3>3. CASE Len(nodes) > 2
        <4>1. second # nodes[Len(nodes)]
          BY <1>1, <3>3 DEF IndInv, WellLinked
        <4>2. nodes'[Len(nodes')] = nodes[Len(nodes)]
          BY <1>1, <2>1, <3>3
        <4> QED  BY <1>1, <3>1, <4>1, <4>2 DEF AppendIsLast, Last
      <3> QED  BY <1>1, <1>5, <3>2, <3>3
    <2>6. OneOwner'
      <3>1. \A n, k \in Nodes : obj'[n] = obj'[k] => n = k \/ obj'[n] = None
        BY <1>1, <2>1 DEF IndInv, OneOwner
      <3>2. \A u, v \in Workers : msg'[u] = msg'[v] => u = v \/ msg'[u] = None
        BY <1>1, <1>2 DEF IndInv, OneOwner
      <3>3. \A n \in Nodes, v \in Workers : obj'[n] = msg'[v] => obj'[n] = None
        BY <1>1, <1>2, <2>1 DEF IndInv, OneOwner
      <3>4. \A v \in Workers : pc'[v] = "running" <=> msg'[v] # None
        BY <1>1, <1>2, ThreadAssumption DEF IndInv, OneOwner, Threads
      <3> QED  BY <3>1, <3>2, <3>3, <3>4 DEF OneOwner
    <2>7. Queued # {}
      BY <2>2, <1>2 DEF Queued
    <2> QED  BY <1>2, <1>3, <2>3, <2>4, <2>5, <2>6, <2>7 DEF IndInv, Woken
  <1> QED  BY <1>1, <1>4, <1>5

LEMMA DispatchedInd ==
    ASSUME IndInv, NEW w \in Workers, Dispatched(w)
    PROVE  IndInv'
  <1>1. /\ pc \in [Threads -> Phases] /\ msg \in [Workers -> Messages \cup {None}] /\ w \in Threads
        /\ pc[w] = "running" /\ pc' = [pc EXCEPT ![w] = "dequeue"]
        /\ msg' = [msg EXCEPT ![w] = None]
        /\ UNCHANGED <<nodes, obj, m_msgAppend, s_semWorkers, s_makeworker>>
    BY DEF Dispatched, IndInv, TypeOK, list, Threads
  <1>2. TypeOK'
    BY <1>1 DEF IndInv, TypeOK, Phases
  <1>3. AppendIsLast' /\ WellLinked'
    BY <1>1 DEF IndInv, AppendIsLast, WellLinked, Listed
  <1>4. OneOwner'
    <2>1. \A u, v \in Workers : msg'[u] = msg'[v] => u = v \/ msg'[u] = None
      BY <1>1 DEF IndInv, OneOwner
    <2>2. \A n \in Nodes, v \in Workers : obj'[n] = msg'[v] => obj'[n] = None
      BY <1>1 DEF IndInv, OneOwner
    <2>3. \A v \in Workers : pc'[v] = "running" <=> msg'[v] # None
      BY <1>1, ThreadAssumption DEF IndInv, OneOwner, Threads
    <2> QED  BY <1>1, <2>1, <2>2, <2>3 DEF IndInv, OneOwner
  <1>5. In({"post", "posting", "start"})' = In({"post", "posting", "start"})
    <2>1. \A u \in Threads :
             pc'[u] \in {"post", "posting", "start"} <=> pc[u] \in {"post", "posting", "start"}
      BY <1>1
    <2> QED  BY <2>1 DEF In
  <1>6. Queued' = Queued
    BY <1>1 DEF Queued, Listed
  <1>7. Woken'
    BY <1>1, <1>5, <1>6 DEF IndInv, Woken
  <1> QED  BY <1>2, <1>3, <1>4, <1>7 DEF IndInv

\* A step that leaves the list and the messages alone and moves one thread between
\* phases in which it has no message.
LEMMA MoveKeeps ==
    ASSUME IndInv, NEW t \in Threads, NEW p \in Phases \ {"running"},
           UNCHANGED <<nodes, obj, m_msgAppend, msg>>, pc[t] # "running",
           pc' = [pc EXCEPT ![t] = p], s_semWorkers' \in Nat, s_makeworker' \in BOOLEAN
    PROVE  TypeOK' /\ AppendIsLast' /\ WellLinked' /\ OneOwner' /\ Queued' = Queued
  <1>1. pc \in [Threads -> Phases]
    BY DEF IndInv, TypeOK
  <1>2. TypeOK'
    BY <1>1 DEF IndInv, TypeOK
  <1>3. AppendIsLast' /\ WellLinked' /\ Queued' = Queued
    BY DEF IndInv, AppendIsLast, WellLinked, Listed, Queued
  <1>4. \A w \in Workers : pc'[w] = "running" <=> pc[w] = "running"
    BY <1>1 DEF Threads
  <1>5. OneOwner'
    BY <1>4 DEF IndInv, OneOwner
  <1> QED  BY <1>2, <1>3, <1>5

LEMMA MoveInd ==
    ASSUME IndInv, NEW t \in Threads,
           \/ PostStep(t)
           \/ t \in Workers /\ (Start(t) \/ DequeueNothing(t) \/ Wake(t) \/ WakeTimeout(t)
                                \/ CreateWorker(t))
           \/ t = MainThread /\ WakeWorker
    PROVE  IndInv'
  <1>1. /\ pc \in [Threads -> Phases] /\ s_semWorkers \in Nat /\ s_makeworker \in BOOLEAN
    BY DEF IndInv, TypeOK
  <1> DEFINE up(q) == q \in {"post", "posting", "start"}
  <1>2. \A p \in Phases : pc' = [pc EXCEPT ![t] = p] /\ up(p) =>
           t \in In({"post", "posting", "start"})'
    BY <1>1 DEF In
  <1>3. \A p \in Phases : pc' = [pc EXCEPT ![t] = p] /\ ~up(pc[t]) =>
           In({"post", "posting", "start"}) \subseteq In({"post", "posting", "start"})'
    BY <1>1 DEF In
  <1>4. CASE CheckPost(t)
    <2>1. CASE s_semWorkers < Cardinality(FirstWorkers)
      <3>1. TypeOK' /\ AppendIsLast' /\ WellLinked' /\ OneOwner' /\ Queued' = Queued
        BY <1>1, <1>4, <2>1, MoveKeeps DEF CheckPost, list, Phases
      <3> QED  BY <1>2, <1>4, <2>1, <3>1 DEF CheckPost, IndInv, Woken, Phases
    <2>2. CASE ~(s_semWorkers < Cardinality(FirstWorkers))
      <3>1. TypeOK' /\ AppendIsLast' /\ WellLinked' /\ OneOwner' /\ Queued' = Queued
        BY <1>1, <1>4, <2>2, MoveKeeps DEF CheckPost, list, Phases, After
      <3>2. s_semWorkers' > 0
        BY <1>1, <1>4, <2>2, MaximumPositive DEF CheckPost
      <3> QED  BY <3>1, <3>2 DEF IndInv, Woken
    <2> QED  BY <2>1, <2>2
  <1>5. CASE Post(t)
    <2>1. /\ UNCHANGED <<nodes, obj, m_msgAppend, msg, s_makeworker>>
          /\ s_semWorkers' = s_semWorkers + 1 /\ pc[t] = "posting"
          /\ pc' = [pc EXCEPT ![t] = After(t)]
      BY <1>5 DEF Post, list
    <2>2. After(t) \in Phases \ {"running"} /\ s_semWorkers' \in Nat /\ s_makeworker' \in BOOLEAN
      BY <1>1, <2>1 DEF After, Phases
    <2>3. TypeOK' /\ AppendIsLast' /\ WellLinked' /\ OneOwner' /\ Queued' = Queued
      BY <2>1, <2>2, MoveKeeps
    <2>4. s_semWorkers' > 0
      BY <1>1, <1>5 DEF Post
    <2> QED  BY <2>3, <2>4 DEF IndInv, Woken
  <1>6. CASE t \in Workers /\ Start(t)
    <2>1. CASE obj[HeadNode] # None
      <3>1. pc' = [pc EXCEPT ![t] = "post"]
        BY <1>1, <1>6, <2>1, ListNotEmpty DEF Start, Queue
      <3>2. TypeOK' /\ AppendIsLast' /\ WellLinked' /\ OneOwner' /\ Queued' = Queued
        BY <1>1, <1>6, <3>1, MoveKeeps DEF Start, list, Phases
      <3> QED  BY <1>2, <3>1, <3>2 DEF IndInv, Woken, Phases
    <2>2. CASE obj[HeadNode] = None
      <3>1. pc' = [pc EXCEPT ![t] = "dequeue"]
        BY <1>1, <1>6, <2>2 DEF Start, Queue
      <3>2. TypeOK' /\ AppendIsLast' /\ WellLinked' /\ OneOwner' /\ Queued' = Queued
        BY <1>1, <1>6, <3>1, MoveKeeps DEF Start, list, Phases
      <3> QED  BY <2>2, <3>2, HeadEmpty DEF IndInv, Woken
    <2> QED  BY <2>1, <2>2
  <1>7. CASE t \in Workers /\ DequeueNothing(t)
    <2>1. TypeOK' /\ AppendIsLast' /\ WellLinked' /\ OneOwner' /\ Queued' = Queued
      BY <1>1, <1>7, MoveKeeps DEF DequeueNothing, list, Phases
    <2> QED  BY <1>7, <2>1, HeadEmpty DEF DequeueNothing, IndInv, Woken
  <1>8. CASE t \in Workers /\ Wake(t)
    <2>1. s_semWorkers - 1 \in Nat
      BY <1>1, <1>8 DEF Wake
    <2>2. TypeOK' /\ AppendIsLast' /\ WellLinked' /\ OneOwner' /\ Queued' = Queued
      BY <1>1, <1>8, <2>1, MoveKeeps DEF Wake, list, Phases
    <2> QED  BY <1>2, <1>8, <2>2 DEF Wake, IndInv, Woken, Phases
  <1>9. CASE t \in Workers /\ (WakeTimeout(t) \/ CreateWorker(t))
    <2>1. TypeOK' /\ AppendIsLast' /\ WellLinked' /\ OneOwner' /\ Queued' = Queued
      BY <1>1, <1>9, MoveKeeps DEF WakeTimeout, CreateWorker, list, Phases
    <2> QED  BY <1>2, <1>9, <2>1 DEF WakeTimeout, CreateWorker, IndInv, Woken, Phases
  <1>10. CASE t = MainThread /\ WakeWorker
    <2>1. TypeOK' /\ AppendIsLast' /\ WellLinked' /\ OneOwner' /\ Queued' = Queued
      BY <1>1, <1>10, MoveKeeps DEF WakeWorker, list, Phases
    <2> QED  BY <1>2, <1>10, <2>1 DEF WakeWorker, IndInv, Woken, Phases
  <1> QED  BY <1>4, <1>5, <1>6, <1>7, <1>8, <1>9, <1>10 DEF PostStep

LEMMA NextInd == ASSUME IndInv, [Next]_vars PROVE IndInv'
  <1>1. CASE UNCHANGED vars
    BY <1>1 DEF vars, list, IndInv, TypeOK, AppendIsLast, WellLinked, Listed, OneOwner, Woken,
                Queued, In
  <1>2. CASE \E t \in Senders, m \in Messages : Enqueue(t, m)
    BY <1>2, EnqueueInd
  <1>3. CASE \E w \in Workers : Dequeue(w) \/ Dispatched(w)
    BY <1>3, DequeueInd, DispatchedInd
  <1>4. CASE \E t \in Threads : PostStep(t)
    BY <1>4, MoveInd
  <1>5. CASE \E w \in Workers : Start(w) \/ DequeueNothing(w) \/ Wake(w) \/ WakeTimeout(w)
                                 \/ CreateWorker(w)
    BY <1>5, MoveInd DEF Threads
  <1>6. CASE WakeWorker
    BY <1>6, MoveInd, ThreadAssumption DEF Threads
  <1> QED  BY <1>1, <1>2, <1>3, <1>4, <1>5, <1>6 DEF Next, WorkerStep

\* The inductive invariant, for any number of senders, workers, messages and nodes.
THEOREM IndInvAlways == Spec => []IndInv
  <1>1. Init => IndInv
    BY InitInd
  <1>2. IndInv /\ [Next]_vars => IndInv'
    BY NextInd
  <1> QED  BY <1>1, <1>2, PTL DEF Spec

\* Every variable of the queue keeps its type: the semaphore never goes below zero.
THEOREM TypeCorrect == Spec => []TypeOK
  <1>1. IndInv => TypeOK
    BY DEF IndInv
  <1> QED  BY <1>1, IndInvAlways, PTL

\* Messages are always appended to the list's live last node, whichever node
\* dequeueOne() freed.
THEOREM AppendsToLiveNode == Spec => []AppendIsLast
  <1>1. IndInv => AppendIsLast
    BY DEF IndInv
  <1> QED  BY <1>1, IndInvAlways, PTL

\* No wake-up of a worker is lost, with any number of senders and workers.
THEOREM NoLostWakeUp == Spec => []NoIdleWhileQueued
  <1>1. In({"post", "posting", "start"}) \subseteq
           In({"post", "posting"}) \cup In({"start", "dequeue"})
    BY DEF In
  <1>2. IndInv => NoIdleWhileQueued
    BY <1>1 DEF IndInv, Woken, NoIdleWhileQueued
  <1> QED  BY <1>2, IndInvAlways, PTL

(***************************************************************************)
(* The list implements a first-in first-out queue.                         *)
(***************************************************************************)

\* The messages that wait, as a sequence and as a set.
LEMMA QueueShape ==
    ASSUME IndInv
    PROVE  /\ obj[HeadNode] = None => Queue = <<>>
           /\ obj[HeadNode] # None =>
                 /\ Queue = [i \in 1..Len(nodes) |-> obj[nodes[i]]]
                 /\ Queue \in Seq(Messages) /\ Len(Queue) = Len(nodes) /\ Queue # <<>>
           /\ Order!Waiting = Queued
  <1>1. /\ Len(nodes) \in Nat \ {0} /\ nodes \in [1..Len(nodes) -> Nodes] /\ nodes[1] = HeadNode
        /\ obj \in [Nodes -> Messages \cup {None}] /\ HeadNode \in Nodes /\ None \notin Messages
    BY NodeAssumption DEF IndInv, TypeOK, WellLinked
  <1>2. CASE obj[HeadNode] = None
    <2>1. Queue = <<>> /\ Queued = {}
      BY <1>2, HeadEmpty DEF Queue
    <2> QED  BY <1>2, <2>1 DEF Order!Waiting
  <1>3. CASE obj[HeadNode] # None
    <2>1. Queue = [i \in 1..Len(nodes) |-> obj[nodes[i]]]
      BY <1>3 DEF Queue
    <2>2. \A i \in 1..Len(nodes) : obj[nodes[i]] # None
      <3>1. CASE Len(nodes) = 1
        BY <1>1, <1>3, <3>1
      <3>2. CASE Len(nodes) > 1
        BY <3>2 DEF IndInv, WellLinked, Listed
      <3> QED  BY <1>1, <3>1, <3>2
    <2>3. Queue \in [1..Len(nodes) -> Messages]
      BY <1>1, <2>1, <2>2
    <2>4. Queue \in Seq(Messages) /\ Len(Queue) = Len(nodes) /\ Queue # <<>>
      BY <1>1, <2>3
    <2>5. Order!Waiting = Queued
      BY <1>1, <2>1, <2>2 DEF Order!Waiting, Queued, Listed
    <2> QED  BY <1>3, <2>1, <2>4, <2>5
  <1> QED  BY <1>2, <1>3

LEMMA EnqueuePuts ==
    ASSUME IndInv, NEW t \in Senders, NEW m \in Messages, Enqueue(t, m)
    PROVE  Order!Put(m)
  <1> DEFINE last == nodes[Len(nodes)]
  <1>1. /\ Len(nodes) \in Nat \ {0} /\ nodes \in [1..Len(nodes) -> Nodes] /\ nodes[1] = HeadNode
        /\ obj \in [Nodes -> Messages \cup {None}] /\ HeadNode \in Nodes /\ m # None
        /\ last \in Listed
    BY NodeAssumption DEF IndInv, TypeOK, WellLinked, Listed
  <1>2. m \notin Order!Waiting \cup Running
    BY QueueShape DEF Enqueue
  <1>3. Running' = Running
    BY DEF Enqueue, Running
  <1>4. CASE obj[last] = None
    <2>1. obj' = [obj EXCEPT ![last] = m] /\ nodes' = nodes
      BY <1>4 DEF Enqueue, Last
    <2>2. Len(nodes) = 1 /\ last = HeadNode
      BY <1>1, <1>4 DEF IndInv, WellLinked
    <2>3. Queue = <<>>
      BY <1>4, <2>2, QueueShape
    <2>4. Queue' = [i \in 1..1 |-> m]
      BY <1>1, <2>1, <2>2 DEF Queue
    <2>5. Queue' = Append(Queue, m)
      BY <2>3, <2>4
    <2> QED  BY <1>2, <1>3, <2>5 DEF Order!Put
  <1>5. CASE obj[last] # None
    <2>1. PICK n \in Nodes \ Listed : nodes' = Append(nodes, n) /\ obj' = [obj EXCEPT ![n] = m]
      BY <1>5 DEF Enqueue, Last
    <2>2. /\ Len(nodes') = Len(nodes) + 1 /\ nodes'[Len(nodes) + 1] = n
          /\ \A i \in 1..Len(nodes) : nodes'[i] = nodes[i] /\ nodes[i] \in Listed
      BY <1>1, <2>1 DEF Listed
    <2>3. obj[HeadNode] # None
      <3>1. CASE Len(nodes) = 1
        BY <1>1, <1>5, <3>1
      <3>2. CASE Len(nodes) > 1
        BY <1>1, <3>2 DEF IndInv, WellLinked, Listed
      <3> QED  BY <1>1, <3>1, <3>2
    <2>4. /\ Queue = [i \in 1..Len(nodes) |-> obj[nodes[i]]]
          /\ Queue \in Seq(Messages) /\ Len(Queue) = Len(nodes)
      BY <2>3, QueueShape
    <2>5. obj'[HeadNode] # None
      BY <1>1, <2>1, <2>3
    <2>6. Queue' = [i \in 1..Len(nodes) + 1 |-> obj'[nodes'[i]]]
      BY <2>2, <2>5 DEF Queue
    <2>7. \A i \in 1..Len(nodes) : obj'[nodes'[i]] = Queue[i]
      BY <1>1, <2>1, <2>2, <2>4
    <2>8. obj'[nodes'[Len(nodes) + 1]] = m
      BY <1>1, <2>1, <2>2
    <2>9. Queue' = Append(Queue, m)
      BY <1>1, <2>4, <2>6, <2>7, <2>8
    <2> QED  BY <1>2, <1>3, <2>9 DEF Order!Put
  <1> QED  BY <1>4, <1>5

LEMMA DequeueTakes ==
    ASSUME IndInv, NEW w \in Workers, Dequeue(w)
    PROVE  Order!Take
  <1>1. /\ Len(nodes) \in Nat \ {0} /\ nodes \in [1..Len(nodes) -> Nodes] /\ nodes[1] = HeadNode
        /\ obj \in [Nodes -> Messages \cup {None}] /\ HeadNode \in Nodes
        /\ msg \in [Workers -> Messages \cup {None}]
    BY NodeAssumption DEF IndInv, TypeOK, WellLinked
  <1>2. obj[HeadNode] # None /\ msg' = [msg EXCEPT ![w] = obj[HeadNode]] /\ msg[w] = None
    BY DEF Dequeue, IndInv, OneOwner
  <1>3. /\ Queue = [i \in 1..Len(nodes) |-> obj[nodes[i]]]
        /\ Queue \in Seq(Messages) /\ Len(Queue) = Len(nodes) /\ Queue # <<>>
    BY <1>2, QueueShape
  <1>4. Head(Queue) = obj[HeadNode]
    BY <1>1, <1>3
  <1>5. Running' = Running \cup {Head(Queue)}
    BY <1>1, <1>2, <1>4 DEF Running
  <1>6. CASE Len(nodes) = 1
    <2>1. Queue' = <<>>
      BY <1>1, <1>6 DEF Dequeue, Queue
    <2>2. Tail(Queue) = <<>>
      BY <1>3, <1>6
    <2> QED  BY <1>3, <1>5, <2>1, <2>2 DEF Order!Take
  <1>7. CASE Len(nodes) > 1
    <2> DEFINE second == nodes[2]
    <2>1. /\ Len(nodes') = Len(nodes) - 1 /\ nodes'[1] = HeadNode
          /\ \A i \in 2..Len(nodes') : nodes'[i] = nodes[i + 1]
          /\ second \in Listed /\ second # HeadNode
          /\ obj' = [obj EXCEPT ![HeadNode] = obj[second], ![second] = None]
      BY <1>7, Shifted
    <2>2. /\ second \in Nodes /\ obj[second] # None
          /\ \A i, j \in 1..Len(nodes) : nodes[i] = nodes[j] => i = j
      BY <1>1, <1>7, <2>1 DEF IndInv, WellLinked
    <2>3. obj'[HeadNode] = obj[second]
      BY <1>1, <2>1
    <2>4. Queue' = [i \in 1..Len(nodes) - 1 |-> obj'[nodes'[i]]]
      BY <2>1, <2>2, <2>3 DEF Queue
    <2>5. \A i \in 1..Len(nodes) - 1 : obj'[nodes'[i]] = Queue[i + 1]
      <3>1. TAKE i \in 1..Len(nodes) - 1
      <3>2. CASE i = 1
        BY <1>1, <1>3, <1>7, <2>1, <2>3, <3>2
      <3>3. CASE i > 1
        <4>1. i + 1 \in 1..Len(nodes) /\ nodes'[i] = nodes[i + 1] /\ i + 1 # 2 /\ i + 1 # 1
          BY <1>1, <2>1, <3>3
        <4>2. nodes[i + 1] # second /\ nodes[i + 1] # HeadNode /\ nodes[i + 1] \in Nodes
          BY <1>1, <1>7, <2>2, <4>1
        <4> QED  BY <1>1, <1>3, <2>1, <4>1, <4>2
      <3> QED  BY <3>2, <3>3
    <2>6. Queue' = Tail(Queue)
      <3>1. Tail(Queue) = [i \in 1..Len(nodes) - 1 |-> Queue[i + 1]]
        BY <1>1, <1>3, <1>7
      <3> QED  BY <2>4, <2>5, <3>1
    <2> QED  BY <1>3, <1>5, <2>6 DEF Order!Take
  <1> QED  BY <1>1, <1>6, <1>7

LEMMA DispatchedFinishes ==
    ASSUME IndInv, NEW w \in Workers, Dispatched(w)
    PROVE  \E m \in Messages : Order!Finish(m)
  <1>1. /\ msg \in [Workers -> Messages \cup {None}] /\ msg[w] # None
        /\ msg' = [msg EXCEPT ![w] = None]
        /\ \A u, v \in Workers : msg[u] = msg[v] => u = v \/ msg[u] = None
    BY DEF Dispatched, IndInv, TypeOK, OneOwner
  <1>2. msg[w] \in Messages /\ msg[w] \in Running /\ Running' = Running \ {msg[w]}
    BY <1>1 DEF Running
  <1>3. Queue' = Queue
    BY DEF Dispatched, list, Queue
  <1> QED  BY <1>2, <1>3 DEF Order!Finish

\* The list whose messages move between nodes that are freed and reused is a
\* first-in first-out queue from which each message is taken once.
THEOREM ImplementsFifo == Spec => FifoSpec
  <1>1. Init => Order!Init
    BY NodeAssumption DEF Init, Order!Init, Queue, Running
  <1>2. IndInv /\ [Next]_vars => [Order!Next]_(Order!vars)
    <2> SUFFICES ASSUME IndInv, [Next]_vars PROVE [Order!Next]_(Order!vars)
      OBVIOUS
    <2>1. CASE \E t \in Senders, m \in Messages : Enqueue(t, m)
      BY <2>1, EnqueuePuts DEF Order!Next
    <2>2. CASE \E w \in Workers : Dequeue(w)
      BY <2>2, DequeueTakes DEF Order!Next
    <2>3. CASE \E w \in Workers : Dispatched(w)
      BY <2>3, DispatchedFinishes DEF Order!Next
    <2>4. CASE UNCHANGED <<nodes, obj, msg>>
      BY <2>4 DEF Order!vars, Queue, Running
    <2>5. CASE \E t \in Threads : PostStep(t)
      BY <2>4, <2>5 DEF PostStep, CheckPost, Post, list
    <2>6. CASE \E w \in Workers : Start(w) \/ DequeueNothing(w) \/ Wake(w) \/ WakeTimeout(w)
                                   \/ CreateWorker(w)
      BY <2>4, <2>6 DEF Start, DequeueNothing, Wake, WakeTimeout, CreateWorker, list
    <2>7. CASE WakeWorker \/ UNCHANGED vars
      BY <2>4, <2>7 DEF WakeWorker, list, vars
    <2> QED  BY <2>1, <2>2, <2>3, <2>5, <2>6, <2>7 DEF Next, WorkerStep
  <1> QED  BY <1>1, <1>2, IndInvAlways, PTL DEF Spec, FifoSpec, Order!Spec
=============================================================================
