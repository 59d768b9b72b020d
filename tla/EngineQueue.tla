----------------------------- MODULE EngineQueue -----------------------------
(***************************************************************************)
(* The queue of messages for asynchronous dispatch and the engine's worker *)
(* threads: MessageDispatcher::enqueue() and dequeueOne() (Message.cpp),   *)
(* Engine::enqueue(), EnginePrivate::run() and the part of Engine::run()   *)
(* that creates and wakes workers (Engine.cpp), and the semaphore they     *)
(* sleep on (Mutex.cpp).                                                   *)
(*                                                                         *)
(* The queue is a list whose first node is part of the dispatcher; it is   *)
(* emptied from the front, which moves the second node's message into the  *)
(* first and frees the second, and filled from m_msgAppend on.  A sender   *)
(* wakes a worker after it dropped the queue's lock, with a post that the  *)
(* semaphore ignores once its value has reached its maximum.               *)
(***************************************************************************)
EXTENDS Integers, Sequences, FiniteSets, SequencesExt

CONSTANTS
    Messages,       \* message objects
    Nodes,          \* list nodes: their number bounds the length of the queue
    HeadNode,       \* the node m_messages itself
    Senders,        \* threads that call Engine::enqueue()
    MainThread,     \* the sender that runs Engine::run()
    Workers,        \* the threads that can be created: s_maxworkers of them
    FirstWorkers,   \* those created first: s_minworkers, the semaphore's maximum
    None            \* no message, the null pointer

ASSUME NodeAssumption == HeadNode \in Nodes /\ None \notin Nodes \cup Messages
ASSUME ThreadAssumption ==
    /\ MainThread \in Senders
    /\ FirstWorkers \subseteq Workers /\ FirstWorkers # {} /\ IsFiniteSet(Workers)
    /\ Senders \cap Workers = {}

VARIABLES
    nodes,          \* the nodes of m_messages from HeadNode on, in order
    obj,            \* per node: the message it points to, or None
    m_msgAppend,    \* the node new messages are appended from
    s_semWorkers,   \* the value of the semaphore
    s_makeworker,   \* no worker has been heard of since the main loop looked
    pc,             \* per thread: where it is
    msg             \* per worker: the message it dispatches, or None

list == <<nodes, obj, m_msgAppend>>
vars == <<list, s_semWorkers, s_makeworker, pc, msg>>

Threads == Senders \cup Workers

\* none - not created; start - at the top of a worker's loop; post - has to wake a
\* worker; posting - has seen that the semaphore may be incremented; dequeue - at
\* dequeueOne(); running - in dispatch(); asleep - waits on the semaphore.
Phases == {"none", "idle", "start", "post", "posting", "dequeue", "running", "asleep"}

Listed == {nodes[i] : i \in 1..Len(nodes)}

Queue == IF obj[HeadNode] = None THEN <<>> ELSE [i \in 1..Len(nodes) |-> obj[nodes[i]]]

Queued == {obj[n] : n \in Listed} \ {None}

Running == {msg[w] : w \in Workers} \ {None}

In(p) == {t \in Threads : pc[t] \in p}

\* Where a thread goes on after it woke a worker.
After(t) == IF t \in Workers THEN "dequeue" ELSE "idle"

-----------------------------------------------------------------------------
(* MessageDispatcher::enqueue() and dequeueOne(), under m_messagesLock *)

\* Faulty: the second message goes where new ones are appended from, and the first
\* is lost.
EnqueueOver(t, m) ==
    /\ pc[t] = "idle"
    /\ m \notin Queued \cup Running
    /\ obj' = [obj EXCEPT ![m_msgAppend] = m]
    /\ pc' = [pc EXCEPT ![t] = "post"]
    /\ UNCHANGED <<nodes, m_msgAppend, s_semWorkers, s_makeworker, msg>>

\* Faulty: nobody is woken.
EnqueueSilent(t, m) ==
    /\ pc[t] = "idle"
    /\ m \notin Queued \cup Running
    /\ LET last == Last(nodes)
       IN  IF obj[last] = None
           THEN /\ obj' = [obj EXCEPT ![last] = m]
                /\ m_msgAppend' = last
                /\ UNCHANGED nodes
           ELSE \E n \in Nodes \ Listed :
                   /\ nodes' = Append(nodes, n)
                   /\ obj' = [obj EXCEPT ![n] = m]
                   /\ m_msgAppend' = n
    /\ UNCHANGED <<s_semWorkers, s_makeworker, pc, msg>>

\* Engine::enqueue(): a message that is not in the queue goes to its end, into the
\* last node if that is empty, else into a new one.
Enqueue(t, m) ==
    /\ pc[t] = "idle"
    /\ m \notin Queued \cup Running
    /\ LET last == Last(nodes)
       IN  IF obj[last] = None
           THEN /\ obj' = [obj EXCEPT ![last] = m]
                /\ m_msgAppend' = last
                /\ UNCHANGED nodes
           ELSE \E n \in Nodes \ Listed :
                   /\ nodes' = Append(nodes, n)
                   /\ obj' = [obj EXCEPT ![n] = m]
                   /\ m_msgAppend' = n
    /\ pc' = [pc EXCEPT ![t] = "post"]
    /\ UNCHANGED <<s_semWorkers, s_makeworker, msg>>

\* Faulty: the append pointer keeps pointing to the node that is freed.
DequeueKeepAppend(w) ==
    /\ pc[w] = "dequeue"
    /\ obj[HeadNode] # None
    /\ nodes' = IF Len(nodes) > 1 THEN <<HeadNode>> \o SubSeq(nodes, 3, Len(nodes)) ELSE nodes
    /\ obj' = IF Len(nodes) > 1
              THEN [obj EXCEPT ![HeadNode] = obj[nodes[2]], ![nodes[2]] = None]
              ELSE [obj EXCEPT ![HeadNode] = None]
    /\ msg' = [msg EXCEPT ![w] = obj[HeadNode]]
    /\ pc' = [pc EXCEPT ![w] = "running"]
    /\ UNCHANGED <<m_msgAppend, s_semWorkers, s_makeworker>>

\* dequeueOne() takes the message of the first node; ObjList::remove() moves the
\* second node's message there and frees that node.
Dequeue(w) ==
    /\ pc[w] = "dequeue"
    /\ obj[HeadNode] # None
    /\ m_msgAppend' = IF Len(nodes) > 1 /\ nodes[2] = m_msgAppend THEN HeadNode ELSE m_msgAppend
    /\ nodes' = IF Len(nodes) > 1 THEN <<HeadNode>> \o SubSeq(nodes, 3, Len(nodes)) ELSE nodes
    /\ obj' = IF Len(nodes) > 1
              THEN [obj EXCEPT ![HeadNode] = obj[nodes[2]], ![nodes[2]] = None]
              ELSE [obj EXCEPT ![HeadNode] = None]
    /\ msg' = [msg EXCEPT ![w] = obj[HeadNode]]
    /\ pc' = [pc EXCEPT ![w] = "running"]
    /\ UNCHANGED <<s_semWorkers, s_makeworker>>

\* dequeueOne() finds the queue empty: the worker goes to sleep.
DequeueNothing(w) ==
    /\ pc[w] = "dequeue"
    /\ obj[HeadNode] = None
    /\ pc' = [pc EXCEPT ![w] = "asleep"]
    /\ UNCHANGED <<list, s_semWorkers, s_makeworker, msg>>

\* dispatch() returns, the message is destroyed.
Dispatched(w) ==
    /\ pc[w] = "running"
    /\ msg' = [msg EXCEPT ![w] = None]
    /\ pc' = [pc EXCEPT ![w] = "dequeue"]
    /\ UNCHANGED <<list, s_semWorkers, s_makeworker>>

-----------------------------------------------------------------------------
(* Semaphore::unlock() and lock() *)

\* sem_getvalue(): the value has reached the maximum, or it may be incremented.
CheckPost(t) ==
    /\ pc[t] = "post"
    /\ pc' = [pc EXCEPT ![t] =
                IF s_semWorkers < Cardinality(FirstWorkers) THEN "posting" ELSE After(t)]
    /\ UNCHANGED <<list, s_semWorkers, s_makeworker, msg>>

\* sem_post()
Post(t) ==
    /\ pc[t] = "posting"
    /\ s_semWorkers' = s_semWorkers + 1
    /\ pc' = [pc EXCEPT ![t] = After(t)]
    /\ UNCHANGED <<list, s_makeworker, msg>>

\* Faulty: a timed wait that is satisfied takes the semaphore without looking.
WakeTwice(w) ==
    /\ pc[w] = "asleep"
    /\ s_semWorkers > 0
    /\ s_semWorkers' = s_semWorkers - 2
    /\ pc' = [pc EXCEPT ![w] = "start"]
    /\ UNCHANGED <<list, s_makeworker, msg>>

\* sem_timedwait() gets the semaphore, or its time is up.
Wake(w) ==
    /\ pc[w] = "asleep"
    /\ s_semWorkers > 0
    /\ s_semWorkers' = s_semWorkers - 1
    /\ pc' = [pc EXCEPT ![w] = "start"]
    /\ UNCHANGED <<list, s_makeworker, msg>>

WakeTimeout(w) ==
    /\ pc[w] = "asleep"
    /\ pc' = [pc EXCEPT ![w] = "start"]
    /\ UNCHANGED <<list, s_semWorkers, s_makeworker, msg>>

-----------------------------------------------------------------------------
(* EnginePrivate::run() and the main loop *)

\* Faulty: no other worker is woken for the messages that wait.
StartSilent(w) ==
    /\ pc[w] = "start"
    /\ s_makeworker' = FALSE
    /\ pc' = [pc EXCEPT ![w] = "dequeue"]
    /\ UNCHANGED <<list, s_semWorkers, msg>>

\* The top of the worker's loop: if there are messages another worker is woken.
Start(w) ==
    /\ pc[w] = "start"
    /\ s_makeworker' = FALSE
    /\ pc' = [pc EXCEPT ![w] = IF Queue # <<>> THEN "post" ELSE "dequeue"]
    /\ UNCHANGED <<list, s_semWorkers, msg>>

\* Engine::run(), once a second: create a worker if none was heard of since the
\* last time, otherwise wake one.
CreateWorker(w) ==
    /\ pc[MainThread] = "idle"
    /\ s_makeworker
    /\ pc[w] = "none"
    /\ pc' = [pc EXCEPT ![w] = "start"]
    /\ UNCHANGED <<list, s_semWorkers, s_makeworker, msg>>

WakeWorker ==
    /\ pc[MainThread] = "idle"
    /\ s_makeworker => In({"none"}) = {}
    /\ s_makeworker' = TRUE
    /\ pc' = [pc EXCEPT ![MainThread] = "post"]
    /\ UNCHANGED <<list, s_semWorkers, msg>>

-----------------------------------------------------------------------------
Init ==
    /\ nodes = <<HeadNode>>
    /\ obj = [n \in Nodes |-> None]
    /\ m_msgAppend = HeadNode
    /\ s_semWorkers = 0
    /\ s_makeworker = TRUE
    /\ pc = [t \in Threads |-> IF t \in Senders THEN "idle"
                               ELSE IF t \in FirstWorkers THEN "start" ELSE "none"]
    /\ msg = [w \in Workers |-> None]

WorkerStep(w) ==
    Start(w) \/ Dequeue(w) \/ DequeueNothing(w) \/ Dispatched(w) \/ Wake(w)

PostStep(t) == CheckPost(t) \/ Post(t)

Next ==
    \/ \E t \in Senders, m \in Messages : Enqueue(t, m)
    \/ \E t \in Threads : PostStep(t)
    \/ \E w \in Workers : WorkerStep(w) \/ WakeTimeout(w) \/ CreateWorker(w)
    \/ WakeWorker

Spec == Init /\ [][Next]_vars

\* Threads keep running and handlers return; nothing is assumed of the timeouts, the
\* main loop's ticks or the creation of workers.
FairSpec ==
    /\ Spec
    /\ \A t \in Threads : WF_vars(PostStep(t))
    /\ \A w \in Workers : WF_vars(WorkerStep(w))

-----------------------------------------------------------------------------
(* Properties *)

TypeOK ==
    /\ nodes \in Seq(Nodes) /\ nodes[1] = HeadNode
    /\ obj \in [Nodes -> Messages \cup {None}]
    /\ m_msgAppend \in Nodes
    /\ s_semWorkers \in Nat
    /\ s_makeworker \in BOOLEAN
    /\ pc \in [Threads -> Phases]
    /\ msg \in [Workers -> Messages \cup {None}]

\* Messages are appended from a live node, the queue's last one: dequeueOne() never
\* leaves m_msgAppend on a node it freed, though it moves messages between nodes.
AppendIsLast == m_msgAppend = Last(nodes)

\* No wake-up is lost: messages do not wait while a worker sleeps and every other
\* one is kept by a handler, unless the semaphore is up or about to be.  The
\* semaphore ignores posts at its maximum, the worker looks at the queue without a
\* lock before it dequeues and not again before it sleeps.
NoIdleWhileQueued ==
    Queued # {} /\ In({"asleep"}) # {} =>
        s_semWorkers > 0 \/ In({"post", "posting"}) # {} \/ In({"start", "dequeue"}) # {}

\* What the induction needs beyond the above.  The list: each node is there once, those
\* that are not are empty, and only the head of an empty queue is without a message.
WellLinked ==
    /\ nodes # <<>>
    /\ \A i, j \in DOMAIN nodes : nodes[i] = nodes[j] => i = j
    /\ \A n \in Nodes \ Listed : obj[n] = None
    /\ Len(nodes) > 1 => None \notin {obj[n] : n \in Listed}

\* A message is in one place, in the queue or with one worker.
OneOwner ==
    /\ \A n, k \in Nodes : obj[n] = obj[k] => n = k \/ obj[n] = None
    /\ \A v, w \in Workers : msg[v] = msg[w] => v = w \/ msg[v] = None
    /\ \A n \in Nodes, w \in Workers : obj[n] = msg[w] => obj[n] = None
    /\ \A w \in Workers : pc[w] = "running" <=> msg[w] # None

\* While there are messages somebody has been woken or will be, asleep or not: whoever
\* takes the semaphore looks at the queue and passes it on.
Woken == Queued # {} => s_semWorkers > 0 \/ In({"post", "posting", "start"}) # {}

IndInv == TypeOK /\ AppendIsLast /\ WellLinked /\ OneOwner /\ Woken

\* The list with its moving messages and reused nodes is a first-in first-out
\* queue from which each message is taken once.
Order == INSTANCE Fifo WITH queue <- Queue, taken <- Running

FifoSpec == Order!Spec

\* Every message is dispatched, even if no wait of a worker ever times out and the
\* main loop neither wakes nor creates workers any more.
Delivered == \A m \in Messages : m \in Queued ~> m \notin Queued
=============================================================================
