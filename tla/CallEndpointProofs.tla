------------------------- MODULE CallEndpointProofs -------------------------
(***************************************************************************)
(* Connecting and disconnecting for any endpoints and threads, when the    *)
(* callers of connect() hold the common mutex: peers are mutual, references*)
(* are exact and nothing that is deleted is used.                          *)
(***************************************************************************)
EXTENDS CallEndpoint, FiniteSetTheorems, TLAPS

-----------------------------------------------------------------------------
(* Lists of steps, numbered from the last one *)

LEMMA StepTypes ==
    ASSUME NEW a \in Endpoints, NEW b \in Endpoints \cup {None}, NEW op \in Ops
    PROVE  S(op, a, b) \in Steps
  BY DEF S, Steps

LEMMA Fields ==
    /\ \A op, a, b : S(op, a, b).op = op /\ S(op, a, b).a = a /\ S(op, a, b).b = b
    /\ \A e : Drop(e).op = "deref" /\ Drop(e).a = e
  BY DEF S, Drop

LEMMA CourseTypes ==
    ASSUME NEW a \in Endpoints, NEW b \in Endpoints
    PROVE  /\ Disconnects(a) \in Seq(Steps) /\ Len(Disconnects(a)) = 3
           /\ Checks(a, b) \in Seq(Steps) /\ Len(Checks(a, b)) = 4
           /\ Connects(a, b) \in Seq(Steps) /\ Len(Connects(a, b)) = 11
           /\ <<>> \in Seq(Steps)
  <1>1. S("unlock", None, None) \in Steps
    BY DEF S, Steps, Ops
  <1>2. \A op \in Ops : \A x \in {a, b} : \A y \in {a, b, None} : S(op, x, y) \in Steps
    BY DEF S, Steps
  <1>3. {"check", "ref", "test", "swap", "refPeer", "set", "setPeer", "unlock", "deref", "delete"}
        \subseteq Ops
    BY DEF Ops
  <1>4. Drop(a) \in Steps /\ Drop(b) \in Steps
    BY <1>2, <1>3 DEF Drop
  <1>5. Disconnects(a) \in Seq(Steps) /\ Len(Disconnects(a)) = 3
    BY <1>2, <1>3, <1>4 DEF Disconnects
  <1>6. Checks(a, b) \in Seq(Steps) /\ Len(Checks(a, b)) = 4
    BY <1>1, <1>2, <1>3, <1>4 DEF Checks
  <1>7. Connects(a, b) \in Seq(Steps) /\ Len(Connects(a, b)) = 11
    BY <1>1, <1>2, <1>3, <1>4 DEF Connects
  <1> QED  BY <1>5, <1>6, <1>7

\* Going on with the steps s in place of the first n leaves the others where they were.
LEMMA Resumed ==
    ASSUME NEW l \in Seq(Steps), NEW s \in Seq(Steps), NEW n \in 0..Len(l)
    PROVE  LET m == s \o SubSeq(l, n + 1, Len(l))
           IN  /\ m \in Seq(Steps)
               /\ Len(m) = Len(l) - n + Len(s)
               /\ \A k \in 1..(Len(l) - n) : At(m, k) = At(l, k)
               /\ \A k \in 1..Len(s) : At(m, Len(l) - n + k) = At(s, k)
  <1> DEFINE r == SubSeq(l, n + 1, Len(l))
             m == s \o r
  <1>1. Len(l) \in Nat /\ Len(s) \in Nat
    OBVIOUS
  <1>2. r \in Seq(Steps) /\ Len(r) = Len(l) - n /\ \A i \in 1..(Len(l) - n) : r[i] = l[n + i]
    BY <1>1
  <1> HIDE DEF r
  <1>3. m \in Seq(Steps) /\ Len(m) = Len(s) + Len(r)
    <2>1. r \in Seq(Steps)
      BY <1>2
    <2> QED  BY <2>1
  <1>4. \A i \in 1..Len(s) : m[i] = s[i]
    BY <1>1, <1>2
  <1>5. \A i \in 1..Len(r) : m[Len(s) + i] = r[i]
    BY <1>1, <1>2
  <1> HIDE DEF m
  <1>6. ASSUME NEW k \in 1..(Len(l) - n)
        PROVE  At(m, k) = At(l, k)
    <2>1. Len(m) + 1 - k = Len(s) + (Len(r) + 1 - k) /\ Len(r) + 1 - k \in 1..Len(r)
      <3>1. Len(r) \in Nat /\ Len(r) = Len(l) - n /\ Len(m) = Len(s) + Len(r)
        BY <1>1, <1>2, <1>3
      <3> QED  BY <3>1, <1>1
    <2>2. m[Len(m) + 1 - k] = r[Len(r) + 1 - k]
      BY <2>1, <1>5
    <2>3. r[Len(r) + 1 - k] = l[n + (Len(r) + 1 - k)] /\ n + (Len(r) + 1 - k) = Len(l) + 1 - k
      <3>1. Len(r) = Len(l) - n
        BY <1>2
      <3>2. Len(r) + 1 - k \in 1..(Len(l) - n)
        BY <2>1, <3>1
      <3>3. n + (Len(r) + 1 - k) = Len(l) + 1 - k
        BY <1>1, <3>1
      <3>4. r[Len(r) + 1 - k] = l[n + (Len(r) + 1 - k)]
        BY <1>2, <3>2
      <3> QED  BY <3>3, <3>4
    <2> QED  BY <2>2, <2>3 DEF At
  <1>7. ASSUME NEW k \in 1..Len(s)
        PROVE  At(m, Len(l) - n + k) = At(s, k)
    <2>1. Len(m) + 1 - (Len(l) - n + k) = Len(s) + 1 - k /\ Len(s) + 1 - k \in 1..Len(s)
      BY <1>1, <1>2, <1>3
    <2> QED  BY <2>1, <1>4 DEF At
  <1> QED  BY <1>1, <1>2, <1>3, <1>6, <1>7 DEF m, r

\* The same of the thread that goes on, and of the others.
LEMMA Gone ==
    ASSUME TypeOK, NEW t \in Threads, NEW s \in Seq(Steps), NEW n \in 0..Len(todo[t]), Go(t, s, n)
    PROVE  /\ todo' \in [Threads -> Seq(Steps)]
           /\ \A u \in Threads \ {t} : todo'[u] = todo[u]
           /\ todo[t] \in Seq(Steps) /\ todo'[t] \in Seq(Steps)
           /\ Len(todo[t]) \in Nat /\ Len(todo'[t]) \in Nat
           /\ Len(todo'[t]) = Len(todo[t]) - n + Len(s)
           /\ \A k \in 1..(Len(todo[t]) - n) : At(todo'[t], k) = At(todo[t], k)
           /\ \A k \in 1..Len(s) : At(todo'[t], Len(todo[t]) - n + k) = At(s, k)
  <1>1. todo \in [Threads -> Seq(Steps)] /\ todo[t] \in Seq(Steps)
    BY DEF TypeOK
  <1>2. todo' = [todo EXCEPT ![t] = s \o SubSeq(todo[t], n + 1, Len(todo[t]))]
    BY <1>1 DEF Go
  <1>3. todo'[t] = s \o SubSeq(todo[t], n + 1, Len(todo[t]))
    BY <1>1, <1>2
  <1>4. /\ todo'[t] \in Seq(Steps)
        /\ Len(todo'[t]) = Len(todo[t]) - n + Len(s)
        /\ \A k \in 1..(Len(todo[t]) - n) : At(todo'[t], k) = At(todo[t], k)
        /\ \A k \in 1..Len(s) : At(todo'[t], Len(todo[t]) - n + k) = At(s, k)
    <2> DEFINE l == todo[t]
               m == s \o SubSeq(l, n + 1, Len(l))
    <2>1. l \in Seq(Steps) /\ n \in 0..Len(l)
      BY <1>1
    <2>2. /\ m \in Seq(Steps)
          /\ Len(m) = Len(l) - n + Len(s)
          /\ \A k \in 1..(Len(l) - n) : At(m, k) = At(l, k)
          /\ \A k \in 1..Len(s) : At(m, Len(l) - n + k) = At(s, k)
      <3> HIDE DEF l
      <3> QED  BY <2>1, Resumed
    <2> QED  BY <2>2, <1>3
  <1>5. todo' \in [Threads -> Seq(Steps)] /\ \A u \in Threads \ {t} : todo'[u] = todo[u]
    <2> DEFINE m == s \o SubSeq(todo[t], n + 1, Len(todo[t]))
    <2>1. m \in Seq(Steps) /\ todo' = [todo EXCEPT ![t] = m]
      BY <1>2, <1>3, <1>4
    <2> HIDE DEF m
    <2> QED  BY <1>1, <2>1
  <1> QED  BY <1>1, <1>4, <1>5

\* The step a thread does next is the last of its list's numbers.
LEMMA Top ==
    ASSUME NEW l \in Seq(Steps), l # <<>>
    PROVE  Len(l) \in Nat \ {0} /\ l[1] = At(l, Len(l)) /\ l[1] \in Steps
  BY DEF At

LEMMA CourseSeq ==
    ASSUME NEW f \in Courses
    PROVE  f \in Seq(Steps) /\ Len(f) \in {0, 3, 4, 11}
  <1>1. CASE f = <<>>
    BY <1>1
  <1>2. ASSUME NEW a \in Endpoints, f = Disconnects(a)
        PROVE  f \in Seq(Steps) /\ Len(f) \in {0, 3, 4, 11}
    BY <1>2, CourseTypes
  <1>3. ASSUME NEW a \in Endpoints, NEW b \in Endpoints, f = Checks(a, b) \/ f = Connects(a, b)
        PROVE  f \in Seq(Steps) /\ Len(f) \in {0, 3, 4, 11}
    BY <1>3, CourseTypes
  <1> QED  BY <1>1, <1>2, <1>3 DEF Courses

\* What a thread does next, by where it is in its course.
Turn(l, f, p, q, g) ==
    \/ g = 3 /\ \E e \in Endpoints : l[1] = S("test", e, None) /\ Destroys(l, e, 3)
    \/ g = 1 /\ \E e \in Endpoints : l[1] = S("delete", e, None) /\ Destroys(l, e, 1)
    \/ g = 0 /\ q > 0 /\ \E e \in Endpoints : l[1] = Drop(e)
    \/ g = 0 /\ q = 0 /\ p > 0 /\ l[1] = f[p] /\ Len(l) = p

LEMMA JobTop ==
    ASSUME NEW l \in Seq(Steps), l # <<>>, NEW f \in Courses, NEW p \in 0..Len(f),
           NEW q \in 0..Len(l), NEW g \in {0, 1, 3}, Job(l, f, p, q, g)
    PROVE  Turn(l, f, p, q, g)
  <1>1. Len(l) \in Nat \ {0} /\ l[1] = At(l, Len(l)) /\ Len(f) \in Nat
    BY Top, CourseSeq
  <1>2. CASE g = 3
    BY <1>1, <1>2 DEF Job, Destroys, Turn
  <1>3. CASE g = 1
    <2>1. PICK e \in Endpoints : Destroys(l, e, 1)
      BY <1>3 DEF Job
    <2>2. At(l, Len(l) + 1 - 1) = S("delete", e, None)
      BY <2>1 DEF Destroys
    <2> QED  BY <1>1, <1>3, <2>1, <2>2 DEF Turn
  <1>4. CASE g = 0 /\ q > 0
    <2>1. Len(l) = p + q /\ Len(l) \in (p + 1)..(p + q)
      BY <1>1, <1>4 DEF Job
    <2> QED  BY <1>1, <1>4, <2>1 DEF Job, Turn
  <1>5. CASE g = 0 /\ q = 0
    <2>1. Len(l) = p /\ Len(l) \in 1..p
      BY <1>1, <1>5 DEF Job
    <2> QED  BY <1>1, <1>5, <2>1 DEF Job, Turn
  <1> QED  BY <1>1, <1>2, <1>3, <1>4, <1>5

\* One step is done, ...
LEMMA JobDone ==
    ASSUME NEW l \in Seq(Steps), NEW m \in Seq(Steps), NEW f \in Courses, NEW p \in 0..Len(f),
           NEW q \in 0..Len(l), NEW g \in {0, 1, 3}, Job(l, f, p, q, g),
           Len(m) = Len(l) - 1, \A k \in 1..(Len(l) - 1) : At(m, k) = At(l, k)
    PROVE  /\ g = 0 /\ q > 0 => Job(m, f, p, q - 1, 0)
           /\ g = 0 /\ q = 0 /\ p > 0 => Job(m, f, p - 1, 0, 0)
           /\ g = 1 => Job(m, f, p, q, 0)
  <1>1. Len(l) \in Nat /\ Len(f) \in Nat /\ Len(l) = p + q + g
    BY CourseSeq DEF Job
  <1>2. g # 3 => \A k \in 1..p : k \in 1..(Len(l) - 1) => At(m, k) = f[k]
    BY DEF Job
  <1>3. \A k \in (p + 1)..(p + q) : k \in 1..(Len(l) - 1) => \E e \in Endpoints : At(m, k) = Drop(e)
    BY DEF Job
  <1> QED  BY <1>1, <1>2, <1>3 DEF Job

\* ... or two are, ...
LEMMA JobSkipped ==
    ASSUME NEW l \in Seq(Steps), NEW m \in Seq(Steps), NEW f \in Courses, NEW p \in 0..Len(f),
           NEW q \in 0..Len(l), NEW g \in {0, 1, 3}, Job(l, f, p, q, g),
           Len(m) = Len(l) - 2, \A k \in 1..(Len(l) - 2) : At(m, k) = At(l, k)
    PROVE  /\ g = 0 /\ q = 0 /\ p > 1 => Job(m, f, p - 2, 0, 0)
           /\ g = 3 => Job(m, f, p, q, 1)
  <1>1. Len(l) \in Nat /\ Len(f) \in Nat /\ Len(l) = p + q + g
    BY CourseSeq DEF Job
  <1>2. \A k \in 1..p : k \in 1..(Len(l) - 2) => At(m, k) = f[k]
    BY DEF Job
  <1>3. \A k \in (p + 1)..(p + q) : k \in 1..(Len(l) - 2) => \E e \in Endpoints : At(m, k) = Drop(e)
    BY DEF Job
  <1>4. ASSUME g = 3
        PROVE  \E e \in Endpoints : Destroys(m, e, 1)
    <2>1. PICK e \in Endpoints : Destroys(l, e, 3)
      BY <1>4 DEF Job
    <2>2. Len(l) + 1 - 3 = Len(l) - 2 /\ Len(m) + 1 - 1 = Len(l) - 2 /\ Len(l) - 2 \in 1..(Len(l) - 2)
      BY <1>1, <1>4
    <2>3. At(l, Len(l) - 2) = S("delete", e, None)
      BY <2>1, <2>2 DEF Destroys
    <2>4. At(m, Len(m) + 1 - 1) = S("delete", e, None)
      BY <2>2, <2>3
    <2> QED  BY <2>4 DEF Destroys
  <1> QED  BY <1>1, <1>2, <1>3, <1>4 DEF Job

\* ... or the reference just dropped was the last one of an endpoint.
LEMMA JobDestroys ==
    ASSUME NEW l \in Seq(Steps), NEW m \in Seq(Steps), NEW f \in Courses, NEW p \in 0..Len(f),
           NEW q \in 0..Len(l), Job(l, f, p, q, 0), NEW e \in Endpoints,
           Len(m) = Len(l) + 2, \A k \in 1..(Len(l) - 1) : At(m, k) = At(l, k), Destroys(m, e, 3)
    PROVE  /\ q > 0 => Job(m, f, p, q - 1, 3)
           /\ q = 0 /\ p > 0 => Job(m, f, p - 1, 0, 3)
  <1>1. Len(l) \in Nat /\ Len(f) \in Nat /\ Len(l) = p + q
    BY CourseSeq DEF Job
  <1>2. \A k \in 1..p : k \in 1..(Len(l) - 1) => At(m, k) = f[k]
    BY DEF Job
  <1>3. \A k \in (p + 1)..(p + q) : k \in 1..(Len(l) - 1) => \E d \in Endpoints : At(m, k) = Drop(d)
    BY DEF Job
  <1> QED  BY <1>1, <1>2, <1>3 DEF Job

\* A disconnect that found a peer has two references to drop.
LEMMA JobSwapped ==
    ASSUME NEW l \in Seq(Steps), NEW m \in Seq(Steps), NEW f \in Courses, NEW p \in 1..Len(f),
           Job(l, f, p, 0, 0), NEW d \in Endpoints, NEW e \in Endpoints,
           Len(m) = Len(l) + 1, \A k \in 1..(Len(l) - 1) : At(m, k) = At(l, k),
           At(m, Len(l)) = Drop(d), At(m, Len(l) + 1) = Drop(e)
    PROVE  Job(m, f, p - 1, 2, 0)
  <1>1. Len(l) \in Nat /\ Len(f) \in Nat /\ Len(l) = p
    BY CourseSeq DEF Job
  <1>2. \A k \in 1..p : k \in 1..(Len(l) - 1) => At(m, k) = f[k]
    BY DEF Job
  <1>3. \A k \in ((p - 1) + 1)..((p - 1) + 2) : k = Len(l) \/ k = Len(l) + 1
    BY <1>1
  <1> QED  BY <1>1, <1>2, <1>3 DEF Job

\* The steps of an operation, by their number.
StepAt(t, f, p, s) ==
    \/ p <= 2 /\ \E e \in Endpoints : s = Drop(e)
    \/ p = 3 /\ s = S("unlock", None, None) /\ s_mutex = t
    \/ \E a \in Endpoints :
          /\ f = Disconnects(a)
          /\ \/ p = 2 /\ s = S("swap", a, None)
             \/ p = 3 /\ s = S("test", a, None)
    \/ \E a, b \in Endpoints :
          /\ a # b /\ s_mutex = t
          /\ \/ f = Checks(a, b) /\ p = 4 /\ s = S("check", a, b)
             \/ /\ f = Connects(a, b) /\ Connecting(t, a, b, p)
                /\ \/ p = 4 /\ s = S("setPeer", b, a)
                   \/ p = 5 /\ s = S("set", a, b)
                   \/ p = 6 /\ s = S("swap", b, None)
                   \/ p = 7 /\ s = S("test", b, None)
                   \/ p = 8 /\ s = S("refPeer", a, b)
                   \/ p = 9 /\ s = S("swap", a, None)
                   \/ p = 10 /\ s = S("test", a, None)
                   \/ p = 11 /\ s = S("ref", a, b)

LEMMA NextStep ==
    ASSUME NEW t \in Threads, NEW f \in Courses, NEW p \in 1..Len(f), OnCourse(t, f, p)
    PROVE  StepAt(t, f, p, f[p])
  <1>1. CASE f = <<>>
    BY <1>1
  <1>2. ASSUME NEW a \in Endpoints, f = Disconnects(a)
        PROVE  \/ p <= 2 /\ \E e \in Endpoints : f[p] = Drop(e)
               \/ p = 2 /\ f[p] = S("swap", a, None)
               \/ p = 3 /\ f[p] = S("test", a, None)
    <2>1. Len(f) = 3
      BY <1>2, CourseTypes
    <2>2. f[1] = Drop(a) /\ f[2] = S("swap", a, None) /\ f[3] = S("test", a, None)
      BY <1>2 DEF Disconnects
    <2> QED  BY <2>1, <2>2
  <1>3. ASSUME NEW a \in Endpoints, NEW b \in Endpoints, f = Checks(a, b), p >= 3 => s_mutex = t
        PROVE  \/ p <= 2 /\ \E e \in Endpoints : f[p] = Drop(e)
               \/ p = 3 /\ f[p] = S("unlock", None, None) /\ s_mutex = t
               \/ p = 4 /\ f[p] = S("check", a, b) /\ s_mutex = t
    <2>1. Len(f) = 4
      BY <1>3, CourseTypes
    <2>2. /\ f[1] = Drop(b) /\ f[2] = Drop(a) /\ f[3] = S("unlock", None, None)
          /\ f[4] = S("check", a, b)
      BY <1>3 DEF Checks
    <2> QED  BY <1>3, <2>1, <2>2
  <1>4. ASSUME NEW a \in Endpoints, NEW b \in Endpoints, f = Connects(a, b), p >= 3 => s_mutex = t
        PROVE  \/ p <= 2 /\ \E e \in Endpoints : f[p] = Drop(e)
               \/ p = 3 /\ f[p] = S("unlock", None, None) /\ s_mutex = t
               \/ /\ s_mutex = t
                  /\ \/ p = 4 /\ f[p] = S("setPeer", b, a)
                     \/ p = 5 /\ f[p] = S("set", a, b)
                     \/ p = 6 /\ f[p] = S("swap", b, None)
                     \/ p = 7 /\ f[p] = S("test", b, None)
                     \/ p = 8 /\ f[p] = S("refPeer", a, b)
                     \/ p = 9 /\ f[p] = S("swap", a, None)
                     \/ p = 10 /\ f[p] = S("test", a, None)
                     \/ p = 11 /\ f[p] = S("ref", a, b)
    <2>1. Len(f) = 11
      BY <1>4, CourseTypes
    <2>2. /\ f[1] = Drop(b) /\ f[2] = Drop(a) /\ f[3] = S("unlock", None, None)
          /\ f[4] = S("setPeer", b, a) /\ f[5] = S("set", a, b) /\ f[6] = S("swap", b, None)
          /\ f[7] = S("test", b, None) /\ f[8] = S("refPeer", a, b) /\ f[9] = S("swap", a, None)
          /\ f[10] = S("test", a, None) /\ f[11] = S("ref", a, b)
      BY <1>4 DEF Connects
    <2>3. p \in {1, 2, 3, 4, 5, 6, 7, 8, 9, 10, 11}
      BY <2>1
    <2> QED  BY <1>4, <2>2, <2>3
  <1>5. ASSUME NEW a \in Endpoints, NEW b \in Endpoints, f = Connects(a, b), Connecting(t, a, b, p)
        PROVE  p >= 3 => s_mutex = t
    BY <1>5 DEF Connecting
  <1>6. \/ f = <<>>
        \/ \E a \in Endpoints : f = Disconnects(a)
        \/ \E a, b \in Endpoints :
              /\ a # b
              /\ \/ f = Checks(a, b) /\ (p >= 3 => s_mutex = t)
                 \/ f = Connects(a, b) /\ Connecting(t, a, b, p)
    BY DEF OnCourse
  <1> QED  BY <1>1, <1>2, <1>3, <1>4, <1>5, <1>6 DEF StepAt

\* The other threads stay on their course while a thread does a step, unless it changes
\* peers or the mutex while they hold it.
LEMMA OthersOnCourse ==
    ASSUME AllOnCourse, NEW t \in Threads, HasCourse(t)',
           \A u \in Threads \ {t} :
              /\ todo'[u] = todo[u]
              /\ s_mutex = u => s_mutex' = u /\ m_peer' = m_peer
    PROVE  AllOnCourse'
  <1>1. ASSUME NEW u \in Threads \ {t}
        PROVE  HasCourse(u)'
    <2>0. PICK f \in Courses :
             \E p \in 0..Len(f), q \in 0..Len(todo[u]), g \in {0, 1, 3} :
                Job(todo[u], f, p, q, g) /\ OnCourse(u, f, p)
      BY DEF AllOnCourse, HasCourse
    <2>1. PICK p \in 0..Len(f), q \in 0..Len(todo[u]), g \in {0, 1, 3} :
             Job(todo[u], f, p, q, g) /\ OnCourse(u, f, p)
      BY <2>0
    <2>2. Len(f) \in Nat
      BY CourseSeq
    <2>3. CASE s_mutex = u
      <3>1. OnCourse(u, f, p)'
        BY <2>1, <2>3 DEF OnCourse, Connecting
      <3> QED  BY <2>1, <3>1 DEF HasCourse
    <2>4. CASE s_mutex # u
      <3>1. ASSUME NEW a, NEW b, Connecting(u, a, b, p)
            PROVE  Connecting(u, a, b, p)'
        BY <2>2, <2>4, <3>1 DEF Connecting
      <3>2. OnCourse(u, f, p)'
        BY <2>1, <2>4, <3>1 DEF OnCourse
      <3> QED  BY <2>1, <3>2 DEF HasCourse
    <2> QED  BY <2>3, <2>4
  <1> QED  BY <1>1 DEF AllOnCourse

-----------------------------------------------------------------------------
(* Counting references *)

LEMMA HeldMember ==
    ASSUME NEW x
    PROVE  /\ \A c \in Held(x) : \E u \in Threads : \E k \in HeldBy(todo[u], x) : c = <<u, k>>
           /\ \A u \in Threads : \A k : <<u, k>> \in Held(x) <=> k \in HeldBy(todo[u], x)
  BY DEF Held

\* A step changes what one thread holds, by one reference at most of each endpoint.
LEMMA CountChange ==
    ASSUME NEW t \in Threads, \A u \in Threads \ {t} : todo'[u] = todo[u], NEW x,
           IsFiniteSet(Held(x)), NEW k
    PROVE  /\ Cardinality(Held(x)) \in Nat
           /\ HeldBy(todo'[t], x) = HeldBy(todo[t], x) => Held(x)' = Held(x)
           /\ k \notin HeldBy(todo[t], x) /\ HeldBy(todo'[t], x) = HeldBy(todo[t], x) \cup {k}
              => IsFiniteSet(Held(x)') /\ Cardinality(Held(x)') = Cardinality(Held(x)) + 1
           /\ k \in HeldBy(todo[t], x) /\ HeldBy(todo'[t], x) = HeldBy(todo[t], x) \ {k}
              => /\ IsFiniteSet(Held(x)') /\ Cardinality(Held(x)') = Cardinality(Held(x)) - 1
                 /\ Cardinality(Held(x)) > 0
  <1>1. Cardinality(Held(x)) \in Nat
    BY FS_CardinalityType
  <1>2. ASSUME HeldBy(todo'[t], x) = HeldBy(todo[t], x)
        PROVE  Held(x)' = Held(x)
    BY <1>2 DEF Held
  <1>3. ASSUME k \notin HeldBy(todo[t], x), HeldBy(todo'[t], x) = HeldBy(todo[t], x) \cup {k}
        PROVE  IsFiniteSet(Held(x)') /\ Cardinality(Held(x)') = Cardinality(Held(x)) + 1
    <2>1. Held(x)' = Held(x) \cup {<<t, k>>}
      BY <1>3 DEF Held
    <2>2. <<t, k>> \notin Held(x)
      BY <1>3, HeldMember
    <2> QED  BY <2>1, <2>2, FS_AddElement
  <1>4. ASSUME k \in HeldBy(todo[t], x), HeldBy(todo'[t], x) = HeldBy(todo[t], x) \ {k}
        PROVE  /\ IsFiniteSet(Held(x)') /\ Cardinality(Held(x)') = Cardinality(Held(x)) - 1
               /\ Cardinality(Held(x)) > 0
    <2>1. Held(x)' = Held(x) \ {<<t, k>>}
      BY <1>4 DEF Held
    <2>2. <<t, k>> \in Held(x)
      BY <1>4, HeldMember
    <2>3. IsFiniteSet(Held(x)') /\ Cardinality(Held(x)') = Cardinality(Held(x)) - 1
      BY <2>1, <2>2, FS_RemoveElement
    <2>4. Cardinality(Held(x)) # 0
      BY <2>2, FS_EmptySet
    <2> QED  BY <1>1, <2>3, <2>4
  <1> QED  BY <1>1, <1>2, <1>3, <1>4

\* The steps a thread keeps stand for references as before, when none of the steps it
\* gains and loses is the taking of one.
LEMMA KeptHeld ==
    ASSUME NEW l \in Seq(Steps), NEW m \in Seq(Steps), NEW n \in Nat, n <= Len(l), n <= Len(m),
           \A k \in 1..n : At(m, k) = At(l, k),
           \A k \in (n + 1)..Len(l) : At(l, k).op \notin {"ref", "refPeer"},
           \A k \in (n + 1)..Len(m) : At(m, k).op \notin {"ref", "refPeer"},
           NEW x
    PROVE  /\ HeldBy(m, x) \cap 1..n = HeldBy(l, x) \cap 1..n
           /\ HeldBy(l, x) \subseteq 1..Len(l)
           /\ HeldBy(m, x) \subseteq 1..Len(m)
  <1>1. Len(l) \in Nat /\ Len(m) \in Nat
    OBVIOUS
  <1>2. ASSUME NEW k \in 1..n
        PROVE  Holds(m, k, x) <=> Holds(l, k, x)
    <2>1. At(m, k) = At(l, k)
      OBVIOUS
    <2>2. ASSUME NEW op \in {"ref", "refPeer"}
          PROVE  (\A j \in (k + 1)..Len(l) : At(l, j).op # op)
                 <=> (\A j \in (k + 1)..Len(m) : At(m, j).op # op)
      <3>1. ASSUME \A j \in (k + 1)..Len(l) : At(l, j).op # op, NEW j \in (k + 1)..Len(m)
            PROVE  At(m, j).op # op
        BY <1>1, <3>1
      <3>2. ASSUME \A j \in (k + 1)..Len(m) : At(m, j).op # op, NEW j \in (k + 1)..Len(l)
            PROVE  At(l, j).op # op
        BY <1>1, <3>2
      <3> QED  BY <3>1, <3>2
    <2> QED  BY <2>1, <2>2 DEF Holds
  <1> QED  BY <1>1, <1>2 DEF HeldBy

\* Steps that stand for no reference and take none leave what a thread holds as it was.
LEMMA SameHeld ==
    ASSUME NEW l \in Seq(Steps), NEW m \in Seq(Steps), NEW n \in Nat, n <= Len(l), n <= Len(m),
           \A k \in 1..n : At(m, k) = At(l, k),
           \A k \in (n + 1)..Len(l) : At(l, k).op \in {"test", "swap", "delete", "unlock", "check"},
           \A k \in (n + 1)..Len(m) : At(m, k).op \in {"test", "swap", "delete", "unlock", "check"},
           NEW x
    PROVE  HeldBy(m, x) = HeldBy(l, x)
  <1>1. /\ HeldBy(m, x) \cap 1..n = HeldBy(l, x) \cap 1..n
        /\ HeldBy(l, x) \subseteq 1..Len(l)
        /\ HeldBy(m, x) \subseteq 1..Len(m)
    BY KeptHeld
  <1>2. Len(l) \in Nat /\ Len(m) \in Nat
    OBVIOUS
  <1>3. ASSUME NEW k \in HeldBy(l, x)
        PROVE  k \in 1..n
    BY <1>1, <1>2 DEF HeldBy, Holds
  <1>4. ASSUME NEW k \in HeldBy(m, x)
        PROVE  k \in 1..n
    BY <1>1, <1>2 DEF HeldBy, Holds
  <1> QED  BY <1>1, <1>3, <1>4

\* A reference that is held keeps its endpoint.
LEMMA HeldAlive ==
    ASSUME TypeOK, Counted, Condemned, NEW t \in Threads, NEW e \in Endpoints, NEW k \in HeldBy(todo[t], e)
    PROVE  /\ m_refcount[e] \in Nat \ {0} /\ ~destroyed[e]
           /\ \A u \in Threads : ~Deletes(todo[u], e)
           /\ m_refcount[e] = 1 => m_peer[e] = None
  <1>1. IsFiniteSet(Held(e)) /\ <<t, k>> \in Held(e)
    BY HeldMember DEF Counted
  <1>2. Cardinality(Held(e)) \in Nat \ {0}
    BY <1>1, FS_CardinalityType, FS_EmptySet
  <1>3. m_refcount[e] = (IF owned[e] THEN 1 ELSE 0) + (IF m_peer[e] # None THEN 1 ELSE 0)
                        + Cardinality(Held(e))
    BY DEF Counted
  <1>4. m_refcount[e] \in Nat \ {0} /\ (m_refcount[e] = 1 => m_peer[e] = None)
    BY <1>2, <1>3
  <1> QED  BY <1>4 DEF Condemned

LEMMA DropHeld ==
    ASSUME NEW l \in Seq(Steps), NEW k \in 1..Len(l), NEW e, At(l, k) = Drop(e)
    PROVE  k \in HeldBy(l, e)
  BY DEF HeldBy, Holds, Drop, S

\* An endpoint that is being destroyed has no peer.
LEMMA DyingAlone ==
    ASSUME TypeOK, Counted, Condemned, NEW t \in Threads, NEW e \in Endpoints, Deletes(todo[t], e)
    PROVE  m_refcount[e] = 0 /\ m_peer[e] = None
  <1>1. m_refcount[e] = 0
    BY DEF Condemned
  <1>2. Cardinality(Held(e)) \in Nat
    BY FS_CardinalityType DEF Counted
  <1>3. m_refcount[e] = (IF owned[e] THEN 1 ELSE 0) + (IF m_peer[e] # None THEN 1 ELSE 0)
                        + Cardinality(Held(e))
    BY DEF Counted
  <1> QED  BY <1>1, <1>2, <1>3

-----------------------------------------------------------------------------
(* What a step leaves as it was *)

LEMMA CoupledKept ==
    ASSUME Coupled, m_peer' = m_peer, NEW t \in Threads, ~Idle(t) => todo[t][1].op # "setPeer",
           \A u \in Threads \ {t} : todo'[u] = todo[u]
    PROVE  Coupled'
  <1>1. ASSUME NEW x \in Endpoints, NEW u \in Threads, ~Idle(u), todo[u][1] = S("setPeer", m_peer[x], x)
        PROVE  ~Idle(u)' /\ todo'[u][1] = S("setPeer", m_peer[x], x)
    <2>1. u # t
      BY <1>1 DEF S
    <2> QED  BY <1>1, <2>1 DEF Idle
  <1> QED  BY <1>1 DEF Coupled

LEMMA CountedKept ==
    ASSUME Counted, m_peer' = m_peer, owned' = owned, m_refcount' = m_refcount, NEW t \in Threads,
           \A u \in Threads \ {t} : todo'[u] = todo[u],
           \A x \in Endpoints : HeldBy(todo'[t], x) = HeldBy(todo[t], x)
    PROVE  Counted'
  <1>1. ASSUME NEW x \in Endpoints
        PROVE  Held(x)' = Held(x)
    BY CountChange DEF Counted
  <1> QED  BY <1>1 DEF Counted

LEMMA CondemnedKept ==
    ASSUME Condemned, m_refcount' = m_refcount, destroyed' = destroyed, NEW t \in Threads,
           \A u \in Threads \ {t} : todo'[u] = todo[u],
           \A e \in Endpoints : Deletes(todo'[t], e) <=> Deletes(todo[t], e)
    PROVE  Condemned'
  <1>1. \A u \in Threads : \A e \in Endpoints : Deletes(todo'[u], e) <=> Deletes(todo[u], e)
    OBVIOUS
  <1> QED  BY <1>1 DEF Condemned

\* The same when the counts that change are and stay positive.
LEMMA CondemnedAbove ==
    ASSUME Condemned, destroyed' = destroyed, NEW t \in Threads,
           \A u \in Threads \ {t} : todo'[u] = todo[u],
           \A e \in Endpoints : Deletes(todo'[t], e) <=> Deletes(todo[t], e),
           \A e \in Endpoints : m_refcount'[e] = 0 <=> m_refcount[e] = 0
    PROVE  Condemned'
  <1>1. \A u \in Threads : \A e \in Endpoints : Deletes(todo'[u], e) <=> Deletes(todo[u], e)
    OBVIOUS
  <1> QED  BY <1>1 DEF Condemned

\* Steps that delete nothing, gained or lost, leave what a thread is to delete.
LEMMA SameDeletes ==
    ASSUME NEW l \in Seq(Steps), NEW m \in Seq(Steps), NEW n \in Nat, n <= Len(l), n <= Len(m),
           \A k \in 1..n : At(m, k) = At(l, k),
           \A k \in (n + 1)..Len(l) : At(l, k).op # "delete",
           \A k \in (n + 1)..Len(m) : At(m, k).op # "delete",
           NEW e
    PROVE  Deletes(m, e) <=> Deletes(l, e)
  <1>1. Len(l) \in Nat /\ Len(m) \in Nat
    OBVIOUS
  <1>2. ASSUME NEW k \in 1..Len(l), At(l, k) = S("delete", e, None)
        PROVE  Deletes(m, e)
    <2>1. k \in 1..n
      BY <1>1, <1>2 DEF S
    <2> QED  BY <1>1, <1>2, <2>1 DEF Deletes
  <1>3. ASSUME NEW k \in 1..Len(m), At(m, k) = S("delete", e, None)
        PROVE  Deletes(l, e)
    <2>1. k \in 1..n
      BY <1>1, <1>3 DEF S
    <2> QED  BY <1>1, <1>3, <2>1 DEF Deletes
  <1> QED  BY <1>2, <1>3 DEF Deletes

-----------------------------------------------------------------------------
(* One lemma per action *)

\* A thread at work is on a course, ...
LEMMA AtWork ==
    ASSUME IndInv, NEW t \in Threads, ~Idle(t)
    PROVE  \E f \in Courses : \E p \in 0..Len(f), q \in 0..Len(todo[t]), g \in {0, 1, 3} :
              /\ Job(todo[t], f, p, q, g) /\ OnCourse(t, f, p)
              /\ Turn(todo[t], f, p, q, g)
  <1>1. PICK f \in Courses :
           \E p \in 0..Len(f), q \in 0..Len(todo[t]), g \in {0, 1, 3} :
              Job(todo[t], f, p, q, g) /\ OnCourse(t, f, p)
    BY DEF IndInv, AllOnCourse, HasCourse
  <1>2. PICK p \in 0..Len(f), q \in 0..Len(todo[t]), g \in {0, 1, 3} :
           Job(todo[t], f, p, q, g) /\ OnCourse(t, f, p)
    BY <1>1
  <1>3. todo[t] \in Seq(Steps) /\ todo[t] # <<>>
    BY DEF IndInv, TypeOK, Idle
  <1> QED  BY <1>2, <1>3, JobTop

\* ... and what is no test, drop or deletion is a step of the operation itself.
LEMMA BaseStep ==
    ASSUME IndInv, NEW t \in Threads, ~Idle(t), todo[t][1].op \notin {"test", "deref", "delete"}
    PROVE  \E f \in Courses : \E p \in 1..Len(f) :
              /\ Job(todo[t], f, p, 0, 0) /\ OnCourse(t, f, p)
              /\ StepAt(t, f, p, todo[t][1]) /\ Len(todo[t]) = p
  <1>1. PICK f \in Courses :
           \E p \in 0..Len(f), q \in 0..Len(todo[t]), g \in {0, 1, 3} :
              /\ Job(todo[t], f, p, q, g) /\ OnCourse(t, f, p)
              /\ Turn(todo[t], f, p, q, g)
    BY AtWork
  <1>2. PICK p \in 0..Len(f), q \in 0..Len(todo[t]), g \in {0, 1, 3} :
              /\ Job(todo[t], f, p, q, g) /\ OnCourse(t, f, p)
              /\ Turn(todo[t], f, p, q, g)
    BY <1>1
  <1>3. g = 0 /\ q = 0 /\ p > 0 /\ todo[t][1] = f[p] /\ Len(todo[t]) = p
    <2>1. CASE g = 3
      BY <1>2, <2>1, Fields DEF Turn
    <2>2. CASE g = 1
      BY <1>2, <2>2, Fields DEF Turn
    <2>3. CASE g = 0 /\ q > 0
      BY <1>2, <2>3, Fields DEF Turn
    <2> QED  BY <1>2, <2>1, <2>2, <2>3 DEF Turn
  <1>4. p \in 1..Len(f)
    BY <1>3, CourseSeq
  <1>5. StepAt(t, f, p, f[p])
    BY <1>2, <1>4, NextStep
  <1> QED  BY <1>2, <1>3, <1>4, <1>5

\* A step that only removes what stands for no reference.
Neutral == {"test", "swap", "delete", "unlock", "check"}

LEMMA Popped ==
    ASSUME TypeOK, NEW t \in Threads, NEW n \in 1..2, n <= Len(todo[t]), Go(t, <<>>, n)
    PROVE  /\ todo' \in [Threads -> Seq(Steps)]
           /\ \A u \in Threads \ {t} : todo'[u] = todo[u]
           /\ todo[t] \in Seq(Steps) /\ todo'[t] \in Seq(Steps)
           /\ Len(todo[t]) \in Nat /\ Len(todo'[t]) \in Nat
           /\ Len(todo'[t]) = Len(todo[t]) - n
           /\ \A k \in 1..(Len(todo[t]) - n) : At(todo'[t], k) = At(todo[t], k)
           /\ At(todo[t], Len(todo[t])) = todo[t][1]
           /\ (\A k \in (Len(todo[t]) - n + 1)..Len(todo[t]) : At(todo[t], k).op \in Neutral)
              => \A x : HeldBy(todo'[t], x) = HeldBy(todo[t], x)
           /\ (\A k \in (Len(todo[t]) - n + 1)..Len(todo[t]) : At(todo[t], k).op # "delete")
              => \A e : Deletes(todo'[t], e) <=> Deletes(todo[t], e)
  <1> DEFINE l == todo[t]
             m == todo'[t]
             z == Len(l) - n
  <1>1. <<>> \in Seq(Steps) /\ Len(<<>>) = 0 /\ n \in 0..Len(l)
    OBVIOUS
  <1>2. /\ todo' \in [Threads -> Seq(Steps)]
        /\ \A u \in Threads \ {t} : todo'[u] = todo[u]
        /\ l \in Seq(Steps) /\ m \in Seq(Steps)
        /\ Len(l) \in Nat /\ Len(m) \in Nat
        /\ Len(m) = Len(l) - n + 0
        /\ \A k \in 1..(Len(l) - n) : At(m, k) = At(l, k)
    <2>1. n \in 0..Len(todo[t])
      BY <1>1
    <2> DEFINE v == <<>>
    <2>2. v \in Seq(Steps) /\ Len(v) = 0 /\ Go(t, v, n)
      BY <1>1
    <2> HIDE DEF v
    <2>3. todo' \in [Threads -> Seq(Steps)] /\ \A u \in Threads \ {t} : todo'[u] = todo[u]
      BY <2>1, <2>2, Gone
    <2>4. todo[t] \in Seq(Steps) /\ todo'[t] \in Seq(Steps)
      BY <2>1, <2>2, Gone
    <2>5. Len(todo[t]) \in Nat /\ Len(todo'[t]) \in Nat
      BY <2>4
    <2>6. Len(todo'[t]) = Len(todo[t]) - n + Len(v)
      BY <2>1, <2>2, Gone
    <2>7. \A k \in 1..(Len(todo[t]) - n) : At(todo'[t], k) = At(todo[t], k)
      BY <2>1, <2>2, Gone
    <2> QED  BY <2>2, <2>3, <2>4, <2>5, <2>6, <2>7
  <1>3. Len(m) = z /\ z \in Nat /\ z <= Len(l) /\ z <= Len(m) /\ \A k \in 1..z : At(m, k) = At(l, k)
    BY <1>1, <1>2
  <1>4. l # <<>>
    BY <1>1, <1>2
  <1>5. At(l, Len(l)) = l[1]
    BY <1>2, <1>4, Top
  <1> HIDE DEF l, m, z
  <1>6. ASSUME \A k \in (z + 1)..Len(l) : At(l, k).op \in Neutral, NEW x
        PROVE  HeldBy(m, x) = HeldBy(l, x)
    <2>1. \A k \in (z + 1)..Len(m) : At(m, k).op \in Neutral
      BY <1>3
    <2> QED  BY <1>2, <1>3, <1>6, <2>1, SameHeld DEF Neutral
  <1>7. ASSUME \A k \in (z + 1)..Len(l) : At(l, k).op # "delete", NEW e
        PROVE  Deletes(m, e) <=> Deletes(l, e)
    <2>1. \A k \in (z + 1)..Len(m) : At(m, k).op # "delete"
      BY <1>3
    <2> QED  BY <1>2, <1>3, <1>7, <2>1, SameDeletes
  <1> QED  BY <1>2, <1>3, <1>5, <1>6, <1>7 DEF l, m, z

LEMMA QuietPop ==
    ASSUME IndInv, NEW t \in Threads, NEW n \in 1..2, n <= Len(todo[t]), Go(t, <<>>, n),
           \A k \in (Len(todo[t]) - n + 1)..Len(todo[t]) :
              At(todo[t], k).op \in Neutral \ {"delete"},
           UNCHANGED <<m_peer, m_refcount, owned, destroyed>>, s_mutex' \in Threads \cup {None}
    PROVE  TypeOK' /\ Coupled' /\ Counted' /\ Condemned'
  <1>1. TypeOK
    BY DEF IndInv
  <1>2. /\ todo' \in [Threads -> Seq(Steps)]
        /\ \A u \in Threads \ {t} : todo'[u] = todo[u]
        /\ Len(todo[t]) \in Nat
        /\ At(todo[t], Len(todo[t])) = todo[t][1]
        /\ (\A k \in (Len(todo[t]) - n + 1)..Len(todo[t]) : At(todo[t], k).op \in Neutral)
           => \A x : HeldBy(todo'[t], x) = HeldBy(todo[t], x)
        /\ (\A k \in (Len(todo[t]) - n + 1)..Len(todo[t]) : At(todo[t], k).op # "delete")
           => \A e : Deletes(todo'[t], e) <=> Deletes(todo[t], e)
    BY <1>1, Popped
  <1>3. /\ \A x : HeldBy(todo'[t], x) = HeldBy(todo[t], x)
        /\ \A e : Deletes(todo'[t], e) <=> Deletes(todo[t], e)
    BY <1>2
  <1>4. TypeOK'
    BY <1>2 DEF IndInv, TypeOK
  <1>5. todo[t][1].op # "setPeer"
    <2>1. Len(todo[t]) \in (Len(todo[t]) - n + 1)..Len(todo[t])
      BY <1>2
    <2> QED  BY <2>1, <1>2 DEF Neutral
  <1>6. Coupled'
    BY <1>2, <1>5, CoupledKept DEF IndInv
  <1>7. Counted'
    BY <1>2, <1>3, CountedKept DEF IndInv
  <1>8. Condemned'
    BY <1>2, <1>3, CondemnedKept DEF IndInv
  <1> QED  BY <1>4, <1>6, <1>7, <1>8

\* The caller drops the mutex it holds.
LEMMA UnlockInd ==
    ASSUME IndInv, NEW t \in Threads, Unlock(t)
    PROVE  IndInv'
  <1>1. /\ ~Idle(t) /\ todo[t][1].op = "unlock"
        /\ Go(t, <<>>, 1) /\ s_mutex' = None
        /\ UNCHANGED <<m_peer, m_refcount, owned, destroyed>>
    BY DEF Unlock, Now
  <1>2. PICK f \in Courses : \E p \in 1..Len(f) :
              /\ Job(todo[t], f, p, 0, 0) /\ OnCourse(t, f, p)
              /\ StepAt(t, f, p, todo[t][1]) /\ Len(todo[t]) = p
    BY <1>1, BaseStep
  <1>3. PICK p \in 1..Len(f) :
              /\ Job(todo[t], f, p, 0, 0) /\ OnCourse(t, f, p)
              /\ StepAt(t, f, p, todo[t][1]) /\ Len(todo[t]) = p
    BY <1>2
  <1>4. p = 3 /\ s_mutex = t
    BY <1>1, <1>3, Fields DEF StepAt
  <1>5. 1 <= Len(todo[t]) /\ 1 \in 1..2 /\ TypeOK
    BY <1>3, <1>4 DEF IndInv
  <1>6. /\ \A u \in Threads \ {t} : todo'[u] = todo[u]
        /\ todo[t] \in Seq(Steps) /\ todo'[t] \in Seq(Steps)
        /\ Len(todo'[t]) = Len(todo[t]) - 1
        /\ \A k \in 1..(Len(todo[t]) - 1) : At(todo'[t], k) = At(todo[t], k)
        /\ At(todo[t], Len(todo[t])) = todo[t][1]
    BY <1>1, <1>5, Popped
  <1>7. TypeOK' /\ Coupled' /\ Counted' /\ Condemned'
    <2>1. \A k \in (Len(todo[t]) - 1 + 1)..Len(todo[t]) : At(todo[t], k).op \in Neutral \ {"delete"}
      BY <1>1, <1>3, <1>4, <1>6 DEF Neutral
    <2> QED  BY <1>1, <1>5, <2>1, QuietPop
  <1>8. AllOnCourse'
    <2>1. Job(todo'[t], f, p - 1, 0, 0)
      <3>1. 0 \in 0..Len(todo[t]) /\ p \in 0..Len(f) /\ p > 0 /\ Len(f) \in Nat
        BY <1>3, <1>4, CourseSeq
      <3> QED  BY <1>3, <1>6, <3>1, JobDone
    <2>2. OnCourse(t, f, p - 1)'
      BY <1>3, <1>4 DEF OnCourse, Connecting
    <2>3. p - 1 \in 0..Len(f) /\ 0 \in 0..Len(todo'[t])
      BY <1>3, <1>4, <1>6, CourseSeq
    <2>4. HasCourse(t)'
      BY <2>1, <2>2, <2>3 DEF HasCourse
    <2> QED  BY <1>1, <1>4, <1>6, <2>4, OthersOnCourse DEF IndInv
  <1> QED  BY <1>7, <1>8 DEF IndInv

\* Nothing that a course depends on changes.
LEMMA CourseStays ==
    ASSUME NEW t, NEW f, NEW p, OnCourse(t, f, p), s_mutex' = s_mutex, m_peer' = m_peer
    PROVE  OnCourse(t, f, p)'
  BY DEF OnCourse, Connecting

\* The unlocked look at the peer: without one both steps of the disconnect are over.
LEMMA TestInd ==
    ASSUME IndInv, NEW t \in Threads, Test(t)
    PROVE  IndInv'
  <1>1. /\ ~Idle(t) /\ todo[t][1].op = "test"
        /\ m_peer[todo[t][1].a] = None => Go(t, <<>>, 2)
        /\ m_peer[todo[t][1].a] # None => Go(t, <<>>, 1)
        /\ UNCHANGED <<m_peer, m_refcount, owned, destroyed, s_mutex>>
    BY DEF Test, Now
  <1>2. TypeOK /\ s_mutex' \in Threads \cup {None}
    BY <1>1 DEF IndInv, TypeOK
  <1>3. ASSUME NEW n \in 1..2, n <= Len(todo[t]), Go(t, <<>>, n),
               \A k \in (Len(todo[t]) - n + 1)..Len(todo[t]) : At(todo[t], k).op \in {"swap", "test"},
               HasCourse(t)'
        PROVE  IndInv'
    <2>1. \A u \in Threads \ {t} : todo'[u] = todo[u]
      BY <1>2, <1>3, Popped
    <2>2. AllOnCourse'
      BY <1>1, <1>3, <2>1, OthersOnCourse DEF IndInv
    <2>3. \A k \in (Len(todo[t]) - n + 1)..Len(todo[t]) : At(todo[t], k).op \in Neutral \ {"delete"}
      BY <1>3 DEF Neutral
    <2>4. TypeOK' /\ Coupled' /\ Counted' /\ Condemned'
      BY <1>1, <1>2, <1>3, <2>3, QuietPop
    <2> QED  BY <2>2, <2>4 DEF IndInv
  <1>4. PICK f \in Courses :
           \E p \in 0..Len(f), q \in 0..Len(todo[t]), g \in {0, 1, 3} :
              /\ Job(todo[t], f, p, q, g) /\ OnCourse(t, f, p)
              /\ Turn(todo[t], f, p, q, g)
    BY <1>1, AtWork
  <1>5. PICK p \in 0..Len(f), q \in 0..Len(todo[t]), g \in {0, 1, 3} :
              /\ Job(todo[t], f, p, q, g) /\ OnCourse(t, f, p)
              /\ Turn(todo[t], f, p, q, g)
    BY <1>4
  <1>6. /\ Len(todo[t]) \in Nat /\ Len(f) \in Nat /\ Len(todo[t]) = p + q + g
        /\ todo[t] \in Seq(Steps) /\ At(todo[t], Len(todo[t])) = todo[t][1]
    <2>1. todo[t] \in Seq(Steps) /\ todo[t] # <<>>
      BY <1>1, <1>2 DEF TypeOK, Idle
    <2>2. Len(todo[t]) \in Nat /\ At(todo[t], Len(todo[t])) = todo[t][1]
      BY <2>1, Top
    <2>3. Len(f) \in Nat
      BY CourseSeq
    <2>4. Len(todo[t]) = p + q + g
      BY <1>5 DEF Job
    <2> QED  BY <2>1, <2>2, <2>3, <2>4
  <1>7. CASE g = 3
    <2>1. PICK e \in Endpoints : todo[t][1] = S("test", e, None) /\ Destroys(todo[t], e, 3)
      BY <1>5, <1>7 DEF Turn
    <2>2. /\ At(todo[t], Len(todo[t]) + 1 - 3) = S("delete", e, None)
          /\ At(todo[t], Len(todo[t]) - 1) = S("swap", e, None)
          /\ At(todo[t], Len(todo[t])) = S("test", e, None)
      BY <2>1 DEF Destroys
    <2>3. Len(todo[t]) + 1 - 3 \in 1..Len(todo[t])
      BY <1>6, <1>7
    <2>4. Deletes(todo[t], e)
      BY <2>2, <2>3 DEF Deletes
    <2>5. m_peer[todo[t][1].a] = None
      BY <1>2, <2>1, <2>4, Fields, DyingAlone DEF IndInv
    <2>6. Go(t, <<>>, 2) /\ 2 <= Len(todo[t]) /\ 2 \in 1..2
      BY <1>1, <1>6, <1>7, <2>5
    <2>7. \A k \in (Len(todo[t]) - 2 + 1)..Len(todo[t]) : At(todo[t], k).op \in {"swap", "test"}
      <3>1. \A k \in (Len(todo[t]) - 2 + 1)..Len(todo[t]) : k = Len(todo[t]) - 1 \/ k = Len(todo[t])
        BY <1>6
      <3> QED  BY <2>2, <3>1, Fields
    <2>8. HasCourse(t)'
      <3>1. /\ todo'[t] \in Seq(Steps) /\ Len(todo'[t]) = Len(todo[t]) - 2
            /\ \A k \in 1..(Len(todo[t]) - 2) : At(todo'[t], k) = At(todo[t], k)
        BY <1>2, <2>6, Popped
      <3>2. Job(todo'[t], f, p, q, 1)
        BY <1>5, <1>6, <1>7, <3>1, JobSkipped
      <3>3. q \in 0..Len(todo'[t])
        BY <1>6, <1>7, <3>1
      <3> QED  BY <1>1, <1>5, <3>2, <3>3, CourseStays DEF HasCourse
    <2> QED  BY <1>3, <2>6, <2>7, <2>8
  <1>8. CASE g # 3
    <2>1. g = 0 /\ q = 0 /\ p > 0 /\ todo[t][1] = f[p] /\ Len(todo[t]) = p /\ p \in 1..Len(f)
      BY <1>1, <1>5, <1>6, <1>8, Fields DEF Turn
    <2>2. StepAt(t, f, p, todo[t][1])
      BY <1>5, <2>1, NextStep
    <2>3. \/ \E a \in Endpoints : f = Disconnects(a) /\ p = 3
          \/ \E a, b \in Endpoints : /\ f = Connects(a, b) /\ Connecting(t, a, b, p) /\ a # b
                                     /\ \/ p = 7 /\ todo[t][1].a = b
                                        \/ p = 10 /\ todo[t][1].a = a
      <3>1. todo[t][1].op = "test"
        BY <1>1
      <3> QED  BY <2>2, <3>1, Fields DEF StepAt
    <2>4. f[p - 1].op = "swap" /\ p \in 3..10
      BY <2>3, Fields DEF Disconnects, Connects
    <2>5. At(todo[t], p) = f[p] /\ At(todo[t], p - 1) = f[p - 1]
      BY <1>5, <2>1, <2>4 DEF Job
    <2>6. CASE m_peer[todo[t][1].a] = None
      <3>1. Go(t, <<>>, 2) /\ 2 <= Len(todo[t]) /\ 2 \in 1..2
        BY <1>1, <2>1, <2>4, <2>6
      <3>2. \A k \in (Len(todo[t]) - 2 + 1)..Len(todo[t]) : At(todo[t], k).op \in {"swap", "test"}
        <4>1. \A k \in (Len(todo[t]) - 2 + 1)..Len(todo[t]) : k = p - 1 \/ k = p
          BY <2>1
        <4> QED  BY <1>1, <2>1, <2>4, <2>5, <4>1
      <3>3. /\ todo'[t] \in Seq(Steps) /\ Len(todo'[t]) = Len(todo[t]) - 2
            /\ \A k \in 1..(Len(todo[t]) - 2) : At(todo'[t], k) = At(todo[t], k)
        BY <1>2, <3>1, Popped
      <3>4. Job(todo'[t], f, p - 2, 0, 0)
        <4>1. p > 1
          BY <2>4
        <4> QED  BY <1>5, <1>6, <2>1, <4>1, <3>3, JobSkipped
      <3>5. OnCourse(t, f, p - 2)
        BY <2>3, <2>6 DEF OnCourse, Connecting
      <3>6. p - 2 \in 0..Len(f) /\ 0 \in 0..Len(todo'[t])
        BY <1>6, <2>1, <2>4, <3>3
      <3>7. HasCourse(t)'
        BY <1>1, <3>4, <3>5, <3>6, CourseStays DEF HasCourse
      <3> QED  BY <1>3, <3>1, <3>2, <3>7
    <2>7. CASE m_peer[todo[t][1].a] # None
      <3>1. Go(t, <<>>, 1) /\ 1 <= Len(todo[t]) /\ 1 \in 1..2
        BY <1>1, <2>1, <2>4, <2>7
      <3>2. \A k \in (Len(todo[t]) - 1 + 1)..Len(todo[t]) : At(todo[t], k).op \in {"swap", "test"}
        BY <1>1, <1>6
      <3>3. /\ todo'[t] \in Seq(Steps) /\ Len(todo'[t]) = Len(todo[t]) - 1
            /\ \A k \in 1..(Len(todo[t]) - 1) : At(todo'[t], k) = At(todo[t], k)
        BY <1>2, <3>1, Popped
      <3>4. Job(todo'[t], f, p - 1, 0, 0)
        BY <1>5, <1>6, <2>1, <3>3, JobDone
      <3>5. OnCourse(t, f, p - 1)
        BY <2>3 DEF OnCourse, Connecting
      <3>6. p - 1 \in 0..Len(f) /\ 0 \in 0..Len(todo'[t])
        BY <1>6, <2>1, <2>4, <3>3
      <3>7. HasCourse(t)'
        BY <1>1, <3>4, <3>5, <3>6, CourseStays DEF HasCourse
      <3> QED  BY <1>3, <3>1, <3>2, <3>7
    <2> QED  BY <2>6, <2>7
  <1> QED  BY <1>7, <1>8

LEMMA CourseOps ==
    ASSUME NEW f \in Courses, NEW k \in 1..Len(f)
    PROVE  f[k].op # "delete"
  <1>1. CASE f = <<>>
    BY <1>1
  <1>2. ASSUME NEW a \in Endpoints, f = Disconnects(a)
        PROVE  f[k].op # "delete"
    <2>0. Len(f) = 3
      BY <1>2, CourseTypes
    <2>1. k \in {1, 2, 3}
      BY <2>0
    <2> QED  BY <1>2, <2>1, Fields DEF Disconnects
  <1>3. ASSUME NEW a \in Endpoints, NEW b \in Endpoints, f = Checks(a, b)
        PROVE  f[k].op # "delete"
    <2>0. Len(f) = 4
      BY <1>3, CourseTypes
    <2>1. k \in {1, 2, 3, 4}
      BY <2>0
    <2> QED  BY <1>3, <2>1, Fields DEF Checks
  <1>4. ASSUME NEW a \in Endpoints, NEW b \in Endpoints, f = Connects(a, b)
        PROVE  f[k].op # "delete"
    <2>0. Len(f) = 11
      BY <1>4, CourseTypes
    <2>1. k \in {1, 2, 3, 4, 5, 6, 7, 8, 9, 10, 11}
      BY <2>0
    <2> QED  BY <1>4, <2>1, Fields DEF Connects
  <1> QED  BY <1>1, <1>2, <1>3, <1>4 DEF Courses

\* Only a thread that is destroying an endpoint is to delete one.
LEMMA NoDeletes ==
    ASSUME NEW l \in Seq(Steps), NEW f \in Courses, NEW p \in 0..Len(f), NEW q \in 0..Len(l),
           Job(l, f, p, q, 0), NEW e
    PROVE  ~Deletes(l, e)
  <1>1. Len(f) \in Nat /\ Len(l) = p + q
    BY CourseSeq DEF Job
  <1>2. ASSUME NEW k \in 1..Len(l)
        PROVE  At(l, k) # S("delete", e, None)
    <2>1. CASE k \in 1..p
      <3>1. At(l, k) = f[k] /\ k \in 1..Len(f)
        BY <1>1, <2>1 DEF Job
      <3> QED  BY <3>1, CourseOps, Fields
    <2>2. CASE k \in (p + 1)..(p + q)
      BY <2>2, Fields DEF Job
    <2> QED  BY <1>1, <2>1, <2>2
  <1> QED  BY <1>2 DEF Deletes

\* The endpoint's memory is gone; no other thread is to delete it.
LEMMA DeleteInd ==
    ASSUME IndInv, NEW t \in Threads, Delete(t)
    PROVE  IndInv'
  <1>1. /\ ~Idle(t) /\ todo[t][1].op = "delete"
        /\ Go(t, <<>>, 1)
        /\ destroyed' = [destroyed EXCEPT ![todo[t][1].a] = TRUE]
        /\ UNCHANGED <<m_peer, m_refcount, owned, s_mutex>>
    BY DEF Delete, Now
  <1>2. PICK f \in Courses :
           \E p \in 0..Len(f), q \in 0..Len(todo[t]), g \in {0, 1, 3} :
              /\ Job(todo[t], f, p, q, g) /\ OnCourse(t, f, p)
              /\ Turn(todo[t], f, p, q, g)
    BY <1>1, AtWork
  <1>3. PICK p \in 0..Len(f), q \in 0..Len(todo[t]), g \in {0, 1, 3} :
              /\ Job(todo[t], f, p, q, g) /\ OnCourse(t, f, p)
              /\ Turn(todo[t], f, p, q, g)
    BY <1>2
  <1>4. g = 1
    <2>1. CASE g = 0 /\ q = 0 /\ p > 0 /\ todo[t][1] = f[p]
      BY <1>1, <2>1, CourseOps, CourseSeq
    <2> QED  BY <1>1, <1>3, <2>1, Fields DEF Turn
  <1>5. PICK e \in Endpoints : todo[t][1] = S("delete", e, None) /\ Destroys(todo[t], e, 1)
    BY <1>3, <1>4 DEF Turn
  <1>6. Len(todo[t]) = p + q + 1 /\ Len(f) \in Nat /\ TypeOK /\ 1 <= Len(todo[t]) /\ 1 \in 1..2
    BY <1>3, <1>4, CourseSeq DEF Job, IndInv
  <1>7. /\ todo' \in [Threads -> Seq(Steps)]
        /\ \A u \in Threads \ {t} : todo'[u] = todo[u]
        /\ todo[t] \in Seq(Steps) /\ todo'[t] \in Seq(Steps)
        /\ Len(todo'[t]) = Len(todo[t]) - 1
        /\ \A k \in 1..(Len(todo[t]) - 1) : At(todo'[t], k) = At(todo[t], k)
        /\ At(todo[t], Len(todo[t])) = todo[t][1]
        /\ (\A k \in (Len(todo[t]) - 1 + 1)..Len(todo[t]) : At(todo[t], k).op \in Neutral)
           => \A x : HeldBy(todo'[t], x) = HeldBy(todo[t], x)
    BY <1>1, <1>6, Popped
  <1>8. Deletes(todo[t], e)
    BY <1>5, <1>6, <1>7 DEF Deletes
  <1>9. Job(todo'[t], f, p, q, 0) /\ q \in 0..Len(todo'[t])
    BY <1>3, <1>4, <1>6, <1>7, JobDone
  <1>10. AllOnCourse'
    <2>1. HasCourse(t)'
      BY <1>1, <1>3, <1>9, CourseStays DEF HasCourse
    <2> QED  BY <1>1, <1>7, <2>1, OthersOnCourse DEF IndInv
  <1>11. TypeOK'
    BY <1>1, <1>7 DEF IndInv, TypeOK
  <1>12. Coupled'
    BY <1>1, <1>7, CoupledKept DEF IndInv
  <1>13. Counted'
    <2>1. \A k \in (Len(todo[t]) - 1 + 1)..Len(todo[t]) : At(todo[t], k).op \in Neutral
      BY <1>1, <1>6, <1>7 DEF Neutral
    <2> QED  BY <1>1, <1>7, <2>1, CountedKept DEF IndInv
  <1>14. Condemned'
    <2>1. \A d \in Endpoints : ~Deletes(todo'[t], d)
      BY <1>7, <1>9, NoDeletes
    <2>2. ASSUME NEW d \in Endpoints \ {e}
          PROVE  ~Deletes(todo[t], d)
      <3>1. ASSUME NEW k \in 1..Len(todo[t]), At(todo[t], k) = S("delete", d, None)
            PROVE  FALSE
        <4>1. k # Len(todo[t])
          BY <1>5, <1>7, <3>1, Fields
        <4>2. k \in 1..(Len(todo[t]) - 1) /\ k \in 1..Len(todo'[t])
          BY <1>6, <1>7, <4>1
        <4> QED  BY <1>7, <2>1, <3>1, <4>2 DEF Deletes
      <3> QED  BY <3>1 DEF Deletes
    <2>3. \A d \in Endpoints : destroyed'[d] <=> destroyed[d] \/ d = e
      BY <1>1, <1>5, Fields DEF IndInv, TypeOK
    <2>4. \A u \in Threads : \A d \in Endpoints : Deletes(todo'[u], d) <=> Deletes(todo[u], d) /\ u # t
      BY <1>7, <2>1
    <2>5. \A u \in Threads : Deletes(todo[u], e) => u = t
      BY <1>8 DEF IndInv, Condemned
    <2>6. m_refcount[e] = 0
      BY <1>8 DEF IndInv, Condemned
    <2> QED  BY <1>1, <2>2, <2>3, <2>4, <2>5, <2>6 DEF IndInv, Condemned
  <1> QED  BY <1>10, <1>11, <1>12, <1>13, <1>14 DEF IndInv

\* Dropping a reference gives up exactly that one.
LEMMA DroppedHeld ==
    ASSUME NEW l \in Seq(Steps), NEW m \in Seq(Steps), l # <<>>, NEW x, At(l, Len(l)) = Drop(x),
           Len(l) - 1 <= Len(m), \A k \in 1..(Len(l) - 1) : At(m, k) = At(l, k),
           \A k \in Len(l)..Len(m) : At(m, k).op \in Neutral
    PROVE  /\ Len(l) \in HeldBy(l, x) /\ HeldBy(m, x) = HeldBy(l, x) \ {Len(l)}
           /\ \A y : y # x => HeldBy(m, y) = HeldBy(l, y)
  <1> DEFINE n == Len(l) - 1
  <1>1. Len(l) \in Nat \ {0} /\ Len(m) \in Nat /\ n \in Nat /\ n <= Len(l) /\ n <= Len(m)
    BY Top
  <1>2. \A k \in 1..n : At(m, k) = At(l, k)
    OBVIOUS
  <1>3. \A k \in (n + 1)..Len(l) : k = Len(l) /\ At(l, k) = Drop(x)
    BY <1>1
  <1>4. \A k \in (n + 1)..Len(m) : At(m, k).op \in Neutral
    BY <1>1
  <1> HIDE DEF n
  <1>5. \A k \in (n + 1)..Len(l) : At(l, k).op \notin {"ref", "refPeer"}
    BY <1>3, Fields
  <1>6. \A k \in (n + 1)..Len(m) : At(m, k).op \notin {"ref", "refPeer"}
    BY <1>4 DEF Neutral
  <1>7. ASSUME NEW y
        PROVE  /\ HeldBy(m, y) \cap 1..n = HeldBy(l, y) \cap 1..n
               /\ HeldBy(l, y) \subseteq 1..Len(l)
               /\ HeldBy(m, y) \subseteq 1..n
    <2>1. /\ HeldBy(m, y) \cap 1..n = HeldBy(l, y) \cap 1..n
          /\ HeldBy(l, y) \subseteq 1..Len(l)
          /\ HeldBy(m, y) \subseteq 1..Len(m)
      BY <1>1, <1>2, <1>5, <1>6, KeptHeld
    <2>2. ASSUME NEW k \in HeldBy(m, y)
          PROVE  k \in 1..n
      <3>1. k \in 1..Len(m) /\ At(m, k).op \in {"deref", "set", "setPeer"}
        BY <2>1 DEF HeldBy, Holds
      <3>2. k \notin (n + 1)..Len(m)
        BY <1>4, <3>1 DEF Neutral
      <3> QED  BY <1>1, <3>1, <3>2
    <2> QED  BY <2>1, <2>2
  <1>8. Len(l) \in HeldBy(l, x)
    <2>1. Len(l) \in 1..Len(l)
      BY <1>1
    <2> QED  BY <2>1, DropHeld
  <1>9. \A y : y # x => Len(l) \notin HeldBy(l, y)
    BY Fields DEF HeldBy, Holds
  <1>10. 1..n = 1..Len(l) \ {Len(l)}
    <2>1. n = Len(l) - 1
      BY DEF n
    <2> QED  BY <1>1, <2>1
  <1>11. HeldBy(m, x) = HeldBy(l, x) \ {Len(l)}
    BY <1>7, <1>10
  <1>12. ASSUME NEW y, y # x
         PROVE  HeldBy(m, y) = HeldBy(l, y)
    <2>1. HeldBy(l, y) \subseteq 1..n
      BY <1>7, <1>9, <1>10, <1>12
    <2>2. HeldBy(m, y) \cap 1..n = HeldBy(l, y) \cap 1..n /\ HeldBy(m, y) \subseteq 1..n
      BY <1>7
    <2> QED  BY <2>1, <2>2
  <1> QED  BY <1>8, <1>11, <1>12

\* The steps of destroying an endpoint.
LEMMA DestroySteps ==
    ASSUME NEW e \in Endpoints
    PROVE  LET s == Disconnect(e) \o <<S("delete", e, None)>>
           IN  /\ s \in Seq(Steps) /\ Len(s) = 3
               /\ At(s, 1) = S("delete", e, None)
               /\ At(s, 2) = S("swap", e, None)
               /\ At(s, 3) = S("test", e, None)
  <1> DEFINE d == Disconnect(e)
             r == <<S("delete", e, None)>>
             s == d \o r
  <1>1. /\ S("test", e, None) \in Steps /\ S("swap", e, None) \in Steps
        /\ S("delete", e, None) \in Steps
    BY StepTypes DEF Ops
  <1>2. /\ d \in Seq(Steps) /\ Len(d) = 2
        /\ d[1] = S("test", e, None) /\ d[2] = S("swap", e, None)
    BY <1>1 DEF Disconnect
  <1>3. r \in Seq(Steps) /\ Len(r) = 1 /\ r[1] = S("delete", e, None)
    BY <1>1
  <1> HIDE DEF d, r
  <1>4. s \in Seq(Steps) /\ Len(s) = Len(d) + Len(r)
    <2>1. d \in Seq(Steps) /\ r \in Seq(Steps)
      BY <1>2, <1>3
    <2> QED  BY <2>1
  <1>6. s[1] = d[1] /\ s[2] = d[2] /\ s[3] = r[1]
    <2>1. d \in Seq(Steps) /\ r \in Seq(Steps) /\ Len(d) \in Nat /\ Len(r) \in Nat
      BY <1>2, <1>3
    <2>2. \A i \in 1..Len(d) : s[i] = d[i]
      BY <2>1
    <2>3. \A i \in 1..Len(r) : s[Len(d) + i] = r[i]
      BY <2>1
    <2> HIDE DEF s
    <2> QED  BY <1>2, <1>3, <2>2, <2>3
  <1> HIDE DEF s
  <1>5. Len(s) = 3
    BY <1>2, <1>3, <1>4
  <1>7. At(s, 1) = s[3] /\ At(s, 2) = s[2] /\ At(s, 3) = s[1]
    BY <1>5 DEF At
  <1>8. /\ s \in Seq(Steps) /\ Len(s) = 3
        /\ At(s, 1) = S("delete", e, None)
        /\ At(s, 2) = S("swap", e, None)
        /\ At(s, 3) = S("test", e, None)
    BY <1>2, <1>3, <1>4, <1>5, <1>6, <1>7
  <1> QED  BY <1>8 DEF s, d, r

\* The counts when a thread has given up the reference at place k for the endpoint e.
LEMMA CountedLess ==
    ASSUME TypeOK, Counted, NEW t \in Threads, NEW e \in Endpoints, NEW k \in HeldBy(todo[t], e),
           \A u \in Threads \ {t} : todo'[u] = todo[u],
           HeldBy(todo'[t], e) = HeldBy(todo[t], e) \ {k},
           \A y : y # e => HeldBy(todo'[t], y) = HeldBy(todo[t], y),
           m_refcount' = [m_refcount EXCEPT ![e] = @ - 1], UNCHANGED <<m_peer, owned>>
    PROVE  Counted'
  <1>1. ASSUME NEW x \in Endpoints
        PROVE  /\ IsFiniteSet(Held(x)')
               /\ m_refcount'[x] = (IF owned'[x] THEN 1 ELSE 0) + (IF m_peer'[x] # None THEN 1 ELSE 0)
                                   + Cardinality(Held(x)')
    <2>1. /\ IsFiniteSet(Held(x))
          /\ m_refcount[x] = (IF owned[x] THEN 1 ELSE 0) + (IF m_peer[x] # None THEN 1 ELSE 0)
                              + Cardinality(Held(x))
          /\ m_refcount \in [Endpoints -> Nat]
      BY DEF Counted, TypeOK
    <2>2. CASE x = e
      <3>1. /\ IsFiniteSet(Held(x)') /\ Cardinality(Held(x)') = Cardinality(Held(x)) - 1
            /\ Cardinality(Held(x)) \in Nat
        BY <2>1, <2>2, CountChange
      <3>2. m_refcount'[x] = m_refcount[x] - 1
        BY <2>1, <2>2
      <3> QED  BY <2>1, <3>1, <3>2
    <2>3. CASE x # e
      <3>1. Held(x)' = Held(x)
        BY <2>1, <2>3, CountChange
      <3>2. m_refcount'[x] = m_refcount[x]
        BY <2>1, <2>3
      <3> QED  BY <2>1, <3>1, <3>2
    <2> QED  BY <2>2, <2>3
  <1> QED  BY <1>1 DEF Counted

\* The counts when a thread holds one more reference to the endpoint e.
LEMMA CountedMore ==
    ASSUME TypeOK, Counted, NEW t \in Threads, NEW e \in Endpoints, NEW k,
           k \notin HeldBy(todo[t], e),
           \A u \in Threads \ {t} : todo'[u] = todo[u],
           HeldBy(todo'[t], e) = HeldBy(todo[t], e) \cup {k},
           \A y : y # e => HeldBy(todo'[t], y) = HeldBy(todo[t], y),
           m_refcount' = [m_refcount EXCEPT ![e] = @ + 1], UNCHANGED <<m_peer, owned>>
    PROVE  Counted'
  <1>1. ASSUME NEW x \in Endpoints
        PROVE  /\ IsFiniteSet(Held(x)')
               /\ m_refcount'[x] = (IF owned'[x] THEN 1 ELSE 0) + (IF m_peer'[x] # None THEN 1 ELSE 0)
                                   + Cardinality(Held(x)')
    <2>1. /\ IsFiniteSet(Held(x))
          /\ m_refcount[x] = (IF owned[x] THEN 1 ELSE 0) + (IF m_peer[x] # None THEN 1 ELSE 0)
                              + Cardinality(Held(x))
          /\ m_refcount \in [Endpoints -> Nat]
      BY DEF Counted, TypeOK
    <2>2. CASE x = e
      <3>1. /\ IsFiniteSet(Held(x)') /\ Cardinality(Held(x)') = Cardinality(Held(x)) + 1
            /\ Cardinality(Held(x)) \in Nat
        BY <2>1, <2>2, CountChange
      <3>2. m_refcount'[x] = m_refcount[x] + 1
        BY <2>1, <2>2
      <3> QED  BY <2>1, <3>1, <3>2
    <2>3. CASE x # e
      <3>1. Held(x)' = Held(x)
        BY <2>1, <2>3, CountChange
      <3>2. m_refcount'[x] = m_refcount[x]
        BY <2>1, <2>3
      <3> QED  BY <2>1, <3>1, <3>2
    <2> QED  BY <2>2, <2>3
  <1> QED  BY <1>1 DEF Counted

\* A step is taken from an operation's last two, which drop the caller's references.
LEMMA CourseDrops ==
    ASSUME NEW t, NEW f, NEW p \in 1..2, OnCourse(t, f, p), s_mutex' = s_mutex, m_peer' = m_peer
    PROVE  OnCourse(t, f, p - 1)'
  BY DEF OnCourse, Connecting

\* A reference is dropped; the last one has the endpoint destroyed by this thread.
LEMMA DerefInd ==
    ASSUME IndInv, NEW t \in Threads, Deref(t)
    PROVE  IndInv'
  <1> DEFINE e == todo[t][1].a
             s == Disconnect(e) \o <<S("delete", e, None)>>
             l == todo[t]
             m == todo'[t]
  <1>1. /\ ~Idle(t) /\ todo[t][1].op = "deref"
        /\ m_refcount' = [m_refcount EXCEPT ![e] = IF @ > 0 THEN @ - 1 ELSE @]
        /\ m_refcount[e] = 1 => Go(t, s, 1)
        /\ m_refcount[e] # 1 => Go(t, <<>>, 1)
        /\ UNCHANGED <<m_peer, owned, destroyed, s_mutex>>
    BY DEF Deref, Now
  <1>2. PICK f \in Courses :
           \E p \in 0..Len(f), q \in 0..Len(todo[t]), g \in {0, 1, 3} :
              /\ Job(todo[t], f, p, q, g) /\ OnCourse(t, f, p)
              /\ Turn(todo[t], f, p, q, g)
    BY <1>1, AtWork
  <1>3. PICK p \in 0..Len(f), q \in 0..Len(todo[t]), g \in {0, 1, 3} :
              /\ Job(todo[t], f, p, q, g) /\ OnCourse(t, f, p)
              /\ Turn(todo[t], f, p, q, g)
    BY <1>2
  <1>4. /\ TypeOK /\ Counted /\ Condemned
        /\ l \in Seq(Steps) /\ l # <<>> /\ Len(l) \in Nat \ {0} /\ l[1] = At(l, Len(l))
        /\ Len(f) \in Nat
    <2>1. l \in Seq(Steps) /\ l # <<>>
      BY <1>1 DEF IndInv, TypeOK, Idle
    <2> QED  BY <2>1, Top, CourseSeq DEF IndInv
  <1>5. /\ g = 0 /\ e \in Endpoints /\ l[1] = Drop(e)
        /\ \/ q > 0
           \/ q = 0 /\ p \in 1..2
    <2>1. CASE g = 0 /\ q > 0
      BY <1>3, <2>1, Fields DEF Turn
    <2>2. CASE g = 0 /\ q = 0 /\ p > 0 /\ l[1] = f[p]
      <3>1. StepAt(t, f, p, l[1]) /\ p \in 1..Len(f)
        BY <1>3, <1>4, <2>2, NextStep
      <3>2. p <= 2 /\ \E x \in Endpoints : l[1] = Drop(x)
        BY <1>1, <3>1, Fields DEF StepAt
      <3> QED  BY <1>4, <2>2, <3>1, <3>2, Fields
    <2>3. g # 3 /\ g # 1
      BY <1>1, <1>3, Fields DEF Turn
    <2> QED  BY <1>3, <2>1, <2>2, <2>3 DEF Turn
  <1>6. Len(l) \in HeldBy(l, e)
    <2>1. Len(l) \in 1..Len(l)
      BY <1>4
    <2> QED  BY <1>4, <1>5, <2>1, DropHeld
  <1>7. /\ m_refcount[e] \in Nat \ {0} /\ ~destroyed[e]
        /\ \A u \in Threads : ~Deletes(todo[u], e)
    BY <1>4, <1>5, <1>6, HeldAlive
  <1>8. m_refcount' = [m_refcount EXCEPT ![e] = @ - 1]
    <2>1. m_refcount[e] > 0
      BY <1>7
    <2> HIDE DEF e
    <2> QED  BY <1>1, <2>1
  <1>9. /\ m_refcount' \in [Endpoints -> Nat] /\ m_refcount'[e] = m_refcount[e] - 1
        /\ \A x \in Endpoints \ {e} : m_refcount'[x] = m_refcount[x]
    BY <1>4, <1>5, <1>7, <1>8 DEF TypeOK
  <1>10. SUFFICES TypeOK' /\ AllOnCourse' /\ Coupled' /\ Counted' /\ Condemned'
    BY DEF IndInv
  <1>11. CASE m_refcount[e] = 1
    <2>1. /\ s \in Seq(Steps) /\ Len(s) = 3
          /\ At(s, 1) = S("delete", e, None)
          /\ At(s, 2) = S("swap", e, None)
          /\ At(s, 3) = S("test", e, None)
      BY <1>5, DestroySteps
    <2>2. Go(t, s, 1) /\ 1 \in 0..Len(l)
      BY <1>1, <1>4, <1>11
    <2> HIDE DEF s
    <2>3. /\ todo' \in [Threads -> Seq(Steps)]
          /\ \A u \in Threads \ {t} : todo'[u] = todo[u]
          /\ m \in Seq(Steps)
          /\ Len(m) = Len(l) - 1 + Len(s)
          /\ \A k \in 1..(Len(l) - 1) : At(m, k) = At(l, k)
          /\ \A k \in 1..Len(s) : At(m, Len(l) - 1 + k) = At(s, k)
      BY <1>4, <2>1, <2>2, Gone
    <2>4. /\ Len(m) = Len(l) + 2
          /\ At(m, Len(l)) = S("delete", e, None)
          /\ At(m, Len(l) + 1) = S("swap", e, None)
          /\ At(m, Len(l) + 2) = S("test", e, None)
      <3>1. 1 \in 1..Len(s) /\ 2 \in 1..Len(s) /\ 3 \in 1..Len(s)
        BY <2>1
      <3>2. Len(l) - 1 + 1 = Len(l) /\ Len(l) - 1 + 2 = Len(l) + 1 /\ Len(l) - 1 + 3 = Len(l) + 2
        BY <1>4
      <3> QED  BY <2>1, <2>3, <3>1, <3>2
    <2>5. Destroys(m, e, 3)
      <3>1. Len(m) + 1 - 3 = Len(l) /\ Len(m) - 1 = Len(l) + 1
        BY <1>4, <2>4
      <3> QED  BY <2>4, <3>1 DEF Destroys
    <2>6. \A k \in Len(l)..Len(m) : k = Len(l) \/ k = Len(l) + 1 \/ k = Len(l) + 2
      BY <1>4, <2>4
    <2>7. \A k \in Len(l)..Len(m) : At(m, k).op \in Neutral
      BY <2>4, <2>6, Fields DEF Neutral
    <2>8. /\ HeldBy(m, e) = HeldBy(l, e) \ {Len(l)}
          /\ \A y : y # e => HeldBy(m, y) = HeldBy(l, y)
      <3>1. At(l, Len(l)) = Drop(e) /\ Len(l) - 1 <= Len(m)
        BY <1>4, <1>5, <2>4
      <3>2. m \in Seq(Steps) /\ \A k \in 1..(Len(l) - 1) : At(m, k) = At(l, k)
        BY <2>3
      <3>3. l \in Seq(Steps) /\ l # <<>>
        BY <1>4
      <3> HIDE DEF e, l, m
      <3> QED  BY <2>7, <3>1, <3>2, <3>3, DroppedHeld
    <2>9. Counted'
      BY <1>1, <1>4, <1>5, <1>6, <1>8, <2>3, <2>8, CountedLess
    <2>10. TypeOK'
      BY <1>1, <1>4, <1>9, <2>3 DEF TypeOK
    <2>11. Coupled'
      BY <1>1, <2>3, CoupledKept DEF IndInv
    <2>12. AllOnCourse'
      <3>1. /\ q > 0 => Job(m, f, p, q - 1, 3)
            /\ q = 0 /\ p > 0 => Job(m, f, p - 1, 0, 3)
        BY <1>3, <1>4, <1>5, <2>3, <2>4, <2>5, JobDestroys
      <3>2. Len(l) = p + q
        BY <1>3, <1>5 DEF Job
      <3>3. q > 0 => q - 1 \in 0..Len(m)
        BY <2>4, <3>2
      <3>4. q = 0 => p - 1 \in 0..Len(f) /\ 0 \in 0..Len(m) /\ p > 0
        BY <1>4, <1>5, <2>4
      <3>5. OnCourse(t, f, p)' /\ (q = 0 => OnCourse(t, f, p - 1)')
        BY <1>1, <1>3, <1>5, CourseStays, CourseDrops
      <3>6. HasCourse(t)'
        <4>1. CASE q > 0
          BY <3>1, <3>3, <3>5, <4>1 DEF HasCourse
        <4>2. CASE q = 0
          BY <3>1, <3>4, <3>5, <4>2 DEF HasCourse
        <4> QED  BY <1>5, <4>1, <4>2
      <3> QED  BY <1>1, <2>3, <3>6, OthersOnCourse DEF IndInv
    <2>13. Condemned'
      <3>1. Deletes(m, e)
        <4>1. Len(l) \in 1..Len(m)
          BY <1>4, <2>4
        <4> QED  BY <2>4, <4>1 DEF Deletes
      <3>2. ASSUME NEW d \in Endpoints \ {e}
            PROVE  Deletes(m, d) <=> Deletes(l, d)
        <4>1. ASSUME NEW k \in 1..Len(m), At(m, k) = S("delete", d, None)
              PROVE  Deletes(l, d)
          <5>1. k \notin Len(l)..Len(m)
            BY <2>4, <2>6, <4>1, Fields
          <5>2. k \in 1..(Len(l) - 1) /\ k \in 1..Len(l)
            BY <1>4, <2>4, <5>1
          <5> QED  BY <2>3, <4>1, <5>2 DEF Deletes
        <4>2. ASSUME NEW k \in 1..Len(l), At(l, k) = S("delete", d, None)
              PROVE  Deletes(m, d)
          <5>1. k # Len(l)
            BY <1>4, <1>5, <4>2, Fields
          <5>2. k \in 1..(Len(l) - 1) /\ k \in 1..Len(m)
            BY <1>4, <2>4, <5>1
          <5> QED  BY <2>3, <4>2, <5>2 DEF Deletes
        <4> QED  BY <4>1, <4>2 DEF Deletes
      <3>3. \A u \in Threads : \A d \in Endpoints :
               Deletes(todo'[u], d) <=> Deletes(todo[u], d) \/ (u = t /\ d = e)
        BY <2>3, <3>1, <3>2
      <3>4. \A d \in Endpoints : m_refcount'[d] = 0 <=> m_refcount[d] = 0 \/ d = e
        BY <1>9, <1>11
      <3> HIDE DEF e
      <3> QED  BY <1>1, <1>4, <1>5, <1>7, <3>3, <3>4 DEF Condemned
    <2> QED  BY <2>9, <2>10, <2>11, <2>12, <2>13
  <1>12. CASE m_refcount[e] # 1
    <2>1. Go(t, <<>>, 1) /\ 1 \in 1..2 /\ 1 <= Len(l)
      BY <1>1, <1>4, <1>12
    <2>2. /\ todo' \in [Threads -> Seq(Steps)]
          /\ \A u \in Threads \ {t} : todo'[u] = todo[u]
          /\ m \in Seq(Steps)
          /\ Len(m) = Len(l) - 1
          /\ \A k \in 1..(Len(l) - 1) : At(m, k) = At(l, k)
          /\ (\A k \in (Len(l) - 1 + 1)..Len(l) : At(l, k).op # "delete")
             => \A d : Deletes(m, d) <=> Deletes(l, d)
      BY <1>4, <2>1, Popped
    <2>3. \A k \in (Len(l) - 1 + 1)..Len(l) : At(l, k).op # "delete"
      BY <1>1, <1>4
    <2>4. /\ HeldBy(m, e) = HeldBy(l, e) \ {Len(l)}
          /\ \A y : y # e => HeldBy(m, y) = HeldBy(l, y)
      <3>1. At(l, Len(l)) = Drop(e) /\ Len(l) - 1 <= Len(m)
        BY <1>4, <1>5, <2>2
      <3>2. \A k \in Len(l)..Len(m) : At(m, k).op \in Neutral
        BY <1>4, <2>2
      <3>3. m \in Seq(Steps) /\ \A k \in 1..(Len(l) - 1) : At(m, k) = At(l, k)
        BY <2>2
      <3>4. l \in Seq(Steps) /\ l # <<>>
        BY <1>4
      <3> HIDE DEF e, l, m
      <3> QED  BY <3>1, <3>2, <3>3, <3>4, DroppedHeld
    <2>5. Counted'
      BY <1>1, <1>4, <1>5, <1>6, <1>8, <2>2, <2>4, CountedLess
    <2>6. TypeOK'
      BY <1>1, <1>4, <1>9, <2>2 DEF TypeOK
    <2>7. Coupled'
      BY <1>1, <2>2, CoupledKept DEF IndInv
    <2>8. AllOnCourse'
      <3>1. /\ q > 0 => Job(m, f, p, q - 1, 0)
            /\ q = 0 /\ p > 0 => Job(m, f, p - 1, 0, 0)
        BY <1>3, <1>4, <1>5, <2>2, JobDone
      <3>2. Len(l) = p + q
        BY <1>3, <1>5 DEF Job
      <3>3. q > 0 => q - 1 \in 0..Len(m)
        BY <2>2, <3>2
      <3>4. q = 0 => p - 1 \in 0..Len(f) /\ 0 \in 0..Len(m) /\ p > 0
        BY <1>4, <1>5, <2>2
      <3>5. OnCourse(t, f, p)' /\ (q = 0 => OnCourse(t, f, p - 1)')
        BY <1>1, <1>3, <1>5, CourseStays, CourseDrops
      <3>6. HasCourse(t)'
        <4>1. CASE q > 0
          BY <3>1, <3>3, <3>5, <4>1 DEF HasCourse
        <4>2. CASE q = 0
          BY <3>1, <3>4, <3>5, <4>2 DEF HasCourse
        <4> QED  BY <1>5, <4>1, <4>2
      <3> QED  BY <1>1, <2>2, <3>6, OthersOnCourse DEF IndInv
    <2>9. Condemned'
      <3>1. \A d \in Endpoints : m_refcount'[d] = 0 <=> m_refcount[d] = 0
        BY <1>4, <1>7, <1>9, <1>12
      <3>2. \A d \in Endpoints : Deletes(m, d) <=> Deletes(l, d)
        BY <2>2, <2>3
      <3> QED
        <4>1. Condemned /\ destroyed' = destroyed /\ \A u \in Threads \ {t} : todo'[u] = todo[u]
          BY <1>1, <1>4, <2>2
        <4> QED  BY <3>1, <3>2, <4>1, CondemnedAbove
    <2> QED  BY <2>5, <2>6, <2>7, <2>8, <2>9
  <1> QED  BY <1>11, <1>12

-----------------------------------------------------------------------------
(* What a thread holds while it does the steps of its operation *)

LEMMA ConnectsHeld ==
    ASSUME NEW a \in Endpoints, NEW b \in Endpoints, NEW p \in 0..11, NEW l \in Seq(Steps),
           Job(l, Connects(a, b), p, 0, 0)
    PROVE  \A x, k : k \in HeldBy(l, x) <=>
              /\ k \in 1..p
              /\ \/ k = 1 /\ x = b
                 \/ k = 2 /\ x = a
                 \/ k = 4 /\ x = b /\ p < 8
                 \/ k = 5 /\ x = a /\ p < 11
  <1> DEFINE f == Connects(a, b)
  <1>1. Len(l) = p /\ \A k \in 1..p : At(l, k) = f[k]
    BY DEF Job
  <1>2. /\ f[1] = Drop(b) /\ f[2] = Drop(a) /\ f[3] = S("unlock", None, None)
        /\ f[4] = S("setPeer", b, a) /\ f[5] = S("set", a, b) /\ f[6] = S("swap", b, None)
        /\ f[7] = S("test", b, None) /\ f[8] = S("refPeer", a, b) /\ f[9] = S("swap", a, None)
        /\ f[10] = S("test", a, None) /\ f[11] = S("ref", a, b)
    BY DEF Connects
  <1> HIDE DEF f
  <1>3. /\ f[1].op = "deref" /\ f[2].op = "deref" /\ f[3].op = "unlock" /\ f[4].op = "setPeer"
        /\ f[5].op = "set" /\ f[6].op = "swap" /\ f[7].op = "test" /\ f[8].op = "refPeer"
        /\ f[9].op = "swap" /\ f[10].op = "test" /\ f[11].op = "ref"
        /\ f[1].a = b /\ f[2].a = a /\ f[4].a = b /\ f[5].a = a
    BY <1>2, Fields
  <1>4. ASSUME p >= 4
        PROVE  (\A j \in 5..p : At(l, j).op # "refPeer") <=> p < 8
    <2>1. CASE p < 8
      <3>1. \A j \in 5..p : j \in {5, 6, 7} /\ j \in 1..p
        BY <2>1
      <3>2. \A j \in 5..p : At(l, j).op = f[j].op
        BY <1>1, <3>1
      <3>3. \A j \in 5..p : f[j].op # "refPeer"
        BY <1>3, <3>1
      <3> QED  BY <2>1, <3>2, <3>3
    <2>2. CASE p >= 8
      <3>1. 8 \in 5..p /\ 8 \in 1..p
        BY <2>2
      <3>2. At(l, 8).op = "refPeer"
        BY <1>1, <1>3, <3>1
      <3> QED  BY <2>2, <3>1, <3>2
    <2> QED  BY <2>1, <2>2
  <1>5. ASSUME p >= 5
        PROVE  (\A j \in 6..p : At(l, j).op # "ref") <=> p < 11
    <2>1. CASE p < 11
      <3>1. \A j \in 6..p : j \in {6, 7, 8, 9, 10} /\ j \in 1..p
        BY <2>1
      <3>2. \A j \in 6..p : At(l, j).op = f[j].op
        BY <1>1, <3>1
      <3>3. \A j \in 6..p : f[j].op # "ref"
        BY <1>3, <3>1
      <3> QED  BY <2>1, <3>2, <3>3
    <2>2. CASE p = 11
      <3>1. 11 \in 6..p /\ 11 \in 1..p
        BY <2>2
      <3>2. At(l, 11).op = "ref"
        BY <1>1, <1>3, <3>1
      <3> QED  BY <2>2, <3>1, <3>2
    <2> QED  BY <2>1, <2>2
  <1>6. ASSUME NEW x, NEW k \in 1..p
        PROVE  Holds(l, k, x) <=>
                  \/ k = 1 /\ x = b
                  \/ k = 2 /\ x = a
                  \/ k = 4 /\ x = b /\ p < 8
                  \/ k = 5 /\ x = a /\ p < 11
    <2>1. k \in 1..11 /\ At(l, k) = f[k]
      BY <1>1
    <2>2. CASE k \in {1, 2}
      BY <1>3, <2>1, <2>2 DEF Holds
    <2>3. CASE k = 4
      <3>1. Holds(l, 4, x) <=> x = b /\ \A j \in 5..p : At(l, j).op # "refPeer"
        BY <1>1, <1>3, <2>1, <2>3 DEF Holds
      <3> QED  BY <1>4, <2>3, <3>1
    <2>4. CASE k = 5
      <3>1. Holds(l, 5, x) <=> x = a /\ \A j \in 6..p : At(l, j).op # "ref"
        BY <1>1, <1>3, <2>1, <2>4 DEF Holds
      <3> QED  BY <1>5, <2>4, <3>1
    <2>5. CASE k \notin {1, 2, 4, 5}
      <3>1. k \in {3, 6, 7, 8, 9, 10, 11}
        BY <2>1, <2>5
      <3>2. f[k].op \notin {"deref", "set", "setPeer"}
        BY <1>3, <3>1
      <3> QED  BY <2>1, <2>5, <3>2 DEF Holds
    <2> QED  BY <2>2, <2>3, <2>4, <2>5
  <1> QED  BY <1>1, <1>6 DEF HeldBy

LEMMA ChecksHeld ==
    ASSUME NEW a \in Endpoints, NEW b \in Endpoints, NEW p \in 0..4, NEW l \in Seq(Steps),
           Job(l, Checks(a, b), p, 0, 0)
    PROVE  \A x, k : k \in HeldBy(l, x) <=>
              k \in 1..p /\ ((k = 1 /\ x = b) \/ (k = 2 /\ x = a))
  <1> DEFINE f == Checks(a, b)
  <1>1. Len(l) = p /\ \A k \in 1..p : At(l, k) = f[k]
    BY DEF Job
  <1>2. /\ f[1] = Drop(b) /\ f[2] = Drop(a) /\ f[3] = S("unlock", None, None)
        /\ f[4] = S("check", a, b)
    BY DEF Checks
  <1> HIDE DEF f
  <1>3. /\ f[1].op = "deref" /\ f[2].op = "deref" /\ f[3].op = "unlock" /\ f[4].op = "check"
        /\ f[1].a = b /\ f[2].a = a
    BY <1>2, Fields
  <1>4. ASSUME NEW x, NEW k \in 1..p
        PROVE  Holds(l, k, x) <=> (k = 1 /\ x = b) \/ (k = 2 /\ x = a)
    <2>1. k \in {1, 2, 3, 4} /\ At(l, k) = f[k]
      BY <1>1
    <2>2. CASE k \in {1, 2}
      <3>1. At(l, k).op = "deref" /\ (k = 1 => At(l, k).a = b) /\ (k = 2 => At(l, k).a = a)
        BY <1>3, <2>1, <2>2
      <3>2. Holds(l, k, x) <=> At(l, k).a = x
        BY <3>1 DEF Holds
      <3> QED  BY <2>2, <3>1, <3>2
    <2>3. CASE k \in {3, 4}
      <3>1. At(l, k).op \in {"unlock", "check"}
        BY <1>3, <2>1, <2>3
      <3> QED  BY <2>3, <3>1 DEF Holds
    <2> QED  BY <2>1, <2>2, <2>3
  <1> QED  BY <1>1, <1>4 DEF HeldBy

LEMMA DisconnectsHeld ==
    ASSUME NEW a \in Endpoints, NEW p \in 0..3, NEW l \in Seq(Steps),
           Job(l, Disconnects(a), p, 0, 0)
    PROVE  \A x, k : k \in HeldBy(l, x) <=> k \in 1..p /\ k = 1 /\ x = a
  <1> DEFINE f == Disconnects(a)
  <1>1. Len(l) = p /\ \A k \in 1..p : At(l, k) = f[k]
    BY DEF Job
  <1>2. f[1] = Drop(a) /\ f[2] = S("swap", a, None) /\ f[3] = S("test", a, None)
    BY DEF Disconnects
  <1> HIDE DEF f
  <1>3. f[1].op = "deref" /\ f[2].op = "swap" /\ f[3].op = "test" /\ f[1].a = a
    BY <1>2, Fields
  <1>4. ASSUME NEW x, NEW k \in 1..p
        PROVE  Holds(l, k, x) <=> k = 1 /\ x = a
    <2>1. k \in {1, 2, 3} /\ At(l, k) = f[k]
      BY <1>1
    <2>2. CASE k = 1
      BY <1>3, <2>1, <2>2 DEF Holds
    <2>3. CASE k # 1
      <3>1. At(l, k).op \in {"swap", "test"}
        BY <1>3, <2>1, <2>3
      <3> QED  BY <2>3, <3>1 DEF Holds
    <2> QED  BY <2>2, <2>3
  <1> QED  BY <1>1, <1>4 DEF HeldBy

LEMMA IdleHeld == \A x, e : HeldBy(<<>>, x) = {} /\ ~Deletes(<<>>, e)
  BY DEF HeldBy, Deletes

-----------------------------------------------------------------------------
(* The steps of connect() past its check *)

LEMMA ConnectAt ==
    ASSUME IndInv, NEW t \in Threads, ~Idle(t),
           todo[t][1].op \in {"ref", "refPeer", "set", "setPeer"}
    PROVE  \E a, b \in Endpoints : \E p \in {4, 5, 8, 11} :
              /\ a # b /\ s_mutex = t /\ Connecting(t, a, b, p)
              /\ Job(todo[t], Connects(a, b), p, 0, 0)
              /\ \/ p = 4 /\ todo[t][1] = S("setPeer", b, a)
                 \/ p = 5 /\ todo[t][1] = S("set", a, b)
                 \/ p = 8 /\ todo[t][1] = S("refPeer", a, b)
                 \/ p = 11 /\ todo[t][1] = S("ref", a, b)
  <1>1. todo[t][1].op \notin {"test", "deref", "delete"}
    OBVIOUS
  <1>2. PICK f \in Courses : \E p \in 1..Len(f) :
              /\ Job(todo[t], f, p, 0, 0) /\ OnCourse(t, f, p)
              /\ StepAt(t, f, p, todo[t][1]) /\ Len(todo[t]) = p
    BY <1>1, BaseStep
  <1>3. PICK p \in 1..Len(f) :
              /\ Job(todo[t], f, p, 0, 0) /\ OnCourse(t, f, p)
              /\ StepAt(t, f, p, todo[t][1]) /\ Len(todo[t]) = p
    BY <1>2
  <1>4. PICK a \in Endpoints, b \in Endpoints :
           /\ a # b /\ s_mutex = t /\ f = Connects(a, b) /\ Connecting(t, a, b, p)
           /\ \/ p = 4 /\ todo[t][1] = S("setPeer", b, a)
              \/ p = 5 /\ todo[t][1] = S("set", a, b)
              \/ p = 8 /\ todo[t][1] = S("refPeer", a, b)
              \/ p = 11 /\ todo[t][1] = S("ref", a, b)
    BY <1>3, Fields DEF StepAt
  <1>5. p \in {4, 5, 8, 11}
    BY <1>4
  <1> QED  BY <1>3, <1>4, <1>5

LEMMA ConnectGo ==
    ASSUME IndInv, NEW t \in Threads, NEW a \in Endpoints, NEW b \in Endpoints,
           NEW p \in {4, 5, 8, 11}, a # b, Job(todo[t], Connects(a, b), p, 0, 0),
           todo[t][1].op # "delete", Go(t, <<>>, 1)
    PROVE  /\ todo' \in [Threads -> Seq(Steps)]
           /\ \A u \in Threads \ {t} : todo'[u] = todo[u]
           /\ todo[t] \in Seq(Steps) /\ todo'[t] \in Seq(Steps)
           /\ Job(todo'[t], Connects(a, b), p - 1, 0, 0)
           /\ \A e : Deletes(todo'[t], e) <=> Deletes(todo[t], e)
  <1> DEFINE f == Connects(a, b)
  <1>1. f \in Courses /\ Len(f) = 11
    BY CourseTypes DEF Courses
  <1>2. Len(todo[t]) = p /\ 1 \in 1..2 /\ 1 <= Len(todo[t]) /\ TypeOK
    BY DEF IndInv, Job
  <1>3. /\ todo' \in [Threads -> Seq(Steps)]
        /\ \A u \in Threads \ {t} : todo'[u] = todo[u]
        /\ todo[t] \in Seq(Steps) /\ todo'[t] \in Seq(Steps)
        /\ Len(todo'[t]) = Len(todo[t]) - 1
        /\ \A k \in 1..(Len(todo[t]) - 1) : At(todo'[t], k) = At(todo[t], k)
        /\ At(todo[t], Len(todo[t])) = todo[t][1]
        /\ (\A k \in (Len(todo[t]) - 1 + 1)..Len(todo[t]) : At(todo[t], k).op # "delete")
           => \A e : Deletes(todo'[t], e) <=> Deletes(todo[t], e)
    BY <1>2, Popped
  <1>4. \A e : Deletes(todo'[t], e) <=> Deletes(todo[t], e)
    <2>1. \A k \in (Len(todo[t]) - 1 + 1)..Len(todo[t]) : At(todo[t], k).op # "delete"
      BY <1>2, <1>3
    <2> QED  BY <1>3, <2>1
  <1> HIDE DEF f
  <1>5. Job(todo'[t], f, p - 1, 0, 0)
    <2>1. p \in 0..Len(f) /\ 0 \in 0..Len(todo[t]) /\ p > 0 /\ 0 \in {0, 1, 3}
      BY <1>1, <1>2
    <2>2. Job(todo[t], f, p, 0, 0)
      BY DEF f
    <2> QED  BY <1>1, <1>3, <2>1, <2>2, JobDone
  <1> QED  BY <1>3, <1>4, <1>5 DEF f

\* After the step the thread is on course, if the peers are as the course has them.
LEMMA ConnectCourse ==
    ASSUME NEW t \in Threads, NEW a \in Endpoints, NEW b \in Endpoints,
           NEW p \in 0..11, a # b, Job(todo'[t], Connects(a, b), p, 0, 0),
           p >= 3 => s_mutex' = t,
           p \in 5..8 => m_peer'[a] = None,
           p \in 4..5 => m_peer'[b] = None,
           p = 4 => m_peer'[a] = b
    PROVE  HasCourse(t)'
  <1> DEFINE f == Connects(a, b)
  <1>1. f \in Courses /\ Len(f) = 11
    BY CourseTypes DEF Courses
  <1>2. p \in 0..Len(f) /\ 0 \in 0..Len(todo'[t])
    BY <1>1 DEF Job
  <1>3. OnCourse(t, f, p)'
    BY DEF OnCourse, Connecting
  <1> HIDE DEF f
  <1>4. Job(todo'[t], f, p, 0, 0)
    BY DEF f
  <1> QED  BY <1>1, <1>2, <1>3, <1>4 DEF HasCourse

\* What a thread holds before and after each of these steps.
LEMMA ConnectHolds ==
    ASSUME NEW a \in Endpoints, NEW b \in Endpoints, a # b, NEW p \in {4, 5, 8, 11},
           NEW l \in Seq(Steps), NEW m \in Seq(Steps),
           Job(l, Connects(a, b), p, 0, 0), Job(m, Connects(a, b), p - 1, 0, 0)
    PROVE  /\ 1 \in HeldBy(l, b) /\ 2 \in HeldBy(l, a)
           /\ p = 4 => /\ 4 \in HeldBy(l, b) /\ HeldBy(m, b) = HeldBy(l, b) \ {4}
                       /\ \A y : y # b => HeldBy(m, y) = HeldBy(l, y)
           /\ p = 5 => /\ 5 \in HeldBy(l, a) /\ HeldBy(m, a) = HeldBy(l, a) \ {5}
                       /\ \A y : y # a => HeldBy(m, y) = HeldBy(l, y)
           /\ p = 8 => /\ 4 \notin HeldBy(l, b) /\ HeldBy(m, b) = HeldBy(l, b) \cup {4}
                       /\ \A y : y # b => HeldBy(m, y) = HeldBy(l, y)
           /\ p = 11 => /\ 5 \notin HeldBy(l, a) /\ HeldBy(m, a) = HeldBy(l, a) \cup {5}
                        /\ \A y : y # a => HeldBy(m, y) = HeldBy(l, y)
  <1>1. \A x, k : k \in HeldBy(l, x) <=>
              /\ k \in 1..p
              /\ \/ k = 1 /\ x = b
                 \/ k = 2 /\ x = a
                 \/ k = 4 /\ x = b /\ p < 8
                 \/ k = 5 /\ x = a /\ p < 11
    <2>1. p \in 0..11
      OBVIOUS
    <2> QED  BY <2>1, ConnectsHeld
  <1>2. \A x, k : k \in HeldBy(m, x) <=>
              /\ k \in 1..(p - 1)
              /\ \/ k = 1 /\ x = b
                 \/ k = 2 /\ x = a
                 \/ k = 4 /\ x = b /\ p - 1 < 8
                 \/ k = 5 /\ x = a /\ p - 1 < 11
    <2>1. p - 1 \in 0..11
      OBVIOUS
    <2> QED  BY <2>1, ConnectsHeld
  <1>3. 1 \in HeldBy(l, b) /\ 2 \in HeldBy(l, a)
    BY <1>1
  <1>4. CASE p = 4
    <2>1. \A x, k : k \in HeldBy(l, x) <=>
             (k = 1 /\ x = b) \/ (k = 2 /\ x = a) \/ (k = 4 /\ x = b)
      BY <1>1, <1>4
    <2>2. \A x, k : k \in HeldBy(m, x) <=>
             (k = 1 /\ x = b) \/ (k = 2 /\ x = a)
      BY <1>2, <1>4
    <2>3. 4 \in HeldBy(l, b) /\ HeldBy(m, b) = HeldBy(l, b) \ {4}
      BY <2>1, <2>2
    <2>4. ASSUME NEW y, y # b
          PROVE  HeldBy(m, y) = HeldBy(l, y)
      BY <2>1, <2>2, <2>4
    <2> QED  BY <1>3, <1>4, <2>3, <2>4
  <1>5. CASE p = 5
    <2>1. \A x, k : k \in HeldBy(l, x) <=>
             (k = 1 /\ x = b) \/ (k = 2 /\ x = a) \/ (k = 4 /\ x = b) \/ (k = 5 /\ x = a)
      BY <1>1, <1>5
    <2>2. \A x, k : k \in HeldBy(m, x) <=>
             (k = 1 /\ x = b) \/ (k = 2 /\ x = a) \/ (k = 4 /\ x = b)
      BY <1>2, <1>5
    <2>3. 5 \in HeldBy(l, a) /\ HeldBy(m, a) = HeldBy(l, a) \ {5}
      <3>1. 5 \in HeldBy(l, a)
        BY <2>1
      <3>2. \A k : k \in HeldBy(m, a) <=> k \in HeldBy(l, a) \ {5}
        BY <2>1, <2>2
      <3> QED  BY <3>1, <3>2
    <2>4. ASSUME NEW y, y # a
          PROVE  HeldBy(m, y) = HeldBy(l, y)
      <3>1. \A k : k \in HeldBy(m, y) <=> k \in HeldBy(l, y)
        BY <2>1, <2>2, <2>4
      <3> QED  BY <3>1
    <2> QED  BY <1>3, <1>5, <2>3, <2>4
  <1>6. CASE p = 8
    <2>1. \A x, k : k \in HeldBy(l, x) <=>
             (k = 1 /\ x = b) \/ (k = 2 /\ x = a) \/ (k = 5 /\ x = a)
      BY <1>1, <1>6
    <2>2. \A x, k : k \in HeldBy(m, x) <=>
             (k = 1 /\ x = b) \/ (k = 2 /\ x = a) \/ (k = 4 /\ x = b) \/ (k = 5 /\ x = a)
      BY <1>2, <1>6
    <2>3. 4 \notin HeldBy(l, b) /\ HeldBy(m, b) = HeldBy(l, b) \cup {4}
      BY <2>1, <2>2
    <2>4. ASSUME NEW y, y # b
          PROVE  HeldBy(m, y) = HeldBy(l, y)
      BY <2>1, <2>2, <2>4
    <2> QED  BY <1>3, <1>6, <2>3, <2>4
  <1>7. CASE p = 11
    <2>1. \A x, k : k \in HeldBy(l, x) <=>
             (k = 1 /\ x = b) \/ (k = 2 /\ x = a)
      BY <1>1, <1>7
    <2>2. \A x, k : k \in HeldBy(m, x) <=>
             (k = 1 /\ x = b) \/ (k = 2 /\ x = a) \/ (k = 5 /\ x = a)
      BY <1>2, <1>7
    <2>3. 5 \notin HeldBy(l, a) /\ HeldBy(m, a) = HeldBy(l, a) \cup {5}
      <3>1. 5 \notin HeldBy(l, a)
        BY <2>1
      <3>2. \A k : k \in HeldBy(m, a) <=> k \in HeldBy(l, a) \cup {5}
        BY <2>1, <2>2
      <3> QED  BY <3>1, <3>2
    <2>4. ASSUME NEW y, y # a
          PROVE  HeldBy(m, y) = HeldBy(l, y)
      <3>1. \A k : k \in HeldBy(m, y) <=> k \in HeldBy(l, y)
        BY <2>1, <2>2, <2>4
      <3> QED  BY <3>1
    <2> QED  BY <1>3, <1>7, <2>3, <2>4
  <1> QED  BY <1>4, <1>5, <1>6, <1>7

\* connect() takes a reference for this endpoint, which its caller keeps alive.
LEMMA RefInd ==
    ASSUME IndInv, NEW t \in Threads, Ref(t)
    PROVE  IndInv'
  <1>1. /\ ~Idle(t) /\ todo[t][1].op = "ref"
        /\ UNCHANGED <<m_peer, owned, destroyed, s_mutex>>
    BY DEF Ref, Now
  <1>2. PICK a \in Endpoints, b \in Endpoints, p \in {4, 5, 8, 11} :
              /\ a # b /\ s_mutex = t /\ Connecting(t, a, b, p)
              /\ Job(todo[t], Connects(a, b), p, 0, 0)
              /\ \/ p = 4 /\ todo[t][1] = S("setPeer", b, a)
                 \/ p = 5 /\ todo[t][1] = S("set", a, b)
                 \/ p = 8 /\ todo[t][1] = S("refPeer", a, b)
                 \/ p = 11 /\ todo[t][1] = S("ref", a, b)
    BY <1>1, ConnectAt
  <1>3. p = 11 /\ todo[t][1].a = a /\ todo[t][1].b = b
    BY <1>1, <1>2, Fields
  <1>4. TypeOK /\ Counted /\ Condemned /\ todo[t] \in Seq(Steps)
    BY DEF IndInv, TypeOK
  <1>5. 2 \in HeldBy(todo[t], a)
    <2>1. p \in 0..11
      BY <1>3
    <2> QED  BY <1>2, <1>3, <1>4, <2>1, ConnectsHeld
  <1>6. m_refcount[a] \in Nat \ {0}
    BY <1>4, <1>5, HeldAlive
  <1>7. m_refcount' = [m_refcount EXCEPT ![a] = @ + 1] /\ Go(t, <<>>, 1)
    BY <1>3, <1>6 DEF Ref, Alive
  <1>8. /\ todo' \in [Threads -> Seq(Steps)]
        /\ \A u \in Threads \ {t} : todo'[u] = todo[u]
        /\ todo'[t] \in Seq(Steps)
        /\ Job(todo'[t], Connects(a, b), p - 1, 0, 0)
        /\ \A e : Deletes(todo'[t], e) <=> Deletes(todo[t], e)
    <2>1. todo[t][1].op # "delete"
      BY <1>1
    <2>2. Job(todo[t], Connects(a, b), p, 0, 0) /\ Go(t, <<>>, 1) /\ a # b
      BY <1>2, <1>7
    <2>3. todo' \in [Threads -> Seq(Steps)]
      BY <2>1, <2>2, ConnectGo
    <2>4. \A u \in Threads \ {t} : todo'[u] = todo[u]
      BY <2>1, <2>2, ConnectGo
    <2>5. Job(todo'[t], Connects(a, b), p - 1, 0, 0)
      BY <2>1, <2>2, ConnectGo
    <2>6. \A e : Deletes(todo'[t], e) <=> Deletes(todo[t], e)
      BY <2>1, <2>2, ConnectGo
    <2> QED  BY <2>3, <2>4, <2>5, <2>6
  <1>9. /\ 5 \notin HeldBy(todo[t], a)
        /\ HeldBy(todo'[t], a) = HeldBy(todo[t], a) \cup {5}
        /\ \A y : y # a => HeldBy(todo'[t], y) = HeldBy(todo[t], y)
    BY <1>2, <1>3, <1>4, <1>8, ConnectHolds
  <1>10. AllOnCourse'
    <2>1. /\ s_mutex' = t /\ 10 \in 0..11 /\ p - 1 = 10
          /\ 10 \in 5..8 => m_peer'[a] = None
      BY <1>1, <1>2, <1>3 DEF Connecting
    <2>2. Job(todo'[t], Connects(a, b), 10, 0, 0)
      BY <1>8, <2>1
    <2>3. HasCourse(t)'
      BY <1>2, <2>1, <2>2, ConnectCourse
    <2> QED  BY <1>1, <1>8, <2>3, OthersOnCourse DEF IndInv
  <1>11. TypeOK'
    BY <1>1, <1>4, <1>7, <1>8 DEF TypeOK
  <1>12. Coupled'
    BY <1>1, <1>8, CoupledKept DEF IndInv
  <1>13. Counted'
    BY <1>1, <1>4, <1>7, <1>8, <1>9, CountedMore
  <1>14. Condemned'
    <2>1. \A d \in Endpoints : m_refcount'[d] = 0 <=> m_refcount[d] = 0
      BY <1>4, <1>6, <1>7 DEF TypeOK
    <2> QED  BY <1>1, <1>4, <1>8, <2>1, CondemnedAbove
  <1> QED  BY <1>10, <1>11, <1>12, <1>13, <1>14 DEF IndInv

\* The same for the peer.
LEMMA RefPeerInd ==
    ASSUME IndInv, NEW t \in Threads, RefPeer(t)
    PROVE  IndInv'
  <1>1. /\ ~Idle(t) /\ todo[t][1].op = "refPeer"
        /\ UNCHANGED <<m_peer, owned, destroyed, s_mutex>>
    BY DEF RefPeer, Now
  <1>2. PICK a \in Endpoints, b \in Endpoints, p \in {4, 5, 8, 11} :
              /\ a # b /\ s_mutex = t /\ Connecting(t, a, b, p)
              /\ Job(todo[t], Connects(a, b), p, 0, 0)
              /\ \/ p = 4 /\ todo[t][1] = S("setPeer", b, a)
                 \/ p = 5 /\ todo[t][1] = S("set", a, b)
                 \/ p = 8 /\ todo[t][1] = S("refPeer", a, b)
                 \/ p = 11 /\ todo[t][1] = S("ref", a, b)
    BY <1>1, ConnectAt
  <1>3. p = 8 /\ todo[t][1].a = a /\ todo[t][1].b = b
    BY <1>1, <1>2, Fields
  <1>4. TypeOK /\ Counted /\ Condemned /\ todo[t] \in Seq(Steps)
    BY DEF IndInv, TypeOK
  <1>5. 1 \in HeldBy(todo[t], b)
    <2>1. p \in 0..11
      BY <1>3
    <2> QED  BY <1>2, <1>3, <1>4, <2>1, ConnectsHeld
  <1>6. m_refcount[b] \in Nat \ {0}
    BY <1>4, <1>5, HeldAlive
  <1>7. m_refcount' = [m_refcount EXCEPT ![b] = @ + 1] /\ Go(t, <<>>, 1)
    BY <1>3, <1>6 DEF RefPeer, Alive
  <1>8. /\ todo' \in [Threads -> Seq(Steps)]
        /\ \A u \in Threads \ {t} : todo'[u] = todo[u]
        /\ todo'[t] \in Seq(Steps)
        /\ Job(todo'[t], Connects(a, b), p - 1, 0, 0)
        /\ \A e : Deletes(todo'[t], e) <=> Deletes(todo[t], e)
    <2>1. todo[t][1].op # "delete"
      BY <1>1
    <2>2. Job(todo[t], Connects(a, b), p, 0, 0) /\ Go(t, <<>>, 1) /\ a # b
      BY <1>2, <1>7
    <2>3. todo' \in [Threads -> Seq(Steps)]
      BY <2>1, <2>2, ConnectGo
    <2>4. \A u \in Threads \ {t} : todo'[u] = todo[u]
      BY <2>1, <2>2, ConnectGo
    <2>5. Job(todo'[t], Connects(a, b), p - 1, 0, 0)
      BY <2>1, <2>2, ConnectGo
    <2>6. \A e : Deletes(todo'[t], e) <=> Deletes(todo[t], e)
      BY <2>1, <2>2, ConnectGo
    <2> QED  BY <2>3, <2>4, <2>5, <2>6
  <1>9. /\ 4 \notin HeldBy(todo[t], b)
        /\ HeldBy(todo'[t], b) = HeldBy(todo[t], b) \cup {4}
        /\ \A y : y # b => HeldBy(todo'[t], y) = HeldBy(todo[t], y)
    BY <1>2, <1>3, <1>4, <1>8, ConnectHolds
  <1>10. AllOnCourse'
    <2>1. /\ s_mutex' = t /\ 7 \in 0..11 /\ p - 1 = 7
          /\ 7 \in 5..8 => m_peer'[a] = None
      BY <1>1, <1>2, <1>3 DEF Connecting
    <2>2. Job(todo'[t], Connects(a, b), 7, 0, 0)
      BY <1>8, <2>1
    <2>3. HasCourse(t)'
      BY <1>2, <2>1, <2>2, ConnectCourse
    <2> QED  BY <1>1, <1>8, <2>3, OthersOnCourse DEF IndInv
  <1>11. TypeOK'
    BY <1>1, <1>4, <1>7, <1>8 DEF TypeOK
  <1>12. Coupled'
    BY <1>1, <1>8, CoupledKept DEF IndInv
  <1>13. Counted'
    BY <1>1, <1>4, <1>7, <1>8, <1>9, CountedMore
  <1>14. Condemned'
    <2>1. \A d \in Endpoints : m_refcount'[d] = 0 <=> m_refcount[d] = 0
      BY <1>4, <1>6, <1>7 DEF TypeOK
    <2> QED  BY <1>1, <1>4, <1>8, <2>1, CondemnedAbove
  <1> QED  BY <1>10, <1>11, <1>12, <1>13, <1>14 DEF IndInv

\* Each of the two pointers takes over the reference that was taken for it.
LEMMA CountedSet ==
    ASSUME TypeOK, Counted, NEW t \in Threads, NEW e \in Endpoints, NEW d \in Endpoints,
           NEW k \in HeldBy(todo[t], e),
           \A u \in Threads \ {t} : todo'[u] = todo[u],
           HeldBy(todo'[t], e) = HeldBy(todo[t], e) \ {k},
           \A y : y # e => HeldBy(todo'[t], y) = HeldBy(todo[t], y),
           m_peer[e] = None, m_peer' = [m_peer EXCEPT ![e] = d], UNCHANGED <<m_refcount, owned>>
    PROVE  Counted'
  <1>1. ASSUME NEW x \in Endpoints
        PROVE  /\ IsFiniteSet(Held(x)')
               /\ m_refcount'[x] = (IF owned'[x] THEN 1 ELSE 0) + (IF m_peer'[x] # None THEN 1 ELSE 0)
                                   + Cardinality(Held(x)')
    <2>1. /\ IsFiniteSet(Held(x))
          /\ m_refcount[x] = (IF owned[x] THEN 1 ELSE 0) + (IF m_peer[x] # None THEN 1 ELSE 0)
                              + Cardinality(Held(x))
          /\ m_peer \in [Endpoints -> Endpoints \cup {None}]
      BY DEF Counted, TypeOK
    <2>2. CASE x = e
      <3>1. /\ IsFiniteSet(Held(x)') /\ Cardinality(Held(x)') = Cardinality(Held(x)) - 1
            /\ Cardinality(Held(x)) \in Nat
        BY <2>1, <2>2, CountChange
      <3>2. m_peer'[x] # None /\ m_peer[x] = None
        BY <2>1, <2>2, EndpointAssumption
      <3> QED  BY <2>1, <3>1, <3>2
    <2>3. CASE x # e
      <3>1. Held(x)' = Held(x)
        BY <2>1, <2>3, CountChange
      <3>2. m_peer'[x] = m_peer[x]
        BY <2>1, <2>3
      <3> QED  BY <2>1, <3>1, <3>2
    <2> QED  BY <2>2, <2>3
  <1> QED  BY <1>1 DEF Counted

\* m_peer is set on one side and then, through setPeer(), on the other.
LEMMA SetPeerInd ==
    ASSUME IndInv, NEW t \in Threads, SetPeer(t)
    PROVE  IndInv'
  <1>1. /\ ~Idle(t) /\ todo[t][1].op \in {"set", "setPeer"}
        /\ m_peer' = [m_peer EXCEPT ![todo[t][1].a] = todo[t][1].b]
        /\ Go(t, <<>>, 1)
        /\ UNCHANGED <<m_refcount, owned, destroyed, s_mutex>>
    BY DEF SetPeer, Now
  <1>2. PICK a \in Endpoints, b \in Endpoints, p \in {4, 5, 8, 11} :
              /\ a # b /\ s_mutex = t /\ Connecting(t, a, b, p)
              /\ Job(todo[t], Connects(a, b), p, 0, 0)
              /\ \/ p = 4 /\ todo[t][1] = S("setPeer", b, a)
                 \/ p = 5 /\ todo[t][1] = S("set", a, b)
                 \/ p = 8 /\ todo[t][1] = S("refPeer", a, b)
                 \/ p = 11 /\ todo[t][1] = S("ref", a, b)
    BY <1>1, ConnectAt
  <1>3. \/ p = 4 /\ todo[t][1] = S("setPeer", b, a)
        \/ p = 5 /\ todo[t][1] = S("set", a, b)
    BY <1>1, <1>2, Fields
  <1>4. /\ TypeOK /\ Counted /\ Condemned /\ Coupled /\ todo[t] \in Seq(Steps)
        /\ m_peer \in [Endpoints -> Endpoints \cup {None}]
    BY DEF IndInv, TypeOK
  <1>5. /\ todo' \in [Threads -> Seq(Steps)]
        /\ \A u \in Threads \ {t} : todo'[u] = todo[u]
        /\ todo'[t] \in Seq(Steps)
        /\ Job(todo'[t], Connects(a, b), p - 1, 0, 0)
        /\ \A e : Deletes(todo'[t], e) <=> Deletes(todo[t], e)
    <2>1. todo[t][1].op # "delete"
      BY <1>1
    <2>2. Job(todo[t], Connects(a, b), p, 0, 0) /\ Go(t, <<>>, 1) /\ a # b
      BY <1>1, <1>2
    <2>3. todo' \in [Threads -> Seq(Steps)]
      BY <2>1, <2>2, ConnectGo
    <2>4. \A u \in Threads \ {t} : todo'[u] = todo[u]
      BY <2>1, <2>2, ConnectGo
    <2>5. Job(todo'[t], Connects(a, b), p - 1, 0, 0)
      BY <2>1, <2>2, ConnectGo
    <2>6. \A e : Deletes(todo'[t], e) <=> Deletes(todo[t], e)
      BY <2>1, <2>2, ConnectGo
    <2> QED  BY <2>3, <2>4, <2>5, <2>6
  <1>6. /\ p = 4 => /\ 4 \in HeldBy(todo[t], b)
                    /\ HeldBy(todo'[t], b) = HeldBy(todo[t], b) \ {4}
                    /\ \A y : y # b => HeldBy(todo'[t], y) = HeldBy(todo[t], y)
        /\ p = 5 => /\ 5 \in HeldBy(todo[t], a)
                    /\ HeldBy(todo'[t], a) = HeldBy(todo[t], a) \ {5}
                    /\ \A y : y # a => HeldBy(todo'[t], y) = HeldBy(todo[t], y)
    BY <1>2, <1>4, <1>5, ConnectHolds
  <1>7. /\ p = 4 => m_peer[b] = None /\ m_peer[a] = b /\ m_peer' = [m_peer EXCEPT ![b] = a]
        /\ p = 5 => m_peer[a] = None /\ m_peer[b] = None /\ m_peer' = [m_peer EXCEPT ![a] = b]
    <2>1. CASE p = 4
      <3>1. todo[t][1].a = b /\ todo[t][1].b = a
        BY <1>3, <2>1, Fields
      <3> QED  BY <1>1, <1>2, <2>1, <3>1 DEF Connecting
    <2>2. CASE p = 5
      <3>1. todo[t][1].a = a /\ todo[t][1].b = b
        BY <1>3, <2>2, Fields
      <3> QED  BY <1>1, <1>2, <2>2, <3>1 DEF Connecting
    <2> QED  BY <1>3, <2>1, <2>2
  <1>8. /\ p = 4 => m_peer'[b] = a /\ \A x \in Endpoints \ {b} : m_peer'[x] = m_peer[x]
        /\ p = 5 => m_peer'[a] = b /\ \A x \in Endpoints \ {a} : m_peer'[x] = m_peer[x]
        /\ m_peer' \in [Endpoints -> Endpoints \cup {None}]
    BY <1>3, <1>4, <1>7
  <1>9. TypeOK'
    BY <1>1, <1>4, <1>5, <1>8 DEF TypeOK
  <1>10. AllOnCourse'
    <2>0. s_mutex' = t /\ p - 1 \in 0..11 /\ (p - 1 = 3 \/ p - 1 = 4)
      BY <1>1, <1>2, <1>3
    <2>3. p = 5 => m_peer'[b] = None /\ m_peer'[a] = b
      BY <1>2, <1>7, <1>8
    <2>1. HasCourse(t)'
      <3>1. /\ p - 1 \in 5..8 => m_peer'[a] = None
            /\ p - 1 \in 4..5 => m_peer'[b] = None
            /\ p - 1 = 4 => m_peer'[a] = b
        BY <2>0, <2>3
      <3> DEFINE r == p - 1
      <3>2. /\ r \in 0..11 /\ r >= 3 => s_mutex' = t
            /\ r \in 5..8 => m_peer'[a] = None
            /\ r \in 4..5 => m_peer'[b] = None
            /\ r = 4 => m_peer'[a] = b
            /\ Job(todo'[t], Connects(a, b), r, 0, 0)
        BY <1>5, <2>0, <3>1
      <3>3. r \in 0..11
        BY <2>0
      <3> HIDE DEF r
      <3> QED  BY <1>2, <2>0, <3>2, <3>3, ConnectCourse
    <2>2. \A u \in Threads \ {t} : s_mutex # u
      BY <1>2
    <2> QED  BY <1>1, <1>5, <2>1, <2>2, OthersOnCourse DEF IndInv
  <1>11. Counted'
    <2>1. CASE p = 4
      <3>1. /\ 4 \in HeldBy(todo[t], b) /\ HeldBy(todo'[t], b) = HeldBy(todo[t], b) \ {4}
            /\ \A y : y # b => HeldBy(todo'[t], y) = HeldBy(todo[t], y)
        BY <1>6, <2>1
      <3>2. m_peer[b] = None /\ m_peer' = [m_peer EXCEPT ![b] = a]
        BY <1>7, <2>1
      <3>3. TypeOK /\ Counted /\ \A u \in Threads \ {t} : todo'[u] = todo[u]
        BY <1>4, <1>5
      <3>4. UNCHANGED <<m_refcount, owned>>
        BY <1>1
      <3> QED  BY <3>1, <3>2, <3>3, <3>4, CountedSet
    <2>2. CASE p = 5
      <3>1. /\ 5 \in HeldBy(todo[t], a) /\ HeldBy(todo'[t], a) = HeldBy(todo[t], a) \ {5}
            /\ \A y : y # a => HeldBy(todo'[t], y) = HeldBy(todo[t], y)
        BY <1>6, <2>2
      <3>2. m_peer[a] = None /\ m_peer' = [m_peer EXCEPT ![a] = b]
        BY <1>7, <2>2
      <3>3. TypeOK /\ Counted /\ \A u \in Threads \ {t} : todo'[u] = todo[u]
        BY <1>4, <1>5
      <3>4. UNCHANGED <<m_refcount, owned>>
        BY <1>1
      <3> QED  BY <3>1, <3>2, <3>3, <3>4, CountedSet
    <2> QED  BY <1>3, <2>1, <2>2
  <1>12. Condemned'
    BY <1>1, <1>4, <1>5, CondemnedKept
  <1>13. Coupled'
    <2>1. CASE p = 5
      <3>1. ~Idle(t)' /\ todo'[t][1] = S("setPeer", b, a)
        <4>1. Len(todo'[t]) = 4 /\ At(todo'[t], 4) = Connects(a, b)[4]
          BY <1>5, <2>1 DEF Job
        <4>2. At(todo'[t], 4) = S("setPeer", b, a)
          BY <4>1 DEF Connects
        <4>3. At(todo'[t], 4) = todo'[t][1]
          BY <4>1 DEF At
        <4> QED  BY <4>1, <4>2, <4>3 DEF Idle
      <3>2. ASSUME NEW x \in Endpoints, m_peer'[x] # None
            PROVE  /\ m_peer'[x] # x
                   /\ \/ m_peer'[m_peer'[x]] = x
                      \/ \E u \in Threads : ~Idle(u)' /\ todo'[u][1] = S("setPeer", m_peer'[x], x)
        <4>1. CASE x = a
          BY <1>2, <1>8, <2>1, <3>1, <4>1
        <4>2. CASE x # a
          <5>1. m_peer'[x] = m_peer[x] /\ m_peer[x] \in Endpoints
            BY <1>4, <1>8, <2>1, <3>2, <4>2
          <5>2. m_peer[x] # x
            BY <1>4, <3>2, <5>1 DEF Coupled
          <5>3. CASE m_peer[m_peer[x]] = x
            <6>1. m_peer[x] # a
              BY <1>7, <2>1, <5>3, EndpointAssumption
            <6> QED  BY <1>8, <2>1, <5>1, <5>2, <5>3, <6>1
          <5>4. ASSUME NEW u \in Threads, ~Idle(u), todo[u][1] = S("setPeer", m_peer[x], x)
                PROVE  ~Idle(u)' /\ todo'[u][1] = S("setPeer", m_peer[x], x)
            <6>1. u # t
              BY <1>3, <2>1, <5>4, Fields
            <6> QED  BY <1>5, <5>4, <6>1 DEF Idle
          <5> QED  BY <1>4, <3>2, <5>1, <5>2, <5>3, <5>4 DEF Coupled
        <4> QED  BY <4>1, <4>2
      <3> QED  BY <3>2 DEF Coupled
    <2>2. CASE p = 4
      <3>1. ASSUME NEW x \in Endpoints, m_peer'[x] # None
            PROVE  /\ m_peer'[x] # x
                   /\ \/ m_peer'[m_peer'[x]] = x
                      \/ \E u \in Threads : ~Idle(u)' /\ todo'[u][1] = S("setPeer", m_peer'[x], x)
        <4>1. CASE x = a \/ x = b
          BY <1>2, <1>7, <1>8, <2>2, <4>1
        <4>2. CASE x # a /\ x # b
          <5>1. m_peer'[x] = m_peer[x] /\ m_peer[x] \in Endpoints
            BY <1>4, <1>8, <2>2, <3>1, <4>2
          <5>2. m_peer[x] # x
            BY <1>4, <3>1, <5>1 DEF Coupled
          <5>3. CASE m_peer[m_peer[x]] = x
            <6>1. m_peer[x] # b
              BY <1>7, <2>2, <5>3, EndpointAssumption
            <6> QED  BY <1>8, <2>2, <5>1, <5>2, <5>3, <6>1
          <5>4. ASSUME NEW u \in Threads, ~Idle(u), todo[u][1] = S("setPeer", m_peer[x], x)
                PROVE  ~Idle(u)' /\ todo'[u][1] = S("setPeer", m_peer[x], x)
            <6>1. u # t
              <7>1. S("setPeer", m_peer[x], x).b = x /\ S("setPeer", b, a).b = a
                BY Fields
              <7> QED  BY <1>3, <2>2, <4>2, <5>4, <7>1
            <6> QED  BY <1>5, <5>4, <6>1 DEF Idle
          <5> QED  BY <1>4, <3>1, <5>1, <5>2, <5>3, <5>4 DEF Coupled
        <4> QED  BY <4>1, <4>2
      <3> QED  BY <3>1 DEF Coupled
    <2> QED  BY <1>3, <2>1, <2>2
  <1> QED  BY <1>9, <1>10, <1>11, <1>12, <1>13 DEF IndInv

-----------------------------------------------------------------------------
(* The check of connect() *)

LEMMA Joined ==
    ASSUME NEW u \in Seq(Steps), NEW v \in Seq(Steps)
    PROVE  /\ u \o v \in Seq(Steps) /\ Len(u \o v) = Len(u) + Len(v)
           /\ \A i \in 1..Len(u) : (u \o v)[i] = u[i]
           /\ \A i \in 1..Len(v) : (u \o v)[Len(u) + i] = v[i]
  <1>1. Len(u) \in Nat /\ Len(v) \in Nat
    OBVIOUS
  <1>2. u \o v \in Seq(Steps) /\ Len(u \o v) = Len(u) + Len(v)
    OBVIOUS
  <1>3. \A i \in 1..Len(u) : (u \o v)[i] = u[i]
    BY <1>1
  <1>4. \A i \in 1..Len(v) : (u \o v)[Len(u) + i] = v[i]
    BY <1>1
  <1> QED  BY <1>2, <1>3, <1>4

LEMMA ConnectSteps ==
    ASSUME NEW a \in Endpoints, NEW b \in Endpoints
    PROVE  /\ Connect(a, b) \in Seq(Steps) /\ Len(Connect(a, b)) = 8
           /\ \A k \in 1..8 : At(Connect(a, b), k) = Connects(a, b)[3 + k]
  <1> DEFINE s1 == <<S("ref", a, b)>>
             s2 == Disconnect(a)
             s3 == <<S("refPeer", a, b)>>
             s4 == Disconnect(b)
             s5 == <<S("set", a, b), S("setPeer", b, a)>>
             j2 == s1 \o s2
             j3 == j2 \o s3
             j4 == j3 \o s4
             j5 == j4 \o s5
  <1>1. \A op \in Ops : \A x \in {a, b} : \A y \in {a, b, None} : S(op, x, y) \in Steps
    BY StepTypes
  <1>2. {"ref", "test", "swap", "refPeer", "set", "setPeer"} \subseteq Ops
    BY DEF Ops
  <1>3. s1 \in Seq(Steps) /\ Len(s1) = 1 /\ s1[1] = S("ref", a, b)
    BY <1>1, <1>2
  <1>4. /\ s2 \in Seq(Steps) /\ Len(s2) = 2
        /\ s2[1] = S("test", a, None) /\ s2[2] = S("swap", a, None)
    BY <1>1, <1>2 DEF Disconnect
  <1>5. s3 \in Seq(Steps) /\ Len(s3) = 1 /\ s3[1] = S("refPeer", a, b)
    BY <1>1, <1>2
  <1>6. /\ s4 \in Seq(Steps) /\ Len(s4) = 2
        /\ s4[1] = S("test", b, None) /\ s4[2] = S("swap", b, None)
    BY <1>1, <1>2 DEF Disconnect
  <1>7. /\ s5 \in Seq(Steps) /\ Len(s5) = 2
        /\ s5[1] = S("set", a, b) /\ s5[2] = S("setPeer", b, a)
    BY <1>1, <1>2
  <1>8. Connect(a, b) = j5
    BY DEF Connect
  <1> HIDE DEF s1, s2, s3, s4, s5
  <1>9. /\ j2 \in Seq(Steps) /\ Len(j2) = 3
        /\ j2[1] = s1[1] /\ j2[2] = s2[1] /\ j2[3] = s2[2]
    <2>1. /\ j2 \in Seq(Steps) /\ Len(j2) = Len(s1) + Len(s2)
          /\ \A i \in 1..Len(s1) : j2[i] = s1[i]
          /\ \A i \in 1..Len(s2) : j2[Len(s1) + i] = s2[i]
      BY <1>3, <1>4, Joined
    <2> HIDE DEF j2
    <2> QED  BY <1>3, <1>4, <2>1
  <1> HIDE DEF j2
  <1>10. /\ j3 \in Seq(Steps) /\ Len(j3) = 4
         /\ \A i \in 1..3 : j3[i] = j2[i]
         /\ j3[4] = s3[1]
    <2>1. /\ j3 \in Seq(Steps) /\ Len(j3) = Len(j2) + Len(s3)
          /\ \A i \in 1..Len(j2) : j3[i] = j2[i]
          /\ \A i \in 1..Len(s3) : j3[Len(j2) + i] = s3[i]
      BY <1>5, <1>9, Joined
    <2> HIDE DEF j3
    <2> QED  BY <1>5, <1>9, <2>1
  <1> HIDE DEF j3
  <1>11. /\ j4 \in Seq(Steps) /\ Len(j4) = 6
         /\ \A i \in 1..4 : j4[i] = j3[i]
         /\ j4[5] = s4[1] /\ j4[6] = s4[2]
    <2>1. /\ j4 \in Seq(Steps) /\ Len(j4) = Len(j3) + Len(s4)
          /\ \A i \in 1..Len(j3) : j4[i] = j3[i]
          /\ \A i \in 1..Len(s4) : j4[Len(j3) + i] = s4[i]
      BY <1>6, <1>10, Joined
    <2> HIDE DEF j4
    <2> QED  BY <1>6, <1>10, <2>1
  <1> HIDE DEF j4
  <1>12. /\ j5 \in Seq(Steps) /\ Len(j5) = 8
         /\ \A i \in 1..6 : j5[i] = j4[i]
         /\ j5[7] = s5[1] /\ j5[8] = s5[2]
    <2>1. /\ j5 \in Seq(Steps) /\ Len(j5) = Len(j4) + Len(s5)
          /\ \A i \in 1..Len(j4) : j5[i] = j4[i]
          /\ \A i \in 1..Len(s5) : j5[Len(j4) + i] = s5[i]
      BY <1>7, <1>11, Joined
    <2> HIDE DEF j5
    <2> QED  BY <1>7, <1>11, <2>1
  <1> HIDE DEF j5
  <1>13. /\ j5[8] = S("setPeer", b, a) /\ j5[7] = S("set", a, b) /\ j5[6] = S("swap", b, None)
         /\ j5[5] = S("test", b, None) /\ j5[4] = S("refPeer", a, b) /\ j5[3] = S("swap", a, None)
         /\ j5[2] = S("test", a, None) /\ j5[1] = S("ref", a, b)
    BY <1>3, <1>4, <1>5, <1>6, <1>7, <1>9, <1>10, <1>11, <1>12
  <1> DEFINE f == Connects(a, b)
  <1>14. /\ f[4] = S("setPeer", b, a) /\ f[5] = S("set", a, b) /\ f[6] = S("swap", b, None)
         /\ f[7] = S("test", b, None) /\ f[8] = S("refPeer", a, b) /\ f[9] = S("swap", a, None)
         /\ f[10] = S("test", a, None) /\ f[11] = S("ref", a, b)
    BY DEF Connects
  <1> HIDE DEF f
  <1>15. ASSUME NEW k \in 1..8
         PROVE  At(j5, k) = f[3 + k]
    <2>1. At(j5, k) = j5[9 - k]
      BY <1>12 DEF At
    <2>2. k \in {1, 2, 3, 4, 5, 6, 7, 8}
      OBVIOUS
    <2> QED  BY <1>13, <1>14, <2>1, <2>2
  <1> QED  BY <1>8, <1>12, <1>15 DEF f

LEMMA CheckInd ==
    ASSUME IndInv, NEW t \in Threads, Check(t)
    PROVE  IndInv'
  <1>1. /\ ~Idle(t) /\ todo[t][1].op = "check"
        /\ UNCHANGED <<m_peer, m_refcount, owned, destroyed, s_mutex>>
    BY DEF Check, Now
  <1>2. PICK f \in Courses : \E p \in 1..Len(f) :
              /\ Job(todo[t], f, p, 0, 0) /\ OnCourse(t, f, p)
              /\ StepAt(t, f, p, todo[t][1]) /\ Len(todo[t]) = p
    BY <1>1, BaseStep
  <1>3. PICK p \in 1..Len(f) :
              /\ Job(todo[t], f, p, 0, 0) /\ OnCourse(t, f, p)
              /\ StepAt(t, f, p, todo[t][1]) /\ Len(todo[t]) = p
    BY <1>2
  <1>4. PICK a \in Endpoints, b \in Endpoints :
           a # b /\ s_mutex = t /\ f = Checks(a, b) /\ p = 4 /\ todo[t][1] = S("check", a, b)
    BY <1>1, <1>3, Fields DEF StepAt
  <1>5. Job(todo[t], Checks(a, b), 4, 0, 0) /\ Len(todo[t]) = 4 /\ Len(Checks(a, b)) = 4
    BY <1>3, <1>4, CourseTypes
  <1>6. \/ Go(t, <<>>, 1)
        \/ Go(t, Connect(a, b), 1)
    BY <1>4, Fields DEF Check
  <1>7. TypeOK /\ Counted /\ Condemned /\ Coupled /\ todo[t] \in Seq(Steps)
    BY DEF IndInv, TypeOK
  <1>8. Checks(a, b) \in Courses /\ Connects(a, b) \in Courses
    BY DEF Courses
  <1>9. CASE Go(t, <<>>, 1)
    <2>1. 1 <= Len(todo[t]) /\ 1 \in 1..2
      BY <1>5
    <2>2. /\ \A u \in Threads \ {t} : todo'[u] = todo[u]
          /\ todo'[t] \in Seq(Steps)
          /\ Len(todo'[t]) = Len(todo[t]) - 1
          /\ \A k \in 1..(Len(todo[t]) - 1) : At(todo'[t], k) = At(todo[t], k)
          /\ At(todo[t], Len(todo[t])) = todo[t][1]
      BY <1>7, <1>9, <2>1, Popped
    <2>3. TypeOK' /\ Coupled' /\ Counted' /\ Condemned'
      <3>1. \A k \in (Len(todo[t]) - 1 + 1)..Len(todo[t]) :
               At(todo[t], k).op \in Neutral \ {"delete"}
        BY <1>1, <1>5, <2>2 DEF Neutral
      <3>2. s_mutex' \in Threads \cup {None}
        BY <1>1, <1>4
      <3> QED  BY <1>1, <1>9, <2>1, <3>1, <3>2, QuietPop
    <2>4. Job(todo'[t], Checks(a, b), 3, 0, 0)
      <3>1. 4 \in 0..Len(Checks(a, b)) /\ 0 \in 0..Len(todo[t]) /\ 0 \in {0, 1, 3} /\ 4 > 0
        BY <1>5
      <3>2. Job(todo'[t], Checks(a, b), 4 - 1, 0, 0)
        BY <1>5, <1>7, <1>8, <2>2, <3>1, JobDone
      <3> QED  BY <3>2
    <2>5. HasCourse(t)'
      <3>1. OnCourse(t, Checks(a, b), 3)'
        BY <1>1, <1>4 DEF OnCourse
      <3>2. 3 \in 0..Len(Checks(a, b)) /\ 0 \in 0..Len(todo'[t])
        BY <1>5, <2>2
      <3> QED  BY <1>8, <2>4, <3>1, <3>2 DEF HasCourse
    <2>6. AllOnCourse'
      BY <1>1, <2>2, <2>5, OthersOnCourse DEF IndInv
    <2> QED  BY <2>3, <2>6 DEF IndInv
  <1>10. CASE Go(t, Connect(a, b), 1)
    <2>1. /\ Connect(a, b) \in Seq(Steps) /\ Len(Connect(a, b)) = 8
          /\ \A k \in 1..8 : At(Connect(a, b), k) = Connects(a, b)[3 + k]
      BY ConnectSteps
    <2>2. 1 \in 0..Len(todo[t])
      BY <1>5
    <2>3. /\ todo' \in [Threads -> Seq(Steps)]
          /\ \A u \in Threads \ {t} : todo'[u] = todo[u]
          /\ todo'[t] \in Seq(Steps)
          /\ Len(todo'[t]) = Len(todo[t]) - 1 + Len(Connect(a, b))
          /\ \A k \in 1..(Len(todo[t]) - 1) : At(todo'[t], k) = At(todo[t], k)
          /\ \A k \in 1..Len(Connect(a, b)) :
                At(todo'[t], Len(todo[t]) - 1 + k) = At(Connect(a, b), k)
      BY <1>7, <1>10, <2>1, <2>2, Gone
    <2>4. /\ Len(todo'[t]) = 11
          /\ \A k \in 1..3 : At(todo'[t], k) = At(todo[t], k)
          /\ \A k \in 1..8 : At(todo'[t], 3 + k) = Connects(a, b)[3 + k]
      BY <1>5, <2>1, <2>3
    <2>5. Job(todo'[t], Connects(a, b), 11, 0, 0)
      <3>1. ASSUME NEW k \in 1..3
            PROVE  At(todo'[t], k) = Connects(a, b)[k]
        <4>1. At(todo'[t], k) = Checks(a, b)[k]
          BY <1>5, <2>4 DEF Job
        <4>2. Checks(a, b)[k] = Connects(a, b)[k]
          <5>1. k \in {1, 2, 3}
            OBVIOUS
          <5> QED  BY <5>1 DEF Checks, Connects
        <4> QED  BY <4>1, <4>2
      <3>2. ASSUME NEW k \in 4..11
            PROVE  At(todo'[t], k) = Connects(a, b)[k]
        <4>1. k - 3 \in 1..8 /\ 3 + (k - 3) = k
          OBVIOUS
        <4> QED  BY <2>4, <4>1
      <3>3. \A k \in 1..11 : At(todo'[t], k) = Connects(a, b)[k]
        BY <3>1, <3>2
      <3> QED  BY <2>4, <3>3 DEF Job
    <2>6. AllOnCourse'
      <3>1. /\ 11 \in 0..11 /\ s_mutex' = t
            /\ ~(11 \in 5..8) /\ ~(11 \in 4..5)
        BY <1>1, <1>4
      <3>2. HasCourse(t)'
        BY <1>4, <2>5, <3>1, ConnectCourse
      <3> QED  BY <1>1, <2>3, <3>2, OthersOnCourse DEF IndInv
    <2>7. \A x : HeldBy(todo'[t], x) = HeldBy(todo[t], x)
      <3>1. \A x, k : k \in HeldBy(todo[t], x) <=>
               k \in 1..4 /\ ((k = 1 /\ x = b) \/ (k = 2 /\ x = a))
        BY <1>5, <1>7, ChecksHeld
      <3>2. \A x, k : k \in HeldBy(todo'[t], x) <=>
               /\ k \in 1..11
               /\ \/ k = 1 /\ x = b
                  \/ k = 2 /\ x = a
                  \/ k = 4 /\ x = b /\ 11 < 8
                  \/ k = 5 /\ x = a /\ 11 < 11
        <4>1. 11 \in 0..11
          OBVIOUS
        <4> QED  BY <2>3, <2>5, <4>1, ConnectsHeld
      <3>3. \A x, k : k \in HeldBy(todo'[t], x) <=> k \in HeldBy(todo[t], x)
        BY <3>1, <3>2
      <3>4. ASSUME NEW x
            PROVE  HeldBy(todo'[t], x) = HeldBy(todo[t], x)
        <4>1. /\ HeldBy(todo'[t], x) = {k \in HeldBy(todo'[t], x) : TRUE}
              /\ HeldBy(todo[t], x) = {k \in HeldBy(todo[t], x) : TRUE}
          BY DEF HeldBy
        <4> QED  BY <3>3, <4>1
      <3> QED  BY <3>4
    <2>8. \A e : ~Deletes(todo[t], e) /\ ~Deletes(todo'[t], e)
      <3>1. 4 \in 0..Len(Checks(a, b)) /\ 0 \in 0..Len(todo[t])
        BY <1>5
      <3>2. 11 \in 0..Len(Connects(a, b)) /\ 0 \in 0..Len(todo'[t])
        <4>1. Len(Connects(a, b)) = 11
          BY CourseTypes
        <4>2. Len(todo'[t]) = 11
          BY <2>4
        <4> QED  BY <4>1, <4>2
      <3>3. \A e : ~Deletes(todo[t], e)
        BY <1>5, <1>7, <1>8, <3>1, NoDeletes
      <3>4. \A e : ~Deletes(todo'[t], e)
        BY <1>8, <2>3, <2>5, <3>2, NoDeletes
      <3> QED  BY <3>3, <3>4
    <2>9. TypeOK'
      BY <1>1, <1>7, <2>3 DEF TypeOK
    <2>10. Coupled'
      BY <1>1, <1>7, <2>3, CoupledKept
    <2>11. Counted'
      BY <1>1, <1>7, <2>3, <2>7, CountedKept
    <2>12. Condemned'
      <3>1. \A e \in Endpoints : Deletes(todo'[t], e) <=> Deletes(todo[t], e)
        BY <2>8
      <3> QED  BY <1>1, <1>7, <2>3, <3>1, CondemnedKept
    <2> QED  BY <2>6, <2>9, <2>10, <2>11, <2>12 DEF IndInv
  <1> QED  BY <1>6, <1>9, <1>10

-----------------------------------------------------------------------------
(* The locked part of disconnect() *)

\* Where a swap stands in its course: one of the drops that follow is of the same
\* endpoint, and the course goes on from endpoints without peers.
LEMMA SwapAt ==
    ASSUME IndInv, NEW t \in Threads, ~Idle(t), todo[t][1].op = "swap"
    PROVE  \E f \in Courses : \E p \in 1..Len(f) : \E c \in Endpoints :
              /\ Job(todo[t], f, p, 0, 0) /\ Len(todo[t]) = p
              /\ todo[t][1] = S("swap", c, None)
              /\ \E k \in 1..(p - 1) : f[k] = Drop(c)
              /\ (s_mutex' = s_mutex /\ m_peer'[c] = None
                  /\ (\A x \in Endpoints : m_peer[x] = None => m_peer'[x] = None))
                 => OnCourse(t, f, p - 1)'
  <1>1. todo[t][1].op \notin {"test", "deref", "delete"}
    OBVIOUS
  <1>2. PICK f \in Courses : \E p \in 1..Len(f) :
              /\ Job(todo[t], f, p, 0, 0) /\ OnCourse(t, f, p)
              /\ StepAt(t, f, p, todo[t][1]) /\ Len(todo[t]) = p
    BY <1>1, BaseStep
  <1>3. PICK p \in 1..Len(f) :
              /\ Job(todo[t], f, p, 0, 0) /\ OnCourse(t, f, p)
              /\ StepAt(t, f, p, todo[t][1]) /\ Len(todo[t]) = p
    BY <1>2
  <1>4. \/ \E a \in Endpoints : f = Disconnects(a) /\ p = 2 /\ todo[t][1] = S("swap", a, None)
        \/ \E a, b \in Endpoints :
              /\ a # b /\ f = Connects(a, b) /\ Connecting(t, a, b, p)
              /\ \/ p = 6 /\ todo[t][1] = S("swap", b, None)
                 \/ p = 9 /\ todo[t][1] = S("swap", a, None)
    BY <1>3, Fields DEF StepAt
  <1>5. ASSUME NEW a \in Endpoints, f = Disconnects(a), p = 2, todo[t][1] = S("swap", a, None)
        PROVE  /\ \E k \in 1..(p - 1) : f[k] = Drop(a)
               /\ OnCourse(t, f, p - 1)'
    <2>1. f[1] = Drop(a) /\ 1 \in 1..(p - 1)
      BY <1>5 DEF Disconnects
    <2>2. OnCourse(t, f, p - 1)'
      BY <1>5 DEF OnCourse
    <2> QED  BY <2>1, <2>2
  <1>6. ASSUME NEW a \in Endpoints, NEW b \in Endpoints, a # b, f = Connects(a, b),
               Connecting(t, a, b, p), p = 6 \/ p = 9
        PROVE  /\ \E k \in 1..(p - 1) : f[k] = Drop(a)
               /\ \E k \in 1..(p - 1) : f[k] = Drop(b)
               /\ (s_mutex' = s_mutex /\ m_peer'[IF p = 6 THEN b ELSE a] = None
                   /\ (\A x \in Endpoints : m_peer[x] = None => m_peer'[x] = None))
                  => OnCourse(t, f, p - 1)'
    <2>1. f[1] = Drop(b) /\ f[2] = Drop(a) /\ 1 \in 1..(p - 1) /\ 2 \in 1..(p - 1)
      BY <1>6 DEF Connects
    <2>2. ASSUME s_mutex' = s_mutex, m_peer'[IF p = 6 THEN b ELSE a] = None,
                 \A x \in Endpoints : m_peer[x] = None => m_peer'[x] = None
          PROVE  OnCourse(t, f, p - 1)'
      <3>1. s_mutex' = t /\ (p = 6 => m_peer[a] = None)
        BY <1>6, <2>2 DEF Connecting
      <3>2. (p = 6 => m_peer'[a] = None /\ m_peer'[b] = None) /\ (p = 9 => m_peer'[a] = None)
        BY <1>6, <2>2, <3>1
      <3> DEFINE r == p - 1
      <3>3. (r = 5 /\ p = 6) \/ (r = 8 /\ p = 9)
        BY <1>6
      <3> HIDE DEF r
      <3>4. /\ r >= 3 => s_mutex' = t
            /\ r \in 5..8 => m_peer'[a] = None
            /\ r \in 4..5 => m_peer'[b] = None
            /\ r = 4 => m_peer'[a] = b
        BY <3>1, <3>2, <3>3
      <3>5. OnCourse(t, f, r)'
        BY <1>6, <3>4 DEF OnCourse, Connecting
      <3> QED  BY <3>5 DEF r
    <2> QED  BY <2>1, <2>2
  <1>7. CASE \E a \in Endpoints :
                f = Disconnects(a) /\ p = 2 /\ todo[t][1] = S("swap", a, None)
    BY <1>3, <1>5, <1>7
  <1>8. ASSUME NEW a \in Endpoints, NEW b \in Endpoints, a # b, f = Connects(a, b),
               Connecting(t, a, b, p), p = 6, todo[t][1] = S("swap", b, None)
        PROVE  \E c \in Endpoints :
                  /\ todo[t][1] = S("swap", c, None)
                  /\ \E k \in 1..(p - 1) : f[k] = Drop(c)
                  /\ (s_mutex' = s_mutex /\ m_peer'[c] = None
                      /\ (\A x \in Endpoints : m_peer[x] = None => m_peer'[x] = None))
                     => OnCourse(t, f, p - 1)'
    <2>1. (IF p = 6 THEN b ELSE a) = b
      BY <1>8
    <2> QED  BY <1>6, <1>8, <2>1
  <1>9. ASSUME NEW a \in Endpoints, NEW b \in Endpoints, a # b, f = Connects(a, b),
               Connecting(t, a, b, p), p = 9, todo[t][1] = S("swap", a, None)
        PROVE  \E c \in Endpoints :
                  /\ todo[t][1] = S("swap", c, None)
                  /\ \E k \in 1..(p - 1) : f[k] = Drop(c)
                  /\ (s_mutex' = s_mutex /\ m_peer'[c] = None
                      /\ (\A x \in Endpoints : m_peer[x] = None => m_peer'[x] = None))
                     => OnCourse(t, f, p - 1)'
    <2>1. (IF p = 6 THEN b ELSE a) = a
      BY <1>9
    <2> QED  BY <1>6, <1>9, <2>1
  <1> QED  BY <1>3, <1>4, <1>7, <1>8, <1>9

\* Nobody else is between the two halves of connect() when a thread can lock, so then
\* peers are mutual.
LEMMA PeersWhenLocked ==
    ASSUME IndInv, NEW t \in Threads, ~Idle(t), todo[t][1].op = "swap", CanLock(t)
    PROVE  /\ \A u \in Threads \ {t} : s_mutex # u
           /\ \A u \in Threads : ~Idle(u) => todo[u][1].op # "setPeer"
           /\ \A x \in Endpoints : m_peer[x] # None =>
                 m_peer[x] \in Endpoints /\ m_peer[x] # x /\ m_peer[m_peer[x]] = x
  <1>1. ASSUME NEW u \in Threads \ {t}
        PROVE  s_mutex # u
    BY EndpointAssumption DEF CanLock
  <1>2. ASSUME NEW u \in Threads, ~Idle(u), todo[u][1].op = "setPeer"
        PROVE  FALSE
    <2>1. s_mutex = u
      BY <1>2, ConnectAt
    <2> QED  BY <1>1, <1>2, <2>1
  <1>3. ASSUME NEW x \in Endpoints, m_peer[x] # None
        PROVE  m_peer[x] \in Endpoints /\ m_peer[x] # x /\ m_peer[m_peer[x]] = x
    <2>1. m_peer[x] \in Endpoints
      BY <1>3 DEF IndInv, TypeOK
    <2>2. \A u \in Threads : ~Idle(u) => todo[u][1] # S("setPeer", m_peer[x], x)
      BY <1>2, Fields
    <2> QED  BY <1>3, <2>1, <2>2 DEF IndInv, Coupled
  <1> QED  BY <1>1, <1>2, <1>3

\* The two references that disconnect() drops.
LEMMA SwapSteps ==
    ASSUME NEW c \in Endpoints, NEW d \in Endpoints
    PROVE  LET s == <<S("deref", d, None)>> \o <<S("deref", c, None)>>
           IN  s \in Seq(Steps) /\ Len(s) = 2 /\ At(s, 1) = Drop(c) /\ At(s, 2) = Drop(d)
  <1> DEFINE u == <<S("deref", d, None)>>
             v == <<S("deref", c, None)>>
             s == u \o v
  <1>1. /\ u \in Seq(Steps) /\ Len(u) = 1 /\ u[1] = Drop(d)
        /\ v \in Seq(Steps) /\ Len(v) = 1 /\ v[1] = Drop(c)
    <2>1. S("deref", d, None) \in Steps /\ S("deref", c, None) \in Steps
      BY StepTypes DEF Ops
    <2> QED  BY <2>1 DEF Drop
  <1> HIDE DEF u, v
  <1>2. /\ s \in Seq(Steps) /\ Len(s) = Len(u) + Len(v)
        /\ \A i \in 1..Len(u) : s[i] = u[i]
        /\ \A i \in 1..Len(v) : s[Len(u) + i] = v[i]
    BY <1>1, Joined
  <1> HIDE DEF s
  <1>3. s \in Seq(Steps) /\ Len(s) = 2 /\ s[1] = Drop(d) /\ s[2] = Drop(c)
    BY <1>1, <1>2
  <1>4. At(s, 1) = Drop(c) /\ At(s, 2) = Drop(d)
    BY <1>3 DEF At
  <1> QED  BY <1>3, <1>4 DEF s, u, v

\* What a thread holds when its swap has become two drops.
LEMMA SwapHeld ==
    ASSUME NEW l \in Seq(Steps), NEW m \in Seq(Steps), l # <<>>, NEW c, NEW d, c # d,
           At(l, Len(l)).op = "swap", Len(m) = Len(l) + 1,
           \A k \in 1..(Len(l) - 1) : At(m, k) = At(l, k),
           At(m, Len(l)) = Drop(c), At(m, Len(l) + 1) = Drop(d)
    PROVE  /\ Len(l) \notin HeldBy(l, c) /\ HeldBy(m, c) = HeldBy(l, c) \cup {Len(l)}
           /\ Len(l) + 1 \notin HeldBy(l, d) /\ HeldBy(m, d) = HeldBy(l, d) \cup {Len(l) + 1}
           /\ \A y : y \notin {c, d} => HeldBy(m, y) = HeldBy(l, y)
  <1> DEFINE z == Len(l) - 1
  <1>1. Len(l) \in Nat \ {0} /\ z \in Nat /\ z <= Len(l) /\ z <= Len(m) /\ Len(m) \in Nat
    BY Top
  <1>2. (\A k \in (z + 1)..Len(l) : k = Len(l))
        /\ (\A k \in (z + 1)..Len(m) : k = Len(l) \/ k = Len(l) + 1)
    BY <1>1
  <1>3. /\ \A k \in (z + 1)..Len(l) : At(l, k).op \notin {"ref", "refPeer"}
        /\ \A k \in (z + 1)..Len(m) : At(m, k).op \notin {"ref", "refPeer"}
    BY <1>2, Fields
  <1>4. \A k \in 1..z : At(m, k) = At(l, k)
    OBVIOUS
  <1> HIDE DEF z
  <1>5. ASSUME NEW x
        PROVE  /\ HeldBy(m, x) \cap 1..z = HeldBy(l, x) \cap 1..z
               /\ HeldBy(l, x) \subseteq 1..Len(l)
               /\ HeldBy(m, x) \subseteq 1..Len(m)
    <2>1. z \in Nat /\ z <= Len(l) /\ z <= Len(m)
      BY <1>1
    <2>2. HeldBy(m, x) \cap 1..z = HeldBy(l, x) \cap 1..z
      BY <1>3, <1>4, <2>1, KeptHeld
    <2>3. HeldBy(l, x) \subseteq 1..Len(l) /\ HeldBy(m, x) \subseteq 1..Len(m)
      BY DEF HeldBy
    <2> QED  BY <2>2, <2>3
  <1>6. ASSUME NEW x
        PROVE  /\ Len(l) \notin HeldBy(l, x) /\ Len(l) + 1 \notin HeldBy(l, x)
               /\ Len(l) \in HeldBy(m, x) <=> x = c
               /\ Len(l) + 1 \in HeldBy(m, x) <=> x = d
    <2>1. Len(l) \notin HeldBy(l, x)
      BY DEF HeldBy, Holds
    <2>2. Len(l) + 1 \notin HeldBy(l, x)
      BY <1>1, <1>5
    <2>3. Len(l) \in 1..Len(m) /\ Len(l) + 1 \in 1..Len(m)
      BY <1>1
    <2>4. Holds(m, Len(l), x) <=> x = c
      BY Fields DEF Holds
    <2>5. Holds(m, Len(l) + 1, x) <=> x = d
      BY Fields DEF Holds
    <2> QED  BY <2>1, <2>2, <2>3, <2>4, <2>5 DEF HeldBy
  <1>7. ASSUME NEW x, NEW k
        PROVE  k \in HeldBy(m, x) <=>
                  k \in HeldBy(l, x) \/ (k = Len(l) /\ x = c) \/ (k = Len(l) + 1 /\ x = d)
    <2>1. CASE k \in 1..z
      <3>1. k # Len(l) /\ k # Len(l) + 1
        BY <1>1, <2>1 DEF z
      <3> QED  BY <1>5, <2>1, <3>1
    <2>2. CASE k = Len(l) \/ k = Len(l) + 1
      <3>1. Len(l) # Len(l) + 1
        BY <1>1
      <3> QED  BY <1>6, <2>2, <3>1
    <2>3. CASE k \notin 1..z /\ k # Len(l) /\ k # Len(l) + 1
      <3>1. k \notin 1..Len(l) /\ k \notin 1..Len(m)
        BY <1>1, <2>3 DEF z
      <3> QED  BY <1>5, <2>3, <3>1
    <2> QED  BY <2>1, <2>2, <2>3
  <1>8. ASSUME NEW x
        PROVE  /\ HeldBy(m, x) = {k \in HeldBy(m, x) : TRUE}
               /\ HeldBy(l, x) = {k \in HeldBy(l, x) : TRUE}
    BY DEF HeldBy
  <1>9. HeldBy(m, c) = HeldBy(l, c) \cup {Len(l)}
    BY <1>7
  <1>10. HeldBy(m, d) = HeldBy(l, d) \cup {Len(l) + 1}
    BY <1>7
  <1>11. ASSUME NEW y, y \notin {c, d}
         PROVE  HeldBy(m, y) = HeldBy(l, y)
    BY <1>7, <1>8, <1>11
  <1> QED  BY <1>6, <1>9, <1>10, <1>11

\* The references of a pair that forgets each other are now two drops.
LEMMA CountedSwap ==
    ASSUME TypeOK, Counted, NEW t \in Threads, NEW c \in Endpoints, NEW d \in Endpoints, c # d,
           m_peer[c] = d, m_peer[d] = c, NEW i, NEW k,
           \A u \in Threads \ {t} : todo'[u] = todo[u],
           i \notin HeldBy(todo[t], c), HeldBy(todo'[t], c) = HeldBy(todo[t], c) \cup {i},
           k \notin HeldBy(todo[t], d), HeldBy(todo'[t], d) = HeldBy(todo[t], d) \cup {k},
           \A y : y \notin {c, d} => HeldBy(todo'[t], y) = HeldBy(todo[t], y),
           m_peer' = [m_peer EXCEPT ![c] = None, ![d] = None], UNCHANGED <<m_refcount, owned>>
    PROVE  Counted'
  <1>1. ASSUME NEW x \in Endpoints
        PROVE  /\ IsFiniteSet(Held(x)')
               /\ m_refcount'[x] = (IF owned'[x] THEN 1 ELSE 0) + (IF m_peer'[x] # None THEN 1 ELSE 0)
                                   + Cardinality(Held(x)')
    <2>1. /\ IsFiniteSet(Held(x))
          /\ m_refcount[x] = (IF owned[x] THEN 1 ELSE 0) + (IF m_peer[x] # None THEN 1 ELSE 0)
                              + Cardinality(Held(x))
          /\ m_peer \in [Endpoints -> Endpoints \cup {None}]
      BY DEF Counted, TypeOK
    <2>2. CASE x = c \/ x = d
      <3>1. /\ IsFiniteSet(Held(x)') /\ Cardinality(Held(x)') = Cardinality(Held(x)) + 1
            /\ Cardinality(Held(x)) \in Nat
        BY <2>1, <2>2, CountChange
      <3>2. m_peer'[x] = None /\ m_peer[x] # None
        BY <2>1, <2>2, EndpointAssumption
      <3> QED  BY <2>1, <3>1, <3>2
    <2>3. CASE x # c /\ x # d
      <3>1. Held(x)' = Held(x)
        <4>1. HeldBy(todo'[t], x) = HeldBy(todo[t], x)
          BY <2>3
        <4> QED  BY <2>1, <4>1, CountChange
      <3>2. m_peer'[x] = m_peer[x]
        BY <2>1, <2>3
      <3> QED  BY <2>1, <3>1, <3>2
    <2> QED  BY <2>2, <2>3
  <1> QED  BY <1>1 DEF Counted

\* Under the mutex both sides forget each other; the references that each was counted
\* for are now two drops of the thread.
LEMMA SwapInd ==
    ASSUME IndInv, NEW t \in Threads, Swap(t)
    PROVE  IndInv'
  <1>1. /\ ~Idle(t) /\ todo[t][1].op = "swap" /\ CanLock(t)
        /\ UNCHANGED <<m_refcount, owned, destroyed, s_mutex>>
    BY DEF Swap, Now
  <1>2. PICK f \in Courses : \E p \in 1..Len(f) : \E c \in Endpoints :
              /\ Job(todo[t], f, p, 0, 0) /\ Len(todo[t]) = p
              /\ todo[t][1] = S("swap", c, None)
              /\ \E k \in 1..(p - 1) : f[k] = Drop(c)
              /\ (s_mutex' = s_mutex /\ m_peer'[c] = None
                  /\ (\A x \in Endpoints : m_peer[x] = None => m_peer'[x] = None))
                 => OnCourse(t, f, p - 1)'
    BY <1>1, SwapAt
  <1>3. PICK p \in 1..Len(f) : \E c \in Endpoints :
              /\ Job(todo[t], f, p, 0, 0) /\ Len(todo[t]) = p
              /\ todo[t][1] = S("swap", c, None)
              /\ \E k \in 1..(p - 1) : f[k] = Drop(c)
              /\ (s_mutex' = s_mutex /\ m_peer'[c] = None
                  /\ (\A x \in Endpoints : m_peer[x] = None => m_peer'[x] = None))
                 => OnCourse(t, f, p - 1)'
    BY <1>2
  <1>4. PICK c \in Endpoints :
              /\ Job(todo[t], f, p, 0, 0) /\ Len(todo[t]) = p
              /\ todo[t][1] = S("swap", c, None)
              /\ \E k \in 1..(p - 1) : f[k] = Drop(c)
              /\ (s_mutex' = s_mutex /\ m_peer'[c] = None
                  /\ (\A x \in Endpoints : m_peer[x] = None => m_peer'[x] = None))
                 => OnCourse(t, f, p - 1)'
    BY <1>3
  <1>5. /\ \A u \in Threads \ {t} : s_mutex # u
        /\ \A u \in Threads : ~Idle(u) => todo[u][1].op # "setPeer"
        /\ \A x \in Endpoints : m_peer[x] # None =>
              m_peer[x] \in Endpoints /\ m_peer[x] # x /\ m_peer[m_peer[x]] = x
    BY <1>1, PeersWhenLocked
  <1>6. /\ TypeOK /\ Counted /\ Condemned /\ AllOnCourse
        /\ m_peer \in [Endpoints -> Endpoints \cup {None}]
    BY DEF IndInv, TypeOK
  <1>7. /\ todo[t] \in Seq(Steps) /\ todo[t] # <<>> /\ Len(todo[t]) \in Nat \ {0}
        /\ At(todo[t], Len(todo[t])) = todo[t][1]
        /\ p \in Nat \ {0} /\ p \in 0..Len(f) /\ p - 1 \in 0..Len(f) /\ Len(f) \in Nat
    <2>1. todo[t] \in Seq(Steps) /\ todo[t] # <<>>
      BY <1>1, <1>6 DEF TypeOK, Idle
    <2>2. Len(todo[t]) \in Nat \ {0} /\ At(todo[t], Len(todo[t])) = todo[t][1] /\ Len(f) \in Nat
      BY <2>1, Top, CourseSeq
    <2> QED  BY <2>1, <2>2
  <1>8. todo[t][1].a = c
    BY <1>4, Fields
  <1>9. Job(todo[t], f, p, 0, 0) /\ Len(todo[t]) = p
    BY <1>4
  <1>10. CASE m_peer[c] = None
    <2>1. Go(t, <<>>, 1) /\ m_peer' = m_peer
      BY <1>8, <1>10 DEF Swap
    <2>2. 1 <= Len(todo[t]) /\ 1 \in 1..2
      BY <1>7
    <2>3. /\ \A u \in Threads \ {t} : todo'[u] = todo[u]
          /\ todo'[t] \in Seq(Steps)
          /\ Len(todo'[t]) = Len(todo[t]) - 1
          /\ \A k \in 1..(Len(todo[t]) - 1) : At(todo'[t], k) = At(todo[t], k)
      BY <1>6, <2>1, <2>2, Popped
    <2>4. TypeOK' /\ Coupled' /\ Counted' /\ Condemned'
      <3>1. \A k \in (Len(todo[t]) - 1 + 1)..Len(todo[t]) :
               At(todo[t], k).op \in Neutral \ {"delete"}
        BY <1>1, <1>7 DEF Neutral
      <3>2. s_mutex' \in Threads \cup {None}
        BY <1>1, <1>6 DEF TypeOK
      <3> QED  BY <1>1, <2>1, <2>2, <3>1, <3>2, QuietPop
    <2>5. Job(todo'[t], f, p - 1, 0, 0)
      <3>1. 0 \in 0..Len(todo[t]) /\ 0 \in {0, 1, 3} /\ p > 0
        BY <1>7
      <3> QED  BY <1>7, <1>9, <2>3, <3>1, JobDone
    <2>6. OnCourse(t, f, p - 1)'
      BY <1>1, <1>4, <1>10, <2>1
    <2>7. HasCourse(t)'
      <3>1. 0 \in 0..Len(todo'[t])
        BY <1>7, <2>3
      <3> QED  BY <1>7, <2>5, <2>6, <3>1 DEF HasCourse
    <2>8. AllOnCourse'
      BY <1>5, <1>6, <2>3, <2>7, OthersOnCourse
    <2> QED  BY <2>4, <2>8 DEF IndInv
  <1>11. CASE m_peer[c] # None
    <2> DEFINE d == m_peer[c]
               s == <<S("deref", d, None)>> \o <<S("deref", c, None)>>
    <2>1. d \in Endpoints /\ d # c /\ m_peer[d] = c
      BY <1>5, <1>11
    <2>2. Alive(c)
      <3>1. PICK k \in 1..(p - 1) : f[k] = Drop(c)
        BY <1>4
      <3>2. k \in 1..Len(todo[t]) /\ At(todo[t], k) = Drop(c)
        BY <1>7, <1>9, <3>1 DEF Job
      <3>3. k \in HeldBy(todo[t], c)
        BY <1>7, <3>2, DropHeld
      <3>4. m_refcount[c] \in Nat \ {0}
        BY <1>6, <3>3, HeldAlive
      <3> QED  BY <3>4 DEF Alive
    <2>3. Go(t, s, 1) /\ m_peer' = [m_peer EXCEPT ![c] = None, ![d] = None]
      BY <1>8, <1>11, <2>2 DEF Swap
    <2>4. s \in Seq(Steps) /\ Len(s) = 2 /\ At(s, 1) = Drop(c) /\ At(s, 2) = Drop(d)
      BY <2>1, SwapSteps
    <2> HIDE DEF d, s
    <2>5. 1 \in 0..Len(todo[t])
      BY <1>7
    <2>6. /\ todo' \in [Threads -> Seq(Steps)]
          /\ \A u \in Threads \ {t} : todo'[u] = todo[u]
          /\ todo'[t] \in Seq(Steps)
          /\ Len(todo'[t]) = Len(todo[t]) - 1 + Len(s)
          /\ \A k \in 1..(Len(todo[t]) - 1) : At(todo'[t], k) = At(todo[t], k)
          /\ \A k \in 1..Len(s) : At(todo'[t], Len(todo[t]) - 1 + k) = At(s, k)
      BY <1>6, <2>3, <2>4, <2>5, Gone
    <2>7. /\ Len(todo'[t]) = Len(todo[t]) + 1
          /\ At(todo'[t], Len(todo[t])) = Drop(c)
          /\ At(todo'[t], Len(todo[t]) + 1) = Drop(d)
      <3>1. 1 \in 1..Len(s) /\ 2 \in 1..Len(s)
        BY <2>4
      <3>2. Len(todo[t]) - 1 + 1 = Len(todo[t]) /\ Len(todo[t]) - 1 + 2 = Len(todo[t]) + 1
        BY <1>7
      <3>3. Len(todo'[t]) = Len(todo[t]) + 1
        BY <1>7, <2>4, <2>6
      <3> QED  BY <2>4, <2>6, <3>1, <3>2, <3>3
    <2>8. /\ Len(todo[t]) \notin HeldBy(todo[t], c)
          /\ HeldBy(todo'[t], c) = HeldBy(todo[t], c) \cup {Len(todo[t])}
          /\ Len(todo[t]) + 1 \notin HeldBy(todo[t], d)
          /\ HeldBy(todo'[t], d) = HeldBy(todo[t], d) \cup {Len(todo[t]) + 1}
          /\ \A y : y \notin {c, d} => HeldBy(todo'[t], y) = HeldBy(todo[t], y)
      <3>1. At(todo[t], Len(todo[t])).op = "swap" /\ c # d
        BY <1>1, <1>7, <2>1
      <3>2. todo'[t] \in Seq(Steps) /\ \A k \in 1..(Len(todo[t]) - 1) : At(todo'[t], k) = At(todo[t], k)
        BY <2>6
      <3>3. todo[t] \in Seq(Steps) /\ todo[t] # <<>>
        BY <1>7
      <3> QED  BY <2>7, <3>1, <3>2, <3>3, SwapHeld
    <2>9. /\ m_peer' \in [Endpoints -> Endpoints \cup {None}]
          /\ m_peer'[c] = None /\ m_peer'[d] = None
          /\ \A x \in Endpoints \ {c, d} : m_peer'[x] = m_peer[x]
      BY <1>6, <2>1, <2>3
    <2>10. Counted'
      <3>1. UNCHANGED <<m_refcount, owned>>
        BY <1>1
      <3>2. m_peer[c] = d /\ m_peer[d] = c /\ c # d
        BY <2>1 DEF d
      <3>3. \A u \in Threads \ {t} : todo'[u] = todo[u]
        BY <2>6
      <3> QED  BY <1>6, <2>1, <2>3, <2>8, <3>1, <3>2, <3>3, CountedSwap
    <2>11. TypeOK'
      BY <1>1, <1>6, <2>6, <2>9 DEF TypeOK
    <2>12. AllOnCourse'
      <3>1. Job(todo'[t], f, p - 1, 2, 0)
        <4>1. \A k \in 1..(Len(todo[t]) - 1) : At(todo'[t], k) = At(todo[t], k)
          BY <2>6
        <4> QED  BY <1>7, <1>9, <2>1, <2>6, <2>7, <4>1, JobSwapped
      <3>2. OnCourse(t, f, p - 1)'
        <4>1. \A x \in Endpoints : m_peer[x] = None => m_peer'[x] = None
          BY <2>9
        <4> QED  BY <1>1, <1>4, <2>9, <4>1
      <3>3. 2 \in 0..Len(todo'[t])
        BY <1>7, <2>7
      <3>4. HasCourse(t)'
        BY <1>7, <3>1, <3>2, <3>3 DEF HasCourse
      <3>5. \A u \in Threads \ {t} : todo'[u] = todo[u] /\ s_mutex # u
        BY <1>5, <2>6
      <3> QED  BY <1>6, <3>4, <3>5, OthersOnCourse
    <2>13. Coupled'
      <3>1. ASSUME NEW x \in Endpoints, m_peer'[x] # None
            PROVE  m_peer'[x] # x /\ m_peer'[m_peer'[x]] = x
        <4>1. x # c /\ x # d /\ m_peer'[x] = m_peer[x]
          BY <2>9, <3>1
        <4>2. m_peer[x] \in Endpoints /\ m_peer[x] # x /\ m_peer[m_peer[x]] = x
          BY <1>5, <3>1, <4>1
        <4>3. m_peer[x] # c /\ m_peer[x] # d
          BY <2>1, <4>1, <4>2 DEF d
        <4> QED  BY <2>9, <4>1, <4>2, <4>3
      <3> QED  BY <3>1 DEF Coupled
    <2>14. Condemned'
      <3>1. \A e : Deletes(todo'[t], e) <=> Deletes(todo[t], e)
        <4> DEFINE z == Len(todo[t]) - 1
        <4>1. z \in Nat /\ z <= Len(todo[t]) /\ z <= Len(todo'[t])
          BY <1>7, <2>7
        <4>2. \A k \in 1..z : At(todo'[t], k) = At(todo[t], k)
          BY <2>6
        <4>3. \A k \in (z + 1)..Len(todo[t]) : At(todo[t], k).op # "delete"
          <5>1. \A k \in (z + 1)..Len(todo[t]) : k = Len(todo[t])
            BY <1>7
          <5> QED  BY <1>1, <1>7, <5>1
        <4>4. \A k \in (z + 1)..Len(todo'[t]) : At(todo'[t], k).op # "delete"
          <5>1. \A k \in (z + 1)..Len(todo'[t]) : k = Len(todo[t]) \/ k = Len(todo[t]) + 1
            BY <1>7, <2>7
          <5> QED  BY <2>7, <5>1, Fields
        <4> HIDE DEF z
        <4> QED  BY <1>7, <2>6, <4>1, <4>2, <4>3, <4>4, SameDeletes
      <3>2. \A u \in Threads \ {t} : todo'[u] = todo[u]
        BY <2>6
      <3> QED  BY <1>1, <1>6, <3>1, <3>2, CondemnedKept
    <2> QED  BY <2>10, <2>11, <2>12, <2>13, <2>14 DEF IndInv
  <1> QED  BY <1>10, <1>11

-----------------------------------------------------------------------------
(* The callers *)

\* A thread that begins an operation that deletes nothing: the condemned endpoints are
\* as they were, if the others' references stay and no used up one gets new ones.
LEMMA CondemnedBegun ==
    ASSUME TypeOK, Condemned, NEW t \in Threads, Idle(t), destroyed' = destroyed,
           \A u \in Threads \ {t} : todo'[u] = todo[u],
           \A e : ~Deletes(todo'[t], e),
           \A e \in Endpoints : m_refcount'[e] = 0 <=> m_refcount[e] = 0
    PROVE  Condemned'
  <1>1. \A e : ~Deletes(todo[t], e)
    BY IdleHeld DEF Idle
  <1> QED  BY <1>1, CondemnedAbove

\* The steps a caller of connect() begins with.
LEMMA CheckSteps ==
    ASSUME CallersLock, NEW a \in Endpoints, NEW b \in Endpoints
    PROVE  LET s == <<S("check", a, b)>> \o Release(<<S("deref", a, None), S("deref", b, None)>>)
           IN  s \in Seq(Steps) /\ Job(s, Checks(a, b), 4, 0, 0)
  <1> DEFINE u == <<S("check", a, b)>>
             v == <<S("unlock", None, None)>>
             w == <<S("deref", a, None), S("deref", b, None)>>
             r == v \o w
             s == u \o r
  <1>1. /\ u \in Seq(Steps) /\ Len(u) = 1 /\ u[1] = S("check", a, b)
        /\ v \in Seq(Steps) /\ Len(v) = 1 /\ v[1] = S("unlock", None, None)
        /\ w \in Seq(Steps) /\ Len(w) = 2 /\ w[1] = Drop(a) /\ w[2] = Drop(b)
    <2>1. S("unlock", None, None) \in Steps
      BY DEF S, Steps, Ops
    <2>2. S("check", a, b) \in Steps /\ S("deref", a, None) \in Steps /\ S("deref", b, None) \in Steps
      BY StepTypes DEF Ops
    <2> QED  BY <2>1, <2>2 DEF Drop
  <1>2. Release(w) = r
    BY DEF Release
  <1> HIDE DEF u, v, w
  <1>3. /\ r \in Seq(Steps) /\ Len(r) = Len(v) + Len(w)
        /\ \A i \in 1..Len(v) : r[i] = v[i]
        /\ \A i \in 1..Len(w) : r[Len(v) + i] = w[i]
    BY <1>1, Joined
  <1> HIDE DEF r
  <1>4. /\ r \in Seq(Steps) /\ Len(r) = 3
        /\ r[1] = S("unlock", None, None) /\ r[2] = Drop(a) /\ r[3] = Drop(b)
    BY <1>1, <1>3
  <1>5. /\ s \in Seq(Steps) /\ Len(s) = Len(u) + Len(r)
        /\ \A i \in 1..Len(u) : s[i] = u[i]
        /\ \A i \in 1..Len(r) : s[Len(u) + i] = r[i]
    BY <1>1, <1>4, Joined
  <1> HIDE DEF s
  <1>6. /\ Len(s) = 4 /\ s[1] = S("check", a, b) /\ s[2] = S("unlock", None, None)
        /\ s[3] = Drop(a) /\ s[4] = Drop(b)
    BY <1>1, <1>4, <1>5
  <1>7. ASSUME NEW k \in 1..4
        PROVE  At(s, k) = Checks(a, b)[k]
    <2>1. k \in {1, 2, 3, 4}
      OBVIOUS
    <2>2. At(s, k) = s[5 - k]
      BY <1>6 DEF At
    <2> QED  BY <1>6, <2>1, <2>2 DEF Checks
  <1>8. Job(s, Checks(a, b), 4, 0, 0)
    BY <1>6, <1>7 DEF Job
  <1> QED  BY <1>2, <1>5, <1>8 DEF s, u, v, w

\* A caller takes the mutex and a reference to each of the two.
LEMMA CallConnectInd ==
    ASSUME CallersLock, IndInv, NEW t \in Threads, NEW a \in Endpoints, NEW b \in Endpoints,
           CallConnect(t, a, b)
    PROVE  IndInv'
  <1> DEFINE s == <<S("check", a, b)>> \o Release(<<S("deref", a, None), S("deref", b, None)>>)
  <1>1. /\ todo[t] = <<>> /\ Idle(t) /\ a # b /\ Alive(a) /\ Alive(b)
        /\ s_mutex = None /\ s_mutex' = t
        /\ m_refcount' = [m_refcount EXCEPT ![a] = @ + 1, ![b] = @ + 1]
        /\ todo' = [todo EXCEPT ![t] = s]
        /\ UNCHANGED <<m_peer, owned, destroyed>>
    BY DEF CallConnect, Idle
  <1>2. s \in Seq(Steps) /\ Job(s, Checks(a, b), 4, 0, 0)
    BY CheckSteps
  <1> HIDE DEF s
  <1>3. /\ TypeOK /\ Counted /\ Condemned /\ Coupled /\ AllOnCourse
        /\ m_refcount \in [Endpoints -> Nat] /\ todo \in [Threads -> Seq(Steps)]
    BY DEF IndInv, TypeOK
  <1>4. /\ todo' \in [Threads -> Seq(Steps)] /\ todo'[t] = s
        /\ \A u \in Threads \ {t} : todo'[u] = todo[u]
    BY <1>1, <1>2, <1>3
  <1>5. /\ m_refcount' \in [Endpoints -> Nat]
        /\ m_refcount'[a] = m_refcount[a] + 1 /\ m_refcount'[b] = m_refcount[b] + 1
        /\ \A x \in Endpoints \ {a, b} : m_refcount'[x] = m_refcount[x]
    BY <1>1, <1>3
  <1>6. TypeOK'
    BY <1>1, <1>3, <1>4, <1>5 DEF TypeOK
  <1>7. Checks(a, b) \in Courses /\ Len(Checks(a, b)) = 4 /\ Len(s) = 4
    BY <1>2, CourseTypes DEF Courses, Job
  <1>8. AllOnCourse'
    <2>1. OnCourse(t, Checks(a, b), 4)'
      BY <1>1 DEF OnCourse
    <2>2. 4 \in 0..Len(Checks(a, b)) /\ 0 \in 0..Len(todo'[t]) /\ Job(todo'[t], Checks(a, b), 4, 0, 0)
      BY <1>2, <1>4, <1>7
    <2>3. HasCourse(t)'
      BY <1>7, <2>1, <2>2 DEF HasCourse
    <2>4. \A u \in Threads \ {t} : s_mutex # u
      BY <1>1, EndpointAssumption
    <2> QED  BY <1>3, <1>4, <2>3, <2>4, OthersOnCourse
  <1>9. Coupled'
    <2>1. ~Idle(t) => todo[t][1].op # "setPeer"
      BY <1>1
    <2> QED  BY <1>1, <1>3, <1>4, <2>1, CoupledKept
  <1>10. Counted'
    <2>1. \A x, k : k \in HeldBy(s, x) <=> (k = 1 /\ x = b) \/ (k = 2 /\ x = a)
      <3>1. \A x, k : k \in HeldBy(s, x) <=> k \in 1..4 /\ ((k = 1 /\ x = b) \/ (k = 2 /\ x = a))
        BY <1>2, ChecksHeld
      <3> QED  BY <3>1
    <2>2. \A x : HeldBy(todo[t], x) = {}
      BY <1>1, IdleHeld
    <2>3. /\ HeldBy(todo'[t], a) = HeldBy(todo[t], a) \cup {2} /\ 2 \notin HeldBy(todo[t], a)
          /\ HeldBy(todo'[t], b) = HeldBy(todo[t], b) \cup {1} /\ 1 \notin HeldBy(todo[t], b)
      BY <1>1, <1>4, <2>1, <2>2
    <2>4. ASSUME NEW x, x # a, x # b
          PROVE  HeldBy(todo'[t], x) = HeldBy(todo[t], x)
      <3>1. \A k : k \notin HeldBy(s, x)
        BY <2>1, <2>4
      <3>2. HeldBy(s, x) = {k \in HeldBy(s, x) : TRUE}
        BY DEF HeldBy
      <3>3. HeldBy(s, x) = {}
        BY <3>1, <3>2
      <3> QED  BY <1>4, <2>2, <3>3
    <2>5. ASSUME NEW x \in Endpoints
          PROVE  /\ IsFiniteSet(Held(x)')
                 /\ m_refcount'[x] = (IF owned'[x] THEN 1 ELSE 0)
                                     + (IF m_peer'[x] # None THEN 1 ELSE 0) + Cardinality(Held(x)')
      <3>1. /\ IsFiniteSet(Held(x))
            /\ m_refcount[x] = (IF owned[x] THEN 1 ELSE 0) + (IF m_peer[x] # None THEN 1 ELSE 0)
                                + Cardinality(Held(x))
            /\ m_peer'[x] = m_peer[x] /\ owned'[x] = owned[x]
        BY <1>1, <1>3 DEF Counted
      <3>2. \A u \in Threads \ {t} : todo'[u] = todo[u]
        BY <1>4
      <3>3. CASE x = a
        <4>1. /\ IsFiniteSet(Held(x)') /\ Cardinality(Held(x)') = Cardinality(Held(x)) + 1
              /\ Cardinality(Held(x)) \in Nat
          BY <2>3, <3>1, <3>2, <3>3, CountChange
        <4> QED  BY <1>5, <3>1, <3>3, <4>1
      <3>4. CASE x = b
        <4>1. /\ IsFiniteSet(Held(x)') /\ Cardinality(Held(x)') = Cardinality(Held(x)) + 1
              /\ Cardinality(Held(x)) \in Nat
          BY <2>3, <3>1, <3>2, <3>4, CountChange
        <4> QED  BY <1>5, <3>1, <3>4, <4>1
      <3>5. CASE x # a /\ x # b
        <4>1. Held(x)' = Held(x)
          <5>1. HeldBy(todo'[t], x) = HeldBy(todo[t], x)
            BY <2>4, <3>5
          <5> QED  BY <3>1, <3>2, <5>1, CountChange
        <4> QED  BY <1>5, <3>1, <3>5, <4>1
      <3> QED  BY <3>3, <3>4, <3>5
    <2> QED  BY <2>5 DEF Counted
  <1>11. Condemned'
    <2>1. \A e : ~Deletes(todo'[t], e)
      <3>1. 4 \in 0..Len(Checks(a, b)) /\ 0 \in 0..Len(s)
        BY <1>7
      <3> QED  BY <1>2, <1>4, <1>7, <3>1, NoDeletes
    <2>2. \A e \in Endpoints : m_refcount'[e] = 0 <=> m_refcount[e] = 0
      BY <1>1, <1>3, <1>5 DEF Alive
    <2> QED  BY <1>1, <1>3, <1>4, <2>1, <2>2, CondemnedBegun
  <1> QED  BY <1>6, <1>8, <1>9, <1>10, <1>11 DEF IndInv

\* The steps of a caller of disconnect().
LEMMA DisconnectSteps ==
    ASSUME NEW a \in Endpoints
    PROVE  LET s == Disconnect(a) \o <<S("deref", a, None)>>
           IN  s \in Seq(Steps) /\ Job(s, Disconnects(a), 3, 0, 0)
  <1> DEFINE u == Disconnect(a)
             v == <<S("deref", a, None)>>
             s == u \o v
  <1>1. /\ u \in Seq(Steps) /\ Len(u) = 2 /\ u[1] = S("test", a, None) /\ u[2] = S("swap", a, None)
        /\ v \in Seq(Steps) /\ Len(v) = 1 /\ v[1] = Drop(a)
    <2>1. S("test", a, None) \in Steps /\ S("swap", a, None) \in Steps /\ S("deref", a, None) \in Steps
      BY StepTypes DEF Ops
    <2> QED  BY <2>1 DEF Disconnect, Drop
  <1> HIDE DEF u, v
  <1>2. /\ s \in Seq(Steps) /\ Len(s) = Len(u) + Len(v)
        /\ \A i \in 1..Len(u) : s[i] = u[i]
        /\ \A i \in 1..Len(v) : s[Len(u) + i] = v[i]
    BY <1>1, Joined
  <1> HIDE DEF s
  <1>3. /\ Len(s) = 3 /\ s[1] = S("test", a, None) /\ s[2] = S("swap", a, None) /\ s[3] = Drop(a)
    BY <1>1, <1>2
  <1>4. ASSUME NEW k \in 1..3
        PROVE  At(s, k) = Disconnects(a)[k]
    <2>1. k \in {1, 2, 3}
      OBVIOUS
    <2>2. At(s, k) = s[4 - k]
      BY <1>3 DEF At
    <2> QED  BY <1>3, <2>1, <2>2 DEF Disconnects
  <1>5. Job(s, Disconnects(a), 3, 0, 0)
    BY <1>3, <1>4 DEF Job
  <1> QED  BY <1>2, <1>5 DEF s, u, v

\* An idle thread begins at the p-th step of a disconnect.
LEMMA Disconnecting ==
    ASSUME IndInv, NEW t \in Threads, Idle(t), NEW a \in Endpoints, NEW p \in 1..3,
           NEW s \in Seq(Steps), Job(s, Disconnects(a), p, 0, 0),
           todo' = [todo EXCEPT ![t] = s], UNCHANGED <<m_peer, destroyed, s_mutex>>
    PROVE  /\ AllOnCourse' /\ Coupled'
           /\ todo' \in [Threads -> Seq(Steps)]
           /\ \A u \in Threads \ {t} : todo'[u] = todo[u]
           /\ HeldBy(todo'[t], a) = HeldBy(todo[t], a) \cup {1} /\ 1 \notin HeldBy(todo[t], a)
           /\ \A y : y # a => HeldBy(todo'[t], y) = HeldBy(todo[t], y)
           /\ \A e : ~Deletes(todo'[t], e)
  <1>1. Disconnects(a) \in Courses /\ Len(Disconnects(a)) = 3 /\ Len(s) = p
    BY CourseTypes DEF Courses, Job
  <1>2. /\ todo' \in [Threads -> Seq(Steps)] /\ todo'[t] = s /\ todo[t] = <<>>
        /\ \A u \in Threads \ {t} : todo'[u] = todo[u]
    BY DEF IndInv, TypeOK, Idle
  <1>3. AllOnCourse'
    <2>1. OnCourse(t, Disconnects(a), p)'
      BY DEF OnCourse
    <2>2. p \in 0..Len(Disconnects(a)) /\ 0 \in 0..Len(todo'[t]) /\ Job(todo'[t], Disconnects(a), p, 0, 0)
      BY <1>1, <1>2
    <2>3. HasCourse(t)'
      BY <1>1, <2>1, <2>2 DEF HasCourse
    <2> QED  BY <1>2, <2>3, OthersOnCourse DEF IndInv
  <1>4. Coupled'
    BY <1>2, CoupledKept DEF IndInv
  <1>5. \A x, k : k \in HeldBy(s, x) <=> k = 1 /\ x = a
    <2>1. \A x, k : k \in HeldBy(s, x) <=> k \in 1..p /\ k = 1 /\ x = a
      <3>1. p \in 0..3
        OBVIOUS
      <3> QED  BY <3>1, DisconnectsHeld
    <2> QED  BY <2>1
  <1>6. \A x : HeldBy(todo[t], x) = {}
    BY <1>2, IdleHeld
  <1>7. HeldBy(todo'[t], a) = HeldBy(todo[t], a) \cup {1} /\ 1 \notin HeldBy(todo[t], a)
    BY <1>2, <1>5, <1>6
  <1>8. ASSUME NEW y, y # a
        PROVE  HeldBy(todo'[t], y) = HeldBy(todo[t], y)
    <2>1. \A k : k \notin HeldBy(s, y)
      BY <1>5, <1>8
    <2>2. HeldBy(s, y) = {k \in HeldBy(s, y) : TRUE}
      BY DEF HeldBy
    <2>3. HeldBy(s, y) = {}
      BY <2>1, <2>2
    <2> QED  BY <1>2, <1>6, <2>3
  <1>9. \A e : ~Deletes(todo'[t], e)
    <2>1. p \in 0..Len(Disconnects(a)) /\ 0 \in 0..Len(s)
      BY <1>1
    <2> QED  BY <1>1, <1>2, <2>1, NoDeletes
  <1> QED  BY <1>2, <1>3, <1>4, <1>7, <1>8, <1>9

\* A caller of disconnect() takes a reference of its own.
LEMMA CallDisconnectInd ==
    ASSUME IndInv, NEW t \in Threads, NEW a \in Endpoints, CallDisconnect(t, a)
    PROVE  IndInv'
  <1> DEFINE s == Disconnect(a) \o <<S("deref", a, None)>>
  <1>1. /\ Idle(t) /\ Alive(a)
        /\ m_refcount' = [m_refcount EXCEPT ![a] = @ + 1]
        /\ todo' = [todo EXCEPT ![t] = s]
        /\ UNCHANGED <<m_peer, owned, destroyed, s_mutex>>
    BY DEF CallDisconnect
  <1>2. s \in Seq(Steps) /\ Job(s, Disconnects(a), 3, 0, 0)
    BY DisconnectSteps
  <1> HIDE DEF s
  <1>3. /\ AllOnCourse' /\ Coupled'
        /\ todo' \in [Threads -> Seq(Steps)]
        /\ \A u \in Threads \ {t} : todo'[u] = todo[u]
        /\ HeldBy(todo'[t], a) = HeldBy(todo[t], a) \cup {1} /\ 1 \notin HeldBy(todo[t], a)
        /\ \A y : y # a => HeldBy(todo'[t], y) = HeldBy(todo[t], y)
        /\ \A e : ~Deletes(todo'[t], e)
    <2>1. 3 \in 1..3
      OBVIOUS
    <2> QED  BY <1>1, <1>2, <2>1, Disconnecting
  <1>4. TypeOK /\ Counted /\ Condemned /\ m_refcount \in [Endpoints -> Nat]
    BY DEF IndInv, TypeOK
  <1>5. /\ m_refcount' \in [Endpoints -> Nat] /\ m_refcount'[a] = m_refcount[a] + 1
        /\ \A x \in Endpoints \ {a} : m_refcount'[x] = m_refcount[x]
    BY <1>1, <1>4
  <1>6. TypeOK'
    BY <1>1, <1>3, <1>4, <1>5 DEF TypeOK
  <1>7. Counted'
    BY <1>1, <1>3, <1>4, CountedMore
  <1>8. Condemned'
    <2>1. \A e \in Endpoints : m_refcount'[e] = 0 <=> m_refcount[e] = 0
      BY <1>1, <1>4, <1>5 DEF Alive
    <2> QED  BY <1>1, <1>3, <1>4, <2>1, CondemnedBegun
  <1> QED  BY <1>3, <1>6, <1>7, <1>8 DEF IndInv

\* The owner's reference becomes one that the thread is to drop.
LEMMA CallReleaseInd ==
    ASSUME IndInv, NEW t \in Threads, NEW a \in Endpoints, CallRelease(t, a)
    PROVE  IndInv'
  <1> DEFINE s == <<S("deref", a, None)>>
  <1>1. /\ Idle(t) /\ owned[a]
        /\ owned' = [owned EXCEPT ![a] = FALSE]
        /\ todo' = [todo EXCEPT ![t] = s]
        /\ UNCHANGED <<m_peer, m_refcount, destroyed, s_mutex>>
    BY DEF CallRelease
  <1>2. s \in Seq(Steps) /\ Job(s, Disconnects(a), 1, 0, 0)
    <2>1. S("deref", a, None) \in Steps
      BY StepTypes DEF Ops
    <2>2. s \in Seq(Steps) /\ Len(s) = 1 /\ s[1] = Drop(a)
      BY <2>1 DEF Drop
    <2> HIDE DEF s
    <2>3. At(s, 1) = Drop(a) /\ Disconnects(a)[1] = Drop(a)
      BY <2>2 DEF At, Disconnects
    <2> QED  BY <2>2, <2>3 DEF Job
  <1> HIDE DEF s
  <1>3. /\ AllOnCourse' /\ Coupled'
        /\ todo' \in [Threads -> Seq(Steps)]
        /\ \A u \in Threads \ {t} : todo'[u] = todo[u]
        /\ HeldBy(todo'[t], a) = HeldBy(todo[t], a) \cup {1} /\ 1 \notin HeldBy(todo[t], a)
        /\ \A y : y # a => HeldBy(todo'[t], y) = HeldBy(todo[t], y)
        /\ \A e : ~Deletes(todo'[t], e)
    <2>1. 1 \in 1..3
      OBVIOUS
    <2> QED  BY <1>1, <1>2, <2>1, Disconnecting
  <1>4. /\ TypeOK /\ Counted /\ Condemned /\ m_refcount \in [Endpoints -> Nat]
        /\ owned \in [Endpoints -> BOOLEAN]
    BY DEF IndInv, TypeOK
  <1>5. /\ owned' \in [Endpoints -> BOOLEAN] /\ owned'[a] = FALSE
        /\ \A x \in Endpoints \ {a} : owned'[x] = owned[x]
    BY <1>1, <1>4
  <1>6. TypeOK'
    BY <1>1, <1>3, <1>4, <1>5 DEF TypeOK
  <1>7. Counted'
    <2>1. ASSUME NEW x \in Endpoints
          PROVE  /\ IsFiniteSet(Held(x)')
                 /\ m_refcount'[x] = (IF owned'[x] THEN 1 ELSE 0)
                                     + (IF m_peer'[x] # None THEN 1 ELSE 0) + Cardinality(Held(x)')
      <3>1. /\ IsFiniteSet(Held(x))
            /\ m_refcount[x] = (IF owned[x] THEN 1 ELSE 0) + (IF m_peer[x] # None THEN 1 ELSE 0)
                                + Cardinality(Held(x))
            /\ m_peer'[x] = m_peer[x] /\ m_refcount'[x] = m_refcount[x]
        BY <1>1, <1>4 DEF Counted
      <3>2. CASE x = a
        <4>1. /\ IsFiniteSet(Held(x)') /\ Cardinality(Held(x)') = Cardinality(Held(x)) + 1
              /\ Cardinality(Held(x)) \in Nat
          BY <1>3, <3>1, <3>2, CountChange
        <4> QED  BY <1>1, <1>5, <3>1, <3>2, <4>1
      <3>3. CASE x # a
        <4>1. Held(x)' = Held(x)
          BY <1>3, <3>1, <3>3, CountChange
        <4> QED  BY <1>5, <3>1, <3>3, <4>1
      <3> QED  BY <3>2, <3>3
    <2> QED  BY <2>1 DEF Counted
  <1>8. Condemned'
    BY <1>1, <1>3, <1>4, CondemnedBegun
  <1> QED  BY <1>3, <1>6, <1>7, <1>8 DEF IndInv

-----------------------------------------------------------------------------
(* The inductive invariant *)

LEMMA InitInd == Init => IndInv
  <1> SUFFICES ASSUME Init
               PROVE  IndInv
    OBVIOUS
  <1>1. /\ \A t \in Threads : todo[t] = <<>> /\ Idle(t)
        /\ \A x \in Endpoints : /\ m_peer[x] = None /\ m_refcount[x] = 1
                                /\ owned[x] = TRUE /\ destroyed[x] = FALSE
    BY DEF Init, Idle
  <1>2. TypeOK
    BY DEF Init, TypeOK
  <1>3. AllOnCourse
    <2>1. ASSUME NEW t \in Threads
          PROVE  HasCourse(t)
      <3>1. Job(<<>>, <<>>, 0, 0, 0) /\ OnCourse(t, <<>>, 0)
        BY DEF Job, OnCourse
      <3>2. <<>> \in Courses /\ 0 \in 0..Len(<<>>) /\ todo[t] = <<>>
        BY <1>1 DEF Courses
      <3> QED  BY <3>1, <3>2 DEF HasCourse
    <2> QED  BY <2>1 DEF AllOnCourse
  <1>4. Coupled
    BY <1>1 DEF Coupled
  <1>5. Counted
    <2>1. ASSUME NEW x
          PROVE  Held(x) = {}
      BY <1>1, IdleHeld DEF Held
    <2>2. \A x : IsFiniteSet(Held(x)) /\ Cardinality(Held(x)) = 0
      BY <2>1, FS_EmptySet
    <2> QED  BY <1>1, <2>2 DEF Counted
  <1>6. Condemned
    BY <1>1, IdleHeld DEF Condemned
  <1> QED  BY <1>2, <1>3, <1>4, <1>5, <1>6 DEF IndInv

LEMMA NextInd ==
    ASSUME CallersLock, IndInv, Next
    PROVE  IndInv'
  <1>1. PICK t \in Threads :
           \/ Step(t)
           \/ \E a, b \in Endpoints : CallConnect(t, a, b)
           \/ \E a \in Endpoints : CallDisconnect(t, a) \/ CallRelease(t, a)
    BY DEF Next
  <1>2. CASE Step(t)
    <2>1. CASE Check(t)    BY <2>1, CheckInd
    <2>2. CASE Ref(t)      BY <2>2, RefInd
    <2>3. CASE RefPeer(t)  BY <2>3, RefPeerInd
    <2>4. CASE SetPeer(t)  BY <2>4, SetPeerInd
    <2>5. CASE Unlock(t)   BY <2>5, UnlockInd
    <2>6. CASE Test(t)     BY <2>6, TestInd
    <2>7. CASE Swap(t)     BY <2>7, SwapInd
    <2>8. CASE Deref(t)    BY <2>8, DerefInd
    <2>9. CASE Delete(t)   BY <2>9, DeleteInd
    <2> QED  BY <1>2, <2>1, <2>2, <2>3, <2>4, <2>5, <2>6, <2>7, <2>8, <2>9 DEF Step
  <1>3. CASE \E a, b \in Endpoints : CallConnect(t, a, b)
    BY <1>3, CallConnectInd
  <1>4. CASE \E a \in Endpoints : CallDisconnect(t, a) \/ CallRelease(t, a)
    BY <1>4, CallDisconnectInd, CallReleaseInd
  <1> QED  BY <1>1, <1>2, <1>3, <1>4

LEMMA StutterInd ==
    ASSUME IndInv, UNCHANGED vars
    PROVE  IndInv'
  <1>1. UNCHANGED <<m_peer, m_refcount, owned, destroyed, s_mutex, todo>>
    BY DEF vars
  <1>2. TypeOK'
    BY <1>1 DEF IndInv, TypeOK
  <1>3. AllOnCourse'
    BY <1>1 DEF IndInv, AllOnCourse, HasCourse, OnCourse, Connecting
  <1>4. Coupled'
    BY <1>1 DEF IndInv, Coupled, Idle
  <1>5. Counted'
    BY <1>1 DEF IndInv, Counted, Held
  <1>6. Condemned'
    BY <1>1 DEF IndInv, Condemned
  <1> QED  BY <1>2, <1>3, <1>4, <1>5, <1>6 DEF IndInv

\* With callers of connect() that hold the common mutex: every thread is on the course of
\* the operation it began, peers are coupled, and every reference is counted for.
THEOREM IndInvAlways ==
    ASSUME CallersLock
    PROVE  Spec => []IndInv
  <1>1. Init => IndInv
    BY InitInd
  <1>2. IndInv /\ [Next]_vars => IndInv'
    BY NextInd, StutterInd
  <1> QED  BY <1>1, <1>2, PTL DEF Spec

-----------------------------------------------------------------------------
(* What follows from it *)

\* When no operation is under way each endpoint is the peer of its peer, whatever
\* connects and disconnects went before.
THEOREM PeersMutualAlways ==
    ASSUME CallersLock
    PROVE  Spec => []PeersMutual
  <1>1. IndInv => PeersMutual
    BY DEF IndInv, Coupled, PeersMutual, Quiet
  <1> QED  BY <1>1, IndInvAlways, PTL

\* When no operation is under way an endpoint has a reference for its owner and one for
\* being connected, no other, and it is deleted exactly when it has none.
THEOREM RefsExactAlways ==
    ASSUME CallersLock
    PROVE  Spec => []RefsExact
  <1>1. ASSUME IndInv, Quiet, NEW x \in Endpoints
        PROVE  /\ m_refcount[x] = (IF owned[x] THEN 1 ELSE 0)
                                  + (IF m_peer[x] # None THEN 1 ELSE 0)
               /\ destroyed[x] <=> m_refcount[x] = 0
    <2>1. \A t \in Threads : todo[t] = <<>>
      BY <1>1 DEF Quiet, Idle
    <2>2. Held(x) = {}
      BY <2>1, IdleHeld DEF Held
    <2>3. Cardinality(Held(x)) = 0
      BY <2>2, FS_EmptySet
    <2>4. m_refcount[x] = (IF owned[x] THEN 1 ELSE 0) + (IF m_peer[x] # None THEN 1 ELSE 0)
                          + Cardinality(Held(x))
      BY <1>1 DEF IndInv, Counted
    <2>5. \A t \in Threads : ~Deletes(todo[t], x)
      BY <2>1, IdleHeld
    <2>6. destroyed[x] <=> m_refcount[x] = 0
      BY <1>1, <2>5 DEF IndInv, Condemned
    <2> QED  BY <2>3, <2>4, <2>6
  <1>2. IndInv => RefsExact
    BY <1>1 DEF RefsExact
  <1> QED  BY <1>2, IndInvAlways, PTL

\* The endpoints of the step a thread is to do next are kept by a reference it will drop
\* later, or are the one it is destroying.
LEMMA StepLive ==
    ASSUME IndInv, NEW t \in Threads, ~Idle(t), NEW e \in Endpoints,
           e = todo[t][1].a \/ e = todo[t][1].b
    PROVE  ~destroyed[e]
  <1>1. PICK f \in Courses :
           \E p \in 0..Len(f), q \in 0..Len(todo[t]), g \in {0, 1, 3} :
              /\ Job(todo[t], f, p, q, g) /\ OnCourse(t, f, p)
              /\ Turn(todo[t], f, p, q, g)
    BY AtWork
  <1>2. PICK p \in 0..Len(f), q \in 0..Len(todo[t]), g \in {0, 1, 3} :
              /\ Job(todo[t], f, p, q, g) /\ OnCourse(t, f, p)
              /\ Turn(todo[t], f, p, q, g)
    BY <1>1
  <1>3. /\ TypeOK /\ Counted /\ Condemned
        /\ todo[t] \in Seq(Steps) /\ todo[t] # <<>> /\ Len(todo[t]) \in Nat \ {0}
        /\ At(todo[t], Len(todo[t])) = todo[t][1] /\ Len(f) \in Nat
    <2>1. todo[t] \in Seq(Steps) /\ todo[t] # <<>>
      BY DEF IndInv, TypeOK, Idle
    <2> QED  BY <2>1, Top, CourseSeq DEF IndInv
  <1>4. ASSUME NEW k \in 1..Len(todo[t]), NEW x \in Endpoints, At(todo[t], k) = Drop(x)
        PROVE  ~destroyed[x]
    BY <1>3, <1>4, DropHeld, HeldAlive
  <1>5. \A x : Drop(x).b = None /\ None \notin Endpoints
    BY Fields, EndpointAssumption DEF Drop
  <1>6. ASSUME NEW x \in Endpoints, todo[t][1] = Drop(x)
        PROVE  ~destroyed[e]
    <2>1. e = x
      BY <1>5, <1>6, Fields
    <2>2. Len(todo[t]) \in 1..Len(todo[t])
      BY <1>3
    <2> QED  BY <1>3, <1>4, <1>6, <2>1, <2>2
  <1>7. ASSUME NEW x \in Endpoints, NEW op, todo[t][1] = S(op, x, None),
               At(todo[t], Len(todo[t]) + 1 - g) = S("delete", x, None), g = 3 \/ g = 1
        PROVE  ~destroyed[e]
    <2>1. e = x
      BY <1>5, <1>7, Fields
    <2>2. Len(todo[t]) = p + q + g
      BY <1>2 DEF Job
    <2>3. Len(todo[t]) + 1 - g \in 1..Len(todo[t])
      BY <1>3, <1>7, <2>2
    <2>4. Deletes(todo[t], x)
      BY <1>7, <2>3 DEF Deletes
    <2> QED  BY <1>3, <2>1, <2>4 DEF Condemned
  <1>8. CASE g = 3 \/ g = 1
    BY <1>2, <1>7, <1>8 DEF Turn, Destroys
  <1>9. CASE g = 0 /\ q > 0
    BY <1>2, <1>6, <1>9 DEF Turn
  <1>10. CASE g = 0 /\ ~(q > 0)
    <2>1. q = 0 /\ p > 0 /\ todo[t][1] = f[p] /\ Len(todo[t]) = p /\ p \in 1..Len(f)
      BY <1>2, <1>3, <1>10 DEF Turn
    <2>2. StepAt(t, f, p, todo[t][1])
      BY <1>2, <2>1, NextStep
    <2>3. ASSUME NEW k \in 1..p, NEW x \in Endpoints, f[k] = Drop(x)
          PROVE  ~destroyed[x]
      <3>1. k \in 1..Len(todo[t]) /\ At(todo[t], k) = Drop(x)
        BY <1>2, <2>1, <2>3 DEF Job
      <3> QED  BY <1>4, <3>1
    <2>4. CASE \E x \in Endpoints : todo[t][1] = Drop(x)
      BY <1>6, <2>4
    <2>5. CASE todo[t][1] = S("unlock", None, None)
      BY <1>5, <2>5, Fields
    <2>6. ASSUME NEW a \in Endpoints, f = Disconnects(a), p = 2 \/ p = 3,
                 todo[t][1].a = a, todo[t][1].b = None
          PROVE  ~destroyed[e]
      <3>1. f[1] = Drop(a) /\ 1 \in 1..p
        BY <2>6 DEF Disconnects
      <3> QED  BY <1>5, <2>3, <2>6, <3>1
    <2>7. ASSUME NEW a \in Endpoints, NEW b \in Endpoints, p >= 4,
                 f = Checks(a, b) \/ f = Connects(a, b),
                 todo[t][1].a \in {a, b}, todo[t][1].b \in {a, b, None}
          PROVE  ~destroyed[e]
      <3>1. f[1] = Drop(b) /\ f[2] = Drop(a)
        BY <2>7 DEF Checks, Connects
      <3>2. 1 \in 1..p /\ 2 \in 1..p
        BY <2>7
      <3>3. ~destroyed[a] /\ ~destroyed[b]
        BY <2>3, <3>1, <3>2
      <3>4. e = a \/ e = b
        BY <1>5, <2>7
      <3> QED  BY <3>3, <3>4
    <2>8. \/ \E x \in Endpoints : todo[t][1] = Drop(x)
          \/ todo[t][1] = S("unlock", None, None)
          \/ \E a \in Endpoints :
                f = Disconnects(a) /\ (p = 2 \/ p = 3) /\ todo[t][1].a = a /\ todo[t][1].b = None
          \/ \E a, b \in Endpoints :
                /\ p >= 4 /\ (f = Checks(a, b) \/ f = Connects(a, b))
                /\ todo[t][1].a \in {a, b} /\ todo[t][1].b \in {a, b, None}
      BY <2>2, Fields DEF StepAt
    <2> QED  BY <2>4, <2>5, <2>6, <2>7, <2>8
  <1> QED  BY <1>2, <1>8, <1>9, <1>10

\* No step works on an endpoint that was deleted, and no endpoint points to one.
THEOREM NoUseAfterDestroyAlways ==
    ASSUME CallersLock
    PROVE  Spec => []NoUseAfterDestroy
  <1>1. ASSUME IndInv, NEW t \in Threads, ~Idle(t)
        PROVE  {todo[t][1].a, todo[t][1].b} \cap {a \in Endpoints : destroyed[a]} = {}
    BY <1>1, StepLive
  <1>2. ASSUME IndInv, NEW a \in Endpoints, destroyed[a]
        PROVE  m_peer[a] = None /\ \A b \in Endpoints : m_peer[b] # a
    <2>1. m_refcount[a] = 0
      BY <1>2 DEF IndInv, Condemned
    <2>2. m_peer[a] = None
      <3>1. /\ IsFiniteSet(Held(a))
            /\ m_refcount[a] = (IF owned[a] THEN 1 ELSE 0) + (IF m_peer[a] # None THEN 1 ELSE 0)
                                + Cardinality(Held(a))
        BY <1>2 DEF IndInv, Counted
      <3>2. Cardinality(Held(a)) \in Nat
        BY <3>1, FS_CardinalityType
      <3> QED  BY <2>1, <3>1, <3>2
    <2>3. ASSUME NEW b \in Endpoints, m_peer[b] = a
          PROVE  FALSE
      <3>1. m_peer[a] # b /\ m_peer[b] # None
        BY <2>2, <2>3, EndpointAssumption
      <3>2. PICK t \in Threads : ~Idle(t) /\ todo[t][1] = S("setPeer", a, b)
        BY <1>2, <2>3, <3>1 DEF IndInv, Coupled
      <3>3. todo[t][1].a = a
        BY <3>2, Fields
      <3> QED  BY <1>2, <3>2, <3>3, StepLive
    <2> QED  BY <2>2, <2>3
  <1>3. IndInv => NoUseAfterDestroy
    BY <1>1, <1>2 DEF NoUseAfterDestroy
  <1> QED  BY <1>3, IndInvAlways, PTL

-----------------------------------------------------------------------------
(* Types, whether or not the callers lock *)

\* A step that works on an endpoint names one, and one that needs a peer names it.
Proper(s) ==
    /\ s.op # "unlock" => s.a \in Endpoints
    /\ s.op \in {"check", "ref", "refPeer", "set", "setPeer"} => s.b \in Endpoints

ProperSteps == {s \in Steps : Proper(s)}

TypeInv == TypeOK /\ todo \in [Threads -> Seq(ProperSteps)]

LEMMA ProperTypes ==
    /\ \A a, b \in Endpoints : \A op \in Ops : S(op, a, b) \in ProperSteps
    /\ \A a \in Endpoints : \A op \in {"test", "swap", "deref", "delete"} :
          S(op, a, None) \in ProperSteps
    /\ S("unlock", None, None) \in ProperSteps
  BY DEF ProperSteps, Steps, Proper, S, Ops

\* Going on with proper steps.
LEMMA GoProper ==
    ASSUME TypeInv, NEW t \in Threads, NEW s \in Seq(ProperSteps), NEW n \in Nat, Go(t, s, n)
    PROVE  todo' \in [Threads -> Seq(ProperSteps)] /\ todo' \in [Threads -> Seq(Steps)]
  <1>1. todo[t] \in Seq(ProperSteps) /\ Len(todo[t]) \in Nat
    BY DEF TypeInv
  <1>2. SubSeq(todo[t], n + 1, Len(todo[t])) \in Seq(ProperSteps)
    BY <1>1
  <1>3. s \o SubSeq(todo[t], n + 1, Len(todo[t])) \in Seq(ProperSteps)
    BY <1>2
  <1>4. todo' \in [Threads -> Seq(ProperSteps)]
    BY <1>3 DEF Go, TypeInv
  <1>5. \A u \in Threads : todo'[u] \in Seq(Steps)
    <2>1. ASSUME NEW u \in Threads
          PROVE  todo'[u] \in Seq(Steps)
      <3>1. todo'[u] \in Seq(ProperSteps)
        BY <1>4
      <3>2. ProperSteps \subseteq Steps
        BY DEF ProperSteps
      <3> QED  BY <3>1, <3>2
    <2> QED  BY <2>1
  <1>6. todo' = [u \in Threads |-> todo'[u]]
    BY <1>4
  <1> QED  BY <1>4, <1>5, <1>6

\* The first step of a thread is a proper one.
LEMMA HeadProper ==
    ASSUME TypeInv, NEW t \in Threads, ~Idle(t)
    PROVE  /\ todo[t][1] \in Steps
           /\ todo[t][1].op # "unlock" => todo[t][1].a \in Endpoints
           /\ todo[t][1].op \in {"check", "ref", "refPeer", "set", "setPeer"}
              => todo[t][1].b \in Endpoints
  <1>1. todo[t] \in Seq(ProperSteps) /\ todo[t] # <<>>
    BY DEF TypeInv, Idle
  <1>2. todo[t][1] \in ProperSteps
    BY <1>1
  <1> QED  BY <1>2 DEF ProperSteps, Proper

\* The lists of steps that are put in front.
LEMMA ProperLists ==
    ASSUME NEW a \in Endpoints, NEW b \in Endpoints
    PROVE  /\ <<>> \in Seq(ProperSteps)
           /\ <<S("deref", a, None)>> \in Seq(ProperSteps)
           /\ <<S("deref", a, None)>> \o <<S("deref", b, None)>> \in Seq(ProperSteps)
           /\ <<S("deref", a, None)>> \o <<>> \in Seq(ProperSteps)
           /\ Disconnect(a) \o <<S("delete", a, None)>> \in Seq(ProperSteps)
           /\ Disconnect(a) \o <<S("deref", a, None)>> \in Seq(ProperSteps)
           /\ Connect(a, b) \in Seq(ProperSteps)
           /\ <<S("check", a, b)>> \o Release(<<S("deref", a, None), S("deref", b, None)>>)
              \in Seq(ProperSteps)
  <1>1. \A x \in {a, b} : /\ S("test", x, None) \in ProperSteps
                          /\ S("swap", x, None) \in ProperSteps
                          /\ S("deref", x, None) \in ProperSteps
                          /\ S("delete", x, None) \in ProperSteps
    BY ProperTypes
  <1>2. /\ S("check", a, b) \in ProperSteps /\ S("ref", a, b) \in ProperSteps
        /\ S("refPeer", a, b) \in ProperSteps /\ S("set", a, b) \in ProperSteps
        /\ S("setPeer", b, a) \in ProperSteps /\ S("unlock", None, None) \in ProperSteps
    BY ProperTypes DEF Ops
  <1>3. ASSUME NEW u \in Seq(ProperSteps), NEW v \in Seq(ProperSteps)
        PROVE  u \o v \in Seq(ProperSteps)
    OBVIOUS
  <1>4. /\ <<>> \in Seq(ProperSteps)
        /\ <<S("deref", a, None)>> \in Seq(ProperSteps)
        /\ <<S("deref", b, None)>> \in Seq(ProperSteps)
        /\ <<S("delete", a, None)>> \in Seq(ProperSteps)
        /\ <<S("ref", a, b)>> \in Seq(ProperSteps)
        /\ <<S("refPeer", a, b)>> \in Seq(ProperSteps)
        /\ <<S("check", a, b)>> \in Seq(ProperSteps)
        /\ <<S("unlock", None, None)>> \in Seq(ProperSteps)
    BY <1>1, <1>2
  <1>5. /\ <<S("set", a, b), S("setPeer", b, a)>> \in Seq(ProperSteps)
        /\ <<S("deref", a, None), S("deref", b, None)>> \in Seq(ProperSteps)
    BY <1>1, <1>2
  <1>6. Disconnect(a) \in Seq(ProperSteps) /\ Disconnect(b) \in Seq(ProperSteps)
    BY <1>1 DEF Disconnect
  <1>7. Connect(a, b) \in Seq(ProperSteps)
    <2>1. <<S("ref", a, b)>> \o Disconnect(a) \in Seq(ProperSteps)
      BY <1>3, <1>4, <1>6
    <2>2. <<S("ref", a, b)>> \o Disconnect(a) \o <<S("refPeer", a, b)>> \in Seq(ProperSteps)
      BY <1>3, <1>4, <2>1
    <2>3. <<S("ref", a, b)>> \o Disconnect(a) \o <<S("refPeer", a, b)>> \o Disconnect(b)
          \in Seq(ProperSteps)
      BY <1>3, <1>6, <2>2
    <2> QED  BY <1>3, <1>5, <2>3 DEF Connect
  <1>8. Release(<<S("deref", a, None), S("deref", b, None)>>) \in Seq(ProperSteps)
    BY <1>3, <1>4, <1>5 DEF Release
  <1> QED  BY <1>3, <1>4, <1>6, <1>7, <1>8

\* Every step of a thread and every operation keeps the types.
LEMMA TypeNext ==
    ASSUME TypeInv, Next
    PROVE  TypeInv'
  <1>1. /\ m_peer \in [Endpoints -> Endpoints \cup {None}]
        /\ m_refcount \in [Endpoints -> Nat]
        /\ owned \in [Endpoints -> BOOLEAN] /\ destroyed \in [Endpoints -> BOOLEAN]
        /\ s_mutex \in Threads \cup {None}
        /\ todo \in [Threads -> Seq(ProperSteps)]
    BY DEF TypeInv, TypeOK
  <1>2. PICK t \in Threads :
           \/ Step(t)
           \/ \E a, b \in Endpoints : CallConnect(t, a, b)
           \/ \E a \in Endpoints : CallDisconnect(t, a) \/ CallRelease(t, a)
    BY DEF Next
  <1> DEFINE s == todo[t][1]
  <1>3. ASSUME NEW v \in Seq(ProperSteps), NEW n \in Nat, Go(t, v, n)
        PROVE  todo' \in [Threads -> Seq(ProperSteps)] /\ todo' \in [Threads -> Seq(Steps)]
    BY <1>3, GoProper
  <1>4. <<>> \in Seq(ProperSteps)
    OBVIOUS
  <1>5. CASE Check(t)
    <2>1. s.a \in Endpoints /\ s.b \in Endpoints
      BY <1>5, HeadProper DEF Check, Now
    <2>2. Go(t, <<>>, 1) \/ Go(t, Connect(s.a, s.b), 1)
      BY <1>5 DEF Check
    <2>3. Connect(s.a, s.b) \in Seq(ProperSteps)
      BY <2>1, ProperLists
    <2>4. todo' \in [Threads -> Seq(ProperSteps)] /\ todo' \in [Threads -> Seq(Steps)]
      BY <1>3, <1>4, <2>2, <2>3
    <2> QED  BY <1>1, <1>5, <2>4 DEF Check, TypeInv, TypeOK
  <1>6. CASE Ref(t)
    <2>1. s.a \in Endpoints
      BY <1>6, HeadProper DEF Ref, Now
    <2>2. Len(Connect(s.a, s.a)) \in Nat
      <3>1. Connect(s.a, s.a) \in Seq(ProperSteps)
        BY <2>1, ProperLists
      <3> QED  BY <3>1
    <2>3. Go(t, <<>>, 1) \/ Go(t, <<>>, Len(Connect(s.a, s.a)))
      BY <1>6 DEF Ref
    <2>4. todo' \in [Threads -> Seq(ProperSteps)] /\ todo' \in [Threads -> Seq(Steps)]
      BY <1>3, <1>4, <2>2, <2>3
    <2>5. m_refcount' \in [Endpoints -> Nat]
      <3>1. m_refcount' = m_refcount \/ m_refcount' = [m_refcount EXCEPT ![s.a] = @ + 1]
        BY <1>6 DEF Ref
      <3>2. m_refcount \in [Endpoints -> Nat] /\ s.a \in Endpoints
        BY <1>1, <2>1
      <3> DEFINE e == s.a
      <3> HIDE DEF s, e
      <3>3. ASSUME e \in Endpoints, m_refcount' = [m_refcount EXCEPT ![e] = @ + 1]
            PROVE  m_refcount' \in [Endpoints -> Nat]
        BY <3>2, <3>3
      <3> QED  BY <3>1, <3>2, <3>3 DEF e
    <2> QED  BY <1>1, <1>6, <2>4, <2>5 DEF Ref, TypeInv, TypeOK
  <1>7. CASE RefPeer(t)
    <2>1. s.a \in Endpoints /\ s.b \in Endpoints
      BY <1>7, HeadProper DEF RefPeer, Now
    <2>2. Go(t, <<>>, 1) \/ Go(t, <<S("deref", s.a, None)>>, 5)
      BY <1>7 DEF RefPeer
    <2>3. <<S("deref", s.a, None)>> \in Seq(ProperSteps)
      BY <2>1, ProperLists
    <2>4. todo' \in [Threads -> Seq(ProperSteps)] /\ todo' \in [Threads -> Seq(Steps)]
      BY <1>3, <1>4, <2>2, <2>3
    <2>5. m_refcount' \in [Endpoints -> Nat]
      <3>1. m_refcount' = m_refcount \/ m_refcount' = [m_refcount EXCEPT ![s.b] = @ + 1]
        BY <1>7 DEF RefPeer
      <3>2. m_refcount \in [Endpoints -> Nat] /\ s.b \in Endpoints
        BY <1>1, <2>1
      <3> DEFINE e == s.b
      <3> HIDE DEF s, e
      <3>3. ASSUME e \in Endpoints, m_refcount' = [m_refcount EXCEPT ![e] = @ + 1]
            PROVE  m_refcount' \in [Endpoints -> Nat]
        BY <3>2, <3>3
      <3> QED  BY <3>1, <3>2, <3>3 DEF e
    <2> QED  BY <1>1, <1>7, <2>4, <2>5 DEF RefPeer, TypeInv, TypeOK
  <1>8. CASE SetPeer(t)
    <2>1. s.a \in Endpoints /\ s.b \in Endpoints
      BY <1>8, HeadProper DEF SetPeer, Now
    <2>2. todo' \in [Threads -> Seq(ProperSteps)] /\ todo' \in [Threads -> Seq(Steps)]
      BY <1>3, <1>4, <1>8 DEF SetPeer
    <2>3. m_peer' \in [Endpoints -> Endpoints \cup {None}]
      BY <1>1, <1>8, <2>1 DEF SetPeer
    <2> QED  BY <1>1, <1>8, <2>2, <2>3 DEF SetPeer, TypeInv, TypeOK
  <1>9. CASE Unlock(t)
    <2>1. todo' \in [Threads -> Seq(ProperSteps)] /\ todo' \in [Threads -> Seq(Steps)]
      BY <1>3, <1>4, <1>9 DEF Unlock
    <2> QED  BY <1>1, <1>9, <2>1 DEF Unlock, TypeInv, TypeOK
  <1>10. CASE Test(t)
    <2>1. Go(t, <<>>, 1) \/ Go(t, <<>>, 2)
      BY <1>10 DEF Test
    <2>2. todo' \in [Threads -> Seq(ProperSteps)] /\ todo' \in [Threads -> Seq(Steps)]
      BY <1>3, <1>4, <2>1
    <2> QED  BY <1>1, <1>10, <2>2 DEF Test, TypeInv, TypeOK
  <1>11. CASE Swap(t)
    <2> DEFINE d == m_peer[s.a]
    <2>1. s.a \in Endpoints /\ d \in Endpoints \cup {None}
      BY <1>1, <1>11, HeadProper DEF Swap, Now
    <2>2. CASE d = None
      <3>1. Go(t, <<>>, 1) /\ m_peer' = m_peer
        BY <1>11, <2>2 DEF Swap
      <3>2. todo' \in [Threads -> Seq(ProperSteps)] /\ todo' \in [Threads -> Seq(Steps)]
        BY <1>3, <1>4, <3>1
      <3> QED  BY <1>1, <1>11, <3>1, <3>2 DEF Swap, TypeInv, TypeOK
    <2>3. CASE d # None
      <3>1. /\ \/ Go(t, <<S("deref", d, None)>> \o <<S("deref", s.a, None)>>, 1)
               \/ Go(t, <<S("deref", d, None)>> \o <<>>, 1)
            /\ m_peer' = [m_peer EXCEPT ![s.a] = None, ![d] = None]
        BY <1>11, <2>3 DEF Swap
      <3>2. /\ <<S("deref", d, None)>> \o <<S("deref", s.a, None)>> \in Seq(ProperSteps)
            /\ <<S("deref", d, None)>> \o <<>> \in Seq(ProperSteps)
        BY <2>1, <2>3, ProperLists
      <3>3. todo' \in [Threads -> Seq(ProperSteps)] /\ todo' \in [Threads -> Seq(Steps)]
        BY <1>3, <3>1, <3>2
      <3>4. m_peer' \in [Endpoints -> Endpoints \cup {None}]
        BY <1>1, <3>1
      <3> QED  BY <1>1, <1>11, <3>3, <3>4 DEF Swap, TypeInv, TypeOK
    <2> QED  BY <2>2, <2>3
  <1>12. CASE Deref(t)
    <2>1. s.a \in Endpoints
      BY <1>12, HeadProper DEF Deref, Now
    <2>2. Go(t, <<>>, 1) \/ Go(t, Disconnect(s.a) \o <<S("delete", s.a, None)>>, 1)
      BY <1>12 DEF Deref
    <2>3. Disconnect(s.a) \o <<S("delete", s.a, None)>> \in Seq(ProperSteps)
      BY <2>1, ProperLists
    <2>4. todo' \in [Threads -> Seq(ProperSteps)] /\ todo' \in [Threads -> Seq(Steps)]
      BY <1>3, <1>4, <2>2, <2>3
    <2>5. m_refcount' \in [Endpoints -> Nat]
      BY <1>1, <1>12, <2>1 DEF Deref
    <2> QED  BY <1>1, <1>12, <2>4, <2>5 DEF Deref, TypeInv, TypeOK
  <1>13. CASE Delete(t)
    <2>1. todo' \in [Threads -> Seq(ProperSteps)] /\ todo' \in [Threads -> Seq(Steps)]
      BY <1>3, <1>4, <1>13 DEF Delete
    <2>2. destroyed' \in [Endpoints -> BOOLEAN]
      BY <1>1, <1>13 DEF Delete
    <2> QED  BY <1>1, <1>13, <2>1, <2>2 DEF Delete, TypeInv, TypeOK
  <1>14. ASSUME NEW v \in Seq(ProperSteps), todo' = [todo EXCEPT ![t] = v]
         PROVE  todo' \in [Threads -> Seq(ProperSteps)] /\ todo' \in [Threads -> Seq(Steps)]
    <2>1. ProperSteps \subseteq Steps
      BY DEF ProperSteps
    <2>2. v \in Seq(Steps)
      BY <2>1
    <2>3. todo \in [Threads -> Seq(Steps)]
      BY DEF TypeInv, TypeOK
    <2> QED  BY <1>1, <1>14, <2>2, <2>3
  <1>15. ASSUME NEW a \in Endpoints, NEW b \in Endpoints, CallConnect(t, a, b)
         PROVE  TypeInv'
    <2>1. <<S("check", a, b)>> \o Release(<<S("deref", a, None), S("deref", b, None)>>)
          \in Seq(ProperSteps)
      BY ProperLists
    <2>2. todo' \in [Threads -> Seq(ProperSteps)] /\ todo' \in [Threads -> Seq(Steps)]
      BY <1>14, <1>15, <2>1 DEF CallConnect
    <2>3. m_refcount' \in [Endpoints -> Nat]
      <3>1. m_refcount' = [m_refcount EXCEPT ![a] = @ + 1, ![b] = @ + 1]
        BY <1>15 DEF CallConnect
      <3> QED  BY <1>1, <3>1
    <2>4. s_mutex' \in Threads \cup {None}
      <3>1. s_mutex' = t \/ s_mutex' = s_mutex
        BY <1>15 DEF CallConnect
      <3> QED  BY <1>1, <3>1
    <2> QED  BY <1>1, <1>15, <2>2, <2>3, <2>4 DEF CallConnect, TypeInv, TypeOK
  <1>16. ASSUME NEW a \in Endpoints, CallDisconnect(t, a)
         PROVE  TypeInv'
    <2>1. Disconnect(a) \o <<S("deref", a, None)>> \in Seq(ProperSteps)
      BY ProperLists
    <2>2. todo' \in [Threads -> Seq(ProperSteps)] /\ todo' \in [Threads -> Seq(Steps)]
      BY <1>14, <1>16, <2>1 DEF CallDisconnect
    <2>3. m_refcount' \in [Endpoints -> Nat]
      BY <1>1, <1>16 DEF CallDisconnect
    <2> QED  BY <1>1, <1>16, <2>2, <2>3 DEF CallDisconnect, TypeInv, TypeOK
  <1>17. ASSUME NEW a \in Endpoints, CallRelease(t, a)
         PROVE  TypeInv'
    <2>1. <<S("deref", a, None)>> \in Seq(ProperSteps)
      BY ProperLists
    <2>2. todo' \in [Threads -> Seq(ProperSteps)] /\ todo' \in [Threads -> Seq(Steps)]
      BY <1>14, <1>17, <2>1 DEF CallRelease
    <2>3. owned' \in [Endpoints -> BOOLEAN]
      BY <1>1, <1>17 DEF CallRelease
    <2> QED  BY <1>1, <1>17, <2>2, <2>3 DEF CallRelease, TypeInv, TypeOK
  <1> QED  BY <1>2, <1>5, <1>6, <1>7, <1>8, <1>9, <1>10, <1>11, <1>12, <1>13, <1>15, <1>16, <1>17
           DEF Step

\* Also when callers of connect() do not lock, every variable keeps its type and every
\* step names the endpoints it works on.
THEOREM TypeOKAlways == Spec => []TypeOK
  <1>1. Init => TypeInv
    BY DEF Init, TypeInv, TypeOK
  <1>2. TypeInv /\ [Next]_vars => TypeInv'
    <2>1. ASSUME TypeInv, UNCHANGED vars
          PROVE  TypeInv'
      BY <2>1 DEF vars, TypeInv, TypeOK
    <2> QED  BY <2>1, TypeNext
  <1>3. TypeInv => TypeOK
    BY DEF TypeInv
  <1> QED  BY <1>1, <1>2, <1>3, PTL DEF Spec

=============================================================================
