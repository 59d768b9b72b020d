----------------------------- MODULE Q921Proofs -----------------------------
(***************************************************************************)
(* Proofs about Q921, for any modulus, window, number of retransmissions   *)
(* and capacity of the line: the types, that no end waits without a timer, *)
(* and that layer 3 comes to know of every release.                        *)
(***************************************************************************)
EXTENDS Q921, FiniteSetTheorems, SequenceTheorems, WellFoundedInduction, TLAPS

(***************************************************************************)
(* Sides, numbers and sequences                                            *)
(***************************************************************************)

LEMMA PeerFacts == ASSUME NEW s \in Sides PROVE Peer(s) \in Sides /\ Peer(s) # s
  <1>1. \E p \in Sides : p # s
    <2> SUFFICES ASSUME \A p \in Sides : p = s PROVE FALSE
      OBVIOUS
    <2>1. Sides = {s}
      OBVIOUS
    <2> QED  BY <2>1, FS_Singleton, SideAssumption
  <1> QED  BY <1>1 DEF Peer

LEMMA NumberFacts ==
    /\ 0 \in Numbers /\ Numbers \subseteq Nat
    /\ \A n \in Numbers : Increment(n) \in Numbers
    /\ Retransmissions \in Nat /\ LineSize \in Nat /\ MaxPending \in Nat
  BY NumberAssumption DEF Numbers, Increment

Below == {pair \in Nat \X Nat : pair[1] < pair[2]}

LEMMA BelowWellFounded == IsWellFoundedOn(Below, Nat)
  BY NatLessThanWellFounded DEF OpToRel, Below

\* A set of numbers that is not empty has a smallest one, which is Min.
LEMMA MinFacts ==
    ASSUME NEW S, S \subseteq Nat, S # {}
    PROVE  Min(S) \in S /\ \A k \in S : Min(S) <= k
  <1>1. PICK m \in S : \A k \in S : <<k, m>> \notin Below
    BY BelowWellFounded, WFMin
  <1>2. ASSUME NEW k \in S PROVE m <= k
    <2>1. k \in Nat /\ m \in Nat
      OBVIOUS
    <2>2. ~(k < m)
      BY <1>1, <2>1 DEF Below
    <2> QED  BY <2>1, <2>2
  <1> QED  BY <1>2 DEF Min

\* A part of a sequence.
LEMMA PartFacts ==
    ASSUME NEW S, NEW q \in Seq(S), NEW m \in Nat, NEW n \in Nat, m >= 1, n <= Len(q)
    PROVE  /\ SubSeq(q, m, n) \in Seq(S)
           /\ Len(SubSeq(q, m, n)) \in Nat /\ Len(SubSeq(q, m, n)) <= n
  <1>1. \A i \in m..n : q[i] \in S
    BY ElementOfSeq, LenProperties
  <1>2. /\ SubSeq(q, m, n) \in Seq(S)
        /\ Len(SubSeq(q, m, n)) = IF m <= n THEN n - m + 1 ELSE 0
    BY <1>1, SubSeqProperties
  <1> QED  BY <1>2

(***************************************************************************)
(* Frames and the line                                                     *)
(***************************************************************************)

Lines == {q \in [Sides -> Seq(Frame)] : \A s \in Sides : Len(q[s]) <= LineSize}

LEMMA UFrames ==
    ASSUME NEW type \in {"SABME", "DISC", "UA", "DM"}
    PROVE  U(type) \in Frame /\ <<U(type)>> \in Seq(Frame)
  <1>1. (type \in {"SABME", "DISC"}) \in BOOLEAN
    OBVIOUS
  <1>2. U(type) \in Frame
    BY <1>1, NumberFacts DEF U, Frame
  <1> QED  BY <1>2

LEMMA SFrames ==
    ASSUME NEW l \in Link, NEW cmd \in BOOLEAN, NEW pf \in BOOLEAN
    PROVE  /\ RR(l, cmd, pf) \in Frame /\ <<RR(l, cmd, pf)>> \in Seq(Frame)
           /\ REJ(l) \in Frame /\ <<REJ(l)>> \in Seq(Frame)
  <1>1. RR(l, cmd, pf) \in Frame /\ RR(l, TRUE, TRUE) \in Frame
    BY NumberFacts DEF RR, Frame, Link
  <1>2. REJ(l) \in Frame
    BY <1>1 DEF REJ, Frame
  <1> QED  BY <1>1, <1>2

LEMMA IFrames ==
    ASSUME NEW l \in Link, NEW f \in [ns : Numbers, data : Nat]
    PROVE  I(l, f) \in Frame /\ <<I(l, f)>> \in Seq(Frame)
  <1>1. I(l, f) \in Frame
    BY NumberFacts DEF I, Frame, Link
  <1> QED  BY <1>1

LEMMA AllDataFrames == ASSUME NEW l \in Link PROVE AllData(l) \in Seq(Frame)
  <1>1. l.out \in Seq([ns : Numbers, data : Nat])
    BY DEF Link
  <1>2. /\ DOMAIN l.out = 1..Len(l.out) /\ Len(l.out) \in Nat
        /\ \A i \in 1..Len(l.out) : l.out[i] \in [ns : Numbers, data : Nat]
    BY <1>1, LenProperties, ElementOfSeq
  <1>3. AllData(l) \in [1..Len(l.out) -> Frame]
    BY <1>2, IFrames DEF AllData
  <1> QED  BY <1>2, <1>3, SeqDef

\* What one end puts on the line, as far as there is room.
LEMMA PutFacts ==
    ASSUME NEW s \in Sides, NEW q \in Lines, NEW frames \in Seq(Frame)
    PROVE  Put(s, q, frames) \in Lines
  <1> DEFINE all == q[Peer(s)] \o frames
             n == Min({Len(all), LineSize})
  <1>1. Peer(s) \in Sides /\ q[Peer(s)] \in Seq(Frame)
    BY PeerFacts DEF Lines
  <1>2. all \in Seq(Frame) /\ Len(all) \in Nat
    BY <1>1, ConcatProperties, LenProperties
  <1>3. n \in Nat /\ n <= Len(all) /\ n <= LineSize
    BY <1>2, NumberFacts, MinFacts
  <1> DEFINE part == SubSeq(all, 1, n)
  <1>5. Put(s, q, frames) = [q EXCEPT ![Peer(s)] = part]
    BY DEF Put
  <1> HIDE DEF all, n
  <1>4. part \in Seq(Frame) /\ Len(part) <= LineSize
    <2>0. 1 \in Nat /\ 1 >= 1
      OBVIOUS
    <2>1. part \in Seq(Frame) /\ Len(part) \in Nat /\ Len(part) <= n
      BY <1>2, <1>3, <2>0, PartFacts, Zenon
    <2> HIDE DEF part
    <2> QED  BY <1>3, <2>1, NumberFacts
  <1> HIDE DEF part
  <1> QED  BY <1>1, <1>4, <1>5 DEF Lines

\* The next frame is taken off the line.
LEMMA RestFacts ==
    ASSUME TypeOK, NEW s \in Sides, line[s] # <<>>
    PROVE  Rest(s) \in Lines
  <1>1. line \in [Sides -> Seq(Frame)] /\ Len(line[s]) <= LineSize /\ Len(line[s]) \in Nat
    BY LenProperties DEF TypeOK
  <1>2. Tail(line[s]) \in Seq(Frame) /\ Len(Tail(line[s])) <= LineSize
    BY <1>1, HeadTailProperties, NumberFacts
  <1> QED  BY <1>1, <1>2 DEF Rest, Lines, TypeOK

(***************************************************************************)
(* The pieces of a handler                                                 *)
(***************************************************************************)

\* An end that is not released has one of its timers running.
Timed(l) == l.state # "Released" => l.t200 # l.t203

Good(l) == l \in Link /\ Len(l.out) <= MaxPending /\ Timed(l)

LEMMA TimerFacts ==
    ASSUME NEW l \in Link, NEW idle \in BOOLEAN
    PROVE  /\ StartT200(l) \in Link /\ StopT200(l, idle) \in Link
           /\ StartT200(l).out = l.out /\ StopT200(l, idle).out = l.out
           /\ StartT200(l).state = l.state /\ StopT200(l, idle).state = l.state
           /\ StartT200(l).t200 = TRUE /\ StartT200(l).t203 = FALSE
           /\ StopT200(l, idle).t200 = FALSE /\ StopT200(l, idle).t203 = idle
           /\ StopT200(l, idle).lastPF = l.lastPF /\ StopT200(l, idle).recovery = l.recovery
           /\ StartT200(l).lastPF = l.lastPF /\ StartT200(l).recovery = l.recovery
  <1>1. 0 \in 0..Retransmissions
    BY NumberFacts
  <1> QED  BY <1>1 DEF StartT200, StopT200, Link

LEMMA EnterFacts ==
    ASSUME NEW l \in Link, NEW state \in States
    PROVE  /\ Enter(l, state) \in Link /\ Enter(l, state).state = state
           /\ Enter(l, state).out = <<>>
  <1> DEFINE k == StopT200(l, FALSE)
  <1>1. k \in Link /\ 0 \in Numbers
    BY TimerFacts, NumberFacts
  <1>2. <<>> \in Seq([ns : Numbers, data : Nat])
    BY EmptySeq
  <1>3. Reset(l) = [k EXCEPT
                !.recovery = FALSE, !.rejectSent = FALSE, !.lastPF = FALSE,
                !.out = <<>>, !.va = 0, !.vs = 0, !.vr = 0]
    BY DEF Reset
  <1> HIDE DEF k
  <1>4. Reset(l) \in Link /\ Reset(l).out = <<>>
    BY <1>1, <1>2, <1>3 DEF Link
  <1> QED  BY <1>4 DEF Enter, Link

\* The states that the handlers go to by reset().
LEMMA EnteredIsGood ==
    ASSUME NEW l \in Link
    PROVE  /\ Good(Enter(l, "Released")) /\ Enter(l, "Released").state = "Released"
           /\ Good(Ask(l)) /\ Ask(l).state = "WaitEstablish"
           /\ Good(StopT200(Enter(l, "Established"), TRUE))
           /\ StopT200(Enter(l, "Established"), TRUE).state = "Established"
  <1>1. {"Released", "WaitEstablish", "Established"} \subseteq States
    BY DEF States
  <1>2. Len(<<>>) <= MaxPending
    BY NumberFacts
  <1>3. Good(Enter(l, "Released")) /\ Enter(l, "Released").state = "Released"
    BY <1>1, <1>2, EnterFacts DEF Good, Timed
  <1>4. Good(Ask(l)) /\ Ask(l).state = "WaitEstablish"
    <2> DEFINE w == Enter(l, "WaitEstablish")
    <2>1. w \in Link /\ w.state = "WaitEstablish" /\ w.out = <<>>
      BY <1>1, EnterFacts
    <2> HIDE DEF w
    <2>2. /\ StartT200(w) \in Link /\ StartT200(w).out = <<>>
          /\ StartT200(w).state = "WaitEstablish"
          /\ StartT200(w).t200 = TRUE /\ StartT200(w).t203 = FALSE
      BY <2>1, TimerFacts
    <2>3. Good(StartT200(w))
      BY <1>2, <2>2 DEF Good, Timed
    <2> QED  BY <2>2, <2>3 DEF Ask, w
  <1>5. /\ Good(StopT200(Enter(l, "Established"), TRUE))
        /\ StopT200(Enter(l, "Established"), TRUE).state = "Established"
    <2> DEFINE w == Enter(l, "Established")
    <2>1. w \in Link /\ w.state = "Established" /\ w.out = <<>>
      BY <1>1, EnterFacts
    <2> HIDE DEF w
    <2>2. /\ StopT200(w, TRUE) \in Link /\ StopT200(w, TRUE).out = <<>>
          /\ StopT200(w, TRUE).state = "Established"
          /\ StopT200(w, TRUE).t200 = FALSE /\ StopT200(w, TRUE).t203 = TRUE
      BY <2>1, TimerFacts
    <2>3. Good(StopT200(w, TRUE))
      BY <1>2, <2>2 DEF Good, Timed
    <2> QED  BY <2>2, <2>3 DEF w
  <1> QED  BY <1>3, <1>4, <1>5

\* ackOutgoingFrames(): the timers are as they were, or T200 runs, or - when a whole queue
\* is acknowledged, and not by a frame that ends a poll - none does.
LEMMA AckOutgoingFacts ==
    ASSUME NEW l, Good(l), l.state # "Released", NEW f \in Frame
    PROVE  LET a == AckOutgoing(l, f)
           IN  /\ a \in Link /\ Len(a.out) <= MaxPending /\ a.state = l.state
               /\ a.t200 # a.t203 \/ (~a.t200 /\ ~a.t203)
               /\ (f.type # "I" /\ l.lastPF) \/ l.recovery => a.t200 # a.t203
               /\ a.lastPF = l.lastPF /\ a.recovery = l.recovery
  <1> DEFINE same == {i \in DOMAIN l.out : l.out[i].ns = f.nr}
             n == IF same = {} THEN Len(l.out) ELSE Min(same) - 1
             kept == [l EXCEPT !.out = SubSeq(@, n + 1, Len(@))]
             calm == IF n > 0 /\ ~l.recovery /\ ~(f.type # "I" /\ l.lastPF)
                     THEN StopT200(kept, FALSE) ELSE kept
  <1>1. /\ l \in Link /\ l.out \in Seq([ns : Numbers, data : Nat])
        /\ Len(l.out) \in Nat /\ DOMAIN l.out = 1..Len(l.out) /\ Len(l.out) <= MaxPending
        /\ l.t200 \in BOOLEAN /\ l.t203 \in BOOLEAN /\ l.t200 # l.t203
    BY LenProperties DEF Good, Timed, Link
  <1>2. n \in Nat
    <2>1. same \subseteq Nat /\ \A i \in same : i >= 1
      BY <1>1
    <2>2. CASE same = {}
      BY <1>1, <2>2
    <2>3. CASE same # {}
      <3>1. Min(same) \in same
        BY <2>1, <2>3, MinFacts
      <3>2. Min(same) \in Nat /\ Min(same) >= 1
        BY <2>1, <3>1
      <3> HIDE DEF same
      <3> QED  BY <2>3, <3>2
    <2> QED  BY <2>2, <2>3
  <1> HIDE DEF n
  <1> DEFINE rest == SubSeq(l.out, n + 1, Len(l.out))
  <1>3. rest \in Seq([ns : Numbers, data : Nat]) /\ Len(rest) <= MaxPending
    <2>1. /\ rest \in Seq([ns : Numbers, data : Nat])
          /\ Len(rest) \in Nat /\ Len(rest) <= Len(l.out)
      <3>1. n + 1 \in Nat /\ n + 1 >= 1 /\ Len(l.out) <= Len(l.out)
        BY <1>1, <1>2
      <3> QED  BY <1>1, <3>1, PartFacts, Zenon
    <2> QED  BY <1>1, <2>1, NumberFacts
  <1> HIDE DEF rest
  <1>4. /\ kept \in Link /\ kept.out = rest /\ kept.state = l.state
        /\ kept.t200 = l.t200 /\ kept.t203 = l.t203
        /\ kept.lastPF = l.lastPF /\ kept.recovery = l.recovery
    <2>1. kept = [l EXCEPT !.out = rest]
      BY DEF rest
    <2> QED  BY <1>1, <1>3, <2>1 DEF Link
  <1> HIDE DEF kept
  <1>5. /\ calm \in Link /\ calm.out = rest /\ calm.state = l.state
        /\ calm.lastPF = l.lastPF /\ calm.recovery = l.recovery
        /\ \/ calm = kept
           \/ (~calm.t200 /\ ~calm.t203 /\ ~l.recovery /\ ~(f.type # "I" /\ l.lastPF))
    <2>1. /\ StopT200(kept, FALSE) \in Link /\ StopT200(kept, FALSE).out = rest
          /\ StopT200(kept, FALSE).state = l.state
          /\ ~StopT200(kept, FALSE).t200 /\ ~StopT200(kept, FALSE).t203
          /\ StopT200(kept, FALSE).lastPF = l.lastPF
          /\ StopT200(kept, FALSE).recovery = l.recovery
      BY <1>4, TimerFacts
    <2> QED  BY <1>4, <2>1
  <1>6. AckOutgoing(l, f) = IF calm.out # <<>> /\ ~calm.t200 THEN StartT200(calm) ELSE calm
    BY DEF AckOutgoing, calm, kept, n
  <1> HIDE DEF calm
  <1>7. CASE calm.out # <<>> /\ ~calm.t200
    <2> DEFINE r == StartT200(calm)
    <2>1. /\ r \in Link /\ r.out = rest /\ r.state = l.state
          /\ r.t200 = TRUE /\ r.t203 = FALSE
          /\ r.lastPF = l.lastPF /\ r.recovery = l.recovery
      BY <1>5, TimerFacts
    <2>2. AckOutgoing(l, f) = r
      BY <1>6, <1>7
    <2> HIDE DEF r
    <2> QED  BY <1>3, <2>1, <2>2
  <1>8. CASE ~(calm.out # <<>> /\ ~calm.t200)
    BY <1>1, <1>3, <1>4, <1>5, <1>6, <1>8
  <1> QED  BY <1>7, <1>8

(***************************************************************************)
(* The shapes of a step                                                    *)
(***************************************************************************)

HistoryTypes ==
    /\ accepted \in [Sides -> Nat] /\ delivered \in [Sides -> Nat]
    /\ cut \in [Sides -> BOOLEAN] /\ lost \in [Sides -> SUBSET Nat]

NoteTypes ==
    /\ note \in [Sides -> [Threads -> {"Established", "Released", "Restart", None}]]
    /\ up \in [Sides -> BOOLEAN]

\* What IndInv says of one end.
LEMMA EndFacts ==
    ASSUME IndInv, NEW s \in Sides
    PROVE  /\ TypeOK /\ Good(link[s]) /\ link[s] \in Link /\ link[s].state \in States
           /\ link[s].t200 \in BOOLEAN /\ link[s].t203 \in BOOLEAN
           /\ link[s].lastPF \in BOOLEAN /\ link[s].recovery \in BOOLEAN
           /\ line \in Lines /\ line[s] \in Seq(Frame)
           /\ HistoryTypes /\ NoteTypes
  <1>1. TypeOK /\ link[s] \in Link /\ Timed(link[s]) /\ Len(link[s].out) <= MaxPending
    BY DEF IndInv, TypeOK, NeverStranded, Timed
  <1>2. line \in Lines /\ line[s] \in Seq(Frame) /\ HistoryTypes /\ NoteTypes
    BY <1>1 DEF TypeOK, Lines, HistoryTypes, NoteTypes
  <1> QED  BY <1>1, <1>2 DEF Good, Link

\* One end goes on, and the rest is in order.
LEMMA ContinueKeeps ==
    ASSUME IndInv, NEW s \in Sides, NEW n, Good(n), NEW frames \in Seq(Frame), NEW q \in Lines,
           Continue(s, n, frames, q), HistoryTypes', NoteTypes', Told'
    PROVE  IndInv'
  <1>1. /\ link' = [link EXCEPT ![s] = n] /\ line' \in Lines
    BY PutFacts DEF Continue
  <1>2. link \in [Sides -> Link] /\ \A o \in Sides : Good(link[o])
    BY EndFacts DEF IndInv, TypeOK
  <1>3. link' \in [Sides -> Link] /\ \A o \in Sides : Good(link'[o])
    BY <1>1, <1>2 DEF Good
  <1>4. TypeOK'
    BY <1>1, <1>3 DEF TypeOK, Lines, Good, HistoryTypes, NoteTypes
  <1>5. NeverStranded'
    BY <1>3 DEF NeverStranded, Good, Timed
  <1> QED  BY <1>4, <1>5 DEF IndInv

\* It does not become released, and layer 3 is told nothing.
LEMMA PlainStep ==
    ASSUME IndInv, NEW s \in Sides, NEW n, Good(n),
           n.state = "Released" => link[s].state = "Released",
           NEW frames \in Seq(Frame), NEW q \in Lines,
           Continue(s, n, frames, q), HistoryTypes', UNCHANGED <<note, up>>
    PROVE  IndInv'
  <1>1. link' = [link EXCEPT ![s] = n] /\ link \in [Sides -> Link] /\ NoteTypes
    BY EndFacts DEF Continue, IndInv, TypeOK
  <1>2. NoteTypes'
    BY <1>1 DEF NoteTypes
  <1>3. Told'
    BY <1>1 DEF IndInv, Told
  <1> QED  BY <1>2, <1>3, ContinueKeeps

\* It is to be told to layer 3.
LEMMA NotingStep ==
    ASSUME IndInv, NEW s \in Sides, NEW n, Good(n),
           NEW t \in Threads, NEW v \in {"Established", "Released", "Restart"},
           v = "Established" => t = "receiver" /\ n.state # "Released",
           t = "timer" => v = "Restart" /\ note[s]["receiver"] # "Established",
           NEW frames \in Seq(Frame), NEW q \in Lines,
           Continue(s, n, frames, q), HistoryTypes',
           note' = [note EXCEPT ![s][t] = v], up' = up
    PROVE  IndInv'
  <1>1. link' = [link EXCEPT ![s] = n] /\ link \in [Sides -> Link] /\ NoteTypes
    BY EndFacts DEF Continue, IndInv, TypeOK
  <1>2. NoteTypes'
    BY <1>1 DEF NoteTypes
  <1>3. /\ note'[s][t] = v /\ \A u \in Threads : u # t => note'[s][u] = note[s][u]
        /\ \A o \in Sides : o # s => note'[o] = note[o] /\ link'[o] = link[o]
        /\ link'[s] = n
    BY <1>1 DEF NoteTypes
  <1>4. ASSUME NEW o \in Sides
        PROVE  /\ note'[o]["timer"] \in {None, "Restart"}
               /\ note'[o]["receiver"] = "Established" => link'[o].state # "Released"
               /\ link'[o].state = "Released" /\ up'[o] =>
                     \E u \in Threads : note'[o][u] \in {"Released", "Restart"}
    <2>1. CASE o # s
      BY <1>3, <2>1 DEF IndInv, Told
    <2>2. CASE o = s
      <3>1. note'[s]["timer"] \in {None, "Restart"}
        BY <1>3 DEF IndInv, Told, Threads
      <3>2. note'[s]["receiver"] = "Established" => n.state # "Released"
        BY <1>3 DEF Threads
      <3>3. n.state = "Released" => note'[s][t] \in {"Released", "Restart"}
        BY <1>3
      <3> QED  BY <1>3, <2>2, <3>1, <3>2, <3>3
    <2> QED  BY <2>1, <2>2
  <1>5. Told'
    BY <1>4 DEF Told
  <1> QED  BY <1>2, <1>5, ContinueKeeps

\* reset(), with what it ends.
LEMMA RestartFacts ==
    ASSUME IndInv, NEW s \in Sides, NEW n, NEW frames, NEW q, NEW joins \in BOOLEAN,
           Restart(s, n, frames, q, joins)
    PROVE  Continue(s, n, frames, q) /\ HistoryTypes'
  <1>1. HistoryTypes /\ Peer(s) \in Sides
    BY EndFacts, PeerFacts
  <1>2. ASSUME NEW o \in Sides PROVE Held(o) \subseteq Nat
    <2>1. /\ link[o].out \in Seq([ns : Numbers, data : Nat])
          /\ DOMAIN link[o].out = 1..Len(link[o].out)
      BY EndFacts, LenProperties DEF Link
    <2>2. \A i \in DOMAIN link[o].out : link[o].out[i].data \in Nat
      <3> TAKE i \in DOMAIN link[o].out
      <3>1. link[o].out[i] \in [ns : Numbers, data : Nat]
        BY <2>1, ElementOfSeq
      <3> QED  BY <3>1
    <2> QED  BY <2>2 DEF Held, ToSet
  <1>3. accepted' = accepted /\ delivered' = delivered /\ Continue(s, n, frames, q)
    BY DEF Restart
  <1>4. cut' \in [Sides -> BOOLEAN]
    <2>1. (cut[Peer(s)] \/ ~joins) \in BOOLEAN
      OBVIOUS
    <2>2. cut' = [cut EXCEPT ![s] = FALSE, ![Peer(s)] = cut[Peer(s)] \/ ~joins]
      BY PeerFacts, <1>1 DEF Restart, HistoryTypes
    <2> QED  BY <1>1, <2>1, <2>2 DEF HistoryTypes
  <1>5. lost' \in [Sides -> SUBSET Nat]
    <2>1. PICK a, b \in SUBSET Nat :
              lost' = [lost EXCEPT ![s] = @ \cup a, ![Peer(s)] = @ \cup b]
      BY <1>1, <1>2 DEF Restart
    <2> QED  BY <1>1, <2>1 DEF HistoryTypes
  <1> QED  BY <1>1, <1>3, <1>4, <1>5 DEF HistoryTypes

\* The frame that an end receives.
LEMMA ArrivesFacts ==
    ASSUME IndInv, NEW s \in Sides, NEW f, NEW types, Arrives(s, f, types)
    PROVE  /\ f \in Frame /\ f.nr \in Numbers /\ f.data \in Nat /\ f.type \in types
           /\ Rest(s) \in Lines /\ note[s]["receiver"] = None
  <1>1. line[s] # <<>> /\ f = Head(line[s]) /\ f.type \in types /\ note[s]["receiver"] = None
    BY DEF Arrives
  <1>2. f \in Frame
    BY <1>1, EndFacts, HeadTailProperties
  <1> QED  BY <1>1, <1>2, EndFacts, RestFacts DEF Frame

(***************************************************************************)
(* Layer 3 and the timers                                                  *)
(***************************************************************************)

LEMMA NoFrames == <<>> \in Seq(Frame)
  BY EmptySeq

\* Nobody is about to tell layer 3 anything.
LEMMA QuietFacts ==
    ASSUME Quiet, NEW s \in Sides
    PROVE  note[s]["timer"] = None /\ note[s]["receiver"] = None
  BY DEF Quiet, Threads

LEMMA HistoryKept == ASSUME IndInv, UNCHANGED history PROVE HistoryTypes'
  <1>1. IndInv => HistoryTypes
    BY DEF IndInv, TypeOK, HistoryTypes
  <1> QED  BY <1>1 DEF HistoryTypes, history

\* multipleFrame() makes the first step of a session.
LEMMA EstablishFacts ==
    ASSUME IndInv, NEW s \in Sides, Establish(s)
    PROVE  /\ Continue(s, Ask(link[s]), <<U("SABME")>>, line) /\ HistoryTypes'
           /\ Good(Ask(link[s])) /\ Ask(link[s]).state = "WaitEstablish"
           /\ <<U("SABME")>> \in Seq(Frame) /\ line \in Lines
  <1>1. Restart(s, Ask(link[s]), <<U("SABME")>>, line, FALSE)
    BY DEF Establish
  <1>2. Continue(s, Ask(link[s]), <<U("SABME")>>, line) /\ HistoryTypes'
    BY <1>1, RestartFacts
  <1> QED  BY <1>2, EndFacts, EnteredIsGood, UFrames

LEMMA MultipleFrameInd == ASSUME IndInv, NEW s \in Sides, MultipleFrame(s) PROVE IndInv'
  <1>1. Establish(s) /\ UNCHANGED <<note, up>>
    BY DEF MultipleFrame
  <1> DEFINE n == Ask(link[s])
  <1>2. /\ Continue(s, n, <<U("SABME")>>, line) /\ HistoryTypes'
        /\ Good(n) /\ n.state = "WaitEstablish"
        /\ <<U("SABME")>> \in Seq(Frame) /\ line \in Lines
    BY <1>1, EstablishFacts
  <1> HIDE DEF n
  <1> QED  BY <1>1, <1>2, PlainStep

LEMMA CleanupInd == ASSUME IndInv, NEW s \in Sides, Cleanup(s) PROVE IndInv'
  <1> DEFINE n == Enter(link[s], "Released")
             frames == IF link[s].state = "Established" THEN <<U("DISC")>> ELSE <<>>
  <1>1. Restart(s, n, frames, line, FALSE) /\ up' = [up EXCEPT ![s] = FALSE] /\ note' = note /\ Quiet
    BY DEF Cleanup
  <1>2. Good(n) /\ n.state = "Released" /\ frames \in Seq(Frame) /\ line \in Lines
    BY EndFacts, EnteredIsGood, UFrames, NoFrames
  <1> HIDE DEF n, frames
  <1>3. Continue(s, n, frames, line) /\ HistoryTypes'
    BY <1>1, RestartFacts
  <1>4. link' = [link EXCEPT ![s] = n] /\ link \in [Sides -> Link] /\ NoteTypes
    BY <1>3, EndFacts DEF Continue, IndInv, TypeOK
  <1>5. NoteTypes'
    BY <1>1, <1>4 DEF NoteTypes
  <1>6. Told'
    BY <1>1, <1>4, QuietFacts, NoneAssumption DEF IndInv, Told, NoteTypes
  <1> QED  BY <1>2, <1>3, <1>5, <1>6, ContinueKeeps

LEMMA SendDataInd == ASSUME IndInv, NEW s \in Sides, SendData(s) PROVE IndInv'
  <1> DEFINE l == link[s]
             f == [ns |-> l.vs, data |-> accepted[s] + 1]
             sent == [l EXCEPT !.out = Append(@, f), !.vs = Increment(@)]
             n == IF l.t200 THEN sent ELSE StartT200(sent)
  <1>1. l \in Link /\ Timed(l) /\ line \in Lines /\ HistoryTypes
    BY EndFacts DEF Good
  <1>2. f \in [ns : Numbers, data : Nat] /\ f.data \in Nat
    BY <1>1 DEF Link, HistoryTypes
  <1>3. /\ l.state # "Released" /\ Len(l.out) < MaxPending
        /\ Continue(s, n, <<I(l, f)>>, line) /\ UNCHANGED <<note, up, delivered, cut>>
        /\ accepted' = [accepted EXCEPT ![s] = @ + 1]
        /\ lost' = [lost EXCEPT ![s] = @ \cup IF cut[s] THEN {f.data} ELSE {}]
    BY DEF SendData
  <1>4. <<I(l, f)>> \in Seq(Frame)
    BY <1>1, <1>2, IFrames
  <1>5. HistoryTypes'
    <2>1. accepted' \in [Sides -> Nat]
      BY <1>1, <1>3 DEF HistoryTypes
    <2>2. (IF cut[s] THEN {f.data} ELSE {}) \subseteq Nat
      BY <1>2
    <2>3. lost' \in [Sides -> SUBSET Nat]
      BY <1>1, <1>3, <2>2 DEF HistoryTypes
    <2> QED  BY <1>1, <1>3, <2>1, <2>3 DEF HistoryTypes
  <1> HIDE DEF f
  <1>6. /\ sent \in Link /\ Len(sent.out) <= MaxPending /\ sent.state = l.state
        /\ sent.t200 = l.t200 /\ sent.t203 = l.t203
    <2> DEFINE more == Append(l.out, f)
               next == Increment(l.vs)
    <2>1. l.out \in Seq([ns : Numbers, data : Nat]) /\ Len(l.out) \in Nat /\ l.vs \in Numbers
      BY <1>1, LenProperties DEF Link
    <2>2. more \in Seq([ns : Numbers, data : Nat]) /\ Len(more) = Len(l.out) + 1
      BY <1>2, <2>1, AppendProperties
    <2>3. Len(more) <= MaxPending /\ next \in Numbers
      BY <1>3, <2>1, <2>2, NumberFacts
    <2>4. sent = [l EXCEPT !.out = more, !.vs = next]
      OBVIOUS
    <2> HIDE DEF more, next
    <2> QED  BY <1>1, <2>2, <2>3, <2>4 DEF Link
  <1> HIDE DEF sent
  <1>7. Good(n) /\ n.state = l.state
    <2>1. CASE l.t200
      BY <1>1, <1>6, <2>1 DEF Good, Timed
    <2>2. CASE ~l.t200
      BY <1>6, <2>2, TimerFacts DEF Good, Timed
    <2> QED  BY <2>1, <2>2
  <1> HIDE DEF n
  <1> QED  BY <1>1, <1>3, <1>4, <1>5, <1>7, PlainStep

\* Layer 3 is told what is still true.
LEMMA NotifyEstablishedInd ==
    ASSUME IndInv, NEW s \in Sides, NEW t \in Threads, NotifyEstablished(s, t) PROVE IndInv'
  <1>1. /\ note[s][t] = "Established" /\ up' = [up EXCEPT ![s] = TRUE]
        /\ note' = [note EXCEPT ![s][t] = None] /\ UNCHANGED <<link, line, history>>
    BY DEF NotifyEstablished
  <1>2. TypeOK /\ NoteTypes
    BY EndFacts
  <1>3. t = "receiver"
    BY <1>1, NoneAssumption DEF IndInv, Told, Threads
  <1>4. link[s].state # "Released"
    BY <1>1, <1>3 DEF IndInv, Told
  <1>5. NoteTypes'
    BY <1>1, <1>2 DEF NoteTypes
  <1>6. TypeOK'
    BY <1>1, <1>2, <1>5 DEF TypeOK, NoteTypes, history
  <1>7. ASSUME NEW o \in Sides
        PROVE  /\ note'[o]["timer"] \in {None, "Restart"}
               /\ note'[o]["receiver"] = "Established" => link'[o].state # "Released"
               /\ link'[o].state = "Released" /\ up'[o] =>
                     \E u \in Threads : note'[o][u] \in {"Released", "Restart"}
    <2>1. CASE o = s
      BY <1>1, <1>2, <1>3, <1>4, <2>1 DEF IndInv, Told, NoteTypes, Threads
    <2>2. CASE o # s
      <3>1. note'[o] = note[o] /\ up'[o] = up[o]
        BY <1>1, <1>2, <2>2 DEF NoteTypes
      <3> QED  BY <1>1, <3>1 DEF IndInv, Told
    <2> QED  BY <2>1, <2>2
  <1>8. Told'
    BY <1>7 DEF Told
  <1>9. NeverStranded'
    BY <1>1 DEF IndInv, NeverStranded
  <1> QED  BY <1>6, <1>8, <1>9 DEF IndInv

LEMMA NotifyReleasedInd ==
    ASSUME IndInv, NEW s \in Sides, NEW t \in Threads, NotifyReleased(s, t) PROVE IndInv'
  <1>1. /\ note[s][t] \in {"Released", "Restart"} /\ up' = [up EXCEPT ![s] = FALSE]
        /\ note' = [note EXCEPT ![s][t] = None]
        /\ Establish(s) \/ UNCHANGED <<link, line, history>>
    BY DEF NotifyReleased
  <1>2. TypeOK /\ NoteTypes /\ link \in [Sides -> Link]
    BY EndFacts DEF TypeOK
  <1>3. NoteTypes'
    BY <1>1, <1>2 DEF NoteTypes
  <1>4. /\ \A o \in Sides : o # s => note'[o] = note[o] /\ up'[o] = up[o]
        /\ up'[s] = FALSE
        /\ \A u \in Threads : note'[s][u] \in {note[s][u], None}
    BY <1>1, <1>2 DEF NoteTypes
  <1>5. ASSUME \A o \in Sides : link'[o].state = "Released" => link[o].state = "Released"
        PROVE  Told'
    <2>1. ASSUME NEW o \in Sides
          PROVE  /\ note'[o]["timer"] \in {None, "Restart"}
                 /\ note'[o]["receiver"] = "Established" => link'[o].state # "Released"
                 /\ link'[o].state = "Released" /\ up'[o] =>
                       \E u \in Threads : note'[o][u] \in {"Released", "Restart"}
      <3>1. CASE o = s
        BY <1>4, <1>5, <3>1, NoneAssumption DEF IndInv, Told, Threads
      <3>2. CASE o # s
        BY <1>4, <1>5, <3>2 DEF IndInv, Told
      <3> QED  BY <3>1, <3>2
    <2> QED  BY <2>1 DEF Told
  <1>6. CASE Establish(s)
    <2> DEFINE n == Ask(link[s])
    <2>1. /\ Continue(s, n, <<U("SABME")>>, line) /\ HistoryTypes'
          /\ Good(n) /\ n.state = "WaitEstablish"
          /\ <<U("SABME")>> \in Seq(Frame) /\ line \in Lines
      BY <1>6, EstablishFacts
    <2> HIDE DEF n
    <2>2. link' = [link EXCEPT ![s] = n]
      BY <2>1 DEF Continue
    <2>3. Told'
      BY <1>2, <1>5, <2>1, <2>2
    <2> QED  BY <1>3, <2>1, <2>3, ContinueKeeps
  <1>7. CASE UNCHANGED <<link, line, history>>
    <2>1. TypeOK' /\ NeverStranded'
      BY <1>2, <1>3, <1>7 DEF TypeOK, NoteTypes, history, IndInv, NeverStranded
    <2>2. Told'
      BY <1>5, <1>7
    <2> QED  BY <2>1, <2>2 DEF IndInv
  <1> QED  BY <1>1, <1>6, <1>7

LEMMA TimerTickInd == ASSUME IndInv, NEW s \in Sides, TimerTick(s) PROVE IndInv'
  <1> DEFINE l == link[s]
  <1>1. /\ TypeOK /\ l \in Link /\ Good(l) /\ line \in Lines
        /\ l.n200 \in 0..Retransmissions /\ Retransmissions \in Nat
    BY EndFacts, NumberFacts DEF Link
  <1>2. CASE T203Expires(s)
    <2>1. /\ Continue(s, StartT200(l), <<>>, line) /\ UNCHANGED <<note, up, history>>
          /\ l.state # "Released"
      BY <1>2 DEF T203Expires, MayTick
    <2> DEFINE r == StartT200(l)
    <2>2. /\ r \in Link /\ r.state = l.state /\ r.out = l.out
          /\ r.t200 = TRUE /\ r.t203 = FALSE
      BY <1>1, TimerFacts
    <2> HIDE DEF r
    <2>3. Good(r) /\ Continue(s, r, <<>>, line)
      BY <1>1, <2>1, <2>2 DEF Good, Timed, r
    <2> QED  BY <1>1, <2>1, <2>2, <2>3, NoFrames, HistoryKept, PlainStep
  <1>3. CASE GiveUp(s)
    <2> DEFINE n == Enter(l, "Released")
    <2>1. /\ Restart(s, n, <<>>, line, FALSE) /\ up' = up /\ Quiet
          /\ note' = [note EXCEPT ![s]["timer"] = "Restart"]
      BY <1>3 DEF GiveUp, MayTick
    <2>2. Good(n)
      BY <1>1, EnteredIsGood
    <2> HIDE DEF n
    <2>3. Continue(s, n, <<>>, line) /\ HistoryTypes'
      BY <2>1, RestartFacts
    <2>4. "timer" \in Threads /\ note[s]["receiver"] # "Established"
      BY <2>1, QuietFacts, NoneAssumption DEF Threads
    <2> QED  BY <1>1, <2>1, <2>2, <2>3, <2>4, NoFrames, NotingStep
  <1>4. CASE AskAgain(s)
    <2> DEFINE k == [l EXCEPT !.n200 = @ + 1]
    <2>1. /\ Continue(s, StartT200(k), <<U("SABME")>>, line) /\ UNCHANGED <<note, up, history>>
          /\ l.n200 < Retransmissions /\ l.state = "WaitEstablish"
      BY <1>4 DEF AskAgain
    <2>2. k \in Link /\ k.state = l.state /\ k.out = l.out
      BY <1>1, <2>1 DEF Link
    <2> HIDE DEF k
    <2>3. Good(StartT200(k)) /\ StartT200(k).state = l.state
      BY <1>1, <2>2, TimerFacts DEF Good, Timed
    <2> QED  BY <1>1, <2>1, <2>3, UFrames, HistoryKept, PlainStep
  <1>5. CASE Retransmit(s)
    <2> DEFINE k == [l EXCEPT !.n200 = IF l.recovery THEN @ + 1 ELSE 1, !.recovery = TRUE]
               again == StartT200(k)
               asks == [again EXCEPT !.lastPF = TRUE]
    <2>1. /\ l.n200 < Retransmissions /\ l.state = "Established"
          /\ UNCHANGED <<note, up, history>>
          /\ \/ Continue(s, again, AllData(l), line)
             \/ Continue(s, asks, <<RR(l, TRUE, TRUE)>>, line)
      BY <1>5 DEF Retransmit
    <2>2. k \in Link /\ k.state = l.state /\ k.out = l.out
      <3>1. (IF l.recovery THEN l.n200 + 1 ELSE 1) \in 0..Retransmissions
        BY <1>1, <2>1
      <3> QED  BY <1>1, <3>1 DEF Link
    <2> HIDE DEF k
    <2>3. /\ again \in Link /\ again.state = l.state /\ again.out = l.out
          /\ again.t200 = TRUE /\ again.t203 = FALSE
      BY <2>2, TimerFacts
    <2> HIDE DEF again
    <2>4. /\ asks \in Link /\ asks.state = l.state /\ asks.out = l.out
          /\ asks.t200 = TRUE /\ asks.t203 = FALSE
      BY <2>3 DEF Link
    <2> HIDE DEF asks
    <2>5. Good(again) /\ Good(asks)
      BY <1>1, <2>3, <2>4 DEF Good, Timed
    <2>6. AllData(l) \in Seq(Frame) /\ <<RR(l, TRUE, TRUE)>> \in Seq(Frame)
      BY <1>1, AllDataFrames, SFrames
    <2>7. HistoryTypes' /\ UNCHANGED <<note, up>>
      BY <2>1, HistoryKept
    <2>8. CASE Continue(s, again, AllData(l), line)
      BY <1>1, <2>3, <2>5, <2>6, <2>7, <2>8, PlainStep
    <2>9. CASE Continue(s, asks, <<RR(l, TRUE, TRUE)>>, line)
      BY <1>1, <2>4, <2>5, <2>6, <2>7, <2>9, PlainStep
    <2> QED  BY <2>1, <2>8, <2>9
  <1> QED  BY <1>2, <1>3, <1>4, <1>5 DEF TimerTick

(***************************************************************************)
(* Frames that arrive                                                      *)
(***************************************************************************)

\* The frames that acceptFrame() refuses.
LEMMA RefusedInd ==
    ASSUME IndInv, NEW s \in Sides, OutOfSequence(s) \/ Rejected(s) \/ Drop(s) PROVE IndInv'
  <1> DEFINE l == link[s]
  <1>1. TypeOK /\ l \in Link /\ Good(l) /\ line \in Lines
    BY EndFacts
  <1>2. CASE OutOfSequence(s)
    <2> DEFINE n == [l EXCEPT !.rejectSent = TRUE, !.lastPF = TRUE]
    <2>1. PICK f \in ToSet(line[s]) :
              /\ Arrives(s, f, {"I"})
              /\ \/ Continue(s, l, <<RR(l, FALSE, FALSE)>>, Rest(s))
                 \/ Continue(s, n, <<REJ(l)>>, Rest(s))
              /\ UNCHANGED <<note, up, history>>
      BY <1>2 DEF OutOfSequence
    <2>2. Rest(s) \in Lines
      BY <2>1, ArrivesFacts
    <2>3. /\ n \in Link /\ n.state = l.state /\ n.out = l.out
          /\ n.t200 = l.t200 /\ n.t203 = l.t203
      BY <1>1 DEF Link
    <2> HIDE DEF n
    <2>4. Good(n)
      BY <1>1, <2>3 DEF Good, Timed
    <2>5. <<RR(l, FALSE, FALSE)>> \in Seq(Frame) /\ <<REJ(l)>> \in Seq(Frame)
      BY <1>1, SFrames
    <2>6. HistoryTypes' /\ UNCHANGED <<note, up>>
      BY <2>1, HistoryKept
    <2>7. CASE Continue(s, l, <<RR(l, FALSE, FALSE)>>, Rest(s))
      BY <1>1, <2>2, <2>5, <2>6, <2>7, PlainStep
    <2>8. CASE Continue(s, n, <<REJ(l)>>, Rest(s))
      BY <1>1, <2>2, <2>3, <2>4, <2>5, <2>6, <2>8, PlainStep
    <2> QED  BY <2>1, <2>7, <2>8
  <1>3. CASE Rejected(s)
    <2> DEFINE n == Ask(l)
    <2>1. PICK f \in ToSet(line[s]) :
              /\ Arrives(s, f, {"I", "RR", "REJ"})
              /\ Restart(s, n, <<U("SABME")>>, Rest(s), FALSE)
              /\ UNCHANGED <<note, up>>
      BY <1>3 DEF Rejected
    <2>2. Rest(s) \in Lines /\ <<U("SABME")>> \in Seq(Frame)
      BY <2>1, ArrivesFacts, UFrames
    <2>3. Good(n) /\ n.state = "WaitEstablish"
      BY <1>1, EnteredIsGood
    <2> HIDE DEF n
    <2>4. Continue(s, n, <<U("SABME")>>, Rest(s)) /\ HistoryTypes'
      BY <2>1, RestartFacts
    <2> QED  BY <2>1, <2>2, <2>3, <2>4, PlainStep
  <1>4. CASE Drop(s)
    <2>1. PICK f \in ToSet(line[s]) :
              /\ \E types : Arrives(s, f, types)
              /\ Continue(s, l, <<>>, Rest(s))
              /\ UNCHANGED <<note, up, history>>
      BY <1>4 DEF Drop
    <2>2. Rest(s) \in Lines
      BY <2>1, ArrivesFacts
    <2> QED  BY <1>1, <2>1, <2>2, NoFrames, HistoryKept, PlainStep
  <1> QED  BY <1>2, <1>3, <1>4

\* When the whole answer is in hand, T203 is started if T200 does not run.
LEMMA SettledIsGood ==
    ASSUME NEW n \in Link, Len(n.out) <= MaxPending, n.t200 # n.t203 \/ (~n.t200 /\ ~n.t203)
    PROVE  /\ Good(IF n.t200 THEN n ELSE StopT200(n, TRUE))
           /\ (IF n.t200 THEN n ELSE StopT200(n, TRUE)).state = n.state
           /\ Good(IF n.t200 \/ n.t203 THEN n ELSE StopT200(n, TRUE))
           /\ (IF n.t200 \/ n.t203 THEN n ELSE StopT200(n, TRUE)).state = n.state
           /\ Good(StopT200(n, TRUE)) /\ StopT200(n, TRUE).state = n.state
           /\ Good(StartT200(n)) /\ StartT200(n).state = n.state
  <1>1. /\ StopT200(n, TRUE) \in Link /\ StopT200(n, TRUE).out = n.out
        /\ StopT200(n, TRUE).state = n.state
        /\ StopT200(n, TRUE).t200 = FALSE /\ StopT200(n, TRUE).t203 = TRUE
        /\ StartT200(n) \in Link /\ StartT200(n).out = n.out
        /\ StartT200(n).state = n.state
        /\ StartT200(n).t200 = TRUE /\ StartT200(n).t203 = FALSE
    BY TimerFacts
  <1>2. Good(StopT200(n, TRUE)) /\ Good(StartT200(n))
    BY <1>1 DEF Good, Timed
  <1>3. n.t200 \/ n.t203 => Good(n)
    BY DEF Good, Timed
  <1> QED  BY <1>1, <1>2, <1>3

LEMMA ReceiveIInd == ASSUME IndInv, NEW s \in Sides, ReceiveI(s) PROVE IndInv'
  <1> DEFINE l == link[s]
             got == [l EXCEPT !.rejectSent = FALSE, !.vr = Increment(@)]
  <1>1. PICK f \in ToSet(line[s]) :
            LET new == [AckOutgoing(got, f) EXCEPT !.va = f.nr]
            IN  /\ Arrives(s, f, {"I"}) /\ l.state = "Established"
                /\ Continue(s, IF new.t200 THEN new ELSE StopT200(new, TRUE),
                            <<RR(new, FALSE, FALSE)>>, Rest(s))
                /\ delivered' = [delivered EXCEPT ![Peer(s)] = f.data]
                /\ UNCHANGED <<note, up, accepted, cut, lost>>
    BY DEF ReceiveI
  <1>2. f \in Frame /\ f.nr \in Numbers /\ f.data \in Nat /\ Rest(s) \in Lines
    BY <1>1, ArrivesFacts
  <1>3. l \in Link /\ Good(l) /\ l.vr \in Numbers /\ HistoryTypes
    BY EndFacts DEF Link
  <1>4. /\ Good(got) /\ got.state = "Established"
    <2> DEFINE next == Increment(l.vr)
    <2>1. next \in Numbers
      BY <1>3, NumberFacts
    <2>2. got = [l EXCEPT !.rejectSent = FALSE, !.vr = next]
      OBVIOUS
    <2> HIDE DEF next
    <2>3. /\ got \in Link /\ got.state = l.state /\ got.out = l.out
          /\ got.t200 = l.t200 /\ got.t203 = l.t203
      BY <1>3, <2>1, <2>2 DEF Link
    <2> HIDE DEF got
    <2> QED  BY <1>1, <1>3, <2>3 DEF Good, Timed
  <1> HIDE DEF got
  <1> DEFINE a == AckOutgoing(got, f)
             new == [a EXCEPT !.va = f.nr]
             n == IF new.t200 THEN new ELSE StopT200(new, TRUE)
  <1>5. /\ a \in Link /\ Len(a.out) <= MaxPending /\ a.state = "Established"
        /\ a.t200 # a.t203 \/ (~a.t200 /\ ~a.t203)
    BY <1>2, <1>4, AckOutgoingFacts
  <1>6. /\ Continue(s, n, <<RR(new, FALSE, FALSE)>>, Rest(s))
        /\ delivered' = [delivered EXCEPT ![Peer(s)] = f.data]
        /\ UNCHANGED <<note, up, accepted, cut, lost>>
    BY <1>1
  <1> HIDE DEF a
  <1>7. /\ new \in Link /\ Len(new.out) <= MaxPending /\ new.state = "Established"
        /\ new.t200 # new.t203 \/ (~new.t200 /\ ~new.t203)
    BY <1>2, <1>5 DEF Link
  <1> HIDE DEF new
  <1>8. Good(n) /\ n.state = "Established"
    BY <1>7, SettledIsGood
  <1>9. <<RR(new, FALSE, FALSE)>> \in Seq(Frame)
    BY <1>7, SFrames
  <1>10. HistoryTypes'
    BY <1>2, <1>3, <1>6, PeerFacts DEF HistoryTypes
  <1> HIDE DEF n
  <1> QED  BY <1>2, <1>6, <1>8, <1>9, <1>10, PlainStep

LEMMA ReceiveRRInd == ASSUME IndInv, NEW s \in Sides, ReceiveRR(s) PROVE IndInv'
  <1> DEFINE l == link[s]
  <1>1. PICK f \in ToSet(line[s]) :
            LET new == AckOutgoing(l, f)
                answers == IF f.command /\ ~l.lastPF THEN <<RR(l, FALSE, TRUE)>> ELSE <<>>
            IN  /\ Arrives(s, f, {"RR"}) /\ l.state = "Established"
                /\ IF f.poll
                   THEN Continue(s, StopT200([new EXCEPT !.lastPF = FALSE], TRUE), answers, Rest(s))
                   ELSE Continue(s, IF new.t200 \/ new.t203 THEN new ELSE StopT200(new, TRUE),
                                 <<>>, Rest(s))
                /\ UNCHANGED <<note, up, history>>
    BY DEF ReceiveRR
  <1>2. f \in Frame /\ Rest(s) \in Lines
    BY <1>1, ArrivesFacts
  <1>3. l \in Link /\ Good(l) /\ l.state = "Established" /\ TypeOK
    BY <1>1, EndFacts
  <1> DEFINE new == AckOutgoing(l, f)
             calm == [new EXCEPT !.lastPF = FALSE]
             idle == StopT200(calm, TRUE)
             n == IF new.t200 \/ new.t203 THEN new ELSE StopT200(new, TRUE)
             answers == IF f.command /\ ~l.lastPF THEN <<RR(l, FALSE, TRUE)>> ELSE <<>>
  <1>4. /\ new \in Link /\ Len(new.out) <= MaxPending /\ new.state = "Established"
        /\ new.t200 # new.t203 \/ (~new.t200 /\ ~new.t203)
    BY <1>2, <1>3, AckOutgoingFacts
  <1>5. /\ Continue(s, idle, answers, Rest(s)) \/ Continue(s, n, <<>>, Rest(s))
        /\ UNCHANGED <<note, up, history>>
    BY <1>1
  <1>6. answers \in Seq(Frame) /\ <<>> \in Seq(Frame)
    BY <1>3, SFrames, NoFrames
  <1> HIDE DEF new, answers
  <1>7. /\ calm \in Link /\ calm.out = new.out /\ calm.state = new.state
        /\ calm.t200 = new.t200 /\ calm.t203 = new.t203
    BY <1>4 DEF Link
  <1> HIDE DEF calm
  <1>8. Good(idle) /\ idle.state = "Established"
    BY <1>4, <1>7, SettledIsGood
  <1>9. Good(n) /\ n.state = "Established"
    BY <1>4, SettledIsGood
  <1> HIDE DEF n, idle
  <1>10. HistoryTypes' /\ UNCHANGED <<note, up>>
    BY <1>5, HistoryKept
  <1>11. CASE Continue(s, idle, answers, Rest(s))
    BY <1>2, <1>6, <1>8, <1>10, <1>11, PlainStep
  <1>12. CASE Continue(s, n, <<>>, Rest(s))
    BY <1>2, <1>6, <1>9, <1>10, <1>12, PlainStep
  <1> QED  BY <1>5, <1>11, <1>12

LEMMA ReceiveREJInd == ASSUME IndInv, NEW s \in Sides, ReceiveREJ(s) PROVE IndInv'
  <1> DEFINE l == link[s]
  <1>1. PICK f \in ToSet(line[s]) :
            LET new == [AckOutgoing(l, f) EXCEPT !.va = f.nr]
                back == [new EXCEPT !.vs = f.nr]
            IN  /\ Arrives(s, f, {"REJ"}) /\ l.state = "Established"
                /\ IF l.recovery \/ l.lastPF
                   THEN Continue(s, IF l.recovery THEN new ELSE back,
                                 <<RR(l, FALSE, TRUE)>>, Rest(s))
                   ELSE Continue(s, IF new.out # <<>> THEN StartT200(back)
                                                     ELSE StopT200(back, TRUE),
                                 <<RR(l, FALSE, TRUE)>> \o AllData(new), Rest(s))
                /\ UNCHANGED <<note, up, history>>
    BY DEF ReceiveREJ
  <1>2. f \in Frame /\ f.nr \in Numbers /\ f.type = "REJ" /\ Rest(s) \in Lines
    BY <1>1, ArrivesFacts
  <1>3. l \in Link /\ Good(l) /\ l.state = "Established" /\ TypeOK
    BY <1>1, EndFacts
  <1> DEFINE a == AckOutgoing(l, f)
             new == [a EXCEPT !.va = f.nr]
             back == [new EXCEPT !.vs = f.nr]
             more == <<RR(l, FALSE, TRUE)>> \o AllData(new)
  <1>4. /\ a \in Link /\ Len(a.out) <= MaxPending /\ a.state = "Established"
        /\ a.t200 # a.t203 \/ (~a.t200 /\ ~a.t203)
        /\ l.recovery \/ l.lastPF => a.t200 # a.t203
    BY <1>2, <1>3, AckOutgoingFacts
  <1>5. /\ \/ (l.recovery \/ l.lastPF) /\ Continue(s, new, <<RR(l, FALSE, TRUE)>>, Rest(s))
           \/ (l.recovery \/ l.lastPF) /\ Continue(s, back, <<RR(l, FALSE, TRUE)>>, Rest(s))
           \/ Continue(s, StartT200(back), more, Rest(s))
           \/ Continue(s, StopT200(back, TRUE), more, Rest(s))
        /\ UNCHANGED <<note, up, history>>
    BY <1>1
  <1> HIDE DEF a
  <1>6. /\ new \in Link /\ new.out = a.out /\ new.state = "Established"
        /\ new.t200 = a.t200 /\ new.t203 = a.t203
    BY <1>2, <1>4 DEF Link
  <1>7. <<RR(l, FALSE, TRUE)>> \in Seq(Frame) /\ more \in Seq(Frame)
    <2>1. <<RR(l, FALSE, TRUE)>> \in Seq(Frame) /\ AllData(new) \in Seq(Frame)
      BY <1>3, <1>6, SFrames, AllDataFrames
    <2> QED  BY <2>1, ConcatProperties
  <1> HIDE DEF more, new
  <1>8. /\ back \in Link /\ back.out = a.out /\ back.state = "Established"
        /\ back.t200 = a.t200 /\ back.t203 = a.t203
    BY <1>2, <1>6 DEF Link
  <1> HIDE DEF back
  <1>9. l.recovery \/ l.lastPF => Good(new) /\ Good(back)
    BY <1>4, <1>6, <1>8 DEF Good, Timed
  <1>10. /\ Good(StartT200(back)) /\ StartT200(back).state = "Established"
         /\ Good(StopT200(back, TRUE)) /\ StopT200(back, TRUE).state = "Established"
    BY <1>4, <1>8, SettledIsGood
  <1>11. HistoryTypes' /\ UNCHANGED <<note, up>>
    BY <1>5, HistoryKept
  <1>12. ASSUME NEW n, Good(n), n.state = "Established", NEW frames \in Seq(Frame),
                Continue(s, n, frames, Rest(s))
         PROVE  IndInv'
    BY <1>2, <1>11, <1>12, PlainStep
  <1> QED  BY <1>5, <1>6, <1>7, <1>8, <1>9, <1>10, <1>12

\* A U frame that ends the session or starts one, and is to be told.
LEMMA UStep ==
    ASSUME IndInv, NEW s \in Sides, NEW f, NEW types, Arrives(s, f, types),
           NEW state \in {"Established", "Released"}, NEW n,
           n = IF state = "Released" THEN Enter(link[s], "Released")
                                     ELSE StopT200(Enter(link[s], "Established"), TRUE),
           NEW frames \in Seq(Frame), NEW joins \in BOOLEAN,
           Restart(s, n, frames, Rest(s), joins),
           note' = [note EXCEPT ![s]["receiver"] = state], up' = up
    PROVE  IndInv'
  <1>1. Good(n) /\ n.state = state
    BY EndFacts, EnteredIsGood
  <1>2. Continue(s, n, frames, Rest(s)) /\ HistoryTypes' /\ Rest(s) \in Lines
    BY RestartFacts, ArrivesFacts
  <1>3. "receiver" \in Threads /\ "receiver" # "timer"
    BY DEF Threads
  <1> QED  BY <1>1, <1>2, <1>3, NotingStep

\* One that changes nothing.
LEMMA UAnswer ==
    ASSUME IndInv, NEW s \in Sides, NEW f, NEW types, Arrives(s, f, types),
           NEW frames \in Seq(Frame), Continue(s, link[s], frames, Rest(s)),
           UNCHANGED <<note, history>>, up' = up
    PROVE  IndInv'
  <1>1. Rest(s) \in Lines /\ Good(link[s]) /\ HistoryTypes'
    BY ArrivesFacts, EndFacts, HistoryKept
  <1> QED  BY <1>1, PlainStep

LEMMA ReceiveUInd ==
    ASSUME IndInv, NEW s \in Sides,
           ReceiveUA(s) \/ ReceiveDM(s) \/ ReceiveSABME(s) \/ ReceiveDISC(s)
    PROVE  IndInv'
  <1> DEFINE l == link[s]
  <1>1. CASE ReceiveUA(s)
    <2>1. PICK f \in ToSet(line[s]) :
              /\ Arrives(s, f, {"UA"})
              /\ Restart(s, StopT200(Enter(l, "Established"), TRUE), <<>>, Rest(s), TRUE)
              /\ note' = [note EXCEPT ![s]["receiver"] = "Established"]
              /\ up' = up
      BY <1>1 DEF ReceiveUA
    <2> QED  BY <2>1, NoFrames, UStep
  <1>2. CASE ReceiveDM(s)
    <2>1. PICK f \in ToSet(line[s]) :
              /\ Arrives(s, f, {"DM"})
              /\ Restart(s, Enter(l, "Released"), <<>>, Rest(s), FALSE)
              /\ note' = [note EXCEPT ![s]["receiver"] = "Released"]
              /\ up' = up
      BY <1>2 DEF ReceiveDM
    <2> QED  BY <2>1, NoFrames, UStep
  <1>3. CASE ReceiveSABME(s)
    <2>1. PICK f \in ToSet(line[s]) :
              /\ Arrives(s, f, {"SABME"})
              /\ \/ /\ Continue(s, l, <<U("UA")>>, Rest(s))
                    /\ UNCHANGED <<note, history>>
                 \/ /\ Restart(s, StopT200(Enter(l, "Established"), TRUE), <<U("UA")>>, Rest(s), FALSE)
                    /\ note' = [note EXCEPT ![s]["receiver"] = "Established"]
              /\ up' = up
      BY <1>3 DEF ReceiveSABME
    <2>2. <<U("UA")>> \in Seq(Frame)
      BY UFrames
    <2> QED  BY <2>1, <2>2, UStep, UAnswer
  <1>4. CASE ReceiveDISC(s)
    <2> DEFINE frames == <<U(IF l.state = "Established" THEN "UA" ELSE "DM")>>
    <2>1. PICK f \in ToSet(line[s]) :
              /\ Arrives(s, f, {"DISC"})
              /\ \/ /\ Continue(s, l, <<U("DM")>>, Rest(s))
                    /\ UNCHANGED <<note, history>>
                 \/ /\ Restart(s, Enter(l, "Released"), frames, Rest(s), FALSE)
                    /\ note' = [note EXCEPT ![s]["receiver"] = "Released"]
              /\ up' = up
      BY <1>4 DEF ReceiveDISC
    <2>2. <<U("DM")>> \in Seq(Frame) /\ frames \in Seq(Frame)
      BY UFrames
    <2> HIDE DEF frames
    <2> QED  BY <2>1, <2>2, UStep, UAnswer
  <1> QED  BY <1>1, <1>2, <1>3, <1>4

\* The interface goes down, and what was on the line is lost.
LEMMA LinkDownInd == ASSUME IndInv, NEW s \in Sides, LinkDown(s) PROVE IndInv'
  <1> DEFINE n == Enter(link[s], "Released")
             empty == [p \in Sides |-> <<>>]
  <1>1. /\ Restart(s, n, <<>>, empty, FALSE) /\ up' = up
        /\ note' = [note EXCEPT ![s]["receiver"] = "Restart"]
    BY DEF LinkDown
  <1>2. Good(n)
    BY EndFacts, EnteredIsGood
  <1>3. empty \in Lines /\ <<>> \in Seq(Frame)
    BY NumberFacts, NoFrames DEF Lines
  <1> HIDE DEF n, empty
  <1>4. Continue(s, n, <<>>, empty) /\ HistoryTypes'
    BY <1>1, RestartFacts
  <1>5. "receiver" \in Threads /\ "receiver" # "timer"
    BY DEF Threads
  <1> QED  BY <1>1, <1>2, <1>3, <1>4, <1>5, NotingStep

\* The line loses a frame.
LEMMA LoseInd == ASSUME IndInv, NEW s \in Sides, Lose(s) PROVE IndInv'
  <1>1. line[s] # <<>> /\ line' = Rest(s) /\ UNCHANGED <<link, note, up, history>> /\ TypeOK
    BY EndFacts DEF Lose
  <1>2. line' \in Lines
    BY <1>1, RestFacts
  <1>3. TypeOK'
    BY <1>1, <1>2 DEF TypeOK, Lines, history
  <1>4. NeverStranded' /\ Told'
    BY <1>1 DEF IndInv, NeverStranded, Told
  <1> QED  BY <1>3, <1>4 DEF IndInv

(***************************************************************************)
(* The invariant                                                           *)
(***************************************************************************)

LEMMA InitInd == ASSUME Init PROVE IndInv
  <1> DEFINE l == [state |-> "Released", vs |-> 0, va |-> 0, vr |-> 0, out |-> <<>>,
                   recovery |-> FALSE, rejectSent |-> FALSE, lastPF |-> FALSE,
                   t200 |-> FALSE, t203 |-> FALSE, n200 |-> 0]
  <1>1. l \in Link
    <2>1. 0 \in Numbers /\ 0 \in 0..Retransmissions /\ "Released" \in States
      BY NumberFacts DEF States
    <2>2. <<>> \in Seq([ns : Numbers, data : Nat])
      BY EmptySeq
    <2> QED  BY <2>1, <2>2 DEF Link
  <1>2. l.state = "Released" /\ Len(l.out) <= MaxPending
    BY NumberFacts
  <1>3. link = [s \in Sides |-> l]
    BY DEF Init
  <1> HIDE DEF l
  <1>4. link \in [Sides -> Link] /\ \A s \in Sides : Len(link[s].out) <= MaxPending
    BY <1>1, <1>2, <1>3
  <1>5. line \in [Sides -> Seq(Frame)] /\ \A s \in Sides : Len(line[s]) <= LineSize
    BY NumberFacts, NoFrames DEF Init
  <1>6. note \in [Sides -> [Threads -> {"Established", "Released", "Restart", None}]]
    BY DEF Init
  <1>7. TypeOK
    BY <1>4, <1>5, <1>6 DEF Init, TypeOK
  <1>8. NeverStranded
    BY <1>2, <1>3 DEF NeverStranded
  <1>9. Told
    BY NoneAssumption DEF Init, Told, Threads
  <1> QED  BY <1>7, <1>8, <1>9 DEF IndInv

LEMMA StutterInd == ASSUME IndInv, UNCHANGED vars PROVE IndInv'
  BY DEF IndInv, vars, history, TypeOK, NeverStranded, Told

LEMMA NextInd == ASSUME IndInv, [Next]_vars PROVE IndInv'
  <1>1. ASSUME NEW s \in Sides, Receive(s) PROVE IndInv'
    BY <1>1, RefusedInd, ReceiveIInd, ReceiveRRInd, ReceiveREJInd, ReceiveUInd DEF Receive
  <1>2. ASSUME NEW s \in Sides, Notify(s) PROVE IndInv'
    BY <1>2, NotifyEstablishedInd, NotifyReleasedInd DEF Notify
  <1>3. CASE UNCHANGED vars
    BY <1>3, StutterInd
  <1>4. ASSUME NEW s \in Sides,
               \/ MultipleFrame(s) \/ Cleanup(s) \/ LinkDown(s) \/ SendData(s)
               \/ Notify(s) \/ TimerTick(s) \/ Receive(s) \/ Lose(s)
        PROVE  IndInv'
    BY <1>1, <1>2, <1>4, MultipleFrameInd, CleanupInd, LinkDownInd, SendDataInd,
       TimerTickInd, LoseInd
  <1> QED  BY <1>3, <1>4 DEF Next

\* Every reachable state satisfies the inductive invariant.
THEOREM IndInvAlways == Spec => []IndInv
  <1>1. Init => IndInv
    BY InitInd
  <1>2. IndInv /\ [Next]_vars => IndInv'
    BY NextInd
  <1> QED  BY <1>1, <1>2, PTL DEF Spec

\* Sequence numbers stay below the modulus, the queue within the window, and a frame is
\* repeated no more often than N200 says; every frame on the line is one of the protocol.
THEOREM TypeCorrect == Spec => []TypeOK
  <1>1. IndInv => TypeOK
    BY DEF IndInv
  <1> QED  BY <1>1, IndInvAlways, PTL

\* Whatever the line loses, an end that is not released has one and only one of T200 and
\* T203 running, though ackOutgoingFrames(), a poll or a REJ may stop either.
THEOREM NobodyStranded == Spec => []NeverStranded
  <1>1. IndInv => NeverStranded
    BY DEF IndInv
  <1> QED  BY <1>1, IndInvAlways, PTL

\* When every notification has been made, in whatever order its two threads made them,
\* layer 3 does not take a released link for an established one.
THEOREM ReleasesAreKnown == Spec => []ReleasedIsKnown
  <1>1. IndInv => ReleasedIsKnown
    <2> SUFFICES ASSUME IndInv, Quiet, NEW s \in Sides, link[s].state = "Released"
                 PROVE  ~up[s]
      BY DEF ReleasedIsKnown
    <2>1. \A t \in Threads : note[s][t] \notin {"Released", "Restart"}
      BY NoneAssumption DEF Quiet
    <2> QED  BY <2>1 DEF IndInv, Told
  <1> QED  BY <1>1, IndInvAlways, PTL
=============================================================================
