-------------------------------- MODULE Q921 --------------------------------
(***************************************************************************)
(* The ISDN data link, Q.921 (libs/ysig/q921.cpp, class ISDNQ921): two     *)
(* ends of a D channel establish a link and exchange acknowledged data     *)
(* over a line that loses frames but keeps their order.  Each end has a    *)
(* thread that receives frames and one that looks at the timers; both work *)
(* under l2Mutex() and drop it before they notify layer 3.  Layer 3 is     *)
(* ISDNQ931 (q931.cpp) as far as it establishes the link and sends on it.  *)
(*                                                                         *)
(* No end sends RNR or FRMR, or asks the other to release the link but by  *)
(* cleanup(): m_remoteBusy stays false, what is queued is sent at once and *)
(* the state WaitRelease is not reached.  Nor is a state in which neither  *)
(* timer runs (NeverStranded), for which timerTick() has a case.           *)
(***************************************************************************)
EXTENDS Integers, Sequences, FiniteSets, SequencesExt, FiniteSetsExt

CONSTANTS
    Sides,          \* the two ends, the network's and the user's
    AutoRestart,    \* the ends with auto-restart
    Modulus,        \* sequence numbers: 128
    MaxPending,     \* the window, maxpendingframes: 7 by default
    Retransmissions,\* m_n200.maxVal(): 3
    MaxData,        \* bound, per end: the data that its layer 3 sends
    LineSize,       \* bound: frames in transit to one end, the next are lost
    None

ASSUME SideAssumption ==
    /\ IsFiniteSet(Sides) /\ Cardinality(Sides) = 2
    /\ AutoRestart \subseteq Sides
ASSUME NumberAssumption ==
    /\ Modulus \in Nat /\ MaxPending \in 1..Modulus - 1
    /\ {Retransmissions, LineSize} \subseteq Nat
    /\ MaxData \in [Sides -> Nat]
ASSUME NoneAssumption == None \notin {"Established", "Released", "Restart"}

VARIABLES
    link,       \* per end: its ISDNQ921
    line,       \* per end: the frames in transit to it
    note,       \* per end and thread: the notification it still has to make
    up,         \* per end: m_q921Up of layer 3
    accepted,   \* per end: how many data sendData() has taken (history)
    delivered,  \* per end: the last datum that its peer's layer 3 got (history)
    cut,        \* per end: its peer has started anew since it did (history)
    lost        \* per end: the data accepted whose session ended (history)

history == <<accepted, delivered, cut, lost>>
vars == <<link, line, note, up, history>>

Peer(s) == CHOOSE p \in Sides : p # s

Threads == {"receiver", "timer"}
States == {"Released", "WaitEstablish", "Established"}

Increment(n) == (n + 1) % Modulus

\* Modulo128::between()
Between(n, low, high) ==
    IF low <= high THEN low <= n /\ n <= high ELSE low <= n \/ n <= high

-----------------------------------------------------------------------------
(* Frames: the P/F bit of every U frame is set, that of an I frame is not. *)

U(type) == [type |-> type, command |-> type \in {"SABME", "DISC"}, poll |-> TRUE,
            ns |-> 0, nr |-> 0, data |-> 0]
RR(l, cmd, pf) == [type |-> "RR", command |-> cmd, poll |-> pf,
                   ns |-> 0, nr |-> l.vr, data |-> 0]
REJ(l) == [RR(l, TRUE, TRUE) EXCEPT !.type = "REJ"]
I(l, f) == [type |-> "I", command |-> TRUE, poll |-> FALSE,
            ns |-> f.ns, nr |-> l.vr, data |-> f.data]

\* sendOutgoingData(): the frames of the whole queue.
AllData(l) == [i \in DOMAIN l.out |-> I(l, l.out[i])]

-----------------------------------------------------------------------------
(* Pieces of a handler, on the state l of one end *)

\* timer(true) and timer(false, idle)
StartT200(l) == [l EXCEPT !.t200 = TRUE, !.t203 = FALSE]
StopT200(l, idle) == [l EXCEPT !.n200 = 0, !.t200 = FALSE, !.t203 = idle]

\* reset()
Reset(l) == [StopT200(l, FALSE) EXCEPT
                !.recovery = FALSE, !.rejectSent = FALSE, !.lastPF = FALSE,
                !.out = <<>>, !.va = 0, !.vs = 0, !.vr = 0]

Enter(l, state) == [Reset(l) EXCEPT !.state = state]

\* SABME is sent and waits for its answer.
Ask(l) == StartT200(Enter(l, "WaitEstablish"))

\* ackOutgoingFrames(): up to the one whose N(S) is the frame's N(R).
AckOutgoing(l, f) ==
    LET same == {i \in DOMAIN l.out : l.out[i].ns = f.nr}
        n == IF same = {} THEN Len(l.out) ELSE Min(same) - 1
        kept == [l EXCEPT !.out = SubSeq(@, n + 1, Len(@))]
        calm == IF n > 0 /\ ~l.recovery /\ ~(f.type # "I" /\ l.lastPF)
                THEN StopT200(kept, FALSE) ELSE kept
    IN  IF calm.out # <<>> /\ ~calm.t200 THEN StartT200(calm) ELSE calm

\* The frames that end s sends, behind those on the line.
Put(s, q, frames) ==
    LET all == q[Peer(s)] \o frames
    IN  [q EXCEPT ![Peer(s)] = SubSeq(all, 1, Min({Len(all), LineSize}))]

\* End s goes on with l and sends frames.
Continue(s, l, frames, q) ==
    /\ link' = [link EXCEPT ![s] = l]
    /\ line' = Put(s, q, frames)

Held(s) == {f.data : f \in ToSet(link[s].out)}

\* The same after reset(): s throws away what it holds, and the data of its peer are
\* for a session that has ended, unless the peer has started the one that s joins.
Restart(s, l, frames, q, joins) ==
    /\ Continue(s, l, frames, q)
    /\ cut' = [cut EXCEPT ![s] = FALSE, ![Peer(s)] = @ \/ ~joins]
    /\ lost' = [lost EXCEPT ![s] = @ \cup Held(s),
                            ![Peer(s)] = @ \cup IF joins THEN {} ELSE Held(Peer(s))]
    /\ UNCHANGED <<accepted, delivered>>

-----------------------------------------------------------------------------
(* Layer 3 *)

\* Timers and administration are slower than it takes a frame and its answer to cross
\* the line, and layer 3 to be told.
Quiet == \A s \in Sides : line[s] = <<>> /\ \A t \in Threads : note[s][t] = None

\* multipleFrame(tei, true, false); ISDNQ921 is never asked to release the link.
Establish(s) ==
    /\ link[s].state = "Released"
    /\ Restart(s, Ask(link[s]), <<U("SABME")>>, line, FALSE)

MultipleFrame(s) == Quiet /\ Establish(s) /\ UNCHANGED <<note, up>>

\* cleanup(): layer 3 is detached, or the TEI is taken away.
Cleanup(s) ==
    /\ Quiet
    /\ Restart(s, Enter(link[s], "Released"),
               IF link[s].state = "Established" THEN <<U("DISC")>> ELSE <<>>, line, FALSE)
    /\ up' = [up EXCEPT ![s] = FALSE]
    /\ UNCHANGED note

\* Faulty: the window is not looked at.
SendDataUnbounded(s) ==
    LET l == link[s]
        f == [ns |-> l.vs, data |-> accepted[s] + 1]
        sent == [l EXCEPT !.out = Append(@, f), !.vs = Increment(@)]
    IN  /\ up[s] /\ accepted[s] < MaxData[s] /\ l.state # "Released"
        /\ Continue(s, IF l.t200 THEN sent ELSE StartT200(sent), <<I(l, f)>>, line)
        /\ accepted' = [accepted EXCEPT ![s] = @ + 1]
        /\ lost' = [lost EXCEPT ![s] = @ \cup IF cut[s] THEN {f.data} ELSE {}]
        /\ UNCHANGED <<note, up, delivered, cut>>

\* sendData(), acknowledged; layer 3 believes that the link is up.
SendData(s) ==
    LET l == link[s]
        f == [ns |-> l.vs, data |-> accepted[s] + 1]
        sent == [l EXCEPT !.out = Append(@, f), !.vs = Increment(@)]
    IN  /\ up[s] /\ accepted[s] < MaxData[s]
        /\ l.state # "Released" /\ Len(l.out) < MaxPending
        /\ Continue(s, IF l.t200 THEN sent ELSE StartT200(sent), <<I(l, f)>>, line)
        /\ accepted' = [accepted EXCEPT ![s] = @ + 1]
        /\ lost' = [lost EXCEPT ![s] = @ \cup IF cut[s] THEN {f.data} ELSE {}]
        /\ UNCHANGED <<note, up, delivered, cut>>

\* ISDNQ931::multipleFrameEstablished()
NotifyEstablished(s, t) ==
    /\ note[s][t] = "Established"
    /\ up' = [up EXCEPT ![s] = TRUE]
    /\ note' = [note EXCEPT ![s][t] = None]
    /\ UNCHANGED <<link, line, history>>

\* ISDNQ931::multipleFrameReleased() establishes the link again unless layer 2 does
\* that by itself, which it does where the timer or the interface released it.
NotifyReleased(s, t) ==
    /\ note[s][t] \in {"Released", "Restart"}
    /\ up' = [up EXCEPT ![s] = FALSE]
    /\ note' = [note EXCEPT ![s][t] = None]
    /\ IF link[s].state = "Released" /\ (s \in AutoRestart => note[s][t] = "Restart")
       THEN Establish(s)
       ELSE UNCHANGED <<link, line, history>>

-----------------------------------------------------------------------------
(* timerTick(): T200 and T203 are longer than it takes a frame and its     *)
(* answer to cross the line.                                               *)

MayTick(s) == link[s].state # "Released" /\ Quiet

T203Expires(s) ==
    /\ MayTick(s) /\ ~link[s].t200 /\ link[s].t203
    /\ Continue(s, StartT200(link[s]), <<>>, line)
    /\ UNCHANGED <<note, up, history>>

GiveUp(s) ==
    /\ MayTick(s) /\ link[s].t200
    /\ link[s].n200 = Retransmissions
    /\ Restart(s, Enter(link[s], "Released"), <<>>, line, FALSE)
    /\ note' = [note EXCEPT ![s]["timer"] = "Restart"]
    /\ UNCHANGED up

AskAgain(s) ==
    LET l == link[s]
    IN  /\ MayTick(s) /\ l.t200 /\ l.n200 < Retransmissions
        /\ l.state = "WaitEstablish"
        /\ Continue(s, StartT200([l EXCEPT !.n200 = @ + 1]), <<U("SABME")>>, line)
        /\ UNCHANGED <<note, up, history>>

Retransmit(s) ==
    LET l == link[s]
        again == StartT200([l EXCEPT !.n200 = IF l.recovery THEN @ + 1 ELSE 1,
                                     !.recovery = TRUE])
    IN  /\ MayTick(s) /\ l.t200 /\ l.n200 < Retransmissions
        /\ l.state = "Established"
        /\ IF l.out # <<>> THEN Continue(s, again, AllData(l), line)
           ELSE Continue(s, [again EXCEPT !.lastPF = TRUE], <<RR(l, TRUE, TRUE)>>, line)
        /\ UNCHANGED <<note, up, history>>

-----------------------------------------------------------------------------
(* receivedFrame() *)

Rest(s) == [line EXCEPT ![s] = Tail(@)]

\* A frame f of one of the types is next for end s.
Arrives(s, f, types) ==
    /\ line[s] # <<>> /\ note[s]["receiver"] = None
    /\ f = Head(line[s]) /\ f.type \in types

\* Faulty: a frame that was received before is received again.
InSequenceOrOld(l, f) == f.type = "I" => f.ns = l.vr \/ Increment(f.ns) = l.vr

\* acceptFrame(): N(S) is the one expected, N(R) is between V(A) and V(S).
InSequence(l, f) == f.type = "I" => f.ns = l.vr
ValidNR(l, f) == Between(f.nr, l.va, l.vs)

\* An I frame out of sequence asks for retransmission, in whatever state.
OutOfSequence(s) == \E f \in ToSet(line[s]) :
    LET l == link[s]
    IN  /\ Arrives(s, f, {"I"}) /\ ~InSequence(l, f)
        /\ IF l.rejectSent THEN Continue(s, l, <<RR(l, FALSE, FALSE)>>, Rest(s))
           ELSE Continue(s, [l EXCEPT !.rejectSent = TRUE, !.lastPF = TRUE], <<REJ(l)>>, Rest(s))
        /\ UNCHANGED <<note, up, history>>

\* Unrecoverable error: the link is established anew.
Rejected(s) == \E f \in ToSet(line[s]) :
    LET l == link[s]
    IN  /\ Arrives(s, f, {"I", "RR", "REJ"})
        /\ InSequence(l, f) /\ ~ValidNR(l, f) /\ l.state = "Established"
        /\ Restart(s, Ask(l), <<U("SABME")>>, Rest(s), FALSE)
        /\ UNCHANGED <<note, up>>

\* dropFrame()
Drop(s) == \E f \in ToSet(line[s]) :
    LET l == link[s]
    IN  /\ \/ /\ Arrives(s, f, {"I", "RR", "REJ"})
              /\ InSequence(l, f) /\ l.state # "Established"
           \/ Arrives(s, f, {"UA"}) /\ l.state \in {"Established", "Released"}
           \/ Arrives(s, f, {"DM"}) /\ l.state = "Established" /\ l.recovery
        /\ Continue(s, l, <<>>, Rest(s))
        /\ UNCHANGED <<note, up, history>>

\* processDataFrame()
ReceiveI(s) == \E f \in ToSet(line[s]) :
    LET l == link[s]
        got == [l EXCEPT !.rejectSent = FALSE, !.vr = Increment(@)]
        new == [AckOutgoing(got, f) EXCEPT !.va = f.nr]
    IN  /\ Arrives(s, f, {"I"}) /\ l.state = "Established"
        /\ InSequence(l, f) /\ ValidNR(l, f)
        /\ Continue(s, IF new.t200 THEN new ELSE StopT200(new, TRUE),
                    <<RR(new, FALSE, FALSE)>>, Rest(s))
        /\ delivered' = [delivered EXCEPT ![Peer(s)] = f.data]
        /\ UNCHANGED <<note, up, accepted, cut, lost>>

\* Faulty: T203 is not started when T200 is stopped.
ReceiveRRUntimed(s) == \E f \in ToSet(line[s]) :
    LET l == link[s]
        new == AckOutgoing(l, f)
        answers == IF f.command /\ ~l.lastPF THEN <<RR(l, FALSE, TRUE)>> ELSE <<>>
    IN  /\ Arrives(s, f, {"RR"}) /\ l.state = "Established" /\ ValidNR(l, f)
        /\ IF f.poll
           THEN Continue(s, StopT200([new EXCEPT !.lastPF = FALSE], FALSE), answers, Rest(s))
           ELSE Continue(s, new, <<>>, Rest(s))
        /\ UNCHANGED <<note, up, history>>

\* processSFrame(), RR
ReceiveRR(s) == \E f \in ToSet(line[s]) :
    LET l == link[s]
        new == AckOutgoing(l, f)
        answers == IF f.command /\ ~l.lastPF THEN <<RR(l, FALSE, TRUE)>> ELSE <<>>
    IN  /\ Arrives(s, f, {"RR"}) /\ l.state = "Established" /\ ValidNR(l, f)
        /\ IF f.poll
           THEN Continue(s, StopT200([new EXCEPT !.lastPF = FALSE], TRUE), answers, Rest(s))
           ELSE Continue(s, IF new.t200 \/ new.t203 THEN new ELSE StopT200(new, TRUE),
                         <<>>, Rest(s))
        /\ UNCHANGED <<note, up, history>>

\* processSFrame(), REJ: always a command with P set.
ReceiveREJ(s) == \E f \in ToSet(line[s]) :
    LET l == link[s]
        new == [AckOutgoing(l, f) EXCEPT !.va = f.nr]
        back == [new EXCEPT !.vs = f.nr]
    IN  /\ Arrives(s, f, {"REJ"}) /\ l.state = "Established" /\ ValidNR(l, f)
        /\ IF l.recovery \/ l.lastPF
           THEN Continue(s, IF l.recovery THEN new ELSE back, <<RR(l, FALSE, TRUE)>>, Rest(s))
           ELSE Continue(s, IF new.out # <<>> THEN StartT200(back) ELSE StopT200(back, TRUE),
                         <<RR(l, FALSE, TRUE)>> \o AllData(new), Rest(s))
        /\ UNCHANGED <<note, up, history>>

\* processUFrame(): an answer, or a command that changes the state or does not.
ReceiveUA(s) == \E f \in ToSet(line[s]) :
    LET l == link[s]
    IN  /\ Arrives(s, f, {"UA"}) /\ l.state = "WaitEstablish"
        /\ Restart(s, StopT200(Enter(l, "Established"), TRUE), <<>>, Rest(s), TRUE)
        /\ note' = [note EXCEPT ![s]["receiver"] = "Established"]
        /\ UNCHANGED up

ReceiveDM(s) == \E f \in ToSet(line[s]) :
    LET l == link[s]
    IN  /\ Arrives(s, f, {"DM"}) /\ ~(l.state = "Established" /\ l.recovery)
        /\ Restart(s, Enter(l, "Released"), <<>>, Rest(s), FALSE)
        /\ note' = [note EXCEPT ![s]["receiver"] = "Released"]
        /\ UNCHANGED up

ReceiveSABME(s) == \E f \in ToSet(line[s]) :
    LET l == link[s]
    IN  /\ Arrives(s, f, {"SABME"})
        /\ IF l.state = "WaitEstablish"
           THEN /\ Continue(s, l, <<U("UA")>>, Rest(s))
                /\ UNCHANGED <<note, history>>
           ELSE /\ Restart(s, StopT200(Enter(l, "Established"), TRUE), <<U("UA")>>, Rest(s), FALSE)
                /\ note' = [note EXCEPT ![s]["receiver"] = "Established"]
        /\ UNCHANGED up

ReceiveDISC(s) == \E f \in ToSet(line[s]) :
    LET l == link[s]
    IN  /\ Arrives(s, f, {"DISC"})
        /\ IF l.state = "Released"
           THEN /\ Continue(s, l, <<U("DM")>>, Rest(s))
                /\ UNCHANGED <<note, history>>
           ELSE /\ Restart(s, Enter(l, "Released"),
                           <<U(IF l.state = "Established" THEN "UA" ELSE "DM")>>, Rest(s), FALSE)
                /\ note' = [note EXCEPT ![s]["receiver"] = "Released"]
        /\ UNCHANGED up

\* Faulty: layer 3 is not told.
LinkDownSilent(s) ==
    /\ note[s]["receiver"] = None
    /\ Restart(s, Enter(link[s], "Released"), <<>>, [p \in Sides |-> <<>>], FALSE)
    /\ UNCHANGED <<note, up>>

\* notify(): the interface is down, and what was on the line is lost.
LinkDown(s) ==
    /\ note[s]["receiver"] = None
    /\ Restart(s, Enter(link[s], "Released"), <<>>, [p \in Sides |-> <<>>], FALSE)
    /\ note' = [note EXCEPT ![s]["receiver"] = "Restart"]
    /\ UNCHANGED up

\* The line loses a frame.
Lose(s) ==
    /\ line[s] # <<>>
    /\ line' = Rest(s)
    /\ UNCHANGED <<link, note, up, history>>

-----------------------------------------------------------------------------
Init ==
    /\ link = [s \in Sides |->
                 [state |-> "Released", vs |-> 0, va |-> 0, vr |-> 0, out |-> <<>>,
                  recovery |-> FALSE, rejectSent |-> FALSE, lastPF |-> FALSE,
                  t200 |-> FALSE, t203 |-> FALSE, n200 |-> 0]]
    /\ line = [s \in Sides |-> <<>>]
    /\ note = [s \in Sides |-> [t \in Threads |-> None]]
    /\ up = [s \in Sides |-> FALSE]
    /\ accepted = [s \in Sides |-> 0]
    /\ delivered = [s \in Sides |-> 0]
    /\ cut = [s \in Sides |-> FALSE]
    /\ lost = [s \in Sides |-> {}]

Receive(s) ==
    \/ OutOfSequence(s) \/ Rejected(s) \/ Drop(s)
    \/ ReceiveI(s) \/ ReceiveRR(s) \/ ReceiveREJ(s)
    \/ ReceiveUA(s) \/ ReceiveDM(s) \/ ReceiveSABME(s) \/ ReceiveDISC(s)

TimerTick(s) == T203Expires(s) \/ GiveUp(s) \/ AskAgain(s) \/ Retransmit(s)

Notify(s) == \E t \in Threads : NotifyEstablished(s, t) \/ NotifyReleased(s, t)

Next == \E s \in Sides :
    \/ MultipleFrame(s) \/ Cleanup(s) \/ LinkDown(s) \/ SendData(s)
    \/ Notify(s) \/ TimerTick(s) \/ Receive(s) \/ Lose(s)

Spec == Init /\ [][Next]_vars

-----------------------------------------------------------------------------
(* Properties *)

Numbers == 0..Modulus - 1

Frame ==
    [type : {"I", "RR", "REJ", "SABME", "DISC", "UA", "DM"}, command : BOOLEAN, poll : BOOLEAN,
     ns : Numbers, nr : Numbers, data : Nat]

Link ==
    [state : States, vs : Numbers, va : Numbers, vr : Numbers,
     out : Seq([ns : Numbers, data : Nat]),
     recovery : BOOLEAN, rejectSent : BOOLEAN, lastPF : BOOLEAN,
     t200 : BOOLEAN, t203 : BOOLEAN, n200 : 0..Retransmissions]

TypeOK ==
    /\ link \in [Sides -> Link] /\ \A s \in Sides : Len(link[s].out) <= MaxPending
    /\ line \in [Sides -> Seq(Frame)] /\ \A s \in Sides : Len(line[s]) <= LineSize
    /\ note \in [Sides -> [Threads -> {"Established", "Released", "Restart", None}]]
    /\ up \in [Sides -> BOOLEAN]
    /\ accepted \in [Sides -> Nat] /\ delivered \in [Sides -> Nat]
    /\ cut \in [Sides -> BOOLEAN] /\ lost \in [Sides -> SUBSET Nat]

Direction(s) == INSTANCE AckedLink WITH
    accepted <- accepted[s], delivered <- delivered[s], dropped <- lost[s],
    pending <- SelectSeq([i \in DOMAIN link[s].out |-> link[s].out[i].data],
                         LAMBDA d : d \notin lost[s])

\* In each direction the two ends make an acknowledged link of the lossy line: data
\* reach the peer's layer 3 in order, once, and none is skipped or taken for
\* acknowledged unless its session ended.  (processDataFrame(), ackOutgoingFrames(),
\* acceptFrame() and the retransmissions, with their sequence numbers that wrap.)
DataSpec ==
    /\ \A s \in Sides : Direction(s)!Init
    /\ [][\A s \in Sides : [Direction(s)!Next]_(Direction(s)!vars)]_vars

\* Whatever is lost, an end that is not released has exactly one of its timers
\* running: it never waits for ever for an answer or an acknowledgment, nor for a
\* peer that is gone.  (timer() and all its callers.)
NeverStranded == \A s \in Sides :
    link[s].state # "Released" => link[s].t200 # link[s].t203

\* Once the notifications are made layer 3 knows that a link is released, in
\* whatever order the receiver's and the timer's thread told it what happened to
\* the link: it does not go on sending to sendData(), which refuses.
ReleasedIsKnown == Quiet =>
    \A s \in Sides : link[s].state = "Released" => ~up[s]

\* What the induction needs beyond these: who tells layer 3 what.  An Established that is
\* not told yet is still true, as no timer expires before; and a release is not told yet
\* while layer 3 does not know of it.
Told == \A s \in Sides :
    /\ note[s]["timer"] \in {None, "Restart"}
    /\ note[s]["receiver"] = "Established" => link[s].state # "Released"
    /\ link[s].state = "Released" /\ up[s] =>
          \E t \in Threads : note[s][t] \in {"Released", "Restart"}

IndInv == TypeOK /\ NeverStranded /\ Told
=============================================================================
