------------------------ MODULE SipTransactionProofs ------------------------
(***************************************************************************)
(* Proofs about SipTransaction, for any users, codes and numbers of        *)
(* transmissions: the types, the bound on transmissions, that only what    *)
(* was answered is acknowledged, and that no answer is lost.               *)
(***************************************************************************)
EXTENDS SipTransaction, TLAPS

(***************************************************************************)
(* Messages and records                                                    *)
(***************************************************************************)

\* The client sends requests and ACKs, the server answers; the former are not final.
LEMMA MessageKinds ==
    /\ Request \in Messages /\ Ack \in Messages /\ Answers \subseteq Messages
    /\ Messages \subseteq Nat /\ NoMessage \notin Messages
    /\ Request \notin Answers /\ Ack \notin Answers
    /\ ~Final(Request) /\ ~Final(Ack) /\ ~Final(NoMessage)
  BY CodeAssumption DEF Messages, Answers, Request, Ack, NoMessage, Final

LEMMA EventTypes ==
    /\ NoEvent \in Event
    /\ \A m \in Messages \cup {NoMessage}, s \in States : [msg |-> m, state |-> s] \in Event
    /\ \A e \in Event : e.msg \in Messages \cup {NoMessage} /\ e.state \in States
  BY DEF NoEvent, Event, States

\* What changeState() and the rest leave of one transaction, and of the other one.
LEMMA ChangeFacts ==
    ASSUME TypeOK, NEW d \in Sides, NEW t \in Transaction, Change(d, t)
    PROVE  /\ tr' \in [Sides -> Transaction]
           /\ d = "client" => tr'["client"] = t
           /\ d = "server" => tr'["client"] = tr["client"]
  <1>1. NoTransaction \in Transaction /\ [NoTransaction EXCEPT !.state = "Invalid"] \in Transaction
    BY EventTypes DEF NoTransaction, Transaction, States
  <1>2. Left(d, t) \in Transaction /\ (d = "client" => Left(d, t) = t)
    BY <1>1 DEF Left
  <1> QED  BY <1>2 DEF Change, TypeOK, Sides

LEMMA RaiseFacts ==
    ASSUME TypeOK, NEW d \in Sides, NEW m \in Messages \cup {NoMessage}, NEW s \in States,
           Raise(d, m, s)
    PROVE  /\ ev' \in [Sides -> Event]
           /\ d = "client" => \/ (ev'["client"] = [msg |-> m, state |-> s] /\ ~tr["client"].silent)
                              \/ (ev'["client"] = NoEvent /\ tr["client"].silent)
           /\ d = "server" => ev'["client"] = ev["client"]
  <1>1. tr[d].silent \in BOOLEAN
    BY DEF TypeOK, Transaction
  <1> QED  BY <1>1, EventTypes DEF Raise, TypeOK, Sides

LEMMA ServerRaises ==
    ASSUME TypeOK, NEW m \in Messages \cup {NoMessage}, NEW s \in States,
           Raise("server", m, s)
    PROVE  ev' \in [Sides -> Event] /\ ev'["client"] = ev["client"]
  <1>1. "server" \in Sides
    BY DEF Sides
  <1> QED  BY <1>1, RaiseFacts

\* The fields of a transaction.
LEMMA Fields ==
    ASSUME NEW t \in Transaction
    PROVE  /\ t.state \in States /\ t.transmit \in BOOLEAN
           /\ t.last \in Messages \cup {NoMessage} /\ t.response \in Nat /\ t.timer \in Nat
           /\ t.pending \in Event /\ t.autoAck \in BOOLEAN /\ t.silent \in BOOLEAN
           /\ t.pending.msg \in Messages \cup {NoMessage} /\ t.pending.state \in States
  <1>1. t.pending \in Event
    BY DEF Transaction
  <1>2. t.pending.msg \in Messages \cup {NoMessage} /\ t.pending.state \in States
    BY <1>1, EventTypes
  <1> QED  BY <1>1, <1>2 DEF Transaction

\* What the steps write to a transaction keeps its type.
LEMMA SetStateTimer ==
    ASSUME NEW t \in Transaction, NEW s \in States, NEW n \in Nat
    PROVE  [t EXCEPT !.state = s, !.timer = n] \in Transaction
  BY DEF Transaction

LEMMA SetResponseState ==
    ASSUME NEW t \in Transaction, NEW s \in States, NEW n \in Nat
    PROVE  [t EXCEPT !.response = n, !.state = s] \in Transaction
  BY DEF Transaction

LEMMA SetTransmitState ==
    ASSUME NEW t \in Transaction, NEW s \in States, NEW b \in BOOLEAN
    PROVE  [t EXCEPT !.transmit = b, !.state = s] \in Transaction
  BY DEF Transaction

LEMMA SetTimer ==
    ASSUME NEW t \in Transaction, NEW n \in Nat
    PROVE  [t EXCEPT !.timer = n] \in Transaction
  BY DEF Transaction

\* setPendingEvent(): the event is kept, or replaced when it should be.
LEMMA PendFacts ==
    ASSUME NEW t \in Transaction, NEW m \in Messages, NEW replace \in BOOLEAN
    PROVE  LET p == Pend(t, m, replace)
           IN  /\ p \in Transaction
               /\ p.state = t.state /\ p.transmit = t.transmit /\ p.last = t.last
               /\ p.response = t.response /\ p.timer = t.timer
               /\ p.autoAck = t.autoAck /\ p.silent = t.silent
               /\ p.pending = t.pending \/ p.pending.msg = m
               /\ replace => p.pending.msg = m
               /\ p.pending # t.pending => t.pending = NoEvent \/ replace
  <1>1. [msg |-> m, state |-> t.state] \in Event
    BY Fields, EventTypes
  <1> QED  BY <1>1 DEF Pend, Transaction

LEMMA AcknowledgedFacts ==
    ASSUME NEW t \in Transaction
    PROVE  LET a == Acknowledged(t)
           IN  /\ a \in Transaction
               /\ a.state = "Finish" /\ a.last = Ack /\ a.transmit = TRUE
               /\ a.response = t.response /\ a.pending = t.pending /\ a.silent = t.silent
  BY MessageKinds DEF Acknowledged, Transaction, States

\* An answer to the client, in state Process.
LEMMA AnsweredClientFacts ==
    ASSUME m_invite \in BOOLEAN,
           NEW t \in Transaction, t.state = "Process", NEW code \in Answers
    PROVE  LET a == AnsweredClient(t, code)
           IN  /\ a \in Transaction
               /\ a.state \in {"Process", "Cleared", "Retrans", "Finish"}
               /\ a.state \in {"Retrans", "Finish"} => Final(code)
               /\ a.response = code /\ a.silent = t.silent
               /\ a.last = code \/ (a.last = Ack /\ a.state = "Finish")
               /\ Final(code) => a.pending.msg = code
               /\ a.pending = t.pending \/ a.pending.msg = code
               /\ a.pending # t.pending => t.pending = NoEvent \/ Final(code)
  <1> DEFINE u == [t EXCEPT !.last = code, !.response = code,
                            !.timer = IF Final(code) THEN 0 ELSE IF m_invite THEN 1 ELSE @]
             p == Pend(u, code, Final(code))
  <1>1. /\ code \in Messages /\ code \in Nat
        /\ Final(code) \in BOOLEAN
    BY MessageKinds DEF Final
  <1>2. /\ u \in Transaction /\ u.state = "Process" /\ u.last = code /\ u.response = code
        /\ u.pending = t.pending /\ u.silent = t.silent /\ u.autoAck = t.autoAck
    BY <1>1, Fields DEF Transaction
  <1> HIDE DEF u
  <1>3. /\ p \in Transaction /\ p.state = "Process" /\ p.last = code /\ p.response = code
        /\ p.silent = t.silent
        /\ p.pending = t.pending \/ p.pending.msg = code
        /\ Final(code) => p.pending.msg = code
        /\ p.pending # t.pending => t.pending = NoEvent \/ Final(code)
    BY <1>1, <1>2, PendFacts
  <1>4. AnsweredClient(t, code) =
            IF ~Final(code) THEN p
            ELSE IF ~m_invite THEN [p EXCEPT !.state = "Cleared"]
            ELSE IF p.autoAck \/ code >= 300 THEN Acknowledged(p)
            ELSE [p EXCEPT !.state = "Retrans"]
    BY DEF AnsweredClient, u
  <1> HIDE DEF p
  <1>5. /\ [p EXCEPT !.state = "Cleared"] \in Transaction
        /\ [p EXCEPT !.state = "Retrans"] \in Transaction
    BY <1>3 DEF Transaction, States
  <1>6. CASE ~Final(code)
    BY <1>3, <1>4, <1>6
  <1>7. CASE Final(code) /\ ~m_invite
    BY <1>3, <1>4, <1>5, <1>7 DEF Transaction
  <1>8. CASE Final(code) /\ m_invite /\ (p.autoAck \/ code >= 300)
    BY <1>3, <1>4, <1>8, AcknowledgedFacts
  <1>9. CASE Final(code) /\ m_invite /\ ~(p.autoAck \/ code >= 300)
    BY <1>3, <1>4, <1>5, <1>9 DEF Transaction
  <1> QED  BY <1>6, <1>7, <1>8, <1>9

\* processClientMessage() in any state.
LEMMA ProcessedByClientFacts ==
    ASSUME m_invite \in BOOLEAN, NEW t \in Transaction, NEW code \in Answers
    PROVE  LET a == ProcessedByClient(t, code)
           IN  /\ a \in Transaction
               /\ a.state = t.state \/ t.state \in {"Trying", "Process"}
               /\ a.state \in {"Initial", "Trying"} => a.state = t.state /\ a.timer = t.timer
               /\ t.state = "Trying" => a.state # "Trying"
               /\ a.silent = t.silent
               /\ a.last = t.last \/ a.last = code \/ (a.last = Ack /\ a.state = "Finish")
               /\ a.last # t.last => t.state \in {"Trying", "Process"}
               /\ a.state = t.state /\ t.state \in {"Finish", "Retrans"} =>
                     a.response = t.response /\ a.last = t.last
               /\ a.state # t.state /\ a.state \in {"Finish", "Retrans"} =>
                     Final(code) /\ a.response = code
               /\ a.pending = t.pending \/ a.pending.msg = code
               /\ a.pending # t.pending => t.pending = NoEvent \/ Final(code)
               /\ a.last # t.last /\ Final(code) => a.pending.msg = code
               /\ a.transmit /\ a.last = NoMessage => t.transmit /\ t.last = NoMessage
  <1> DEFINE heard == [t EXCEPT !.state = "Process", !.response = code, !.timer = 1]
             x == AnsweredClient(heard, code)
             y == AnsweredClient(t, code)
             z == [t EXCEPT !.transmit = @ \/ (t.last = Ack /\ Final(code))]
  <1>1. code \in Messages /\ code \in Nat /\ code # NoMessage /\ Ack # NoMessage
    BY MessageKinds
  <1>2. /\ heard \in Transaction /\ heard.state = "Process" /\ heard.silent = t.silent
        /\ heard.pending = t.pending /\ heard.last = t.last /\ heard.transmit = t.transmit
    BY <1>1, Fields DEF Transaction, States
  <1>3. ProcessedByClient(t, code) =
            CASE t.state = "Trying" -> IF code = 100 THEN heard ELSE x
              [] t.state = "Process" -> IF code = 100 THEN t ELSE y
              [] t.state = "Finish" -> z
              [] OTHER -> t
    BY DEF ProcessedByClient
  <1> HIDE DEF heard
  <1>4. /\ x \in Transaction /\ x.state \in {"Process", "Cleared", "Retrans", "Finish"}
        /\ x.state \in {"Retrans", "Finish"} => Final(code)
        /\ x.response = code /\ x.silent = t.silent
        /\ x.last = code \/ (x.last = Ack /\ x.state = "Finish")
        /\ Final(code) => x.pending.msg = code
        /\ x.pending = t.pending \/ x.pending.msg = code
        /\ x.pending # t.pending => t.pending = NoEvent \/ Final(code)
    BY <1>2, AnsweredClientFacts
  <1>5. t.state = "Process" =>
        /\ y \in Transaction /\ y.state \in {"Process", "Cleared", "Retrans", "Finish"}
        /\ y.state \in {"Retrans", "Finish"} => Final(code)
        /\ y.response = code /\ y.silent = t.silent
        /\ y.last = code \/ (y.last = Ack /\ y.state = "Finish")
        /\ Final(code) => y.pending.msg = code
        /\ y.pending = t.pending \/ y.pending.msg = code
        /\ y.pending # t.pending => t.pending = NoEvent \/ Final(code)
    BY AnsweredClientFacts
  <1>6. /\ z \in Transaction /\ z.state = t.state /\ z.timer = t.timer /\ z.silent = t.silent
        /\ z.last = t.last /\ z.response = t.response /\ z.pending = t.pending
        /\ z.transmit => t.transmit \/ t.last = Ack
    BY Fields DEF Transaction
  <1> HIDE DEF x, y, z
  <1>7. CASE t.state = "Trying"
    BY <1>1, <1>2, <1>3, <1>4, <1>7 DEF heard
  <1>8. CASE t.state = "Process"
    BY <1>1, <1>3, <1>5, <1>8
  <1>9. CASE t.state = "Finish"
    BY <1>1, <1>3, <1>6, <1>9
  <1>10. CASE t.state \notin {"Trying", "Process", "Finish"}
    BY <1>3, <1>10
  <1> QED  BY <1>7, <1>8, <1>9, <1>10

\* setResponse(message).
LEMMA AnsweredServerFacts ==
    ASSUME NEW t \in Transaction, NEW code \in Answers
    PROVE  /\ AnsweredServer(t, code) \in Transaction
           /\ AnsweredServer(t, code).state \in States
  <1> DEFINE over == IF m_invite THEN "Retrans" ELSE "Finish"
             count == IF m_invite /\ (~reliable \/ code < 300) THEN RspTransCount ELSE 1
             answered == [t EXCEPT !.last = code, !.response = code, !.transmit = TRUE]
  <1>1. code \in Messages /\ code \in Nat /\ count \in Nat /\ over \in States
    BY MessageKinds, CountAssumption DEF States
  <1>2. answered \in Transaction /\ answered.timer \in Nat
    BY <1>1, Fields DEF Transaction
  <1>3. AnsweredServer(t, code) =
            IF ~Final(code)
            THEN [answered EXCEPT !.timer = IF code > 100 THEN 1 ELSE @]
            ELSE IF Changes(t, over)
                 THEN [answered EXCEPT !.state = over, !.timer = count]
                 ELSE answered
    BY DEF AnsweredServer
  <1> HIDE DEF answered, over, count
  <1>4. /\ [answered EXCEPT !.timer = IF code > 100 THEN 1 ELSE @] \in Transaction
        /\ [answered EXCEPT !.state = over, !.timer = count] \in Transaction
    BY <1>1, <1>2 DEF Transaction
  <1>5. AnsweredServer(t, code) \in Transaction
    BY <1>2, <1>3, <1>4
  <1> QED  BY <1>5, Fields

LEMMA ProcessedByServerFacts ==
    ASSUME NEW t \in Transaction, NEW m \in {Request, Ack}
    PROVE  ProcessedByServer(t, m) \in Transaction
  <1>1. [t EXCEPT !.transmit = TRUE] \in Transaction
    BY DEF Transaction
  <1>2. [Pend(t, Ack, FALSE) EXCEPT !.timer = 0, !.state = "Cleared"] \in Transaction
    <2>1. Pend(t, Ack, FALSE) \in Transaction
      BY PendFacts, MessageKinds
    <2> QED  BY <2>1 DEF Transaction, States
  <1> QED  BY <1>1, <1>2 DEF ProcessedByServer

(***************************************************************************)
(* The server's steps and those of neither side                            *)
(***************************************************************************)

\* A step that only changes the two transactions and the events keeps the types.
LEMMA KeepTypes ==
    ASSUME TypeOK, Keep, tr' \in [Sides -> Transaction], ev' \in [Sides -> Event]
    PROVE  TypeOK'
  BY DEF TypeOK, Keep, fixed, user, history

\* What a step that leaves the client alone may do.
ClientUntouched ==
    /\ tr'["client"] = tr["client"] /\ ev'["client"] = ev["client"]
    /\ UNCHANGED <<m_invite, reliable, handed, tries>>
    /\ net'[Ack] > 0 => net[Ack] > 0
    /\ sent \subseteq sent'
    /\ acked' => acked \/ net[Ack] > 0
    /\ \A m \in Answers : Final(m) /\ net'[m] > 0 => m \in sent'

LEMMA ClientUntouchedKeeps == ASSUME IndInv, TypeOK', ClientUntouched PROVE IndInv'
  <1>1. NoAnswerLost'
    BY DEF IndInv, NoAnswerLost, ClientUntouched
  <1>2. ClientMessages'
    BY DEF IndInv, ClientMessages, ClientUntouched
  <1>3. Budget'
    BY DEF IndInv, Budget, OnTimer, Flagged, OnItsWay, ToSend, Transmissions, ClientUntouched
  <1>4. AckFollows'
    BY DEF IndInv, AckFollows, HasAcked, ClientUntouched
  <1> QED  BY <1>1, <1>2, <1>3, <1>4 DEF IndInv

\* Such a step that neither receives nor sends.
LEMMA QuietServer ==
    ASSUME IndInv, Keep, TypeOK',
           tr'["client"] = tr["client"], ev'["client"] = ev["client"]
    PROVE  IndInv'
  <1>1. ClientUntouched
    BY DEF Keep, fixed, user, history, ClientUntouched, IndInv, AckFollows
  <1> QED  BY <1>1, ClientUntouchedKeeps

\* What becomes of a transaction that gives up.
LEMMA ClearedTypes ==
    ASSUME NEW t \in Transaction
    PROVE  /\ [t EXCEPT !.response = 408] \in Transaction
           /\ [[t EXCEPT !.response = 408] EXCEPT !.state = "Invalid", !.timer = 0] \in Transaction
  <1> DEFINE u == [t EXCEPT !.response = 408]
  <1>1. u \in Transaction
    BY DEF Transaction
  <1> HIDE DEF u
  <1>2. [u EXCEPT !.state = "Invalid", !.timer = 0] \in Transaction
    BY <1>1 DEF Transaction, States
  <1> QED  BY <1>1, <1>2 DEF u

\* The steps that getEvent() has on both sides keep the types.
LEMMA GetEventTypes == ASSUME TypeOK, NEW d \in Sides, GetEvent(d) PROVE TypeOK'
  <1>1. tr[d] \in Transaction
    BY DEF TypeOK
  <1>2. CASE TakePending(d)
    <2>1. [tr[d] EXCEPT !.pending = NoEvent] \in Transaction
      BY <1>1, EventTypes DEF Transaction
    <2> QED  BY <1>1, <1>2, <2>1, Fields, ChangeFacts, RaiseFacts, KeepTypes DEF TakePending
  <1>3. CASE Transmit(d)
    <2>1. [tr[d] EXCEPT !.transmit = FALSE] \in Transaction
      BY <1>1 DEF Transaction
    <2>2. (IF tr[d].last # NoMessage THEN tr[d].last ELSE Request) \in Messages \cup {NoMessage}
      BY <1>1, Fields, MessageKinds
    <2> QED  BY <1>1, <1>3, <2>1, <2>2, Fields, ChangeFacts, RaiseFacts, KeepTypes DEF Transmit
  <1>4. ASSUME Clear(d, tr[d]) PROVE TypeOK'
    <2>1. [tr[d] EXCEPT !.state = "Invalid", !.timer = 0] \in Transaction
      BY <1>1 DEF Transaction, States
    <2>2. [msg |-> IF tr[d].silent THEN NoMessage ELSE Request, state |-> "Cleared"] \in Event
      BY EventTypes, MessageKinds DEF States
    <2>3. ev' \in [Sides -> Event]
      BY <1>4, <2>2 DEF Clear, TypeOK
    <2> QED  BY <1>4, <2>1, <2>3, ChangeFacts, KeepTypes DEF Clear
  <1> QED  BY <1>2, <1>3, <1>4 DEF GetEvent, Cleared, FinishEnds

LEMMA ServerGetEventInd == ASSUME IndInv, GetEvent("server") PROVE IndInv'
  <1>1. TypeOK /\ TypeOK' /\ "server" \in Sides /\ tr["server"] \in Transaction
    BY GetEventTypes DEF IndInv, Sides, TypeOK
  <1>2. tr'["client"] = tr["client"]
    BY <1>1 DEF GetEvent, TakePending, Transmit, Cleared, FinishEnds, Clear, Change, TypeOK, Sides
  <1>3. ev'["client"] = ev["client"] /\ Keep
    BY <1>1 DEF GetEvent, TakePending, Transmit, Cleared, FinishEnds, Clear, Raise, TypeOK, Sides
  <1> QED  BY <1>1, <1>2, <1>3, QuietServer

\* The steps of getServerEvent().
LEMMA ServerEventInd ==
    ASSUME IndInv,
           \/ ServerRefuses \/ (\E lazy \in BOOLEAN : ServerStart(lazy)) \/ ServerAsks
           \/ ServerGivesUp \/ ServerRetry \/ ServerUnacked
    PROVE  IndInv'
  <1> DEFINE t == tr["server"]
  <1>1. TypeOK /\ "server" \in Sides /\ t \in Transaction
    BY DEF IndInv, Sides, TypeOK
  <1>2. {100, 400, 408} \subseteq Answers /\ Answers \subseteq Messages /\ 408 \in Nat
    BY MessageKinds DEF Answers
  <1> SUFFICES ASSUME Keep
               PROVE  /\ tr' \in [Sides -> Transaction] /\ ev' \in [Sides -> Event]
                      /\ tr'["client"] = tr["client"] /\ ev'["client"] = ev["client"]
    <2>1. Keep
      BY DEF ServerRefuses, ServerStart, ServerAsks, ServerGivesUp, ServerRetry,
             ServerUnacked, Clear
    <2> QED  BY <1>1, <2>1, KeepTypes, QuietServer
  <1>3. CASE ServerRefuses
    <2> DEFINE a == AnsweredServer(t, 400)
    <2>1. a \in Transaction /\ a.state \in States
      BY <1>1, <1>2, AnsweredServerFacts
    <2>2. /\ Change("server", [a EXCEPT !.transmit = FALSE, !.state = "Invalid"])
          /\ Raise("server", 400, a.state)
      BY <1>3 DEF ServerRefuses
    <2> HIDE DEF a
    <2>3. [a EXCEPT !.transmit = FALSE, !.state = "Invalid"] \in Transaction
      <3>1. "Invalid" \in States /\ FALSE \in BOOLEAN
        BY DEF States
      <3> QED  BY <2>1, <3>1, SetTransmitState, Zenon
    <2>4. ev' \in [Sides -> Event] /\ ev'["client"] = ev["client"]
      <3>1. 400 \in Messages \cup {NoMessage}
        BY <1>2
      <3> QED  BY <1>1, <2>1, <2>2, <3>1, ServerRaises
    <2> QED  BY <1>1, <2>2, <2>3, <2>4, ChangeFacts
  <1>4. ASSUME NEW lazy \in BOOLEAN, ServerStart(lazy)
        PROVE  /\ tr' \in [Sides -> Transaction] /\ ev' \in [Sides -> Event]
               /\ tr'["client"] = tr["client"] /\ ev'["client"] = ev["client"]
    <2> DEFINE a == AnsweredServer(t, 100)
    <2>1. a \in Transaction
      BY <1>1, <1>2, AnsweredServerFacts
    <2>2. Change("server", [a EXCEPT !.transmit = ~lazy, !.state = "Trying"]) /\ ev' = ev
      BY <1>4 DEF ServerStart
    <2> HIDE DEF a
    <2>3. [a EXCEPT !.transmit = ~lazy, !.state = "Trying"] \in Transaction
      <3>0. "Trying" \in States
        BY DEF States
      <3> QED  BY <2>1, <3>0 DEF Transaction
    <2> QED  BY <1>1, <2>2, <2>3, ChangeFacts DEF TypeOK
  <1>5. CASE ServerAsks
    <2>1. [t EXCEPT !.state = "Process", !.timer = 1] \in Transaction
      <3>1. "Process" \in States /\ 1 \in Nat
        BY DEF States
      <3> QED  BY <1>1, <3>1, SetStateTimer, Zenon
    <2>2. /\ Change("server", [t EXCEPT !.state = "Process", !.timer = 1])
          /\ Raise("server", Request, "Trying")
      BY <1>5 DEF ServerAsks
    <2>3. Request \in Messages \cup {NoMessage} /\ "Trying" \in States
      BY MessageKinds DEF States
    <2>4. ev' \in [Sides -> Event] /\ ev'["client"] = ev["client"]
      BY <1>1, <2>2, <2>3, ServerRaises
    <2> QED  BY <1>1, <2>1, <2>2, <2>4, ChangeFacts
  <1>6. CASE ServerGivesUp
    <2> DEFINE a == AnsweredServer([t EXCEPT !.timer = 0], 408)
    <2>1. [t EXCEPT !.timer = 0] \in Transaction
      BY <1>1, 0 \in Nat, SetTimer, Zenon
    <2>2. a \in Transaction /\ a.state \in States
      BY <1>2, <2>1, AnsweredServerFacts
    <2>3. Change("server", a) /\ Raise("server", 408, a.state)
      BY <1>6 DEF ServerGivesUp
    <2> HIDE DEF a
    <2>4. ev' \in [Sides -> Event] /\ ev'["client"] = ev["client"]
      <3>1. 408 \in Messages \cup {NoMessage}
        BY <1>2
      <3> QED  BY <1>1, <2>2, <2>3, <3>1, ServerRaises
    <2> QED  BY <1>1, <2>2, <2>3, <2>4, ChangeFacts
  <1>7. CASE ServerRetry
    <2>1. [t EXCEPT !.timer = @ - 1] \in Transaction
      <3>1. t.timer - 1 \in Nat
        BY <1>1, <1>7, Fields DEF ServerRetry
      <3> QED  BY <1>1, <3>1, SetTimer, Zenon
    <2>2. /\ Change("server", [t EXCEPT !.timer = @ - 1])
          /\ Raise("server", t.last, "Retrans")
      BY <1>7 DEF ServerRetry
    <2>3. t.last \in Messages \cup {NoMessage} /\ "Retrans" \in States
      BY <1>1, Fields DEF States
    <2>4. ev' \in [Sides -> Event] /\ ev'["client"] = ev["client"]
      BY <1>1, <2>2, <2>3, ServerRaises
    <2> QED  BY <1>1, <2>1, <2>2, <2>4, ChangeFacts
  <1>8. CASE ServerUnacked
    <2>1. [[t EXCEPT !.response = 408] EXCEPT !.state = "Invalid", !.timer = 0] \in Transaction
      <3> DEFINE u == [t EXCEPT !.response = 408]
      <3>1. u \in Transaction
        BY <1>1, ClearedTypes
      <3> HIDE DEF u
      <3>2. [u EXCEPT !.state = "Invalid", !.timer = 0] \in Transaction
        BY <3>1 DEF Transaction, States
      <3> QED  BY <3>2 DEF u
    <2>2. /\ Change("server", [[t EXCEPT !.response = 408] EXCEPT !.state = "Invalid", !.timer = 0])
          /\ \E m \in Messages \cup {NoMessage} :
                ev' = [ev EXCEPT !["server"] = [msg |-> m, state |-> "Cleared"]]
      BY <1>8, MessageKinds DEF ServerUnacked, Clear
    <2>3. /\ ev' \in [Sides -> Event] /\ ev'["client"] = ev["client"]
      <3>1. PICK m \in Messages \cup {NoMessage} :
                ev' = [ev EXCEPT !["server"] = [msg |-> m, state |-> "Cleared"]]
        BY <2>2
      <3> DEFINE e == [msg |-> m, state |-> "Cleared"]
      <3>2. e \in Event
        BY EventTypes DEF States
      <3> HIDE DEF e
      <3>3. ev' = [ev EXCEPT !["server"] = e] /\ ev \in [Sides -> Event]
        BY <1>1, <3>1 DEF e, TypeOK
      <3> QED  BY <3>2, <3>3 DEF Sides
    <2> QED  BY <1>1, <2>1, <2>2, <2>3, ChangeFacts
  <1> QED  BY <1>3, <1>4, <1>5, <1>6, <1>7, <1>8

\* A copy of a message is taken from the network.
LEMMA Taken ==
    ASSUME TypeOK, NEW m \in Messages, net[m] > 0, net' = [net EXCEPT ![m] = @ - 1]
    PROVE  /\ net' \in [Messages -> 0..MaxCopies]
           /\ \A k \in Messages : net'[k] > 0 => net[k] > 0
  <1>1. net \in [Messages -> 0..MaxCopies] /\ net[m] \in 0..MaxCopies /\ MaxCopies \in Nat
    BY CountAssumption DEF TypeOK
  <1>2. net[m] - 1 \in 0..MaxCopies
    BY <1>1
  <1> QED  BY <1>1, <1>2

\* addMessage() at the server, and the two halves of setResponse().
LEMMA ServerReceivesInd ==
    ASSUME IndInv, ServerReceivesRequest \/ ServerReceivesAck PROVE IndInv'
  <1> DEFINE t == tr["server"]
  <1>1. TypeOK /\ "server" \in Sides /\ t \in Transaction
    BY DEF IndInv, Sides, TypeOK
  <1>2. PICK new \in Transaction : Change("server", new)
    <2>1. [t EXCEPT !.state = "Initial"] \in Transaction
      BY <1>1 DEF Transaction, States
    <2> QED  BY <1>1, <2>1, ProcessedByServerFacts DEF ServerReceivesRequest, ServerReceivesAck
  <1>3. tr' \in [Sides -> Transaction] /\ tr'["client"] = tr["client"]
    BY <1>1, <1>2, ChangeFacts
  <1>4. /\ net' \in [Messages -> 0..MaxCopies] /\ acked' \in BOOLEAN
        /\ \A m \in Messages : net'[m] > 0 => net[m] > 0
        /\ acked' => acked \/ net[Ack] > 0
        /\ UNCHANGED <<fixed, ev, user, handed, tries, sent>>
    <2>1. PICK m \in {Request, Ack} : net[m] > 0 /\ net' = [net EXCEPT ![m] = @ - 1]
      BY DEF ServerReceivesRequest, ServerReceivesAck
    <2>2. /\ net' \in [Messages -> 0..MaxCopies]
          /\ \A k \in Messages : net'[k] > 0 => net[k] > 0
      BY <1>1, <2>1, MessageKinds, Taken
    <2>3. acked' = acked \/ (net[Ack] > 0 /\ acked' = (acked \/ t.state \in {"Finish", "Retrans"}))
      BY DEF ServerReceivesRequest, ServerReceivesAck, history
    <2>4. acked' \in BOOLEAN /\ (acked' => acked \/ net[Ack] > 0)
      <3>1. acked \in BOOLEAN
        BY <1>1 DEF TypeOK
      <3>2. CASE acked' = acked
        BY <3>1, <3>2
      <3>3. CASE net[Ack] > 0 /\ acked' = (acked \/ t.state \in {"Finish", "Retrans"})
        <4>1. (acked \/ t.state \in {"Finish", "Retrans"}) \in BOOLEAN
          OBVIOUS
        <4> QED  BY <3>3, <4>1
      <3> QED  BY <2>3, <3>2, <3>3
    <2>5. UNCHANGED <<fixed, ev, user, handed, tries, sent>>
      BY DEF ServerReceivesRequest, ServerReceivesAck, history
    <2> QED  BY <2>2, <2>4, <2>5
  <1>5. TypeOK'
    BY <1>1, <1>3, <1>4 DEF TypeOK, fixed, user
  <1>6. ClientUntouched
    BY <1>3, <1>4, MessageKinds DEF ClientUntouched, fixed, IndInv, AckFollows
  <1> QED  BY <1>5, <1>6, ClientUntouchedKeeps

LEMMA UserAnswersInd ==
    ASSUME IndInv, NEW u \in Users,
           SetResponse(u) \/ \E code \in Codes : UserAnswers(u, code)
    PROVE  IndInv'
  <1>1. TypeOK /\ "server" \in Sides /\ tr["server"] \in Transaction
    BY DEF IndInv, Sides, TypeOK
  <1>2. CASE SetResponse(u)
    <2>1. ans[u] \in Answers
      BY <1>1, <1>2 DEF SetResponse, TypeOK, Answers
    <2>2. AnsweredServer(tr["server"], ans[u]) \in Transaction
      BY <1>1, <2>1, AnsweredServerFacts
    <2>3. tr' \in [Sides -> Transaction] /\ tr'["client"] = tr["client"]
      BY <1>1, <1>2, <2>2, ChangeFacts DEF SetResponse
    <2>4. /\ ans' \in [Users -> Codes \cup {NoMessage}]
          /\ UNCHANGED <<fixed, ev, net, asked, answers, history>>
      BY <1>1, <1>2 DEF SetResponse, TypeOK
    <2>5. TypeOK'
      BY <1>1, <2>3, <2>4 DEF TypeOK, fixed, history
    <2>6. ClientUntouched
      BY <2>3, <2>4 DEF ClientUntouched, fixed, history, IndInv, AckFollows
    <2> QED  BY <2>5, <2>6, ClientUntouchedKeeps
  <1>3. ASSUME NEW code \in Codes, UserAnswers(u, code) PROVE IndInv'
    <2>1. /\ ans' \in [Users -> Codes \cup {NoMessage}] /\ answers' \in 0..MaxAnswers
          /\ UNCHANGED <<fixed, tr, ev, net, asked, history>>
      BY <1>1, <1>3, CountAssumption DEF UserAnswers, TypeOK
    <2>2. TypeOK'
      BY <1>1, <2>1 DEF TypeOK, fixed, history
    <2>3. ClientUntouched
      BY <2>1 DEF ClientUntouched, fixed, history, IndInv, AckFollows
    <2> QED  BY <2>2, <2>3, ClientUntouchedKeeps
  <1> QED  BY <1>2, <1>3

(***************************************************************************)
(* The client's steps                                                      *)
(***************************************************************************)

\* What TypeOK says of the client.
LEMMA ClientTypes ==
    ASSUME TypeOK
    PROVE  /\ "client" \in Sides /\ tr["client"] \in Transaction
           /\ ev["client"] \in Event /\ ev["client"].msg \in Messages \cup {NoMessage}
           /\ handed \in Nat /\ tries \in Nat /\ Transmissions \in Nat
  BY EventTypes, CountAssumption DEF TypeOK, Sides, Transmissions

\* An event that is not there is not on its way, and no event is an ACK by itself.
LEMMA NoEventFacts ==
    /\ NoEvent.msg = NoMessage
    /\ Request # Ack /\ NoMessage # Request /\ NoMessage # Ack
    /\ ~Final(Request) /\ ~Final(Ack) /\ ~Final(NoMessage)
    /\ \A m \in Answers : m \notin {Request, Ack, NoMessage}
  BY MessageKinds DEF NoEvent, NoMessage, Request, Ack

LEMMA ClientRaises ==
    ASSUME TypeOK, NEW m \in Messages \cup {NoMessage}, NEW s \in States,
           Raise("client", m, s)
    PROVE  \/ (ev'["client"].msg = m /\ ev'["client"].state = s /\ ~tr["client"].silent)
           \/ (ev'["client"] = NoEvent /\ tr["client"].silent)
  <1>1. \/ (ev'["client"] = [msg |-> m, state |-> s] /\ ~tr["client"].silent)
        \/ (ev'["client"] = NoEvent /\ tr["client"].silent)
    BY RaiseFacts DEF Sides
  <1> QED  BY <1>1

LEMMA TakePendingInd == ASSUME IndInv, TakePending("client") PROVE IndInv'
  <1> DEFINE c == tr["client"]
             left == [c EXCEPT !.pending = NoEvent]
  <1>1. TypeOK /\ TypeOK'
    BY GetEventTypes, ClientTypes DEF IndInv, GetEvent
  <1>2. /\ left \in Transaction /\ left.state = c.state /\ left.transmit = c.transmit
        /\ left.last = c.last /\ left.response = c.response /\ left.timer = c.timer
        /\ left.pending = NoEvent /\ left.silent = c.silent
    BY <1>1, ClientTypes, EventTypes DEF Transaction
  <1>3. /\ Change("client", left) /\ Raise("client", c.pending.msg, c.pending.state) /\ Keep
        /\ ev["client"] = NoEvent
    BY DEF TakePending, Ready
  <1> HIDE DEF left
  <1>4. tr'["client"] = left
    BY <1>1, <1>2, <1>3, ClientTypes, ChangeFacts
  <1>5. \/ (ev'["client"].msg = c.pending.msg /\ ~c.silent)
        \/ (ev'["client"] = NoEvent /\ c.silent)
    <2>1. c.pending.msg \in Messages \cup {NoMessage} /\ c.pending.state \in States
      BY <1>1, ClientTypes, Fields
    <2> QED  BY <1>1, <1>3, <2>1, ClientRaises
  <1>6. ev'["client"].msg \notin {Request, Ack}
    BY <1>5, NoEventFacts DEF IndInv, ClientMessages
  <1>7. NoAnswerLost'
    BY <1>2, <1>3, <1>4, <1>5, NoEventFacts DEF IndInv, NoAnswerLost, Keep, history
  <1>8. ClientMessages'
    BY <1>2, <1>4, NoEventFacts DEF IndInv, ClientMessages
  <1>9. Budget'
    <2>1. OnItsWay' = 0 /\ OnItsWay \in {0, 1}
      BY <1>6 DEF OnItsWay
    <2>2. UNCHANGED <<OnTimer, Flagged, Transmissions, tries>>
      BY <1>2, <1>3, <1>4 DEF OnTimer, Flagged, Transmissions, Keep, fixed, history
    <2> QED  BY <2>1, <2>2, <1>1, <1>2, <1>4, ClientTypes, Fields, CountAssumption
             DEF IndInv, Budget, OnTimer, Flagged
  <1>10. AckFollows'
    BY <1>2, <1>3, <1>4, <1>6 DEF IndInv, AckFollows, HasAcked, Keep, history
  <1> QED  BY <1>1, <1>7, <1>8, <1>9, <1>10 DEF IndInv

LEMMA TransmitInd == ASSUME IndInv, Transmit("client") PROVE IndInv'
  <1> DEFINE c == tr["client"]
             left == [c EXCEPT !.transmit = FALSE]
             m == IF c.last # NoMessage THEN c.last ELSE Request
  <1>1. TypeOK /\ TypeOK'
    BY GetEventTypes, ClientTypes DEF IndInv, GetEvent
  <1>2. /\ left \in Transaction /\ left.state = c.state /\ left.transmit = FALSE
        /\ left.last = c.last /\ left.response = c.response /\ left.timer = c.timer
        /\ left.pending = c.pending /\ left.silent = c.silent
    BY <1>1, ClientTypes DEF Transaction
  <1>3. /\ Change("client", left) /\ Raise("client", m, c.state) /\ Keep
        /\ ev["client"] = NoEvent /\ c.transmit /\ c.pending = NoEvent
    BY DEF Transmit, Ready
  <1>4. m \in Messages /\ (m = Ack => c.last = Ack) /\ (m = Request => c.last = NoMessage)
    BY <1>1, ClientTypes, Fields, NoEventFacts, MessageKinds DEF IndInv, ClientMessages
  <1> HIDE DEF left, m
  <1>5. tr'["client"] = left
    BY <1>1, <1>2, <1>3, ClientTypes, ChangeFacts
  <1>6. \/ ev'["client"].msg = m
        \/ ev'["client"] = NoEvent
    <2>1. c.state \in States
      BY <1>1, ClientTypes, Fields
    <2> QED  BY <1>1, <1>3, <1>4, <2>1, ClientRaises
  <1>7. NoAnswerLost'
    BY <1>2, <1>3, <1>5, NoEventFacts DEF IndInv, NoAnswerLost, Keep, history
  <1>8. ClientMessages'
    BY <1>2, <1>5 DEF IndInv, ClientMessages
  <1>9. Budget'
    <2>1. OnItsWay = 0 /\ OnItsWay' \in {0, 1} /\ (OnItsWay' = 1 => c.last = NoMessage)
      BY <1>3, <1>6, <1>4, NoEventFacts DEF OnItsWay
    <2>2. UNCHANGED <<OnTimer, Transmissions, tries>>
      BY <1>2, <1>3, <1>5 DEF OnTimer, Transmissions, Keep, fixed, history
    <2>3. Flagged' = 0 /\ Flagged \in {0, 1} /\ (c.last = NoMessage => Flagged = 1)
      BY <1>2, <1>3, <1>5 DEF Flagged
    <2>4. OnTimer \in Int
      BY <1>1, ClientTypes, Fields DEF OnTimer
    <2> QED  BY <2>1, <2>2, <2>3, <2>4, <1>1, <1>2, <1>5, ClientTypes DEF IndInv, Budget
  <1>10. AckFollows'
    <2>1. HasAcked' => HasAcked
      BY <1>2, <1>3, <1>5, <1>6, <1>4, NoEventFacts DEF HasAcked, Keep, history
    <2> QED  BY <2>1, <1>2, <1>3, <1>5 DEF IndInv, AckFollows, Keep, history
  <1> QED  BY <1>1, <1>7, <1>8, <1>9, <1>10 DEF IndInv

\* The client's transaction is over, at once or because nobody answered.
LEMMA ClearInd ==
    ASSUME IndInv, Cleared("client") \/ FinishEnds("client") \/ ClientGivesUp PROVE IndInv'
  <1> DEFINE c == tr["client"]
  <1>1. TypeOK /\ c \in Transaction
    BY ClientTypes DEF IndInv
  <1>2. PICK t \in Transaction :
            /\ Clear("client", t)
            /\ t.last = c.last /\ t.pending = c.pending /\ t.silent = c.silent
            /\ t.transmit = c.transmit
            /\ t.response = c.response \/ c.state \in {"Trying", "Process"}
    <2> DEFINE u == [c EXCEPT !.response = 408]
    <2>1. u \in Transaction
      BY <1>1, ClearedTypes, Zenon
    <2>2. /\ u.last = c.last /\ u.pending = c.pending /\ u.silent = c.silent
          /\ u.transmit = c.transmit
      BY <1>1 DEF Transaction
    <2>3. Clear("client", c) \/ (Clear("client", u) /\ c.state \in {"Trying", "Process"})
      BY DEF Cleared, FinishEnds, ClientGivesUp
    <2> HIDE DEF u
    <2>4. CASE Clear("client", c)
      BY <1>1, <2>4
    <2>5. CASE Clear("client", u) /\ c.state \in {"Trying", "Process"}
      BY <2>1, <2>2, <2>5
    <2> QED  BY <2>3, <2>4, <2>5
  <1>3. /\ Quiet("client") /\ Keep
        /\ c.state \in {"Cleared", "Finish", "Trying", "Process"}
    BY DEF Cleared, FinishEnds, ClientGivesUp, Clear
  <1> DEFINE left == [t EXCEPT !.state = "Invalid", !.timer = 0]
  <1>4. /\ left \in Transaction /\ left.state = "Invalid" /\ left.timer = 0
        /\ left.last = c.last /\ left.pending = c.pending /\ left.silent = c.silent
        /\ left.transmit = c.transmit
        /\ left.response = t.response
    BY <1>2 DEF Transaction, States
  <1> HIDE DEF left
  <1>5. /\ tr' \in [Sides -> Transaction] /\ tr'["client"] = left
    BY <1>1, <1>2, <1>4, ClientTypes, ChangeFacts DEF Clear, left
  <1>6. /\ ev' \in [Sides -> Event]
        /\ ev'["client"].msg \in {NoMessage, Request} /\ ev'["client"].state = "Cleared"
    <2> DEFINE e == [msg |-> IF t.silent THEN NoMessage ELSE Request, state |-> "Cleared"]
    <2>1. e \in Event /\ e.msg \in {NoMessage, Request} /\ e.state = "Cleared"
      <3>1. "Cleared" \in States
        BY DEF States
      <3>2. (IF t.silent THEN NoMessage ELSE Request) \in Messages \cup {NoMessage}
        BY MessageKinds
      <3>3. e \in Event
        BY <3>1, <3>2, EventTypes
      <3> QED  BY <3>3
    <2>2. ev' = [ev EXCEPT !["client"] = e] /\ ev \in [Sides -> Event]
      BY <1>1, <1>2 DEF Clear, TypeOK
    <2> HIDE DEF e
    <2> QED  BY <2>1, <2>2 DEF Sides
  <1>7. TypeOK'
    BY <1>1, <1>3, <1>5, <1>6, KeepTypes
  <1>8. NoAnswerLost'
    BY <1>3, <1>4, <1>5, NoEventFacts
    DEF IndInv, NoAnswerLost, Keep, history, Quiet, Ready
  <1>9. ClientMessages'
    BY <1>4, <1>5 DEF IndInv, ClientMessages
  <1>10. Budget'
    <2>1. /\ OnItsWay' = 0 /\ OnTimer' = 0 /\ Flagged' = 0
      BY <1>3, <1>4, <1>5, <1>6, NoEventFacts DEF OnItsWay, ToSend, OnTimer, Flagged, Quiet
    <2>2. UNCHANGED <<Transmissions, tries>>
      BY <1>3 DEF Transmissions, Keep, fixed, history
    <2>3. tries <= Transmissions
      BY <1>1, ClientTypes, Fields
      DEF IndInv, Budget, OnTimer, Flagged, OnItsWay
    <2> QED  BY <1>1, <1>4, <1>5, <2>1, <2>2, <2>3, ClientTypes DEF Budget
  <1>11. AckFollows'
    BY <1>2, <1>3, <1>4, <1>5, <1>6, NoEventFacts
    DEF IndInv, AckFollows, HasAcked, Keep, history
  <1> QED  BY <1>7, <1>8, <1>9, <1>10, <1>11 DEF IndInv

LEMMA ClientStartInd == ASSUME IndInv, ClientStart PROVE IndInv'
  <1> DEFINE c == tr["client"]
             left == [c EXCEPT !.state = "Trying",
                               !.timer = IF reliable THEN 1 ELSE ReqTransCount]
  <1>1. TypeOK /\ c \in Transaction
    BY ClientTypes DEF IndInv
  <1>2. /\ Quiet("client") /\ c.state = "Initial" /\ Keep
        /\ Change("client", left) /\ Raise("client", Request, "Initial")
    BY DEF ClientStart
  <1>3. /\ left \in Transaction /\ left.state = "Trying" /\ left.timer = Transmissions
        /\ left.last = c.last /\ left.pending = c.pending /\ left.silent = c.silent
        /\ left.transmit = c.transmit /\ left.response = c.response
    <2>1. Transmissions \in Nat /\ left = [c EXCEPT !.state = "Trying", !.timer = Transmissions]
      BY CountAssumption DEF Transmissions
    <2>2. "Trying" \in States
      BY DEF States
    <2> HIDE DEF left
    <2> QED  BY <1>1, <2>1, <2>2 DEF Transaction
  <1> HIDE DEF left
  <1>4. tr' \in [Sides -> Transaction] /\ tr'["client"] = left
    BY <1>1, <1>2, <1>3, ClientTypes, ChangeFacts
  <1>5. /\ ev' \in [Sides -> Event]
        /\ ev'["client"].msg \in {Request, NoMessage}
    <2>0. Request \in Messages \cup {NoMessage}
      BY MessageKinds
    <2>1. "client" \in Sides /\ Request \in Messages \cup {NoMessage} /\ "Initial" \in States
      BY <2>0 DEF Sides, States
    <2>2. ev' \in [Sides -> Event]
      BY <1>1, <1>2, <2>1, RaiseFacts
    <2>3. ev'["client"].msg = Request \/ ev'["client"] = NoEvent
      BY <1>1, <1>2, <2>1, ClientRaises
    <2> QED  BY <2>2, <2>3, NoEventFacts
  <1>6. TypeOK'
    BY <1>1, <1>2, <1>4, <1>5, KeepTypes
  <1>7. NoAnswerLost'
    BY <1>2, <1>3, <1>4, NoEventFacts
    DEF IndInv, NoAnswerLost, Keep, history, Quiet, Ready
  <1>8. ClientMessages'
    BY <1>3, <1>4 DEF IndInv, ClientMessages
  <1>9. Budget'
    <2>1. /\ OnTimer' = Transmissions - 1 /\ Flagged' = 0 /\ OnItsWay' \in {0, 1}
          /\ OnTimer = Transmissions /\ Transmissions \in Nat /\ Transmissions > 0
      BY <1>2, <1>3, <1>4, CountAssumption
      DEF OnItsWay, OnTimer, Flagged, Quiet, Transmissions, Keep, fixed
    <2>2. UNCHANGED <<Transmissions, tries>>
      BY <1>2 DEF Transmissions, Keep, fixed, history
    <2>3. tries + Transmissions <= Transmissions
      BY <1>1, <2>1, ClientTypes DEF IndInv, Budget, Flagged, OnItsWay
    <2> QED  BY <1>1, <1>3, <1>4, <2>1, <2>2, <2>3, ClientTypes DEF Budget
  <1>10. AckFollows'
    BY <1>2, <1>3, <1>4, <1>5, NoEventFacts
    DEF IndInv, AckFollows, HasAcked, Keep, history
  <1> QED  BY <1>6, <1>7, <1>8, <1>9, <1>10 DEF IndInv

LEMMA ClientRetryInd == ASSUME IndInv, ClientRetry PROVE IndInv'
  <1> DEFINE c == tr["client"]
             left == [c EXCEPT !.timer = @ - 1, !.transmit = TRUE]
  <1>1. TypeOK /\ c \in Transaction /\ c.timer \in Nat
    BY ClientTypes, Fields DEF IndInv
  <1>2. /\ Quiet("client") /\ c.state = "Trying" /\ c.timer > 1 /\ Keep /\ ev' = ev
        /\ Change("client", left)
    BY DEF ClientRetry
  <1>3. /\ left \in Transaction /\ left.state = "Trying" /\ left.timer = c.timer - 1
        /\ left.last = c.last /\ left.pending = c.pending /\ left.silent = c.silent
        /\ left.transmit = TRUE /\ left.response = c.response
    <2>1. c.timer - 1 \in Nat
      BY <1>1, <1>2
    <2>2. c.state = "Trying"
      BY <1>2
    <2> QED  BY <1>1, <2>1, <2>2 DEF Transaction
  <1> HIDE DEF left
  <1>4. tr' \in [Sides -> Transaction] /\ tr'["client"] = left
    BY <1>1, <1>2, <1>3, ClientTypes, ChangeFacts
  <1>5. TypeOK'
    BY <1>1, <1>2, <1>4, KeepTypes DEF TypeOK
  <1>6. NoAnswerLost'
    BY <1>2, <1>3, <1>4 DEF IndInv, NoAnswerLost, Keep, history
  <1>7. ClientMessages'
    BY <1>3, <1>4 DEF IndInv, ClientMessages
  <1>8. Budget'
    <2>1. /\ OnTimer' = OnTimer - 1 /\ OnTimer \in Int /\ Flagged = 0 /\ Flagged' \in {0, 1}
      BY <1>1, <1>2, <1>3, <1>4 DEF OnTimer, Flagged, Quiet
    <2>2. UNCHANGED <<Transmissions, tries, OnItsWay>>
      BY <1>2 DEF Transmissions, OnItsWay, ToSend, Keep, fixed, history
    <2>3. OnItsWay \in {0, 1}
      BY DEF OnItsWay
    <2> QED  BY <1>1, <1>2, <1>3, <1>4, <2>1, <2>2, <2>3, ClientTypes DEF IndInv, Budget
  <1>9. AckFollows'
    BY <1>2, <1>3, <1>4 DEF IndInv, AckFollows, HasAcked, Keep, history
  <1> QED  BY <1>5, <1>6, <1>7, <1>8, <1>9 DEF IndInv

\* The user silences a transaction.
LEMMA SetSilentInd == ASSUME IndInv, NEW d \in Sides, SetSilent(d) PROVE IndInv'
  <1> DEFINE t == tr[d]
             left == [t EXCEPT !.silent = TRUE]
  <1>1. TypeOK /\ t \in Transaction
    BY DEF IndInv, TypeOK
  <1>2. Change(d, left) /\ ev' = ev /\ Keep
    BY DEF SetSilent
  <1>3. /\ left \in Transaction /\ left.silent = TRUE /\ left.state = t.state
        /\ left.timer = t.timer /\ left.last = t.last /\ left.pending = t.pending
        /\ left.transmit = t.transmit /\ left.response = t.response
    BY <1>1 DEF Transaction
  <1> HIDE DEF left
  <1>4. /\ tr' \in [Sides -> Transaction]
        /\ d = "client" => tr'["client"] = left
        /\ d = "server" => tr'["client"] = tr["client"]
    BY <1>1, <1>2, <1>3, ChangeFacts
  <1>5. TypeOK'
    BY <1>1, <1>2, <1>4, KeepTypes DEF TypeOK
  <1>6. CASE d = "server"
    BY <1>2, <1>4, <1>5, <1>6, QuietServer
  <1>7. CASE d = "client"
    <2>1. NoAnswerLost'
      BY <1>3, <1>4, <1>7 DEF NoAnswerLost
    <2>2. ClientMessages'
      BY <1>3, <1>4, <1>7 DEF IndInv, ClientMessages
    <2>3. Budget'
      BY <1>2, <1>3, <1>4, <1>7
      DEF IndInv, Budget, OnTimer, Flagged, OnItsWay, ToSend, Transmissions, Keep, fixed, history
    <2>4. AckFollows'
      BY <1>2, <1>3, <1>4, <1>7 DEF IndInv, AckFollows, HasAcked, Keep, history
    <2> QED  BY <1>5, <2>1, <2>2, <2>3, <2>4 DEF IndInv
  <1> QED  BY <1>6, <1>7 DEF Sides

\* What the timer may still send is not negative, nor is the rest.
LEMMA BudgetTypes ==
    ASSUME TypeOK, Budget
    PROVE  OnTimer \in Nat /\ Flagged \in {0, 1} /\ OnItsWay \in {0, 1}
  <1>1. tr["client"].timer \in Nat /\ Transmissions \in Nat
    BY ClientTypes, Fields
  <1> QED  BY <1>1 DEF Budget, OnTimer, Flagged, OnItsWay

\* The client gets an answer.
LEMMA ClientReceivesInd ==
    ASSUME IndInv, NEW code \in Answers, ClientReceives(code) PROVE IndInv'
  <1> DEFINE c == tr["client"]
             a == IF Listed("client") THEN ProcessedByClient(c, code) ELSE c
  <1>1. TypeOK /\ c \in Transaction /\ m_invite \in BOOLEAN /\ code \in Messages
    BY ClientTypes, MessageKinds DEF IndInv, TypeOK
  <1>2. /\ Change("client", a) /\ net[code] > 0 /\ net' = [net EXCEPT ![code] = @ - 1]
        /\ UNCHANGED <<fixed, ev, user, history>>
    BY DEF ClientReceives
  <1>3. /\ a \in Transaction
        /\ a.state = c.state \/ c.state \in {"Trying", "Process"}
        /\ a.state \in {"Initial", "Trying"} => a.state = c.state /\ a.timer = c.timer
        /\ a.silent = c.silent
        /\ a.last = c.last \/ a.last = code \/ (a.last = Ack /\ a.state = "Finish")
        /\ a.last # c.last => c.state \in {"Trying", "Process"}
        /\ a.state = c.state /\ c.state \in {"Finish", "Retrans"} =>
              a.response = c.response /\ a.last = c.last
        /\ a.state # c.state /\ a.state \in {"Finish", "Retrans"} =>
              Final(code) /\ a.response = code
        /\ a.pending = c.pending \/ a.pending.msg = code
        /\ a.pending # c.pending => c.pending = NoEvent \/ Final(code)
        /\ a.last # c.last /\ Final(code) => a.pending.msg = code
        /\ a.transmit /\ a.last = NoMessage => c.transmit /\ c.last = NoMessage
        /\ c.state = "Invalid" => a = c
    <2>1. CASE Listed("client")
      BY <1>1, <2>1, ProcessedByClientFacts DEF Listed
    <2>2. CASE ~Listed("client")
      BY <1>1, <2>2
    <2> QED  BY <2>1, <2>2
  <1> HIDE DEF a
  <1>4. tr' \in [Sides -> Transaction] /\ tr'["client"] = a
    BY <1>1, <1>2, <1>3, ClientTypes, ChangeFacts
  <1>5. /\ net' \in [Messages -> 0..MaxCopies]
        /\ \A k \in Messages : net'[k] > 0 => net[k] > 0
    BY <1>1, <1>2, Taken
  <1>6. TypeOK'
    BY <1>1, <1>2, <1>4, <1>5 DEF TypeOK, fixed, user, history
  <1>7. NoAnswerLost'
    <2>1. CASE a.last = c.last
      BY <1>2, <1>3, <1>4, <2>1, NoEventFacts DEF IndInv, NoAnswerLost, history
    <2>2. CASE a.last # c.last
      BY <1>2, <1>3, <1>4, <2>2, NoEventFacts DEF NoAnswerLost
    <2> QED  BY <2>1, <2>2
  <1>8. ClientMessages'
    BY <1>3, <1>4 DEF IndInv, ClientMessages
  <1>9. Budget'
    <2>1. OnTimer \in Nat /\ Flagged \in {0, 1} /\ OnItsWay \in {0, 1}
      BY <1>1, BudgetTypes DEF IndInv
    <2>2. UNCHANGED <<Transmissions, tries, OnItsWay>>
      BY <1>2 DEF Transmissions, OnItsWay, ToSend, fixed, history
    <2>3. OnTimer' = OnTimer \/ OnTimer' = 0
      BY <1>3, <1>4, <2>2 DEF OnTimer
    <2>4. Flagged' = Flagged \/ Flagged' = 0
      BY <1>3, <1>4 DEF Flagged
    <2>5. tr'["client"].state = "Trying" => tr'["client"].timer > 0
      BY <1>3, <1>4 DEF IndInv, Budget
    <2> QED  BY <2>1, <2>2, <2>3, <2>4, <2>5, <1>1, ClientTypes DEF IndInv, Budget
  <1>10. AckFollows'
    <2>1. sent' = sent /\ acked' = acked /\ ev' = ev
      BY <1>2 DEF history
    <2>2. \A m \in Answers : Final(m) /\ net'[m] > 0 => m \in sent'
      BY <1>5, <2>1, MessageKinds DEF IndInv, AckFollows
    <2>3. HasAcked' => HasAcked \/ (c.state # a.state /\ a.state = "Finish")
      BY <1>3, <1>4, <1>5, <2>1, MessageKinds DEF HasAcked
    <2>4. Final(code) => code \in sent
      BY <1>2 DEF IndInv, AckFollows
    <2>5. HasAcked => a.state = c.state /\ a.response = c.response
      BY <1>3 DEF IndInv, AckFollows
    <2>6. HasAcked' => tr'["client"].state \in {"Finish", "Invalid"}
      BY <1>4, <2>3, <2>5 DEF IndInv, AckFollows
    <2>7. HasAcked' \/ a.state = "Retrans" => Final(a.response) /\ a.response \in sent
      BY <1>3, <2>3, <2>4, <2>5 DEF IndInv, AckFollows
    <2> QED  BY <1>4, <2>1, <2>2, <2>6, <2>7 DEF AckFollows
  <1> QED  BY <1>6, <1>7, <1>8, <1>9, <1>10 DEF IndInv

LEMMA UserAcknowledgesInd == ASSUME IndInv, UserAcknowledges PROVE IndInv'
  <1> DEFINE c == tr["client"]
             a == Acknowledged(c)
  <1>1. TypeOK /\ c \in Transaction
    BY ClientTypes DEF IndInv
  <1>2. c.state = "Retrans" /\ handed > 0 /\ Change("client", a) /\ ev' = ev /\ Keep
    BY DEF UserAcknowledges
  <1>3. /\ a \in Transaction
        /\ a.state = "Finish" /\ a.last = Ack /\ a.transmit = TRUE
        /\ a.response = c.response /\ a.pending = c.pending /\ a.silent = c.silent
    BY <1>1, AcknowledgedFacts
  <1> HIDE DEF a
  <1>4. tr' \in [Sides -> Transaction] /\ tr'["client"] = a
    BY <1>1, <1>2, <1>3, ClientTypes, ChangeFacts
  <1>5. TypeOK'
    BY <1>1, <1>2, <1>4, KeepTypes DEF TypeOK
  <1>6. NoAnswerLost'
    BY <1>2 DEF NoAnswerLost, Keep, history
  <1>7. ClientMessages'
    BY <1>3, <1>4 DEF IndInv, ClientMessages
  <1>8. Budget'
    <2>1. OnTimer \in Nat /\ Flagged \in {0, 1} /\ OnItsWay \in {0, 1}
      BY <1>1, BudgetTypes DEF IndInv
    <2>2. UNCHANGED <<Transmissions, tries, OnItsWay>>
      BY <1>2 DEF Transmissions, OnItsWay, ToSend, Keep, fixed, history
    <2>3. OnTimer' = 0 /\ Flagged' = 0
      BY <1>3, <1>4, NoEventFacts DEF OnTimer, Flagged
    <2> QED  BY <1>1, <1>3, <1>4, <2>1, <2>2, <2>3, ClientTypes DEF IndInv, Budget
  <1>9. AckFollows'
    BY <1>2, <1>3, <1>4 DEF IndInv, AckFollows, HasAcked, Keep, history
  <1> QED  BY <1>5, <1>6, <1>7, <1>8, <1>9 DEF IndInv

(***************************************************************************)
(* processEvent()                                                          *)
(***************************************************************************)

\* The event that was processed is gone, and no other one.
LEMMA Processed ==
    ASSUME TypeOK, NEW d \in Sides, ProcessEvent(d)
    PROVE  /\ ev' = [ev EXCEPT ![d] = NoEvent]
           /\ ev' \in [Sides -> Event]
           /\ ev'[d].msg = NoMessage
           /\ \A o \in Sides : o # d => ev'[o] = ev[o]
  <1>1. ev' = [ev EXCEPT ![d] = NoEvent] /\ ev \in [Sides -> Event]
    BY DEF ProcessEvent, Send, SendFails, HandOver, TypeOK
  <1> QED  BY <1>1, EventTypes, NoEventFacts

LEMMA SendInd == ASSUME IndInv, NEW d \in Sides, Send(d) PROVE IndInv'
  <1> DEFINE m == ev[d].msg
             c == tr["client"]
  <1>1. TypeOK /\ (d = "client" => m \in {Request, Ack}) /\ (d = "server" => m \in Answers)
    BY DEF IndInv, Send, ToSend, Outgoing
  <1>2. m \in Messages
    BY <1>1, MessageKinds DEF Sides
  <1>3. /\ net' = [net EXCEPT ![m] = IF @ < MaxCopies THEN @ + 1 ELSE @]
        /\ tries' = IF m = Request THEN tries + 1 ELSE tries
        /\ sent' = IF Final(m) THEN sent \cup {m} ELSE sent
        /\ UNCHANGED <<fixed, tr, user, handed, acked>>
        /\ ToSend(d)
    BY DEF Send
  <1>4. /\ ev' \in [Sides -> Event] /\ ev'[d].msg = NoMessage
        /\ \A o \in Sides : o # d => ev'[o] = ev[o]
    BY <1>1, Processed DEF ProcessEvent
  <1>5. /\ net' \in [Messages -> 0..MaxCopies]
        /\ \A k \in Messages : net'[k] > 0 => net[k] > 0 \/ k = m
    <2>1. net \in [Messages -> 0..MaxCopies] /\ MaxCopies \in Nat
      BY <1>1, CountAssumption DEF TypeOK
    <2>2. (IF net[m] < MaxCopies THEN net[m] + 1 ELSE net[m]) \in 0..MaxCopies
      BY <1>2, <2>1
    <2> QED  BY <1>2, <1>3, <2>1, <2>2
  <1>6. tries' \in Nat /\ sent' \subseteq Answers
    <2>1. tries \in Nat /\ sent \subseteq Answers
      BY <1>1 DEF TypeOK
    <2>2. Final(m) => m \in Answers
      BY <1>1, NoEventFacts DEF Sides
    <2>3. tries' \in Nat
      BY <1>3, <2>1
    <2> QED  BY <1>3, <2>1, <2>2, <2>3
  <1>7. TypeOK'
    BY <1>1, <1>3, <1>4, <1>5, <1>6 DEF TypeOK, fixed, user
  <1>8. CASE d = "server"
    <2>1. m \notin {Request, Ack}
      BY <1>1, <1>8, NoEventFacts
    <2>2. tr'["client"] = c /\ ev'["client"] = ev["client"]
      BY <1>3, <1>4, <1>8 DEF Sides
    <2>3. UNCHANGED <<m_invite, reliable, handed, tries, acked>>
      BY <1>3, <2>1 DEF fixed
    <2>4. net'[Ack] > 0 => net[Ack] > 0
      BY <1>5, <2>1, MessageKinds
    <2>5. sent \subseteq sent' /\ (Final(m) => m \in sent')
      BY <1>3
    <2>6. \A k \in Answers : Final(k) /\ net'[k] > 0 => k \in sent'
      BY <1>5, <2>5, MessageKinds DEF IndInv, AckFollows
    <2>7. ClientUntouched
      BY <2>2, <2>3, <2>4, <2>5, <2>6 DEF ClientUntouched
    <2> QED  BY <1>7, <2>7, ClientUntouchedKeeps
  <1>9. CASE d = "client"
    <2>1. m \in {Request, Ack} /\ ~Final(m) /\ m \notin Answers
      BY <1>1, <1>9, NoEventFacts
    <2>2. NoAnswerLost'
      BY <1>3, <1>9, <2>1 DEF IndInv, NoAnswerLost
    <2>3. ClientMessages'
      BY <1>3 DEF IndInv, ClientMessages
    <2>4. Budget'
      <3>1. OnTimer \in Nat /\ Flagged \in {0, 1}
        BY <1>1, BudgetTypes DEF IndInv
      <3>2. UNCHANGED <<OnTimer, Flagged, Transmissions>>
        BY <1>3 DEF OnTimer, Flagged, Transmissions, fixed
      <3>3. OnItsWay' = 0
        BY <1>4, <1>9, NoEventFacts DEF OnItsWay
      <3>4. tries' + OnItsWay' = tries + OnItsWay
        BY <1>1, <1>3, <1>9, <3>3, ClientTypes DEF OnItsWay
      <3> QED  BY <1>1, <1>3, <3>1, <3>2, <3>3, <3>4, ClientTypes DEF IndInv, Budget, OnItsWay
    <2>5. AckFollows'
      <3>1. sent' = sent
        BY <1>3, <2>1
      <3>2. \A k \in Answers : Final(k) /\ net'[k] > 0 => k \in sent'
        BY <1>5, <2>1, <3>1, MessageKinds DEF IndInv, AckFollows
      <3>3. HasAcked' => HasAcked
        BY <1>3, <1>4, <1>5, <1>9, MessageKinds, NoEventFacts DEF HasAcked
      <3> QED  BY <1>3, <3>1, <3>2, <3>3 DEF IndInv, AckFollows
    <2> QED  BY <1>7, <2>2, <2>3, <2>4, <2>5 DEF IndInv
  <1> QED  BY <1>8, <1>9 DEF Sides

\* The transport fails: at most, the client's transaction is cleared.
LEMMA SendFailsInd == ASSUME IndInv, NEW d \in Sides, SendFails(d) PROVE IndInv'
  <1> DEFINE c == tr["client"]
             t == tr[d]
             fails == [t EXCEPT !.response = 500, !.state = "Cleared"]
             first == d = "client" /\ t.state = "Trying"
  <1>1. TypeOK /\ t \in Transaction
    BY DEF IndInv, TypeOK
  <1>2. fails \in Transaction
    <2> DEFINE n == 500
               s == "Cleared"
    <2>1. n \in Nat /\ s \in States
      BY DEF States
    <2> HIDE DEF n, s
    <2>2. [t EXCEPT !.response = n, !.state = s] \in Transaction
      BY <1>1, <2>1, SetResponseState, Zenon
    <2> QED  BY <2>2 DEF n, s
  <1>3. PICK left \in Transaction :
            /\ Change(d, left)
            /\ left = t \/ (left = fails /\ first)
    <2>1. CASE Change(d, t)
      BY <1>1, <2>1
    <2>2. CASE Change(d, fails) /\ first
      BY <1>2, <2>2
    <2>3. Change(d, t) \/ (Change(d, fails) /\ first)
      BY DEF SendFails
    <2> QED  BY <2>1, <2>2, <2>3
  <1>4. /\ tr' \in [Sides -> Transaction]
        /\ d = "client" => tr'["client"] = left
        /\ d = "server" => tr'["client"] = c
    BY <1>1, <1>3, ChangeFacts
  <1>5. /\ ev' \in [Sides -> Event] /\ ev'[d].msg = NoMessage
        /\ \A o \in Sides : o # d => ev'[o] = ev[o]
    BY <1>1, Processed DEF ProcessEvent
  <1>6. UNCHANGED <<fixed, net, user, history>> /\ ToSend(d)
    BY DEF SendFails
  <1>7. TypeOK'
    BY <1>1, <1>4, <1>5, <1>6, KeepTypes DEF Keep
  <1>8. CASE d = "server"
    <2>1. ev'["client"] = ev["client"]
      BY <1>5, <1>8 DEF Sides
    <2> QED  BY <1>4, <1>6, <1>7, <1>8, <2>1, QuietServer DEF Keep
  <1>9. CASE d = "client"
    <2>1. /\ left.last = c.last /\ left.pending = c.pending /\ left.silent = c.silent
          /\ left.transmit = c.transmit
          /\ left = c \/ (c.state = "Trying" /\ left.state = "Cleared")
      <3>1. /\ fails.last = t.last /\ fails.pending = t.pending /\ fails.silent = t.silent
            /\ fails.transmit = t.transmit /\ fails.state = "Cleared"
        BY <1>1 DEF Transaction
      <3> HIDE DEF fails
      <3> QED  BY <1>3, <1>9, <3>1
    <2>2. ev["client"].msg \in {Request, Ack}
      BY <1>6, <1>9 DEF ToSend, Outgoing
    <2>3. NoAnswerLost'
      BY <1>4, <1>6, <1>9, <2>1, <2>2, NoEventFacts DEF IndInv, NoAnswerLost, history
    <2>4. ClientMessages'
      BY <1>4, <1>9, <2>1 DEF IndInv, ClientMessages
    <2>5. Budget'
      <3>1. OnTimer \in Nat /\ Flagged \in {0, 1} /\ OnItsWay \in {0, 1}
        BY <1>1, BudgetTypes DEF IndInv
      <3>2. UNCHANGED <<Flagged, Transmissions, tries>>
        BY <1>4, <1>6, <1>9, <2>1 DEF Flagged, Transmissions, fixed, history
      <3>3. OnItsWay' = 0
        BY <1>5, <1>9, NoEventFacts DEF OnItsWay
      <3>4. OnTimer' = OnTimer \/ OnTimer' = 0
        BY <1>4, <1>9, <2>1, <3>2 DEF OnTimer
      <3>5. tr'["client"].state = "Trying" => tr'["client"].timer > 0
        BY <1>4, <1>9, <2>1 DEF IndInv, Budget
      <3> QED  BY <1>1, <3>1, <3>2, <3>3, <3>4, <3>5, ClientTypes DEF IndInv, Budget
    <2>6. AckFollows'
      <3>1. HasAcked' => HasAcked
        BY <1>4, <1>5, <1>6, <1>9, <2>1, NoEventFacts DEF HasAcked, history
      <3>2. HasAcked => left = c
        BY <2>1 DEF IndInv, AckFollows
      <3> QED  BY <1>4, <1>6, <1>9, <2>1, <3>1, <3>2 DEF IndInv, AckFollows, history
    <2> QED  BY <1>7, <2>3, <2>4, <2>5, <2>6 DEF IndInv
  <1> QED  BY <1>8, <1>9 DEF Sides

\* The user gets the event.
LEMMA HandOverInd == ASSUME IndInv, NEW d \in Sides, HandOver(d) PROVE IndInv'
  <1> DEFINE c == tr["client"]
  <1>1. TypeOK
    BY DEF IndInv
  <1>2. /\ ~ToSend(d) /\ ev[d] # NoEvent
        /\ handed' = IF d = "client" /\ Final(ev[d].msg) THEN handed + 1 ELSE handed
        /\ asked' = (asked \/ (d = "server" /\ ev[d].state = "Trying"))
        /\ UNCHANGED <<fixed, tr, net, ans, answers, tries, sent, acked>>
    BY DEF HandOver
  <1>3. /\ ev' \in [Sides -> Event] /\ ev'[d].msg = NoMessage
        /\ \A o \in Sides : o # d => ev'[o] = ev[o]
    BY <1>1, Processed DEF ProcessEvent
  <1>4. handed' \in Nat /\ (handed > 0 => handed' > 0)
    <2>1. handed \in Nat
      BY <1>1 DEF TypeOK
    <2> QED  BY <1>2, <2>1
  <1>5. asked' \in BOOLEAN
    BY <1>2
  <1>6. TypeOK'
    BY <1>1, <1>2, <1>3, <1>4, <1>5 DEF TypeOK, fixed
  <1>7. CASE d = "server"
    <2>1. ev'["client"] = ev["client"] /\ handed' = handed
      BY <1>2, <1>3, <1>7 DEF Sides
    <2>2. ClientUntouched
      BY <1>2, <2>1 DEF ClientUntouched, fixed, IndInv, AckFollows
    <2> QED  BY <1>6, <2>2, ClientUntouchedKeeps
  <1>8. CASE d = "client"
    <2>1. Final(ev["client"].msg) => handed' > 0
      BY <1>1, <1>2, <1>8, ClientTypes
    <2>2. NoAnswerLost'
      BY <1>2, <1>4, <2>1 DEF IndInv, NoAnswerLost
    <2>3. ClientMessages'
      BY <1>2 DEF IndInv, ClientMessages
    <2>4. Budget'
      <3>1. UNCHANGED <<OnTimer, Flagged, Transmissions, tries>>
        BY <1>2 DEF OnTimer, Flagged, Transmissions, fixed
      <3>2. OnItsWay = 0 /\ OnItsWay' = 0
        BY <1>2, <1>3, <1>8, NoEventFacts DEF OnItsWay
      <3> QED  BY <1>2, <3>1, <3>2 DEF IndInv, Budget
    <2>5. AckFollows'
      <3>1. HasAcked' => HasAcked
        BY <1>2, <1>3, <1>8, NoEventFacts DEF HasAcked
      <3> QED  BY <1>2, <3>1 DEF IndInv, AckFollows
    <2> QED  BY <1>6, <2>2, <2>3, <2>4, <2>5 DEF IndInv
  <1> QED  BY <1>7, <1>8 DEF Sides

(***************************************************************************)
(* The invariant                                                           *)
(***************************************************************************)

LEMMA InitInd == ASSUME Init PROVE IndInv
  <1>1. PICK auto \in BOOLEAN :
            tr = [client |-> [NoTransaction EXCEPT !.state = "Initial", !.autoAck = auto],
                  server |-> NoTransaction]
    BY DEF Init
  <1> DEFINE c == tr["client"]
  <1>2. NoTransaction \in Transaction
    BY EventTypes DEF NoTransaction, Transaction, States
  <1>3. /\ [NoTransaction EXCEPT !.state = "Initial", !.autoAck = auto] \in Transaction
        /\ c.state = "Initial" /\ c.last = NoMessage /\ c.transmit = FALSE
        /\ c.pending = NoEvent
    BY <1>1, <1>2 DEF NoTransaction, Transaction, States
  <1>4. tr \in [Sides -> Transaction]
    BY <1>1, <1>2, <1>3 DEF Sides
  <1>5. /\ ev \in [Sides -> Event] /\ ev["client"] = NoEvent
        /\ net \in [Messages -> 0..MaxCopies] /\ \A m \in Messages : net[m] = 0
        /\ ans \in [Users -> Codes \cup {NoMessage}]
        /\ 0 \in 0..MaxAnswers
    BY EventTypes, CountAssumption DEF Init, Sides
  <1>6. TypeOK
    BY <1>4, <1>5 DEF Init, TypeOK
  <1>7. NoAnswerLost
    BY <1>3, NoEventFacts DEF NoAnswerLost
  <1>8. ClientMessages
    BY <1>3, NoEventFacts DEF ClientMessages
  <1>9. Budget
    BY <1>3, <1>5, CountAssumption
    DEF Init, Budget, OnTimer, Flagged, OnItsWay, ToSend, Transmissions
  <1>10. AckFollows
    BY <1>3, <1>5, MessageKinds, NoEventFacts DEF Init, AckFollows, HasAcked
  <1> QED  BY <1>6, <1>7, <1>8, <1>9, <1>10 DEF IndInv

LEMMA StutterInd == ASSUME IndInv, UNCHANGED vars PROVE IndInv'
  <1>1. Keep /\ tr' = tr /\ ev' = ev
    BY DEF vars, Keep
  <1>2. TypeOK'
    BY <1>1, KeepTypes DEF IndInv, TypeOK
  <1> QED  BY <1>1, <1>2, QuietServer

LEMMA NextInd == ASSUME IndInv, [Next]_vars PROVE IndInv'
  <1>1. "client" \in Sides /\ "server" \in Sides
    BY DEF Sides
  <1>2. ASSUME NEW d \in Sides, ProcessEvent(d) PROVE IndInv'
    BY <1>2, SendInd, SendFailsInd, HandOverInd DEF ProcessEvent
  <1>3. CASE ClientThread
    BY <1>1, <1>2, <1>3, TakePendingInd, TransmitInd, ClearInd, ClientStartInd, ClientRetryInd
    DEF ClientThread, GetEvent
  <1>4. CASE ServerThread
    BY <1>1, <1>2, <1>4, ServerGetEventInd, ServerEventInd DEF ServerThread
  <1>5. CASE \E d \in Sides : SetSilent(d)
    BY <1>5, SetSilentInd
  <1>6. CASE \E code \in Answers : ClientReceives(code)
    BY <1>6, ClientReceivesInd
  <1>7. CASE ServerReceivesRequest \/ ServerReceivesAck
    BY <1>7, ServerReceivesInd
  <1>8. CASE UserAcknowledges
    BY <1>8, UserAcknowledgesInd
  <1>9. CASE \E u \in Users : SetResponse(u) \/ \E code \in Codes : UserAnswers(u, code)
    BY <1>9, UserAnswersInd
  <1>10. CASE UNCHANGED vars
    BY <1>10, StutterInd
  <1> QED  BY <1>3, <1>4, <1>5, <1>6, <1>7, <1>8, <1>9, <1>10 DEF Next

\* Every reachable state satisfies the inductive invariant: what the network, the timers
\* of getClientEvent() and the two halves of setResponse() may interleave to.
THEOREM IndInvAlways == Spec => []IndInv
  <1>1. Init => IndInv
    BY InitInd
  <1>2. IndInv /\ [Next]_vars => IndInv'
    BY NextInd
  <1> QED  BY <1>1, <1>2, PTL DEF Spec

\* The transactions, their events and the counters keep their types.
THEOREM TypeCorrect == Spec => []TypeOK
  <1>1. IndInv => TypeOK
    BY DEF IndInv
  <1> QED  BY <1>1, IndInvAlways, PTL

\* However late an answer comes and whoever clears or silences the transaction, the
\* client sends a request at most getTransCount() times, once on a reliable transport.
THEOREM RequestsAreBounded == Spec => []TriesBounded
  <1>1. IndInv => TriesBounded
    <2> SUFFICES ASSUME IndInv PROVE TriesBounded
      OBVIOUS
    <2>1. OnTimer \in Nat /\ Flagged \in {0, 1} /\ OnItsWay \in {0, 1}
      BY BudgetTypes DEF IndInv
    <2>2. tries \in Nat /\ Transmissions \in Nat
      BY ClientTypes DEF IndInv
    <2>3. tries <= Transmissions
      BY <2>1, <2>2 DEF IndInv, Budget
    <2> QED  BY <2>3 DEF TriesBounded, Transmissions
  <1> QED  BY <1>1, IndInvAlways, PTL

\* The server's INVITE transaction is confirmed by an ACK only if the client has a final
\* answer that the server sent: setAcknowledge() follows no provisional answer, no 408
\* of a timer and no 500 of a transport.
THEOREM OnlyAnswersAreAcked == Spec => []AckedIsAnswered
  <1>1. IndInv => AckedIsAnswered
    BY DEF IndInv, AckFollows, HasAcked, AckedIsAnswered
  <1> QED  BY <1>1, IndInvAlways, PTL

\* A final answer that the client's transaction has accepted is handed over, waits to be,
\* or is the event in hand - also when it arrived while an earlier answer was pending -
\* unless the user has silenced the transaction.
THEOREM AnswersReachUser == Spec => []NoAnswerLost
  <1>1. IndInv => NoAnswerLost
    BY DEF IndInv
  <1> QED  BY <1>1, IndInvAlways, PTL
=============================================================================
