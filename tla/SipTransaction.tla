--------------------------- MODULE SipTransaction ---------------------------
(***************************************************************************)
(* A SIP request between two SIP engines: the client transaction of one    *)
(* and the server transaction of the other (libs/ysip: SIPTransaction in   *)
(* transaction.cpp, SIPEngine in engine.cpp), over a network that loses,   *)
(* delays and reorders messages.                                           *)
(*                                                                         *)
(* In each engine one thread asks the transaction for an event under the   *)
(* engine's lock (getEvent()) and processes it without the lock: it sends  *)
(* the event's message or hands it to the user.  Other threads deliver     *)
(* what the network brings (addMessage(), under the lock) and answer the   *)
(* request (setResponse(), which tests the state before it takes the lock).*)
(*                                                                         *)
(* A timer stands for how often it will still fire; that it does so at     *)
(* any time abstracts from all durations.                                  *)
(***************************************************************************)
EXTENDS Integers, FiniteSets

CONSTANTS
    Users,          \* threads that may answer the request
    Codes,          \* what they may answer
    ReqTransCount,  \* transmissions of a request on an unreliable transport
    RspTransCount,  \* transmissions of an answer until the ACK arrives
    MaxAnswers,     \* bound on the answers given
    MaxCopies       \* bound on the copies of one message in transit

ASSUME CodeAssumption == Codes \subseteq 101..699
ASSUME CountAssumption ==
    /\ ReqTransCount \in 2..10 /\ RspTransCount \in 2..10
    /\ MaxAnswers \in Nat /\ MaxCopies \in Nat \ {0}

VARIABLES
    m_invite,       \* the request is an INVITE
    reliable,       \* the transport is a reliable one
    tr,             \* the two transactions
    ev,             \* per engine: the event its thread processes, or NoEvent
    net,            \* per message: the copies in transit
    ans,            \* per user: the code it is about to answer with, or NoMessage
    asked,          \* the server's user has the request
    answers,        \* how many answers users have decided on
    \* History variables, read by the properties only:
    handed,         \* how often a final answer was handed to the client's user
    tries,          \* how often the request was sent
    sent,           \* the final answers the server has sent
    acked           \* an ACK has ended the server's transaction

fixed == <<m_invite, reliable>>
user == <<ans, asked, answers>>
history == <<handed, tries, sent, acked>>
vars == <<fixed, tr, ev, net, user, history>>

-----------------------------------------------------------------------------
(* Data *)

Sides == {"client", "server"}

\* Messages: the request, its ACK, and answers by their codes.
NoMessage == 0
Request == 1
Ack == 2
Answers == {100, 400, 408} \cup Codes
Messages == {Request, Ack} \cup Answers

Final(m) == m >= 200

\* Which messages a side sends.
Outgoing(d, m) == IF d = "client" THEN m \in {Request, Ack} ELSE m \in Answers

\* "None": no transaction yet.
States == {"None", "Invalid", "Initial", "Trying", "Process", "Retrans", "Finish", "Cleared"}

Event == [msg : Messages \cup {NoMessage}, state : States]
NoEvent == [msg |-> NoMessage, state |-> "None"]

Transaction ==
    [state : States, transmit : BOOLEAN, last : Messages \cup {NoMessage}, response : Nat,
     timer : Nat, pending : Event, autoAck : BOOLEAN, silent : BOOLEAN]

NoTransaction ==
    [state |-> "None", transmit |-> FALSE, last |-> NoMessage, response |-> 0,
     timer |-> 0, pending |-> NoEvent, autoAck |-> TRUE, silent |-> FALSE]

\* A transaction that reached Invalid is out of the engine's list.
Listed(d) == tr[d].state \notin {"None", "Invalid"}

\* What is left of a transaction out of the list; nobody looks at the server's.
Left(d, t) ==
    IF t.state = "Invalid" /\ d = "server" THEN [NoTransaction EXCEPT !.state = "Invalid"] ELSE t

Change(d, t) == tr' = [tr EXCEPT ![d] = Left(d, t)]

\* The event for message m, unless the transaction is silent; s is the state the
\* transaction is in when the event is made.
Raise(d, m, s) ==
    ev' = [ev EXCEPT ![d] = IF tr[d].silent THEN NoEvent ELSE [msg |-> m, state |-> s]]

Keep == UNCHANGED <<fixed, net, user, history>>

-----------------------------------------------------------------------------
(* SIPTransaction::getEvent(), common to both sides *)

Ready(d) == Listed(d) /\ ev[d] = NoEvent

TakePending(d) ==
    /\ Ready(d)
    /\ tr[d].pending # NoEvent
    /\ Change(d, [tr[d] EXCEPT !.pending = NoEvent])
    /\ Raise(d, tr[d].pending.msg, tr[d].pending.state)
    /\ Keep

\* The latest message, the first one if there is no other, is (re)transmitted.
Transmit(d) ==
    /\ Ready(d)
    /\ tr[d].pending = NoEvent /\ tr[d].transmit
    /\ Change(d, [tr[d] EXCEPT !.transmit = FALSE])
    /\ Raise(d, IF tr[d].last # NoMessage THEN tr[d].last ELSE Request, tr[d].state)
    /\ Keep

Quiet(d) == Ready(d) /\ tr[d].pending = NoEvent /\ ~tr[d].transmit

\* Cleared: the last event, even of a silent transaction; then Invalid.
Clear(d, t) ==
    /\ Change(d, [t EXCEPT !.state = "Invalid", !.timer = 0])
    /\ ev' = [ev EXCEPT ![d] = [msg |-> IF t.silent THEN NoMessage ELSE Request,
                                state |-> "Cleared"]]
    /\ Keep

Cleared(d) ==
    /\ Quiet(d)
    /\ tr[d].state = "Cleared"
    /\ Clear(d, tr[d])

FinishEnds(d) ==
    /\ Quiet(d)
    /\ tr[d].state = "Finish" /\ tr[d].timer = 1
    /\ Clear(d, tr[d])

\* The user silences a transaction it has.
SetSilent(d) ==
    /\ Listed(d) /\ ~tr[d].silent
    /\ d = "server" => asked
    /\ Change(d, [tr[d] EXCEPT !.silent = TRUE])
    /\ UNCHANGED ev /\ Keep

-----------------------------------------------------------------------------
(* The client: getClientEvent(), processClientMessage(), setAcknowledge() *)

ClientStart ==
    /\ Quiet("client")
    /\ tr["client"].state = "Initial"
    /\ Change("client", [tr["client"] EXCEPT !.state = "Trying",
                            !.timer = IF reliable THEN 1 ELSE ReqTransCount])
    /\ Raise("client", Request, "Initial")
    /\ Keep

\* Faulty: the timer fires whatever the count is.
ClientRetryEndless ==
    /\ Quiet("client")
    /\ tr["client"].state = "Trying"
    /\ Change("client", [tr["client"] EXCEPT !.timer = @ - 1, !.transmit = TRUE])
    /\ UNCHANGED ev /\ Keep

\* Timer A or E fires and will fire again.
ClientRetry ==
    /\ Quiet("client")
    /\ tr["client"].state = "Trying" /\ tr["client"].timer > 1
    /\ Change("client", [tr["client"] EXCEPT !.timer = @ - 1, !.transmit = TRUE])
    /\ UNCHANGED ev /\ Keep

\* The last timer fires: 408, and the transaction is over.
ClientGivesUp ==
    /\ Quiet("client")
    /\ tr["client"].state \in {"Trying", "Process"} /\ tr["client"].timer = 1
    /\ Clear("client", [tr["client"] EXCEPT !.response = 408])

\* setAcknowledge(): the ACK becomes the latest message.
Acknowledged(t) ==
    [t EXCEPT !.autoAck = TRUE, !.last = Ack, !.transmit = TRUE,
              !.state = "Finish", !.timer = 1]

\* setPendingEvent(): a final answer replaces a pending event, another is dropped.
Pend(t, m, replace) ==
    IF t.pending = NoEvent \/ replace
    THEN [t EXCEPT !.pending = [msg |-> m, state |-> t.state]] ELSE t

\* Faulty: an answer is dropped while another one is pending.
AnsweredClientNoReplace(t, code) ==
    LET p == Pend([t EXCEPT !.last = code, !.response = code,
                            !.timer = IF Final(code) THEN 0 ELSE IF m_invite THEN 1 ELSE @],
                  code, FALSE)
    IN  IF ~Final(code) THEN p
        ELSE IF ~m_invite THEN [p EXCEPT !.state = "Cleared"]
        ELSE IF p.autoAck \/ code >= 300 THEN Acknowledged(p)
        ELSE [p EXCEPT !.state = "Retrans"]

\* Faulty: a provisional answer is acknowledged too.
AnsweredClientEarly(t, code) ==
    LET p == Pend([t EXCEPT !.last = code, !.response = code, !.timer = 1], code, TRUE)
    IN  IF ~m_invite THEN [p EXCEPT !.state = IF Final(code) THEN "Cleared" ELSE @]
        ELSE Acknowledged(p)

\* An answer above 100 in state Process.
AnsweredClient(t, code) ==
    LET p == Pend([t EXCEPT !.last = code, !.response = code,
                            !.timer = IF Final(code) THEN 0 ELSE IF m_invite THEN 1 ELSE @],
                  code, Final(code))
    IN  IF ~Final(code) THEN p
        ELSE IF ~m_invite THEN [p EXCEPT !.state = "Cleared"]
        ELSE IF p.autoAck \/ code >= 300 THEN Acknowledged(p)
        ELSE [p EXCEPT !.state = "Retrans"]

\* processClientMessage()
ProcessedByClient(t, code) ==
    LET heard == [t EXCEPT !.state = "Process", !.response = code, !.timer = 1]
    IN  CASE t.state = "Trying" -> IF code = 100 THEN heard ELSE AnsweredClient(heard, code)
          [] t.state = "Process" -> IF code = 100 THEN t ELSE AnsweredClient(t, code)
          [] t.state = "Finish" ->
                [t EXCEPT !.transmit = @ \/ (t.last = Ack /\ Final(code))]
          [] OTHER -> t

\* addMessage() with an answer for the client.
ClientReceives(code) ==
    /\ net[code] > 0
    /\ net' = [net EXCEPT ![code] = @ - 1]
    /\ Change("client", IF Listed("client") THEN ProcessedByClient(tr["client"], code)
                                            ELSE tr["client"])
    /\ UNCHANGED <<fixed, ev, user, history>>

\* The user has the 2xx answer and acknowledges it, as ACKs are not automatic.
UserAcknowledges ==
    /\ tr["client"].state = "Retrans"
    /\ ~tr["client"].autoAck /\ handed > 0
    /\ Change("client", Acknowledged(tr["client"]))
    /\ UNCHANGED ev /\ Keep

-----------------------------------------------------------------------------
(* The server: getServerEvent(), processServerMessage(), setResponse() *)

\* changeState(): not from Invalid, and only if the state changes.
Changes(t, s) == t.state \notin {s, "Invalid"}

\* Faulty: the state is set, but not the timer that retransmits the answer.
AnsweredServerNoTimer(t, code) ==
    [t EXCEPT !.last = code, !.response = code, !.transmit = TRUE,
              !.state = IF Final(code) THEN IF m_invite THEN "Retrans" ELSE "Finish" ELSE @,
              !.timer = IF Final(code) THEN 0 ELSE @]

\* setResponse(message), under the lock: whatever the state is by now, the answer
\* becomes the latest message and is sent.
AnsweredServer(t, code) ==
    LET over == IF m_invite THEN "Retrans" ELSE "Finish"
        count == IF m_invite /\ (~reliable \/ code < 300) THEN RspTransCount ELSE 1
        answered == [t EXCEPT !.last = code, !.response = code, !.transmit = TRUE]
    IN  IF ~Final(code)
        THEN [answered EXCEPT !.timer = IF code > 100 THEN 1 ELSE @]
        ELSE IF Changes(t, over)
             THEN [answered EXCEPT !.state = over, !.timer = count]
             ELSE answered

\* A request the engine cannot serve is refused and forgotten.
ServerRefuses ==
    /\ Quiet("server")
    /\ tr["server"].state = "Initial"
    /\ LET t == AnsweredServer(tr["server"], 400)
       IN  /\ Change("server", [t EXCEPT !.transmit = FALSE, !.state = "Invalid"])
           /\ Raise("server", 400, t.state)
    /\ Keep

\* 100 is sent at once, unless the engine is set up to be lazy and it is no INVITE.
ServerStart(lazyTrying) ==
    /\ Quiet("server")
    /\ tr["server"].state = "Initial"
    /\ lazyTrying => ~m_invite
    /\ Change("server", [AnsweredServer(tr["server"], 100) EXCEPT
                            !.transmit = ~lazyTrying, !.state = "Trying"])
    /\ UNCHANGED ev /\ Keep

\* The request goes to the user.
ServerAsks ==
    /\ Quiet("server")
    /\ tr["server"].state = "Trying"
    /\ Change("server", [tr["server"] EXCEPT !.state = "Process", !.timer = 1])
    /\ Raise("server", Request, "Trying")
    /\ Keep

\* Timer C fires: nobody has answered.
ServerGivesUp ==
    /\ Quiet("server")
    /\ tr["server"].state = "Process" /\ tr["server"].timer = 1
    /\ LET t == AnsweredServer([tr["server"] EXCEPT !.timer = 0], 408)
       IN  /\ Change("server", t)
           /\ Raise("server", 408, t.state)
    /\ Keep

\* Timer G fires and will fire again: the answer is sent again.
ServerRetry ==
    /\ Quiet("server")
    /\ tr["server"].state = "Retrans" /\ tr["server"].timer > 1
    /\ Change("server", [tr["server"] EXCEPT !.timer = @ - 1])
    /\ Raise("server", tr["server"].last, "Retrans")
    /\ Keep

\* The ACK did not come.
ServerUnacked ==
    /\ Quiet("server")
    /\ tr["server"].state = "Retrans" /\ tr["server"].timer = 1
    /\ Clear("server", [tr["server"] EXCEPT !.response = 408])

\* processServerMessage()
ProcessedByServer(t, m) ==
    CASE t.state \in {"Trying", "Process"} -> [t EXCEPT !.transmit = TRUE]
      [] t.state \in {"Finish", "Retrans"} ->
            IF m = Ack THEN [Pend(t, Ack, FALSE) EXCEPT !.timer = 0, !.state = "Cleared"]
                       ELSE [t EXCEPT !.transmit = TRUE]
      [] OTHER -> t

\* addMessage() with the request, the first time or again.
ServerReceivesRequest ==
    /\ net[Request] > 0
    /\ net' = [net EXCEPT ![Request] = @ - 1]
    /\ Change("server", IF tr["server"].state = "None"
                        THEN [tr["server"] EXCEPT !.state = "Initial"]
                        ELSE IF Listed("server") THEN ProcessedByServer(tr["server"], Request)
                        ELSE tr["server"])
    /\ UNCHANGED <<fixed, ev, user, history>>

ServerReceivesAck ==
    /\ net[Ack] > 0
    /\ net' = [net EXCEPT ![Ack] = @ - 1]
    /\ Change("server", IF Listed("server") THEN ProcessedByServer(tr["server"], Ack)
                                            ELSE tr["server"])
    /\ acked' = (acked \/ tr["server"].state \in {"Finish", "Retrans"})
    /\ UNCHANGED <<fixed, ev, user, handed, tries, sent>>

\* setResponse(code): the test of the state, without the lock.
UserAnswers(u, code) ==
    /\ asked /\ ans[u] = NoMessage /\ answers < MaxAnswers
    /\ tr["server"].state \in {"Initial", "Trying", "Process"}
    /\ ans' = [ans EXCEPT ![u] = code]
    /\ answers' = answers + 1
    /\ UNCHANGED <<fixed, tr, ev, net, asked, history>>

\* setResponse(code) goes on to setResponse(message).
SetResponse(u) ==
    /\ ans[u] # NoMessage
    /\ Change("server", AnsweredServer(tr["server"], ans[u]))
    /\ ans' = [ans EXCEPT ![u] = NoMessage]
    /\ UNCHANGED <<fixed, ev, net, asked, answers, history>>

-----------------------------------------------------------------------------
(* SIPEngine::processEvent() *)

\* The event's message is to be sent: not the request when the event says that the
\* transaction is over.
ToSend(d) ==
    /\ ev[d] # NoEvent
    /\ Outgoing(d, ev[d].msg)
    /\ ev[d].state # "Cleared" \/ ev[d].msg \in Answers

Send(d) ==
    /\ ToSend(d)
    /\ LET m == ev[d].msg
       IN  /\ net' = [net EXCEPT ![m] = IF @ < MaxCopies THEN @ + 1 ELSE @]
           /\ tries' = IF m = Request THEN tries + 1 ELSE tries
           /\ sent' = IF Final(m) THEN sent \cup {m} ELSE sent
    /\ ev' = [ev EXCEPT ![d] = NoEvent]
    /\ UNCHANGED <<fixed, tr, user, handed, acked>>

\* The transport fails: msgTransmitFailed() clears a client transaction that has
\* tried only once.  Otherwise the message is as good as lost, and when the
\* transport's party is taken from it its later copies may be too.
SendFails(d) ==
    /\ ToSend(d)
    /\ Change(d, IF /\ d = "client" /\ ev[d].msg = Request /\ tr[d].state = "Trying"
                    /\ reliable \/ tr[d].timer >= ReqTransCount
                 THEN [tr[d] EXCEPT !.response = 500, !.state = "Cleared"]
                 ELSE tr[d])
    /\ ev' = [ev EXCEPT ![d] = NoEvent]
    /\ UNCHANGED <<fixed, net, user, history>>

\* Anything else is for the user.
HandOver(d) ==
    /\ ev[d] # NoEvent
    /\ ~ToSend(d)
    /\ handed' = IF d = "client" /\ Final(ev[d].msg) THEN handed + 1 ELSE handed
    /\ asked' = (asked \/ (d = "server" /\ ev[d].state = "Trying"))
    /\ ev' = [ev EXCEPT ![d] = NoEvent]
    /\ UNCHANGED <<fixed, tr, net, ans, answers, tries, sent, acked>>

-----------------------------------------------------------------------------
Init ==
    /\ m_invite \in BOOLEAN
    /\ reliable \in BOOLEAN
    /\ \E auto \in BOOLEAN :
          /\ auto \/ m_invite
          /\ tr = [client |-> [NoTransaction EXCEPT !.state = "Initial", !.autoAck = auto],
                   server |-> NoTransaction]
    /\ ev = [d \in Sides |-> NoEvent]
    /\ net = [m \in Messages |-> 0]
    /\ ans = [u \in Users |-> NoMessage]
    /\ asked = FALSE
    /\ answers = 0
    /\ handed = 0
    /\ tries = 0
    /\ sent = {}
    /\ acked = FALSE

GetEvent(d) == TakePending(d) \/ Transmit(d) \/ Cleared(d) \/ FinishEnds(d)

ProcessEvent(d) == Send(d) \/ SendFails(d) \/ HandOver(d)

\* One step of an engine's thread: it takes an event or processes one.
ClientThread == GetEvent("client") \/ ClientStart \/ ClientRetry \/ ClientGivesUp
                \/ ProcessEvent("client")

ServerThread ==
    \/ GetEvent("server")
    \/ ServerRefuses \/ (\E lazy \in BOOLEAN : ServerStart(lazy)) \/ ServerAsks
    \/ ServerGivesUp \/ ServerRetry \/ ServerUnacked
    \/ ProcessEvent("server")

Next ==
    \/ ClientThread \/ ServerThread
    \/ \E d \in Sides : SetSilent(d)
    \/ \E code \in Answers : ClientReceives(code)
    \/ ServerReceivesRequest \/ ServerReceivesAck
    \/ UserAcknowledges
    \/ \E u \in Users : SetResponse(u) \/ \E code \in Codes : UserAnswers(u, code)

Spec == Init /\ [][Next]_vars

\* The engines' threads run, so timers fire; a user acknowledges what it was handed.
\* Nothing is assumed of the network, nor that a user answers.
FairSpec ==
    /\ Spec
    /\ WF_vars(ClientThread) /\ WF_vars(ServerThread)
    /\ WF_vars(UserAcknowledges)

-----------------------------------------------------------------------------
(* Properties *)

TypeOK ==
    /\ m_invite \in BOOLEAN /\ reliable \in BOOLEAN
    /\ tr \in [Sides -> Transaction]
    /\ ev \in [Sides -> Event]
    /\ net \in [Messages -> 0..MaxCopies]
    /\ ans \in [Users -> Codes \cup {NoMessage}]
    /\ asked \in BOOLEAN /\ answers \in 0..MaxAnswers
    /\ handed \in Nat /\ tries \in Nat /\ sent \subseteq Answers /\ acked \in BOOLEAN

\* The server's INVITE transaction is confirmed only if the client has a final
\* answer that the server sent: no ACK goes out for a provisional answer, a timeout
\* or a transport failure.
AckedIsAnswered == acked => Final(tr["client"].response) /\ tr["client"].response \in sent

\* A final answer that the client's transaction has accepted gets to the user, also
\* when it arrives while an earlier answer still waits to be handed over.
NoAnswerLost ==
    LET t == tr["client"]
    IN  (t.last = Ack \/ Final(t.last)) /\ ~t.silent =>
            handed > 0 \/ Final(t.pending.msg) \/ Final(ev["client"].msg)

\* A request is sent at most as often as getTransCount() says, the transmission that
\* the timers started before an answer came included.
TriesBounded == tries <= IF reliable THEN 1 ELSE ReqTransCount

\* What the induction needs beyond the above.  A client's transaction has an answer or an
\* ACK as its latest message, and its pending events are answers.
ClientMessages ==
    /\ tr["client"].last \in {NoMessage, Ack} \cup Answers
    /\ tr["client"].pending.msg \in {NoMessage} \cup Answers

\* The requests that were sent, those that the timer may still send, the one that is
\* flagged and the one on its way to the network are within the count.
Transmissions == IF reliable THEN 1 ELSE ReqTransCount

OnTimer ==
    CASE tr["client"].state = "Initial" -> Transmissions
      [] tr["client"].state = "Trying" -> tr["client"].timer - 1
      [] OTHER -> 0

Flagged == IF tr["client"].transmit /\ tr["client"].last = NoMessage THEN 1 ELSE 0

OnItsWay == IF ToSend("client") /\ ev["client"].msg = Request THEN 1 ELSE 0

Budget ==
    /\ tr["client"].state = "Trying" => tr["client"].timer > 0
    /\ tries + OnTimer + Flagged + OnItsWay <= Transmissions

\* There is an ACK only when the client's transaction has ended its wait, and no longer
\* changes the final answer that it has from the server.
HasAcked ==
    tr["client"].last = Ack \/ ev["client"].msg = Ack \/ net[Ack] > 0 \/ acked

AckFollows ==
    /\ \A m \in Answers : Final(m) /\ net[m] > 0 => m \in sent
    /\ HasAcked => tr["client"].state \in {"Finish", "Invalid"}
    /\ HasAcked \/ tr["client"].state = "Retrans" =>
          Final(tr["client"].response) /\ tr["client"].response \in sent

IndInv == TypeOK /\ NoAnswerLost /\ ClientMessages /\ Budget /\ AckFollows

\* Both transactions end, whatever is lost and whoever answers or does not - except
\* a silent client transaction whose ACK is left to the user: it has no timer.
Ends ==
    <>[](/\ tr["server"].state \in {"None", "Invalid"}
         /\ \/ tr["client"].state = "Invalid"
            \/ tr["client"].state = "Retrans" /\ tr["client"].silent)
=============================================================================
