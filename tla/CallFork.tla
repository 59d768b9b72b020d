------------------------------ MODULE CallFork ------------------------------
(***************************************************************************)
(* The call forker (modules/callfork.cpp): one incoming call is offered to *)
(* several targets, group after group, until one of them answers.          *)
(*                                                                         *)
(* A ForkMaster is the caller's peer and a ForkSlave is the peer of each   *)
(* target's channel.  The list of targets has modifiers between the groups:*)
(* wait for the group to end ("|"), go on after a time ("|next"), drop the *)
(* group after a time ("|drop"), offer the caller itself to what follows   *)
(* ("|exec", with a time "|exec=").                                        *)
(*                                                                         *)
(* Everything runs under the common mutex of the call endpoints, dispatches*)
(* of call.execute included, except what follows an accepted answer and the*)
(* end of the master: the last reference is dropped without it and the     *)
(* destructor lets go of it around every slave.                            *)
(***************************************************************************)
EXTENDS Naturals, Sequences, FiniteSets

CONSTANTS
    Slaves,         \* the targets, each called through a slave of its own
    Plans,          \* lists of targets that a call may be forked to
    CanStop,        \* the call has a fork.stop that reasons may match
    None

Modifiers == {"|", "|next", "|drop", "|exec", "|exec="}

Types == {"Regular", "Auxiliar", "Persistent"}

ASSUME PlanAssumption == Plans \subseteq Seq(Slaves \cup Modifiers)
ASSUME StopAssumption == CanStop \in BOOLEAN
ASSUME NoneAssumption == None \notin Slaves

VARIABLES
    m_targets,      \* the targets still to be called
    m_exec,         \* the message to call them with is there
    m_answered,
    m_timer,        \* "off", or what checkTimer() will do: "next" or "drop"
    m_execNext,     \* the next target is offered the caller itself
    m_slaves,       \* the slaves on the master's list
    m_type,         \* per slave: its type, or "Unknown"
    master,         \* "alive", "released" (no reference is left) or "gone"
    caller,         \* the caller's peer: "fork", "talk" (who answered), "direct" (who
                    \* was offered the caller), or none: "hungup", "failed"
    chan,           \* per slave, the target's channel: "none" before it is called, "up",
                    \* "taken" (has the caller as peer) or "down"
    answers,        \* slaves whose target has sent call.answered, not yet dispatched
    connecting,     \* the slave whose answer was accepted, until its call is connected
    run,            \* who is inside callContinue(): "start", "timer", "lost" or None
    forks,          \* that call of callContinue() has called a target
    \* History variables:
    stranded,       \* checkTimer() found nobody to call and left it at that
    stale           \* the destructor came upon a freed slave and left the others alone

progress == <<m_targets, m_exec, m_answered, m_timer, m_execNext>>
history == <<stranded, stale>>
vars == <<progress, m_slaves, m_type, master, caller, chan, answers, connecting,
          run, forks, history>>

\* The common mutex is free.
Unlocked == run = None

ListedOf(type) == {s \in m_slaves : m_type[s] = type}

-----------------------------------------------------------------------------
(* Pieces of the handlers *)

\* Slaves are taken off the list and their targets hung up.
Drop(S) ==
    /\ m_slaves' = m_slaves \ S
    /\ chan' = [s \in Slaves |-> IF s \in S THEN "down" ELSE chan[s]]

\* Those a soft ForkMaster::clear(softly) drops.
Softly == m_slaves \ ListedOf("Persistent")

\* callContinue() begins: timers and groups start afresh.
Begin(who) ==
    /\ run' = who
    /\ forks' = FALSE
    /\ m_timer' = "off"

\* callContinue() returns whether it has called anybody.  Who called it from
\* startCalling() or lostSlave() disconnects the caller if not.
Return(called) ==
    /\ run' = None
    /\ forks' = FALSE
    /\ caller' = IF ~called /\ run \in {"start", "lost"} /\ caller = "fork"
                 THEN "failed" ELSE caller
    /\ stranded' = (stranded \/ (run = "timer" /\ ~called /\ caller = "fork" /\ m_slaves = {}))

Modified(mod) ==
    /\ m_targets' = Tail(m_targets)
    /\ m_execNext' = (mod \in {"|exec", "|exec="})

-----------------------------------------------------------------------------
(* ForkMaster::callContinue() and forkSlave(), one target at a time *)

NextIs(S) == m_exec /\ ~m_answered /\ m_targets # <<>> /\ Head(m_targets) \in S

\* A modifier after at least one target was called ends the group.
GroupEnds ==
    /\ run # None /\ forks
    /\ NextIs(Modifiers)
    /\ Modified(Head(m_targets))
    /\ m_timer' = CASE Head(m_targets) = "|next" -> "next"
                    [] Head(m_targets) \in {"|drop", "|exec="} -> "drop"
                    [] OTHER -> "off"
    /\ Return(TRUE)
    /\ UNCHANGED <<m_exec, m_answered, m_slaves, m_type, master, chan, answers, connecting, stale>>

\* A group in which nobody could be called has no effect but that of its modifier.
GroupIsEmpty ==
    /\ run # None /\ ~forks
    /\ NextIs(Modifiers)
    /\ Modified(Head(m_targets))
    /\ m_timer' = "off"
    /\ UNCHANGED <<m_exec, m_answered, m_slaves, m_type, master, caller, chan, answers,
                   connecting, run, forks, history>>

NoMoreTargets ==
    /\ run # None
    /\ ~NextIs(Slaves \cup Modifiers)
    /\ Return(forks)
    /\ UNCHANGED <<progress, m_slaves, m_type, master, chan, answers, connecting, stale>>

\* Faulty: the slave gets no type.
TargetRingsUntyped(s) ==
    /\ m_slaves' = m_slaves \cup {s}
    /\ chan' = [chan EXCEPT ![s] = "up"]
    /\ forks' = TRUE
    /\ UNCHANGED <<m_type, caller>>

\* The dispatch of call.execute succeeded and the target's channel is connected.
TargetRings(s) ==
    /\ \E type \in Types : m_type' = [m_type EXCEPT ![s] = type]
    /\ m_slaves' = m_slaves \cup {s}
    /\ chan' = [chan EXCEPT ![s] = "up"]
    /\ forks' = TRUE
    /\ UNCHANGED caller

\* The dispatch failed, or the slave has no peer or no media after it, or has lost its
\* master; when the target had hung up with a reason that matches fork.stop,
\* lostSlave() has disconnected the caller, yet the loop goes on.
TargetFails(s) ==
    /\ chan' = [chan EXCEPT ![s] = "down"]
    /\ \/ UNCHANGED caller
       \/ CanStop /\ caller = "fork" /\ caller' = "failed"
    /\ UNCHANGED <<m_slaves, m_type, forks>>

CallTarget ==
    /\ run # None
    /\ NextIs(Slaves) /\ ~m_execNext
    /\ m_targets' = Tail(m_targets)
    /\ LET s == Head(m_targets) IN TargetRings(s) \/ TargetFails(s)
    /\ UNCHANGED <<m_exec, m_answered, m_timer, m_execNext, master, answers, connecting,
                   run, history>>

\* The target takes the caller from the master, who drops all that goes on, or it
\* does not; without a caller everything is dropped as well.
CallDirect ==
    /\ run # None
    /\ NextIs(Slaves) /\ m_execNext
    /\ m_targets' = Tail(m_targets)
    /\ LET s == Head(m_targets)
       IN  \/ /\ caller = "fork" /\ caller' = "direct"
              /\ m_slaves' = {}
              /\ chan' = [u \in Slaves |-> IF u = s THEN "taken"
                                           ELSE IF u \in m_slaves THEN "down" ELSE chan[u]]
              /\ m_exec' = FALSE /\ forks' = TRUE
           \/ /\ caller = "fork"
              /\ chan' = [chan EXCEPT ![s] = "down"]
              /\ UNCHANGED <<caller, m_slaves, m_exec, forks>>
           \/ /\ caller # "fork"
              /\ Drop(m_slaves)
              /\ m_exec' = FALSE
              /\ UNCHANGED <<caller, forks>>
    /\ UNCHANGED <<m_answered, m_timer, m_execNext, m_type, master, answers, connecting,
                   run, history>>

-----------------------------------------------------------------------------
(* The targets *)

\* Faulty: dropping the auxiliary slaves is thought to bring on the next group.
LostSlaveLeavesOff(s) ==
    LET rest == m_slaves \ {s}
        regulars == {u \in rest : m_type[u] = "Regular"}
        auxiliars == {u \in rest : m_type[u] = "Auxiliar"}
    IN  /\ Drop({s} \cup IF regulars = {} THEN auxiliars ELSE {})
        /\ IF m_answered \/ regulars \cup auxiliars # {}
           THEN UNCHANGED <<run, forks, m_timer>>
           ELSE Begin("lost")
        /\ UNCHANGED caller

\* ForkSlave::disconnected() and ForkMaster::lostSlave(): the caller is disconnected for
\* some reasons; else, when the last regular one is lost, auxiliary slaves are
\* dropped and the next group is called.
LostSlave(s) ==
    LET rest == m_slaves \ {s}
        regulars == {u \in rest : m_type[u] = "Regular"}
        auxiliars == {u \in rest : m_type[u] = "Auxiliar"}
    IN  \/ /\ m_answered \/ regulars # {}
           /\ Drop({s})
           /\ UNCHANGED <<run, forks, m_timer, caller>>
        \/ /\ ~m_answered /\ regulars = {}
           /\ Drop({s} \cup auxiliars)
           /\ Begin("lost")
           /\ UNCHANGED caller
        \/ /\ ~m_answered /\ CanStop
           /\ Drop({s})
           /\ m_timer' = "off"
           /\ caller' = IF caller = "fork" THEN "failed" ELSE caller
           /\ UNCHANGED <<run, forks>>

\* A target hangs up.  A slave that cannot get hold of its master any more is not
\* taken off the list.
TargetHangsUp(s) ==
    /\ Unlocked
    /\ chan[s] = "up"
    /\ IF s \in m_slaves /\ master = "alive"
       THEN LostSlave(s)
       ELSE /\ chan' = [chan EXCEPT ![s] = "down"]
            /\ UNCHANGED <<m_slaves, run, forks, m_timer, caller>>
    /\ UNCHANGED <<m_targets, m_exec, m_answered, m_execNext, m_type, master, answers,
                   connecting, history>>

\* A target's channel sends call.answered.
TargetAnswers(s) ==
    /\ chan[s] = "up" /\ s \notin answers
    /\ answers' = answers \cup {s}
    /\ UNCHANGED <<progress, m_slaves, m_type, master, caller, chan, connecting, run,
                   forks, history>>

\* Only the first succeeds, and only while the caller and the slave are there.
Accept(s) ==
    /\ connecting' = IF ~m_answered /\ caller = "fork" /\ s \in m_slaves THEN s ELSE connecting
    /\ m_answered' = (m_answered \/ connecting' # None)

\* ForkMaster::msgAnswered() up to the end of the lock; the timer is stopped whatever
\* the answer.  The message may come after its target has hung up.
HandleAnswer(s) ==
    /\ Unlocked
    /\ s \in answers
    /\ answers' = answers \ {s}
    /\ IF master = "alive"
       THEN Accept(s) /\ m_timer' = "off"
       ELSE UNCHANGED <<connecting, m_answered, m_timer>>
    /\ UNCHANGED <<m_targets, m_exec, m_execNext, m_slaves, m_type, master, caller, chan,
                   run, forks, history>>

\* call->connect(peer), which takes each from the peer it has by then, if any.
ConnectAnswered ==
    /\ Unlocked
    /\ connecting # None
    /\ chan' = [chan EXCEPT ![connecting] = IF @ = "up" THEN "taken" ELSE @]
    /\ m_slaves' = m_slaves \ {connecting}
    /\ caller' = IF caller = "fork" THEN "talk" ELSE caller
    /\ connecting' = None
    /\ UNCHANGED <<progress, m_type, master, answers, run, forks, history>>

-----------------------------------------------------------------------------
(* The caller, the timer and the end of the master *)

CallerHangsUp ==
    /\ Unlocked
    /\ caller = "fork"
    /\ caller' = "hungup"
    /\ UNCHANGED <<progress, m_slaves, m_type, master, chan, answers, connecting, run,
                   forks, history>>

\* ForkMaster::checkTimer()
CheckTimer ==
    /\ Unlocked
    /\ master = "alive" /\ m_timer # "off"
    /\ Drop(IF m_timer = "drop" THEN Softly ELSE {})
    /\ Begin("timer")
    /\ UNCHANGED <<m_targets, m_exec, m_answered, m_execNext, m_type, master, caller,
                   answers, connecting, history>>

\* The last reference is dropped: the caller is not its peer any more and no handler
\* works on the master.  The mutex is not held.
LastReference ==
    /\ Unlocked
    /\ master = "alive" /\ caller # "fork" /\ connecting = None
    /\ master' = "released"
    /\ UNCHANGED <<progress, m_slaves, m_type, caller, chan, answers, connecting, run,
                   forks, history>>

\* clear(false) in the destructor takes a slave off the list and then, with the mutex
\* dropped, hangs up its target.
ClearSlave(s) ==
    /\ master = "released" /\ ~stale
    /\ s \in m_slaves /\ chan[s] = "up"
    /\ Drop({s})
    /\ UNCHANGED <<progress, m_type, master, caller, answers, connecting, run, forks, history>>

\* A slave on the list was freed, or is dying: what is left of it says that it is not
\* alive and it is passed over, or its ref() fails and the loop ends early.
ClearStale ==
    /\ master = "released" /\ ~stale
    /\ \E s \in m_slaves : chan[s] # "up" /\ m_slaves' = m_slaves \ {s}
    /\ stale' \in BOOLEAN
    /\ UNCHANGED <<progress, m_type, master, caller, chan, answers, connecting, run, forks,
                   stranded>>

\* Faulty: the destructor clears the list softly.
DestroySoftly ==
    /\ master = "released"
    /\ Softly = {} \/ stale
    /\ master' = "gone"
    /\ m_exec' = FALSE
    /\ m_timer' = "off"
    /\ UNCHANGED <<m_targets, m_answered, m_execNext, m_slaves, m_type, caller, chan,
                   answers, connecting, run, forks, history>>

\* The loop has ended; the message and the targets are destroyed with the master.
Destroy ==
    /\ master = "released"
    /\ m_slaves = {} \/ stale
    /\ master' = "gone"
    /\ m_exec' = FALSE
    /\ m_timer' = "off"
    /\ UNCHANGED <<m_targets, m_answered, m_execNext, m_slaves, m_type, caller, chan,
                   answers, connecting, run, forks, history>>

-----------------------------------------------------------------------------
\* msgExecute(): the caller is connected and startCalling() calls callContinue().
Init ==
    /\ m_targets \in Plans
    /\ m_exec = TRUE /\ m_answered = FALSE /\ m_timer = "off" /\ m_execNext = FALSE
    /\ m_slaves = {}
    /\ m_type = [s \in Slaves |-> "Unknown"]
    /\ master = "alive" /\ caller = "fork"
    /\ chan = [s \in Slaves |-> "none"]
    /\ answers = {} /\ connecting = None
    /\ run = "start" /\ forks = FALSE
    /\ stranded = FALSE /\ stale = FALSE

CallContinue == GroupEnds \/ GroupIsEmpty \/ NoMoreTargets \/ CallTarget \/ CallDirect

Finish == LastReference \/ (\E s \in Slaves : ClearSlave(s)) \/ ClearStale \/ Destroy

Next ==
    \/ CallContinue \/ ConnectAnswered \/ CallerHangsUp \/ CheckTimer \/ Finish
    \/ \E s \in Slaves : TargetHangsUp(s) \/ TargetAnswers(s) \/ HandleAnswer(s)

Spec == Init /\ [][Next]_vars

\* Threads go on with what they do, messages are dispatched, timers fire and a target
\* that is not answered gives up at some time; the caller may wait for ever.
FairSpec ==
    /\ Spec
    /\ WF_vars(CallContinue) /\ WF_vars(ConnectAnswered) /\ WF_vars(CheckTimer)
    /\ WF_vars(Finish)
    /\ \A s \in Slaves : SF_vars(TargetHangsUp(s)) /\ SF_vars(HandleAnswer(s))

-----------------------------------------------------------------------------
(* Properties *)

\* A slave is listed with its type, for lostSlave() ignores one that has none.
TypeOK ==
    /\ m_targets \in Seq(Slaves \cup Modifiers)
    /\ {m_exec, m_answered, m_execNext, forks, stranded, stale} \subseteq BOOLEAN
    /\ m_timer \in {"off", "next", "drop"}
    /\ m_type \in [Slaves -> Types \cup {"Unknown"}]
    /\ m_slaves \subseteq {s \in Slaves : m_type[s] \in Types}
    /\ master \in {"alive", "released", "gone"}
    /\ caller \in {"fork", "talk", "direct", "hungup", "failed"}
    /\ chan \in [Slaves -> {"none", "up", "taken", "down"}]
    /\ answers \subseteq Slaves
    /\ connecting \in Slaves \cup {None}
    /\ run \in {"start", "timer", "lost", None}

\* Every target that rings is on the list of a master who will hang it up, unless the
\* destructor came upon a freed slave; at most one target gets the caller, and
\* while the master still has the caller none has; who is to be called with it, or
\* lost, finds the message.
Accounted ==
    /\ \A s \in Slaves : chan[s] = "up" /\ ~stale => s \in m_slaves /\ master # "gone"
    /\ \A s, u \in Slaves : chan[s] = "taken" /\ chan[u] = "taken" => s = u
    /\ caller = "fork" => \A s \in Slaves : chan[s] # "taken"
    /\ m_slaves # {} /\ master = "alive" => m_exec

\* What the induction needs beyond the above: who runs callContinue() or connects an
\* answer keeps a reference to the master, an answer is accepted once and nothing
\* is offered the caller after it, and whoever got the caller took it from the fork.
Referenced ==
    /\ master # "alive" => caller # "fork" /\ run = None /\ connecting = None
    /\ connecting # None => m_answered
    /\ \A s \in Slaves : chan[s] = "taken" => caller # "fork" /\ connecting = None

IndInv == TypeOK /\ Accounted /\ Referenced

\* The caller does not wait for ever: somebody answers, or the call is given up when all
\* have been tried - unless a timer fires after which nobody can be called.
Ends == <>(caller # "fork" \/ stranded)
=============================================================================
