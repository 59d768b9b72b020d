--------------------------- MODULE CallForkProofs ---------------------------
(***************************************************************************)
(* The accounting of the call forker for any number of targets and any     *)
(* plan: nobody is left ringing and at most one target gets the caller.    *)
(***************************************************************************)
EXTENDS CallFork, TLAPS

\* What the plan may still hold.
LEMMA PlanShrinks ==
    ASSUME TypeOK, m_targets # <<>>
    PROVE  /\ Tail(m_targets) \in Seq(Slaves \cup Modifiers)
           /\ Head(m_targets) \in Slaves \cup Modifiers
  BY DEF TypeOK

LEMMA InitInd == ASSUME Init PROVE IndInv
  <1>1. TypeOK
    BY PlanAssumption DEF Init, TypeOK
  <1> QED  BY <1>1 DEF Init, IndInv, Accounted, Referenced

(***************************************************************************)
(* callContinue()                                                          *)
(***************************************************************************)

LEMMA ModifierInd == ASSUME IndInv, GroupEnds \/ GroupIsEmpty PROVE IndInv'
  <1>1. Tail(m_targets) \in Seq(Slaves \cup Modifiers)
    BY PlanShrinks DEF IndInv, GroupEnds, GroupIsEmpty, NextIs
  <1>2. CASE GroupEnds
    <2>1. /\ m_targets' = Tail(m_targets) /\ m_execNext' \in BOOLEAN /\ run' = None /\ forks' = FALSE
          /\ caller' = caller /\ stranded' \in BOOLEAN /\ m_timer' \in {"off", "next", "drop"}
          /\ UNCHANGED <<m_exec, m_answered, m_slaves, m_type, master, chan, answers, connecting, stale>>
      BY <1>2 DEF GroupEnds, Modified, Return, IndInv, TypeOK
    <2>2. TypeOK'
      BY <1>1, <2>1 DEF IndInv, TypeOK
    <2> QED  BY <2>1, <2>2 DEF IndInv, Accounted, Referenced
  <1>3. CASE GroupIsEmpty
    <2>1. /\ m_targets' = Tail(m_targets) /\ m_execNext' \in BOOLEAN /\ m_timer' = "off"
          /\ UNCHANGED <<m_exec, m_answered, m_slaves, m_type, master, caller, chan, answers,
                         connecting, run, forks, stranded, stale>>
      BY <1>3 DEF GroupIsEmpty, Modified, history
    <2>2. TypeOK'
      BY <1>1, <2>1 DEF IndInv, TypeOK
    <2> QED  BY <2>1, <2>2 DEF IndInv, Accounted, Referenced
  <1> QED  BY <1>2, <1>3

LEMMA NoMoreTargetsInd == ASSUME IndInv, NoMoreTargets PROVE IndInv'
  <1>1. /\ run' = None /\ forks' = FALSE /\ caller' \in {caller, "failed"}
        /\ stranded' \in BOOLEAN
        /\ UNCHANGED <<m_targets, m_exec, m_answered, m_timer, m_execNext, m_slaves, m_type,
                       master, chan, answers, connecting, stale>>
    BY DEF NoMoreTargets, Return, progress, IndInv, TypeOK
  <1>2. TypeOK'
    BY <1>1 DEF IndInv, TypeOK
  <1>3. caller' = "fork" => caller = "fork"
    BY <1>1
  <1> QED  BY <1>1, <1>2, <1>3 DEF IndInv, Accounted, Referenced

\* A target that rings is listed; the message is there, and so is the master.
LEMMA CallTargetInd == ASSUME IndInv, CallTarget PROVE IndInv'
  <1> DEFINE s == Head(m_targets)
  <1>1. /\ s \in Slaves /\ m_exec = TRUE /\ run # None /\ m_targets' = Tail(m_targets)
        /\ UNCHANGED <<m_exec, m_answered, m_timer, m_execNext, master, answers, connecting,
                       run, stranded, stale>>
        /\ master = "alive"
    BY DEF CallTarget, NextIs, history, IndInv, TypeOK, Referenced
  <1>2. Tail(m_targets) \in Seq(Slaves \cup Modifiers)
    BY PlanShrinks DEF IndInv, CallTarget, NextIs
  <1>3. chan \in [Slaves -> {"none", "up", "taken", "down"}]
    BY DEF IndInv, TypeOK
  <1> HIDE DEF s
  <1>4. CASE TargetRings(s)
    <2>1. /\ chan' = [chan EXCEPT ![s] = "up"] /\ m_slaves' = m_slaves \cup {s}
          /\ forks' = TRUE /\ caller' = caller
      BY <1>4 DEF TargetRings
    <2>2. PICK type \in Types : m_type' = [m_type EXCEPT ![s] = type]
      BY <1>4 DEF TargetRings
    <2>3. m_type \in [Slaves -> Types \cup {"Unknown"}] /\ m_slaves \subseteq Slaves
          /\ \A u \in m_slaves : m_type[u] \in Types
      BY DEF IndInv, TypeOK
    <2>4. m_type' \in [Slaves -> Types \cup {"Unknown"}]
      BY <1>1, <2>2, <2>3
    <2>5. m_slaves' \subseteq Slaves /\ \A u \in m_slaves' : m_type'[u] \in Types
      BY <1>1, <2>1, <2>2, <2>3
    <2>6. chan' \in [Slaves -> {"none", "up", "taken", "down"}]
      BY <1>1, <1>3, <2>1
    <2>7. TypeOK'
      BY <1>1, <1>2, <2>1, <2>4, <2>5, <2>6 DEF IndInv, TypeOK
    <2>8. \A u \in Slaves : chan'[u] = IF u = s THEN "up" ELSE chan[u]
      BY <1>3, <2>1
    <2>9. Accounted'
      BY <1>1, <2>1, <2>8 DEF IndInv, Accounted
    <2>10. Referenced'
      BY <1>1, <2>1, <2>8 DEF IndInv, Referenced
    <2> QED  BY <2>7, <2>9, <2>10 DEF IndInv
  <1>5. CASE TargetFails(s)
    <2>1. /\ chan' = [chan EXCEPT ![s] = "down"] /\ caller' \in {caller, "failed"}
          /\ UNCHANGED <<m_slaves, m_type, forks>>
      BY <1>5 DEF TargetFails
    <2>2. TypeOK'
      BY <1>1, <1>2, <1>3, <2>1 DEF IndInv, TypeOK
    <2>3. \A u \in Slaves : chan'[u] = IF u = s THEN "down" ELSE chan[u]
      BY <1>3, <2>1
    <2>4. Accounted'
      BY <1>1, <2>1, <2>3 DEF IndInv, Accounted
    <2>5. Referenced'
      BY <1>1, <2>1, <2>3 DEF IndInv, Referenced
    <2> QED  BY <2>2, <2>4, <2>5 DEF IndInv
  <1> QED  BY <1>4, <1>5 DEF CallTarget, s

\* Nobody had the caller while the fork had it, and no answer is being connected.
LEMMA CallDirectInd == ASSUME IndInv, CallDirect PROVE IndInv'
  <1> DEFINE s == Head(m_targets)
  <1>1. /\ s \in Slaves /\ run # None /\ m_answered = FALSE /\ m_targets' = Tail(m_targets)
        /\ UNCHANGED <<m_answered, m_timer, m_execNext, m_type, master, answers, connecting,
                       run, stranded, stale>>
        /\ master = "alive" /\ connecting = None
    BY DEF CallDirect, NextIs, history, IndInv, TypeOK, Referenced
  <1>2. Tail(m_targets) \in Seq(Slaves \cup Modifiers)
    BY PlanShrinks DEF IndInv, CallDirect, NextIs
  <1>3. chan \in [Slaves -> {"none", "up", "taken", "down"}]
    BY DEF IndInv, TypeOK
  <1> HIDE DEF s
  <1>4. CASE /\ caller = "fork" /\ caller' = "direct" /\ m_slaves' = {}
             /\ chan' = [u \in Slaves |-> IF u = s THEN "taken"
                                          ELSE IF u \in m_slaves THEN "down" ELSE chan[u]]
             /\ m_exec' = FALSE /\ forks' = TRUE
    <2>1. TypeOK'
      BY <1>1, <1>2, <1>3, <1>4 DEF IndInv, TypeOK
    <2>2. \A u \in Slaves : chan'[u] = IF u = s THEN "taken"
                                       ELSE IF u \in m_slaves THEN "down" ELSE chan[u]
      BY <1>4
    <2>3. \A u \in Slaves : chan[u] # "taken" /\ (chan[u] = "up" /\ ~stale => u \in m_slaves)
      BY <1>4 DEF IndInv, Accounted
    <2>4. \A u \in Slaves : (chan'[u] = "taken" => u = s) /\ (chan'[u] = "up" => stale)
      BY <2>2, <2>3
    <2>5. Accounted'
      BY <1>1, <1>4, <2>4 DEF Accounted
    <2>6. Referenced'
      BY <1>1, <1>4 DEF Referenced
    <2> QED  BY <2>1, <2>5, <2>6 DEF IndInv
  <1>5. CASE /\ caller = "fork" /\ chan' = [chan EXCEPT ![s] = "down"]
             /\ UNCHANGED <<caller, m_slaves, m_exec, forks>>
    <2>1. TypeOK'
      BY <1>1, <1>2, <1>3, <1>5 DEF IndInv, TypeOK
    <2>2. \A u \in Slaves : chan'[u] = IF u = s THEN "down" ELSE chan[u]
      BY <1>3, <1>5
    <2>3. Accounted'
      BY <1>1, <1>5, <2>2 DEF IndInv, Accounted
    <2>4. Referenced'
      BY <1>1, <1>5, <2>2 DEF IndInv, Referenced
    <2> QED  BY <2>1, <2>3, <2>4 DEF IndInv
  <1>6. CASE /\ caller # "fork" /\ Drop(m_slaves) /\ m_exec' = FALSE
             /\ UNCHANGED <<caller, forks>>
    <2>1. /\ m_slaves' = {}
          /\ chan' = [u \in Slaves |-> IF u \in m_slaves THEN "down" ELSE chan[u]]
      BY <1>6 DEF Drop
    <2>2. TypeOK'
      BY <1>1, <1>2, <1>3, <1>6, <2>1 DEF IndInv, TypeOK
    <2>3. \A u \in Slaves : chan'[u] = IF u \in m_slaves THEN "down" ELSE chan[u]
      BY <2>1
    <2>4. Accounted'
      BY <1>1, <1>6, <2>1, <2>3 DEF IndInv, Accounted
    <2>5. Referenced'
      BY <1>1, <1>6, <2>1, <2>3 DEF IndInv, Referenced
    <2> QED  BY <2>2, <2>4, <2>5 DEF IndInv
  <1> QED  BY <1>4, <1>5, <1>6 DEF CallDirect, s

(***************************************************************************)
(* Slaves that are dropped or lost                                         *)
(***************************************************************************)

\* Slaves that are taken off the list are hung up, so that the others stay accounted
\* for, whatever happens to the caller short of giving it back.
LEMMA DropKeeps ==
    ASSUME IndInv, NEW S \in SUBSET Slaves, Drop(S), caller' = caller \/ caller' = "failed",
           UNCHANGED <<m_exec, master, connecting, m_answered, stale, m_type>>
    PROVE  /\ Accounted' /\ m_slaves' \subseteq m_slaves
           /\ chan' \in [Slaves -> {"none", "up", "taken", "down"}]
           /\ \A s \in Slaves : chan'[s] = "taken" => caller' # "fork" /\ connecting' = None
  <1>1. /\ m_slaves' = m_slaves \ S
        /\ chan' = [s \in Slaves |-> IF s \in S THEN "down" ELSE chan[s]]
    BY DEF Drop
  <1>2. chan \in [Slaves -> {"none", "up", "taken", "down"}]
    BY DEF IndInv, TypeOK
  <1>3. \A s \in Slaves : chan'[s] = IF s \in S THEN "down" ELSE chan[s]
    BY <1>1
  <1>4. Accounted'
    BY <1>1, <1>3 DEF IndInv, Accounted
  <1>5. \A s \in Slaves : chan'[s] = "taken" => caller' # "fork" /\ connecting' = None
    BY <1>3 DEF IndInv, Referenced
  <1> QED  BY <1>1, <1>2, <1>4, <1>5

LEMMA LostSlaveInd ==
    ASSUME IndInv, NEW s \in Slaves, TargetHangsUp(s)
    PROVE  IndInv'
  <1>1. /\ chan[s] = "up" /\ run = None
        /\ UNCHANGED <<m_targets, m_exec, m_answered, m_execNext, m_type, master, answers,
                       connecting, stranded, stale>>
    BY DEF TargetHangsUp, Unlocked, history
  <1>2. CASE s \in m_slaves /\ master = "alive"
    <2>1. \E S \in SUBSET Slaves : Drop(S)
      BY <1>2 DEF TargetHangsUp, LostSlave, IndInv, TypeOK
    <2>2. /\ caller' = caller \/ caller' = "failed"
          /\ run' \in {None, "lost"} /\ forks' \in BOOLEAN /\ m_timer' \in {"off", "next", "drop"}
      BY <1>1, <1>2 DEF TargetHangsUp, LostSlave, Begin, IndInv, TypeOK
    <2>3. /\ Accounted' /\ m_slaves' \subseteq m_slaves
          /\ chan' \in [Slaves -> {"none", "up", "taken", "down"}]
          /\ \A u \in Slaves : chan'[u] = "taken" => caller' # "fork" /\ connecting' = None
      BY <1>1, <2>1, <2>2, DropKeeps
    <2>4. TypeOK'
      BY <1>1, <2>2, <2>3 DEF IndInv, TypeOK
    <2>5. Referenced'
      BY <1>1, <1>2, <2>3 DEF IndInv, Referenced
    <2> QED  BY <2>3, <2>4, <2>5 DEF IndInv
  <1>3. CASE ~(s \in m_slaves /\ master = "alive")
    <2>1. /\ chan' = [chan EXCEPT ![s] = "down"]
          /\ UNCHANGED <<m_slaves, run, forks, m_timer, caller>>
      BY <1>3 DEF TargetHangsUp
    <2>2. chan \in [Slaves -> {"none", "up", "taken", "down"}]
      BY DEF IndInv, TypeOK
    <2>3. \A u \in Slaves : chan'[u] = IF u = s THEN "down" ELSE chan[u]
      BY <2>1, <2>2
    <2>4. TypeOK'
      BY <1>1, <2>1, <2>2 DEF IndInv, TypeOK
    <2>5. Accounted'
      BY <1>1, <2>1, <2>3 DEF IndInv, Accounted
    <2>6. Referenced'
      BY <1>1, <2>1, <2>3 DEF IndInv, Referenced
    <2> QED  BY <2>4, <2>5, <2>6 DEF IndInv
  <1> QED  BY <1>2, <1>3

LEMMA CheckTimerInd == ASSUME IndInv, CheckTimer PROVE IndInv'
  <1>1. /\ Drop(IF m_timer = "drop" THEN Softly ELSE {}) /\ master = "alive"
        /\ run' = "timer" /\ forks' = FALSE /\ m_timer' = "off"
        /\ UNCHANGED <<m_targets, m_exec, m_answered, m_execNext, m_type, master, caller,
                       answers, connecting, stranded, stale>>
    BY DEF CheckTimer, Begin, history
  <1>2. (IF m_timer = "drop" THEN Softly ELSE {}) \in SUBSET Slaves
    BY DEF Softly, IndInv, TypeOK
  <1>3. /\ Accounted' /\ m_slaves' \subseteq m_slaves
        /\ chan' \in [Slaves -> {"none", "up", "taken", "down"}]
        /\ \A s \in Slaves : chan'[s] = "taken" => caller' # "fork" /\ connecting' = None
    BY <1>1, <1>2, DropKeeps
  <1>4. TypeOK'
    BY <1>1, <1>3 DEF IndInv, TypeOK
  <1>5. Referenced'
    BY <1>1, <1>3 DEF IndInv, Referenced
  <1> QED  BY <1>3, <1>4, <1>5 DEF IndInv

(***************************************************************************)
(* Answers                                                                 *)
(***************************************************************************)

LEMMA AnswerInd ==
    ASSUME IndInv, NEW s \in Slaves, TargetAnswers(s) \/ HandleAnswer(s)
    PROVE  IndInv'
  <1>1. CASE TargetAnswers(s)
    <2>1. /\ answers' = answers \cup {s}
          /\ UNCHANGED <<m_targets, m_exec, m_answered, m_timer, m_execNext, m_slaves, m_type,
                         master, caller, chan, connecting, run, forks, stranded, stale>>
      BY <1>1 DEF TargetAnswers, progress, history
    <2>2. TypeOK'
      BY <2>1 DEF IndInv, TypeOK
    <2> QED  BY <2>1, <2>2 DEF IndInv, Accounted, Referenced
  <1>2. CASE HandleAnswer(s)
    <2>1. /\ answers' = answers \ {s} /\ run = None
          /\ UNCHANGED <<m_targets, m_exec, m_execNext, m_slaves, m_type, master, caller, chan,
                         run, forks, stranded, stale>>
      BY <1>2 DEF HandleAnswer, Unlocked, history
    <2>2. CASE master = "alive"
      <3>1. /\ connecting' = IF ~m_answered /\ caller = "fork" /\ s \in m_slaves THEN s ELSE connecting
            /\ m_answered' = (m_answered \/ connecting' # None) /\ m_timer' = "off"
        BY <1>2, <2>2 DEF HandleAnswer, Accept
      <3>2. m_answered \in BOOLEAN /\ connecting \in Slaves \cup {None}
        BY DEF IndInv, TypeOK
      <3>3. m_answered' \in BOOLEAN /\ connecting' \in Slaves \cup {None}
        BY <3>1, <3>2
      <3>4. TypeOK'
        BY <2>1, <3>1, <3>3 DEF IndInv, TypeOK
      <3>5. Accounted'
        BY <2>1 DEF IndInv, Accounted
      <3>6. Referenced'
        BY <2>1, <2>2, <3>1, <3>2 DEF IndInv, Referenced
      <3> QED  BY <3>4, <3>5, <3>6 DEF IndInv
    <2>3. CASE master # "alive"
      <3>1. UNCHANGED <<connecting, m_answered, m_timer>>
        BY <1>2, <2>3 DEF HandleAnswer
      <3>2. TypeOK'
        BY <2>1, <3>1 DEF IndInv, TypeOK
      <3> QED  BY <2>1, <3>1, <3>2 DEF IndInv, Accounted, Referenced
    <2> QED  BY <2>2, <2>3
  <1> QED  BY <1>1, <1>2

\* Nobody has been taken before, for this answer was the only one to be accepted.
LEMMA ConnectAnsweredInd == ASSUME IndInv, ConnectAnswered PROVE IndInv'
  <1> DEFINE s == connecting
  <1>1. /\ s \in Slaves /\ m_answered = TRUE /\ run = None /\ master = "alive"
        /\ m_slaves' = m_slaves \ {s} /\ caller' # "fork" /\ connecting' = None
        /\ caller' \in {caller, "talk"}
        /\ UNCHANGED <<m_targets, m_exec, m_answered, m_timer, m_execNext, m_type, master,
                       answers, run, forks, stranded, stale>>
    BY DEF ConnectAnswered, Unlocked, progress, history, IndInv, TypeOK, Referenced
  <1>2. /\ chan \in [Slaves -> {"none", "up", "taken", "down"}]
        /\ chan' = [chan EXCEPT ![s] = IF chan[s] = "up" THEN "taken" ELSE chan[s]]
    BY DEF ConnectAnswered, IndInv, TypeOK
  <1>3. \A u \in Slaves : chan[u] # "taken"
    BY NoneAssumption, <1>1 DEF IndInv, Referenced
  <1> HIDE DEF s
  <1>4. TypeOK'
    <2>1. chan' \in [Slaves -> {"none", "up", "taken", "down"}]
      BY <1>1, <1>2
    <2>2. caller' \in {"fork", "talk", "direct", "hungup", "failed"}
      BY <1>1 DEF IndInv, TypeOK
    <2> QED  BY <1>1, <2>1, <2>2 DEF IndInv, TypeOK
  <1>5. \A u \in Slaves : chan'[u] = IF u = s /\ chan[u] = "up" THEN "taken" ELSE chan[u]
    BY <1>1, <1>2
  <1>6. \A u \in Slaves : (chan'[u] = "taken" => u = s) /\ (chan'[u] = "up" => u # s /\ chan[u] = "up")
    BY <1>3, <1>5
  <1>7. Accounted'
    BY <1>1, <1>6 DEF IndInv, Accounted
  <1>8. Referenced'
    BY <1>1 DEF IndInv, Referenced
  <1> QED  BY <1>4, <1>7, <1>8 DEF IndInv

(***************************************************************************)
(* The end of the master                                                   *)
(***************************************************************************)

LEMMA FinishInd == ASSUME IndInv, Finish \/ CallerHangsUp PROVE IndInv'
  <1>1. CASE CallerHangsUp
    <2>1. /\ caller' = "hungup"
          /\ UNCHANGED <<m_targets, m_exec, m_answered, m_timer, m_execNext, m_slaves, m_type,
                         master, chan, answers, connecting, run, forks, stranded, stale>>
      BY <1>1 DEF CallerHangsUp, progress, history
    <2>2. TypeOK'
      BY <2>1 DEF IndInv, TypeOK
    <2> QED  BY <2>1, <2>2 DEF IndInv, Accounted, Referenced
  <1>2. CASE LastReference
    <2>1. /\ master' = "released" /\ caller # "fork" /\ connecting = None /\ run = None
          /\ UNCHANGED <<m_targets, m_exec, m_answered, m_timer, m_execNext, m_slaves, m_type,
                         caller, chan, answers, connecting, run, forks, stranded, stale>>
      BY <1>2 DEF LastReference, Unlocked, progress, history
    <2>2. TypeOK'
      BY <2>1 DEF IndInv, TypeOK
    <2> QED  BY <2>1, <2>2 DEF IndInv, Accounted, Referenced
  <1>3. ASSUME NEW s \in Slaves, ClearSlave(s) PROVE IndInv'
    <2>1. /\ Drop({s}) /\ {s} \in SUBSET Slaves
          /\ UNCHANGED <<m_targets, m_exec, m_answered, m_timer, m_execNext, m_type, master,
                         caller, answers, connecting, run, forks, stranded, stale>>
      BY <1>3 DEF ClearSlave, progress, history
    <2>2. /\ Accounted' /\ m_slaves' \subseteq m_slaves
          /\ chan' \in [Slaves -> {"none", "up", "taken", "down"}]
          /\ \A u \in Slaves : chan'[u] = "taken" => caller' # "fork" /\ connecting' = None
      BY <2>1, DropKeeps
    <2>3. TypeOK'
      BY <2>1, <2>2 DEF IndInv, TypeOK
    <2>4. Referenced'
      BY <2>1, <2>2 DEF IndInv, Referenced
    <2> QED  BY <2>2, <2>3, <2>4 DEF IndInv
  <1>4. CASE ClearStale
    <2>1. /\ master = "released" /\ ~stale /\ stale' \in BOOLEAN
          /\ UNCHANGED <<m_targets, m_exec, m_answered, m_timer, m_execNext, m_type, master,
                         caller, chan, answers, connecting, run, forks, stranded>>
      BY <1>4 DEF ClearStale, progress
    <2>2. PICK s \in m_slaves : chan[s] # "up" /\ m_slaves' = m_slaves \ {s}
      BY <1>4 DEF ClearStale
    <2>3. TypeOK'
      BY <2>1, <2>2 DEF IndInv, TypeOK
    <2> QED  BY <2>1, <2>2, <2>3 DEF IndInv, Accounted, Referenced
  <1>5. CASE Destroy
    <2>1. /\ master = "released" /\ master' = "gone" /\ (m_slaves = {} \/ stale) /\ m_exec' = FALSE
          /\ m_timer' = "off"
          /\ UNCHANGED <<m_targets, m_answered, m_execNext, m_slaves, m_type, caller, chan,
                         answers, connecting, run, forks, stranded, stale>>
      BY <1>5 DEF Destroy, history
    <2>2. TypeOK'
      BY <2>1 DEF IndInv, TypeOK
    <2> QED  BY <2>1, <2>2 DEF IndInv, Accounted, Referenced
  <1> QED  BY <1>1, <1>2, <1>3, <1>4, <1>5 DEF Finish

LEMMA NextInd == ASSUME IndInv, [Next]_vars PROVE IndInv'
  <1>1. CASE UNCHANGED vars
    <2>1. TypeOK'
      BY <1>1 DEF vars, progress, history, IndInv, TypeOK
    <2> QED  BY <1>1, <2>1 DEF vars, progress, history, IndInv, Accounted, Referenced
  <1>2. CASE CallContinue
    BY <1>2, ModifierInd, NoMoreTargetsInd, CallTargetInd, CallDirectInd DEF CallContinue
  <1>3. ASSUME NEW s \in Slaves, TargetHangsUp(s) \/ TargetAnswers(s) \/ HandleAnswer(s)
        PROVE  IndInv'
    BY <1>3, LostSlaveInd, AnswerInd
  <1> QED  BY <1>1, <1>2, <1>3, ConnectAnsweredInd, CheckTimerInd, FinishInd DEF Next

(***************************************************************************)
(* Theorems                                                                *)
(***************************************************************************)

\* The strengthened invariant holds for every plan and every number of targets.
THEOREM IndInvAlways == Spec => []IndInv
  <1>1. Init => IndInv
    BY InitInd
  <1>2. IndInv /\ [Next]_vars => IndInv'
    BY NextInd
  <1> QED  BY <1>1, <1>2, PTL DEF Spec

\* Every slave on the list of forkSlave() has a type, so that none is lost unnoticed.
THEOREM TypeCorrect == Spec => []TypeOK
  <1>1. IndInv => TypeOK
    BY DEF IndInv
  <1> QED  BY <1>1, IndInvAlways, PTL

\* msgAnswered(), clear() and lostSlave() leave no target ringing without a master and
\* give the caller to one target at most.
THEOREM TargetsAccounted == Spec => []Accounted
  <1>1. IndInv => Accounted
    BY DEF IndInv
  <1> QED  BY <1>1, IndInvAlways, PTL
=============================================================================
