--------------------------- MODULE PluginsProofs ---------------------------
(***************************************************************************)
(* What Plugins keeps for any agents, browsers, sizes and plugins: the     *)
(* task list's two invariants, the nudge an orchestrator with unfinished   *)
(* tasks has had, a join that misses nothing, and where a panic comes      *)
(* from.                                                                   *)
(***************************************************************************)
EXTENDS Plugins, SequenceTheorems, TLAPS

-----------------------------------------------------------------------------
(* The task list.                                                          *)

ListInv == ListTypeOK /\ OneInProgress /\ IdsUnique

\* What the list is when a task is taken out of it.
LEMMA RemovedTask ==
    ASSUME tasks \in Seq(Task), NEW i \in DOMAIN tasks
    PROVE  /\ RemoveAt(tasks, i) \in Seq(Task)
           /\ Len(RemoveAt(tasks, i)) = Len(tasks) - 1
           /\ \A j \in 1 .. Len(tasks) - 1 :
                RemoveAt(tasks, i)[j] = tasks[IF j < i THEN j ELSE j + 1]
  <1> DEFINE front == SubSeq(tasks, 1, i - 1)
             back == SubSeq(tasks, i + 1, Len(tasks))
  <1>1. i \in 1 .. Len(tasks) /\ Len(tasks) \in Nat OBVIOUS
  <1>2. /\ front \in Seq(Task) /\ Len(front) = i - 1
        /\ \A j \in 1 .. i - 1 : front[j] = tasks[j]
    BY <1>1
  <1>3. /\ back \in Seq(Task) /\ Len(back) = Len(tasks) - i
        /\ \A j \in 1 .. Len(tasks) - i : back[j] = tasks[i + j]
    BY <1>1
  <1> HIDE DEF front, back
  <1>4. RemoveAt(tasks, i) = front \o back BY DEF RemoveAt, front, back
  <1>5. /\ front \o back \in Seq(Task)
        /\ Len(front \o back) = Len(tasks) - 1
    BY <1>1, <1>2, <1>3
  <1>6. ASSUME NEW j \in 1 .. Len(tasks) - 1
        PROVE  (front \o back)[j] = tasks[IF j < i THEN j ELSE j + 1]
    <2>1. CASE j < i BY <2>1, <1>1, <1>2, <1>3
    <2>2. CASE ~(j < i)
      <3>1. (front \o back)[j] = back[j - (i - 1)]
        <4>1. j \in 1 .. Len(front) + Len(back) /\ ~(j <= Len(front)) BY <2>2, <1>1, <1>2, <1>3
        <4>2. \A k \in 1 .. Len(front) + Len(back) :
                (front \o back)[k] = IF k <= Len(front) THEN front[k] ELSE back[k - Len(front)]
          BY <1>2, <1>3, ConcatProperties
        <4> QED BY <4>1, <4>2, <1>2
      <3>2. j - (i - 1) \in 1 .. Len(tasks) - i /\ i + (j - (i - 1)) = j + 1 BY <2>2, <1>1
      <3> QED BY <2>2, <3>1, <3>2, <1>3
    <2> QED BY <2>1, <2>2
  <1> QED BY <1>4, <1>5, <1>6

\* Every operation on the list keeps its invariants.
LEMMA ListStep == ListInv /\ [ListNext]_listVars => ListInv'
  <1> SUFFICES ASSUME ListInv, [ListNext]_listVars PROVE ListInv'
    OBVIOUS
  <1> USE DEF ListInv
  <1>t. /\ tasks \in Seq(Task) /\ nextID \in Nat \ {0} /\ nudged \in BOOLEAN
        /\ \A i \in DOMAIN tasks : tasks[i] \in Task
    BY DEF ListTypeOK
  <1>1. CASE UNCHANGED listVars
    BY <1>1 DEF listVars, ListTypeOK, OneInProgress, InProgress, IdsUnique
  <1>2. CASE NewList
    <2>1. tasks' = <<>> /\ nextID' = 1 /\ nudged' = nudged BY <1>2 DEF NewList
    <2> QED BY <2>1, <1>t DEF ListTypeOK, OneInProgress, IdsUnique
  <1>3. ASSUME NEW n \in 1 .. MaxBatch, Add(n) PROVE ListInv'
    <2> DEFINE new == [i \in 1 .. n |-> [id |-> nextID + i - 1, status |-> "idle"]]
    <2>0. n \in Nat BY TillDoneAssumption
    <2>1. new \in Seq(Task) /\ Len(new) = n
      <3>1. \A i \in 1 .. n : nextID + i - 1 \in Nat BY <1>t, <2>0
      <3>2. new \in [1 .. n -> Task] BY <3>1 DEF Task, Statuses
      <3> QED BY <3>2, <2>0
    <2>2. \A i \in 1 .. n : new[i].id = nextID + i - 1 /\ new[i].status = "idle" OBVIOUS
    <2>3. tasks' = tasks \o new /\ nextID' = nextID + n /\ nudged' = nudged BY <1>3 DEF Add
    <2> HIDE DEF new
    <2>4. /\ tasks' \in Seq(Task) /\ Len(tasks') = Len(tasks) + n
          /\ \A i \in 1 .. Len(tasks) : tasks'[i] = tasks[i]
          /\ \A i \in Len(tasks) + 1 .. Len(tasks) + n : tasks'[i] = new[i - Len(tasks)]
      <3>1. Len(tasks) \in Nat BY <1>t
      <3>2. /\ tasks \o new \in Seq(Task) /\ Len(tasks \o new) = Len(tasks) + n
            /\ \A i \in 1 .. Len(tasks) + n :
                 (tasks \o new)[i] = IF i <= Len(tasks) THEN tasks[i] ELSE new[i - Len(tasks)]
        BY <1>t, <2>1, ConcatProperties
      <3>3. \A i \in 1 .. Len(tasks) : i \in 1 .. Len(tasks) + n /\ i <= Len(tasks)
        BY <3>1, <2>0
      <3>4. \A i \in Len(tasks) + 1 .. Len(tasks) + n :
              i \in 1 .. Len(tasks) + n /\ ~(i <= Len(tasks))
        BY <3>1, <2>0
      <3> QED BY <3>2, <3>3, <3>4, <2>3
    <2>5. DOMAIN tasks = 1 .. Len(tasks) /\ DOMAIN tasks' = 1 .. Len(tasks) + n
          /\ Len(tasks) \in Nat
      BY <1>t, <2>4
    <2>6. \A i \in DOMAIN tasks' :
            \/ i \in DOMAIN tasks /\ tasks'[i] = tasks[i]
            \/ /\ i \in Len(tasks) + 1 .. Len(tasks) + n
               /\ tasks'[i].id = nextID + (i - Len(tasks)) - 1
               /\ tasks'[i].status = "idle"
      <3> SUFFICES ASSUME NEW i \in DOMAIN tasks', i \notin DOMAIN tasks
                   PROVE  /\ i \in Len(tasks) + 1 .. Len(tasks) + n
                          /\ tasks'[i].id = nextID + (i - Len(tasks)) - 1
                          /\ tasks'[i].status = "idle"
        BY <2>4, <2>5
      <3>1. i \in Len(tasks) + 1 .. Len(tasks) + n BY <2>0, <2>5
      <3>2. i - Len(tasks) \in 1 .. n BY <3>1, <2>0, <2>5
      <3> QED BY <3>1, <3>2, <2>2, <2>4
    <2>7. ListTypeOK' BY <2>3, <2>4, <2>0, <1>t DEF ListTypeOK
    <2>8. OneInProgress' BY <2>6 DEF OneInProgress, InProgress
    <2>9. IdsUnique'
      <3>1. \A i \in DOMAIN tasks : tasks[i].id \in Nat /\ tasks[i].id < nextID
        BY <1>t DEF IdsUnique, Task
      <3>2. \A i \in DOMAIN tasks' : tasks'[i].id < nextID'
        BY <2>6, <3>1, <2>3, <2>5, <2>0, <1>t
      <3>3. ASSUME NEW i \in DOMAIN tasks', NEW j \in DOMAIN tasks', tasks'[i].id = tasks'[j].id
            PROVE  i = j
        <4>1. CASE i \in DOMAIN tasks /\ j \in DOMAIN tasks
          BY <4>1, <3>3, <2>5, <2>4 DEF IdsUnique
        <4>2. CASE ~(i \in DOMAIN tasks /\ j \in DOMAIN tasks)
          <5> DEFINE old(k) == k \in DOMAIN tasks /\ tasks'[k].id < nextID
                     fresh(k) == /\ k \in Len(tasks) + 1 .. Len(tasks) + n
                                 /\ tasks'[k].id = nextID + (k - Len(tasks)) - 1
          <5>1. \A k \in DOMAIN tasks' : old(k) \/ fresh(k) BY <2>6, <3>1
          <5>2. \A k \in DOMAIN tasks' : old(k) => tasks'[k].id \in Nat BY <3>1, <2>6
          <5>3. \A k \in DOMAIN tasks' : fresh(k) => tasks'[k].id >= nextID BY <1>t, <2>5, <2>0
          <5>4. CASE fresh(i) /\ fresh(j) BY <5>4, <3>3, <1>t, <2>5, <2>0
          <5>5. CASE fresh(i) /\ old(j) BY <5>5, <5>2, <5>3, <3>3, <1>t, <2>5
          <5>6. CASE old(i) /\ fresh(j) BY <5>6, <5>2, <5>3, <3>3, <1>t, <2>5
          <5> QED BY <5>1, <5>4, <5>5, <5>6, <4>2
        <4> QED BY <4>1, <4>2
      <3> QED BY <3>2, <3>3 DEF IdsUnique
    <2> QED BY <2>7, <2>8, <2>9
  <1>4. ASSUME NEW i \in DOMAIN tasks, Toggle(i) PROVE ListInv'
    <2> DEFINE status == nextStatus[tasks[i].status]
    <2>1. status \in Statuses BY <1>t DEF Task, nextStatus, Statuses
    <2>2. /\ tasks' = [j \in DOMAIN tasks |->
                          IF j = i THEN [tasks[j] EXCEPT !.status = status]
                          ELSE IF status = "inprogress" THEN Demoted(tasks[j])
                          ELSE tasks[j]]
          /\ nextID' = nextID /\ nudged' = nudged
      BY <1>4 DEF Toggle
    <2> HIDE DEF status
    <2>3. DOMAIN tasks' = DOMAIN tasks BY <2>2
    <2>4. \A j \in DOMAIN tasks : tasks'[j] \in Task /\ tasks'[j].id = tasks[j].id
      BY <2>1, <2>2, <1>t DEF Task, Demoted, Statuses
    <2>5. tasks' \in Seq(Task)
      <3>1. DOMAIN tasks = 1 .. Len(tasks) /\ Len(tasks) \in Nat BY <1>t
      <3>2. tasks' \in [1 .. Len(tasks) -> Task] BY <3>1, <2>2, <2>4
      <3> QED BY <3>1, <3>2
    <2>6. OneInProgress'
      <3>1. CASE status = "inprogress"
        <4>1. \A j \in DOMAIN tasks : tasks'[j].status = "inprogress" => j = i
          BY <3>1, <2>2, <1>t DEF Demoted, Task
        <4> QED BY <4>1, <2>3 DEF OneInProgress, InProgress
      <3>2. CASE status # "inprogress"
        <4>1. \A j \in DOMAIN tasks :
                tasks'[j].status = "inprogress" => tasks[j].status = "inprogress"
          BY <3>2, <2>2, <1>t DEF Task
        <4> QED BY <4>1, <2>3 DEF OneInProgress, InProgress
      <3> QED BY <3>1, <3>2
    <2>7. IdsUnique'
      <3>1. nextID' = nextID BY <2>2
      <3>2. \A j \in DOMAIN tasks : tasks'[j].id = tasks[j].id BY <2>4
      <3> QED BY <3>1, <3>2, <2>3, Zenon DEF IdsUnique
    <2>8. ListTypeOK' BY <2>2, <2>5, <1>t DEF ListTypeOK
    <2> QED BY <2>6, <2>7, <2>8
  <1>5. ASSUME NEW i \in DOMAIN tasks, RemoveTask(i) PROVE ListInv'
    <2>1. tasks' = RemoveAt(tasks, i) /\ nextID' = nextID /\ nudged' = nudged
      BY <1>5 DEF RemoveTask
    <2> DEFINE was(j) == IF j < i THEN j ELSE j + 1
    <2>2. /\ tasks' \in Seq(Task) /\ Len(tasks') = Len(tasks) - 1
          /\ \A j \in 1 .. Len(tasks) - 1 : tasks'[j] = tasks[was(j)]
      BY <2>1, <1>t, RemovedTask
    <2>3. DOMAIN tasks = 1 .. Len(tasks) /\ Len(tasks) \in Nat
          /\ DOMAIN tasks' = 1 .. Len(tasks) - 1
      BY <1>t, <2>2
    <2>4. \A j \in DOMAIN tasks' : was(j) \in DOMAIN tasks BY <2>3
    <2>5. \A j, k \in DOMAIN tasks' : was(j) = was(k) => j = k BY <2>3
    <2>6. \A j \in DOMAIN tasks' : tasks'[j] = tasks[was(j)] BY <2>2, <2>3
    <2> HIDE DEF was
    <2>7. OneInProgress' BY <2>4, <2>5, <2>6, Zenon DEF OneInProgress, InProgress
    <2>8. IdsUnique' BY <2>1, <2>4, <2>5, <2>6 DEF IdsUnique
    <2> QED BY <2>1, <2>2, <2>7, <2>8, <1>t DEF ListTypeOK
  <1>6. ASSUME NEW b \in BOOLEAN, Gate(b) \/ AfterTurn(b) PROVE ListInv'
    <2>1. UNCHANGED <<tasks, nextID>> /\ nudged' \in BOOLEAN
      BY <1>6, <1>t, Zenon DEF Gate, AfterTurn, ResetNudge
    <2> QED BY <2>1, <1>t DEF ListTypeOK, OneInProgress, InProgress, IdsUnique
  <1> QED
    BY <1>1, <1>2, <1>3, <1>4, <1>5, <1>6 DEF ListNext, ToolAction, NoChange

\* Whatever an agent or a browser does, it does one operation on the list or none.
LEMMA StepOfList == [Next]_vars => [ListNext]_listVars
  <1> SUFFICES ASSUME [Next]_vars PROVE [ListNext]_listVars OBVIOUS
  <1>1. CASE UNCHANGED vars BY <1>1 DEF vars, listVars
  <1>2. ASSUME NEW a \in Agents, LoopStep(a) PROVE [ListNext]_listVars
    <2>1. ASSUME AgentStarts(a) PROVE UNCHANGED listVars BY <2>1 DEF AgentStarts
    <2>2. ASSUME NEW r \in BOOLEAN, AgentFails(a, r) PROVE UNCHANGED listVars
      BY <2>2 DEF AgentFails
    <2>3. ASSUME NEW r \in BOOLEAN, Replies(a, r) PROVE UNCHANGED listVars BY <2>3 DEF Replies
    <2>4. ASSUME NEW r \in BOOLEAN, NEW tool \in ToolNames, CallsTool(a, tool, r)
          PROVE  UNCHANGED listVars
      BY <2>4 DEF CallsTool
    <2>5. ASSUME PassesGate(a) PROVE [ListNext]_listVars
      BY <2>5 DEF PassesGate, ListNext
    <2>6. ASSUME Blocks(a) PROVE ListNext BY <2>6 DEF Blocks, ListNext
    <2>7. ASSUME UsesList(a) PROVE ListNext BY <2>7 DEF UsesList, ListNext
    <2>8. ASSUME UsesOther(a) PROVE UNCHANGED listVars BY <2>8 DEF UsesOther
    <2>9. ASSUME NEW run \in Agents \ {Main}, SpawnsInBackground(a, run) \/ SpawnsAndWaits(a, run)
          PROVE  UNCHANGED listVars
      BY <2>9 DEF SpawnsInBackground, SpawnsAndWaits, Spawns
    <2>13. ASSUME SetupFails(a) \/ AsksAgain(a) \/ WaitEnds(a) PROVE UNCHANGED listVars
      BY <2>13 DEF SetupFails, AsksAgain, WaitEnds
    <2>10. ASSUME TurnEnds(a) PROVE [ListNext]_listVars BY <2>10 DEF TurnEnds, ListNext
    <2>11. ASSUME Nudges(a) PROVE ListNext BY <2>11 DEF Nudges, ListNext
    <2>12. ASSUME Publishes(a) PROVE UNCHANGED listVars BY <2>12 DEF Publishes
    <2> QED
      BY <1>2, <2>1, <2>2, <2>3, <2>4, <2>5, <2>6, <2>7, <2>8, <2>9, <2>10, <2>11, <2>12,
         <2>13 DEF LoopStep
  <1>3. ASSUME NEW a \in Agents, Sends(a) PROVE UNCHANGED listVars BY <1>3 DEF Sends
  <1>4. ASSUME NEW c \in Clients, Browser(c) PROVE UNCHANGED listVars BY <1>4 DEF Browser
  <1> QED BY <1>1, <1>2, <1>3, <1>4 DEF Next

\* The list's invariants hold throughout (tilldone/tool.go).
LEMMA ListKept == Spec => []ListInv
  <1>1. Init => ListInv
    <2> SUFFICES ASSUME Init PROVE ListInv OBVIOUS
    <2>1. tasks = <<>> /\ nextID = 1 /\ nudged = FALSE BY DEF Init, ListInit
    <2>2. ListTypeOK
      <3>1. tasks \in Seq(Task) /\ nextID \in Nat \ {0} BY <2>1
      <3>2. nudged \in BOOLEAN BY <2>1, Zenon
      <3> QED BY <3>1, <3>2 DEF ListTypeOK
    <2>3. DOMAIN tasks = {} BY <2>1
    <2> QED BY <2>2, <2>3 DEF ListInv, OneInProgress, IdsUnique
  <1>2. ListInv /\ [Next]_vars => ListInv' BY StepOfList, ListStep
  <1> QED BY <1>1, <1>2, PTL DEF Spec

\* At most one task is in progress, whoever of the agents adds, toggles, removes
\* or starts over (tilldone/tool.go: toggle), for lists of any length.
THEOREM OneTaskAtATime == Spec => []OneInProgress
  <1>1. ListInv => OneInProgress BY DEF ListInv
  <1> QED BY <1>1, ListKept, PTL

\* Every id of the list names one task and none to come (tilldone/tool.go: add,
\* remove), for lists of any length.
THEOREM IdsNameOneTask == Spec => []IdsUnique
  <1>1. ListInv => IdsUnique BY DEF ListInv
  <1> QED BY <1>1, ListKept, PTL

-----------------------------------------------------------------------------
(* The nudge.                                                              *)

Alone == "tilldone" \in plugins \ named

\* A call of another tool than the list's is younger than the last nudge: only
\* the orchestrator's own turns end in one.
NudgeInv ==
    /\ Main \in Agents /\ DOMAIN pc = Agents
    /\ Alone /\ "work" \in deeds => ~nudged

\* What main.go registered stays as it is, and so do the agents.
LEMMA SamePlugins ==
    [Next]_vars /\ DOMAIN pc = Agents =>
        plugins' = plugins /\ named' = named /\ DOMAIN pc' = Agents
  BY DEF Next, LoopStep, AgentStarts, AgentFails, Replies, CallsTool, PassesGate, Blocks,
         UsesList, UsesOther, AsksAgain, Spawns, SpawnsInBackground, SpawnsAndWaits, WaitEnds,
         SetupFails, TurnEnds, Nudges, Publishes, Sends, Browser,
         Step, vars, agentVars

\* A turn of the orchestrator ends only in TurnEnds.
LEMMA HowTurnsEnd ==
    ASSUME Main \in Agents, DOMAIN pc = Agents, [Next]_vars,
           pc[Main] = "after_turn", pc'[Main] = "idle"
    PROVE  TurnEnds(Main)
  <1>1. pc'[Main] # pc[Main] OBVIOUS
  <1>2. ~UNCHANGED pc BY <1>1, Zenon
  <1>3. ASSUME NEW a \in Agents, NEW from, NEW to, NEW shown,
               Step(a, from, to, shown), a # Main
        PROVE  FALSE
    BY <1>3, <1>1 DEF Step
  <1>4. ASSUME NEW from, NEW to, NEW shown, Step(Main, from, to, shown)
        PROVE  from = "after_turn" /\ to = "idle"
    BY <1>4 DEF Step
  <1>5. PICK a \in Agents : LoopStep(a)
    BY <1>2 DEF Next, Sends, Browser, vars, agentVars
  <1>6. ~AgentStarts(a) BY <1>3, <1>4 DEF AgentStarts
  <1>7. \A r \in BOOLEAN : ~AgentFails(a, r) /\ ~Replies(a, r)
    BY <1>3, <1>4 DEF AgentFails, Replies
  <1>8. \A r \in BOOLEAN, tool \in ToolNames : ~CallsTool(a, tool, r)
    <2> SUFFICES ASSUME NEW r \in BOOLEAN, NEW tool \in ToolNames, CallsTool(a, tool, r)
                 PROVE  FALSE
      OBVIOUS
    <2>1. PICK shown : Step(a, "chat", "gate", shown) BY Zenon DEF CallsTool
    <2> QED BY <2>1, <1>3, <1>4
  <1>9. ~PassesGate(a) /\ ~Blocks(a) BY <1>3, <1>4 DEF PassesGate, Blocks
  <1>10. ~UsesList(a) /\ ~UsesOther(a) BY <1>3, <1>4 DEF UsesList, UsesOther
  <1>11. \A run \in Agents \ {Main} : ~SpawnsInBackground(a, run) /\ ~SpawnsAndWaits(a, run)
    BY <1>1 DEF SpawnsInBackground, SpawnsAndWaits, Spawns
  <1>15. ~SetupFails(a) /\ ~AsksAgain(a) /\ ~WaitEnds(a)
    BY <1>3, <1>4 DEF SetupFails, AsksAgain, WaitEnds
  <1>12. ASSUME Nudges(a) PROVE FALSE
    <2>1. Step(a, "after_turn", "chat", <<>>) BY <1>12, Zenon DEF Nudges
    <2>2. CASE a # Main BY <2>1, <2>2, <1>3
    <2>3. CASE a = Main
      <3>1. pc' = [pc EXCEPT ![Main] = "chat"] BY <2>1, <2>3 DEF Step
      <3> QED BY <3>1
    <2> QED BY <2>2, <2>3
  <1>13. ~Publishes(a) BY <1>2 DEF Publishes
  <1>14. TurnEnds(a)
    BY <1>5, <1>6, <1>7, <1>8, <1>9, <1>10, <1>11, <1>12, <1>13, <1>15, Zenon
       DEF LoopStep
  <1> QED BY <1>14, <1>3 DEF TurnEnds

\* A nudge ends the debt of the one agent that can get it.
LEMMA NudgeStep == NudgeInv /\ [Next]_vars => NudgeInv'
  <1> SUFFICES ASSUME NudgeInv, [Next]_vars PROVE NudgeInv' OBVIOUS
  <1>1. /\ Main \in Agents /\ DOMAIN pc = Agents /\ DOMAIN pc' = Agents
        /\ plugins' = plugins /\ named' = named
        /\ Alone /\ "work" \in deeds => ~nudged
    BY SamePlugins DEF NudgeInv
  <1> SUFFICES ASSUME Alone, "work" \in deeds' PROVE ~nudged'
    BY <1>1 DEF NudgeInv, Alone
  <1>2. ASSUME deeds' = deeds, nudged' = nudged PROVE ~nudged' BY <1>1, <1>2, Zenon
  <1>3. ASSUME NEW a \in Agents, LoopStep(a) PROVE ~nudged'
    <2>0. ASSUME UNCHANGED listVars PROVE nudged' = nudged BY <2>0 DEF listVars
    <2>1. ASSUME AgentStarts(a) PROVE ~nudged' 
      <3>1. "work" \in deeds
        <4>1. deeds' \in {{}, deeds} BY <2>1, Zenon DEF AgentStarts
        <4> QED BY <4>1
      <3> QED BY <3>1, <2>1, <2>0, <1>1, Zenon DEF AgentStarts
    <2>2. ASSUME NEW r \in BOOLEAN, AgentFails(a, r) \/ Replies(a, r) PROVE ~nudged'
      BY <2>2, <2>0, <1>2, Zenon DEF AgentFails, Replies
    <2>3. ASSUME NEW r \in BOOLEAN, NEW tool \in ToolNames, CallsTool(a, tool, r) PROVE ~nudged'
      BY <2>3, <2>0, <1>2, Zenon DEF CallsTool
    <2>4. ASSUME PassesGate(a) \/ Blocks(a) PROVE ~nudged'
      <3>1. CASE GateApplies(a)
        BY <3>1, <2>4, Zenon DEF PassesGate, Blocks, Gate, ResetNudge
      <3>2. CASE ~GateApplies(a)
        <4>1. calls[a] = "tilldone" BY <3>2 DEF GateApplies, Alone
        <4>2. Reached(a) /\ nudged' = nudged
          BY <3>2, <2>4, <2>0, Zenon DEF PassesGate, Blocks
        <4>3. "work" \in deeds BY <4>1, <4>2 DEF Reached
        <4> QED BY <4>2, <4>3, <1>1, Zenon
      <3> QED BY <3>1, <3>2
    <2>5. ASSUME ToolAction PROVE nudged' = nudged
      BY <2>5 DEF ToolAction, NewList, Add, Toggle, RemoveTask, NoChange, listVars
    <2>6. ASSUME UsesList(a) \/ UsesOther(a) PROVE ~nudged'
      BY <2>6, <2>0, <2>5, <1>2, Zenon DEF UsesList, UsesOther
    <2>7. ASSUME NEW run \in Agents \ {Main}, SpawnsInBackground(a, run) \/ SpawnsAndWaits(a, run)
          PROVE  ~nudged'
      BY <2>7, <2>0, <1>2, Zenon DEF SpawnsInBackground, SpawnsAndWaits, Spawns
    <2>11. ASSUME SetupFails(a) \/ AsksAgain(a) \/ WaitEnds(a) PROVE ~nudged'
      BY <2>11, <2>0, <1>2, Zenon DEF SetupFails, AsksAgain, WaitEnds
    <2>8. ASSUME TurnEnds(a) PROVE ~nudged'
      <3>1. nudged' = nudged \/ (nudged' <=> nudged)
        BY <2>8, <2>0, Zenon DEF TurnEnds, AfterTurn
      <3>2. deeds' = deeds BY <2>8, Zenon DEF TurnEnds
      <3> QED BY <3>1, <3>2, <1>1, Zenon
    <2>9. ASSUME Nudges(a) PROVE ~nudged'
      <3>1. a = Main BY <2>9 DEF Nudges, Own, Alone
      <3>2. deeds' = {"nudge"} BY <2>9, <3>1, Zenon DEF Nudges
      <3> QED BY <3>2
    <2>10. ASSUME Publishes(a) PROVE ~nudged'
      BY <2>10, <2>0, <1>2, Zenon DEF Publishes
    <2> QED
      BY <1>3, <2>1, <2>2, <2>3, <2>4, <2>6, <2>7, <2>8, <2>9, <2>10, <2>11, Zenon
         DEF LoopStep
  <1>4. ASSUME NEW a \in Agents, Sends(a) PROVE ~nudged'
    BY <1>4, <1>2, Zenon DEF Sends, agentVars, listVars
  <1>5. ASSUME NEW c \in Clients, Browser(c) PROVE ~nudged'
    BY <1>5, <1>2, Zenon DEF Browser, agentVars, listVars
  <1>6. CASE UNCHANGED vars BY <1>6, <1>2 DEF vars, agentVars, listVars
  <1> QED BY <1>3, <1>4, <1>5, <1>6, Zenon DEF Next

\* An orchestrator that called another tool than the list's does not end a turn
\* with unfinished tasks without a nudge since (tilldone.go: AfterTurn), for any
\* number of subagents.  A call of the list's own tool does not count: the gate
\* lets it pass before it resets the flag.
THEOREM WorkersAreNudged == Spec => WorkIsNudged
  <1>1. Init => NudgeInv
    <2> SUFFICES ASSUME Init PROVE NudgeInv OBVIOUS
    <2>1. DOMAIN pc = Agents BY DEF Init
    <2>2. deeds = {} BY Zenon DEF Init
    <2> QED BY <2>1, <2>2, PluginsAssumption DEF NudgeInv
  <1>2. NudgeInv /\ [Next]_vars => NudgeInv' BY NudgeStep
  <1>3. NudgeInv /\ [Next]_vars => [StopsUnfinished => "work" \notin deeds]_vars
    <2> SUFFICES ASSUME NudgeInv, [Next]_vars, StopsUnfinished
                 PROVE  "work" \notin deeds
      OBVIOUS
    <2>1. pc[Main] = "after_turn" /\ pc'[Main] = "idle" /\ Incomplete /\ Alone
      BY DEF StopsUnfinished, Alone
    <2>2. TurnEnds(Main) BY <2>1, HowTurnsEnd DEF NudgeInv
    <2>3. AfterTurn(FALSE) BY <2>1, <2>2 DEF TurnEnds, Own, Alone
    <2>4. nudged BY <2>1, <2>3, Zenon DEF AfterTurn
    <2> QED BY <2>1, <2>4, Zenon DEF NudgeInv
  <1> QED BY <1>1, <1>2, <1>3, PTL DEF Spec, WorkIsNudged

-----------------------------------------------------------------------------
(* The event bus.                                                          *)

\* What a step can be for the bus.
LEMMA StepOfBus ==
    ASSUME [Next]_vars
    PROVE  \/ UNCHANGED busVars
           \/ \E a \in Agents : Publish(a) \/ SendOne(a)
           \/ \E c \in Clients : ClientStep(c)
  BY DEF Next, LoopStep, AgentStarts, AgentFails, Replies, CallsTool, PassesGate, Blocks,
         UsesList, UsesOther, AsksAgain, Spawns, SpawnsInBackground, SpawnsAndWaits, WaitEnds,
         SetupFails, TurnEnds, Nudges, Publishes, Sends, Browser, Step, vars

\* A handler's order of things.
LEMMA Joining ==
    /\ Len(JoinOrder) = 2 /\ Gone = 3
    /\ \A c : Joins(c, "subscribe") /\ conn[c] \in 0 .. Gone => conn[c] = 0
    /\ \A c : Joins(c, "history") /\ conn[c] \in 0 .. Gone => conn[c] = 1
    /\ \A c : Streaming(c) <=> conn[c] = 2
  <1>1. Len(JoinOrder) = 2 /\ JoinOrder[1] = "subscribe" /\ JoinOrder[2] = "history"
    BY DEF JoinOrder
  <1>2. Gone = 3 BY <1>1 DEF Gone
  <1> QED BY <1>1, <1>2 DEF Joins, Streaming

\* A client is subscribed from its first step to its last, and then closed.
ConnInv ==
    /\ conn \in [Clients -> 0 .. Gone]
    /\ subs = {c \in Clients : conn[c] \in {1, 2}}
    /\ closed \subseteq {c \in Clients : conn[c] = Gone}

\* What holds of each connection holds after every step.
LEMMA ConnStep == ConnInv /\ [Next]_vars => ConnInv'
  <1> SUFFICES ASSUME ConnInv, [Next]_vars PROVE ConnInv' OBVIOUS
  <1> USE Joining
  <1>1. CASE UNCHANGED <<conn, subs, closed>> BY <1>1 DEF ConnInv, Gone, JoinOrder
  <1>2. ASSUME NEW c \in Clients, Subscribe(c) PROVE ConnInv'
    BY <1>2 DEF Subscribe, ConnInv, Gone, JoinOrder
  <1>3. ASSUME NEW c \in Clients, CatchUp(c) PROVE ConnInv'
    BY <1>3 DEF CatchUp, ConnInv, Gone, JoinOrder
  <1>4. ASSUME NEW c \in Clients, Leave(c) PROVE ConnInv'
    BY <1>4 DEF Leave, Unsubscribe, ConnInv, Gone, JoinOrder
  <1>5. ASSUME NEW c \in Clients, Stream(c) PROVE UNCHANGED <<conn, subs, closed>>
    BY <1>5 DEF Stream
  <1> QED
    BY <1>1, <1>2, <1>3, <1>4, <1>5, StepOfBus
       DEF ClientStep, Publish, SendOne, clientVars, busVars

\* A send to a closed channel is one the client left behind.
PanicInv ==
    /\ ConnInv
    /\ late \subseteq Clients
    /\ \A s \in sending : \A c \in s.to : c \in closed => c \in late
    /\ crashed => late # {}

\* Only a send to a client that left after it was taken can panic.
LEMMA PanicStep == PanicInv /\ [Next]_vars => PanicInv'
  <1> SUFFICES ASSUME PanicInv, [Next]_vars PROVE PanicInv' OBVIOUS
  <1>c. ConnInv' BY ConnStep DEF PanicInv
  <1> DEFINE P == /\ late \subseteq Clients
                  /\ \A s \in sending : \A c \in s.to : c \in closed => c \in late
                  /\ crashed => late # {}
  <1> SUFFICES P' BY <1>c DEF PanicInv
  <1>0. ConnInv /\ P BY DEF PanicInv
  <1>1. CASE UNCHANGED <<late, sending, closed, crashed>> BY <1>0, <1>1
  <1>2. ASSUME NEW a \in Agents, Publish(a) PROVE P'
    <2>1. \A c \in subs : c \notin closed BY <1>0, Joining DEF ConnInv
    <2>2. /\ late' = late /\ closed' = closed /\ crashed' = crashed
          /\ \A s \in sending' : s \in sending \/ s.to = subs
      BY <1>2 DEF Publish, clientVars
    <2> QED BY <1>0, <2>1, <2>2
  <1>3. ASSUME NEW a \in Agents, SendOne(a) PROVE P'
    <2>0. PICK s \in sending : \E c \in s.to :
            /\ sending' = Sent(s, c)
            /\ SendFits(s, c) \/ SendDropped(s, c) \/ SendPanics(s, c)
            /\ late' = late /\ closed' = closed
      BY <1>3 DEF SendOne, clientVars
    <2>1. PICK c \in s.to :
            /\ sending' = Sent(s, c)
            /\ SendFits(s, c) \/ SendDropped(s, c) \/ SendPanics(s, c)
            /\ late' = late /\ closed' = closed
      BY <2>0
    <2>2. \A x \in sending' : x \in sending \/ x = [s EXCEPT !.to = @ \ {c}]
      BY <2>1 DEF Sent
    <2>3. ASSUME NEW x \in sending', NEW d \in x.to PROVE \E y \in sending : d \in y.to
      <3>1. CASE x \in sending BY <3>1
      <3>2. CASE x = [s EXCEPT !.to = @ \ {c}] BY <3>2
      <3> QED BY <2>2, <3>1, <3>2
    <2>4. crashed' => crashed \/ c \in closed
      BY <2>1, Zenon DEF SendFits, SendDropped, SendPanics
    <2> QED BY <1>0, <2>1, <2>3, <2>4
  <1>4. ASSUME NEW c \in Clients, Leave(c) PROVE P'
    BY <1>4, <1>0 DEF Leave, Unsubscribe
  <1>5. ASSUME NEW c \in Clients, Subscribe(c) \/ CatchUp(c) \/ Stream(c)
        PROVE  UNCHANGED <<late, sending, closed, crashed>>
    BY <1>5, Zenon DEF Subscribe, CatchUp, Stream
  <1> HIDE DEF P
  <1> QED BY <1>1, <1>2, <1>3, <1>4, <1>5, StepOfBus DEF ClientStep, busVars

\* A send on a closed channel is preceded by a browser that left while a send to
\* it was under way (events.go: Publish after the unlock), for any agents and browsers.
THEOREM PanicOnlyOfLate == Spec => []PanicNeedsALateLeaver
  <1>1. Init => PanicInv
    <2> SUFFICES ASSUME Init PROVE PanicInv OBVIOUS
    <2>1. /\ subs = {} /\ closed = {} /\ sending = {} /\ late = {}
          /\ conn = [c \in Clients |-> 0]
      BY DEF Init, BusInit
    <2>2. crashed = FALSE BY Zenon DEF Init, BusInit
    <2>3. ConnInv BY <2>1, Joining DEF ConnInv
    <2> QED BY <2>1, <2>2, <2>3, Zenon DEF PanicInv
  <1>2. PanicInv /\ [Next]_vars => PanicInv' BY PanicStep
  <1>3. PanicInv => PanicNeedsALateLeaver BY DEF PanicInv, PanicNeedsALateLeaver
  <1> QED BY <1>1, <1>2, <1>3, PTL DEF Spec

\* The history is the end of the log.
HistoryInv ==
    /\ log \in Seq(Agents)
    /\ history \in Seq(Nat)
    /\ Len(history) <= HistorySize /\ Len(history) <= Len(log)
    /\ Len(history) < HistorySize => Len(history) = Len(log)
    /\ \A k \in 1 .. Len(history) : history[k] = Len(log) - Len(history) + k

\* What the cut of the history to its size leaves.
LEMMA Cut ==
    ASSUME NEW h \in Seq(Nat)
    PROVE  LastOf(h) \in Seq(Nat)
           /\ (Len(h) <= HistorySize => LastOf(h) = h)
           /\ (Len(h) > HistorySize =>
                /\ Len(LastOf(h)) = Len(h) - 1
                /\ \A k \in 1 .. Len(h) - 1 : LastOf(h)[k] = h[k + 1])
  <1> USE EventBusAssumption
  <1>1. Len(h) \in Nat OBVIOUS
  <1>2. CASE Len(h) > HistorySize
    <2>1. h # <<>> /\ LastOf(h) = Tail(h) BY <1>1, <1>2 DEF LastOf
    <2>2. /\ Tail(h) \in Seq(Nat) /\ Len(Tail(h)) = Len(h) - 1
          /\ \A k \in 1 .. Len(h) - 1 : Tail(h)[k] = h[k + 1]
      BY <2>1, <1>1
    <2>3. ~(Len(h) <= HistorySize) BY <1>1, <1>2
    <2> QED BY <2>1, <2>2, <2>3, Zenon
  <1>3. CASE ~(Len(h) > HistorySize) BY <1>1, <1>3 DEF LastOf
  <1> QED BY <1>2, <1>3

\* The history ends with the last event published.
LEMMA HistoryStep == HistoryInv /\ [Next]_vars => HistoryInv'
  <1> SUFFICES ASSUME HistoryInv, [Next]_vars PROVE HistoryInv' OBVIOUS
  <1> USE EventBusAssumption
  <1>0. /\ log \in Seq(Agents) /\ history \in Seq(Nat)
        /\ Len(log) \in Nat /\ Len(history) \in Nat
        /\ Len(history) <= HistorySize /\ Len(history) <= Len(log)
        /\ Len(history) < HistorySize => Len(history) = Len(log)
        /\ \A k \in 1 .. Len(history) : history[k] = Len(log) - Len(history) + k
    BY DEF HistoryInv
  <1>1. CASE UNCHANGED <<log, history>> BY <1>1, <1>0 DEF HistoryInv
  <1>2. ASSUME NEW a \in Agents, Publish(a) PROVE HistoryInv'
    <2> DEFINE h == Append(history, Len(log) + 1)
    <2>1. log' = Append(log, a) /\ history' = LastOf(h) BY <1>2 DEF Publish
    <2>2. log' \in Seq(Agents) /\ Len(log') = Len(log) + 1 BY <2>1, <1>0
    <2>3. /\ h \in Seq(Nat) /\ Len(h) = Len(history) + 1
          /\ \A k \in 1 .. Len(h) : h[k] = Len(log') - Len(h) + k
      <3>1. /\ h \in Seq(Nat) /\ Len(h) = Len(history) + 1
            /\ \A k \in 1 .. Len(history) : h[k] = history[k]
            /\ h[Len(history) + 1] = Len(log) + 1
        BY <1>0
      <3> HIDE DEF h
      <3>2. \A k \in 1 .. Len(h) : k \in 1 .. Len(history) \/ k = Len(history) + 1
        BY <3>1, <1>0
      <3>3. \A k \in 1 .. Len(history) : h[k] = Len(log') - Len(h) + k
        <4>1. Len(log') - Len(h) = Len(log) - Len(history) BY <3>1, <2>2, <1>0
        <4> QED BY <4>1, <3>1, <1>0
      <3>4. h[Len(history) + 1] = Len(log') - Len(h) + (Len(history) + 1)
        BY <3>1, <2>2, <1>0
      <3> QED BY <3>1, <3>2, <3>3, <3>4
    <2> HIDE DEF h
    <2>4. CASE Len(h) <= HistorySize
      <3>1. history' = h BY <2>1, <2>3, <2>4, Cut
      <3> QED BY <3>1, <2>2, <2>3, <2>4, <1>0 DEF HistoryInv
    <2>5. CASE Len(h) > HistorySize
      <3>1. /\ history' \in Seq(Nat) /\ Len(history') = Len(h) - 1
            /\ \A k \in 1 .. Len(h) - 1 : history'[k] = h[k + 1]
        BY <2>1, <2>3, <2>5, Cut
      <3>2. \A k \in 1 .. Len(history') : history'[k] = Len(log') - Len(history') + k
        BY <3>1, <2>3, <2>2, <1>0
      <3> QED BY <3>1, <3>2, <2>2, <2>3, <2>5, <1>0 DEF HistoryInv
    <2> QED BY <2>4, <2>5, <2>3, <1>0
  <1>3. ASSUME NEW a \in Agents, SendOne(a) PROVE UNCHANGED <<log, history>>
    BY <1>3 DEF SendOne
  <1>4. ASSUME NEW c \in Clients, ClientStep(c) PROVE UNCHANGED <<log, history>>
    BY <1>4, Zenon DEF ClientStep, Subscribe, CatchUp, Stream, Leave
  <1> QED BY <1>1, <1>2, <1>3, <1>4, StepOfBus DEF busVars

\* What the history still has.
LEMMA Recent ==
    ASSUME HistoryInv, NEW i \in DOMAIN log, i + HistorySize > Len(log)
    PROVE  i \in Range(history)
  <1> USE EventBusAssumption
  <1>1. /\ Len(log) \in Nat /\ Len(history) \in Nat /\ i \in 1 .. Len(log)
        /\ Len(history) <= HistorySize /\ Len(history) <= Len(log)
        /\ Len(history) < HistorySize => Len(history) = Len(log)
    BY DEF HistoryInv
  <1> DEFINE k == i - (Len(log) - Len(history))
  <1>2. k \in 1 .. Len(history) BY <1>1
  <1>3. history[k] = Len(log) - Len(history) + k BY <1>2, Zenon DEF HistoryInv
  <1>4. history[k] = i BY <1>1, <1>3
  <1>5. k \in DOMAIN history BY <1>2 DEF HistoryInv
  <1> QED BY <1>4, <1>5 DEF Range

-----------------------------------------------------------------------------

\* Where an event may be that a client is owed.
Held(c) == Range(got[c]) \cup Range(queue[c]) \cup dropped[c] \cup OnTheWay(c)

JoinInv ==
    /\ ConnInv /\ HistoryInv
    /\ sending \subseteq Send
    /\ queue \in [Clients -> Seq(Nat)] /\ got \in [Clients -> Seq(Nat)]
    /\ DOMAIN dropped = Clients
    /\ readAt \in [Clients -> Nat]

\* A record without one of its clients is a send still.
LEMMA Fewer ==
    ASSUME NEW s \in Send, NEW d
    PROVE  /\ [s EXCEPT !.to = @ \ {d}] \in Send
           /\ [s EXCEPT !.to = @ \ {d}].event = s.event
           /\ [s EXCEPT !.to = @ \ {d}].to = s.to \ {d}
  BY DEF Send

\* A client that joins has what was published before it joined.
LEMMA JoinStep == JoinInv /\ [Next]_vars => JoinInv'
  <1> SUFFICES ASSUME JoinInv, [Next]_vars PROVE JoinInv' OBVIOUS
  <1>c. ConnInv' /\ HistoryInv' BY ConnStep, HistoryStep DEF JoinInv
  <1>0. /\ ConnInv /\ HistoryInv
        /\ sending \subseteq Send
        /\ queue \in [Clients -> Seq(Nat)] /\ got \in [Clients -> Seq(Nat)]
        /\ DOMAIN dropped = Clients
        /\ readAt \in [Clients -> Nat]
        /\ history \in Seq(Nat) /\ Len(log) \in Nat /\ subs \subseteq Clients
    BY DEF JoinInv, HistoryInv, ConnInv
  <1>1. CASE UNCHANGED <<sending, queue, got, dropped, readAt>> BY <1>1, <1>0, <1>c DEF JoinInv
  <1>2. ASSUME NEW a \in Agents, Publish(a) PROVE JoinInv'
    <2>1. UNCHANGED <<queue, got, dropped, readAt>> BY <1>2 DEF Publish, clientVars
    <2>2. [agent |-> a, event |-> Len(log) + 1, to |-> subs] \in Send BY <1>0 DEF Send
    <2>3. sending' \subseteq Send BY <1>2, <2>2, <1>0 DEF Publish
    <2> QED BY <2>1, <2>3, <1>0, <1>c DEF JoinInv
  <1>3. ASSUME NEW a \in Agents, NEW s \in sending, NEW c \in s.to,
               sending' = Sent(s, c),
               SendFits(s, c) \/ SendDropped(s, c) \/ SendPanics(s, c),
               UNCHANGED <<got, readAt>>
        PROVE  JoinInv'
    <2>1. s \in Send /\ s.event \in Nat /\ c \in Clients BY <1>0 DEF Send
    <2>2. sending' \subseteq Send BY <1>3, <1>0, <2>1, Fewer DEF Sent
    <2>3. queue' \in [Clients -> Seq(Nat)]
      <3>1. CASE queue' = queue BY <3>1, <1>0
      <3>2. CASE queue' = [queue EXCEPT ![c] = Append(@, s.event)]
        <4>1. Append(queue[c], s.event) \in Seq(Nat) BY <2>1, <1>0
        <4> QED BY <4>1, <3>2, <2>1, <1>0
      <3> QED BY <3>1, <3>2, <1>3, Zenon DEF SendFits, SendDropped, SendPanics
    <2>4. DOMAIN dropped' = Clients BY <1>3, <1>0 DEF SendFits, SendDropped, SendPanics
    <2> QED BY <1>3, <2>2, <2>3, <2>4, <1>0, <1>c DEF JoinInv
  <1>4. ASSUME NEW c \in Clients, CatchUp(c) PROVE JoinInv'
    <2>1. UNCHANGED <<sending, queue, dropped>> BY <1>4 DEF CatchUp
    <2>2. got' \in [Clients -> Seq(Nat)] /\ readAt' \in [Clients -> Nat]
      BY <1>4, <1>0 DEF CatchUp
    <2> QED BY <2>1, <2>2, <1>0, <1>c DEF JoinInv
  <1>5. ASSUME NEW c \in Clients, Stream(c) PROVE JoinInv'
    <2>1. UNCHANGED <<sending, dropped, readAt>> BY <1>5 DEF Stream
    <2>2. Head(queue[c]) \in Nat /\ Tail(queue[c]) \in Seq(Nat) BY <1>5, <1>0 DEF Stream
    <2>3. Append(got[c], Head(queue[c])) \in Seq(Nat) BY <2>2, <1>0
    <2>4. got' \in [Clients -> Seq(Nat)] /\ queue' \in [Clients -> Seq(Nat)]
      BY <1>5, <2>2, <2>3, <1>0 DEF Stream
    <2> QED BY <2>1, <2>4, <1>0, <1>c DEF JoinInv
  <1>6. ASSUME NEW c \in Clients, Subscribe(c) \/ Leave(c)
        PROVE  UNCHANGED <<sending, queue, got, dropped, readAt>>
    BY <1>6, Zenon DEF Subscribe, Leave
  <1>7. ASSUME NEW a \in Agents, SendOne(a) PROVE JoinInv'
    BY <1>7, <1>3 DEF SendOne, clientVars
  <1> QED
    BY <1>1, <1>2, <1>4, <1>5, <1>6, <1>7, StepOfBus DEF ClientStep, busVars

\* Nothing that a streaming client is owed gets lost by a step.
LEMMA HeldStep ==
    ASSUME JoinInv, [Next]_vars, NEW c \in Clients, conn[c] = 2
    PROVE  Held(c) \subseteq Held(c)' /\ readAt'[c] = readAt[c]
  <1> USE DEF Held, OnTheWay
  <1>0. /\ queue \in [Clients -> Seq(Nat)] /\ got \in [Clients -> Seq(Nat)]
        /\ DOMAIN dropped = Clients /\ sending \subseteq Send
        /\ conn \in [Clients -> 0 .. Gone] /\ readAt \in [Clients -> Nat]
    BY DEF JoinInv, ConnInv
  <1>1. CASE UNCHANGED <<got, queue, dropped, sending, readAt>> BY <1>1
  <1>2. ASSUME NEW a \in Agents, Publish(a)
        PROVE  Held(c) \subseteq Held(c)' /\ readAt' = readAt
    <2>1. got' = got /\ queue' = queue /\ dropped' = dropped /\ readAt' = readAt
          /\ sending \subseteq sending'
      BY <1>2 DEF Publish, clientVars
    <2> QED BY <2>1
  <1>3. ASSUME NEW s \in sending, NEW d \in s.to,
               sending' = Sent(s, d),
               SendFits(s, d) \/ SendDropped(s, d) \/ SendPanics(s, d),
               UNCHANGED <<got, readAt>>, c \notin closed
        PROVE  Held(c) \subseteq Held(c)'
    <2>1. s \in Send /\ d \in Clients /\ s.event \in Nat BY <1>0 DEF Send
    <2>2. ASSUME NEW t \in sending, c \in t.to, ~(t = s /\ c = d)
          PROVE  \E u \in sending' : c \in u.to /\ u.event = t.event
      <3>1. CASE t # s BY <3>1, <1>3, <2>2 DEF Sent
      <3>2. CASE t = s
        <4> DEFINE u == [s EXCEPT !.to = @ \ {d}]
        <4>1. s.to # {d} BY <3>2, <2>2
        <4>2. u \in sending' BY <4>1, <1>3 DEF Sent
        <4>3. u.event = s.event /\ u.to = s.to \ {d} BY <2>1, Fewer
        <4>4. c \in u.to BY <4>3, <3>2, <2>2
        <4> QED BY <4>2, <4>3, <4>4, <3>2
      <3> QED BY <3>1, <3>2
    <2>3. Range(queue[c]) \subseteq Range(queue'[c]) /\ dropped[c] \subseteq dropped'[c]
      <3>1. CASE SendFits(s, d)
        <4>1. queue' = [queue EXCEPT ![d] = Append(@, s.event)] /\ dropped' = dropped
          BY <3>1 DEF SendFits
        <4>2. CASE c = d
          <5>1. queue[c] \in Seq(Nat) /\ queue'[c] = Append(queue[c], s.event)
            BY <4>1, <4>2, <1>0
          <5>2. \A i \in DOMAIN queue[c] : i \in DOMAIN queue'[c] /\ queue'[c][i] = queue[c][i]
            BY <5>1, <2>1
          <5> QED BY <4>1, <5>2 DEF Range
        <4>3. CASE c # d BY <4>1, <4>3, <1>0
        <4> QED BY <4>2, <4>3
      <3>2. CASE SendDropped(s, d) BY <3>2, <1>0 DEF SendDropped
      <3>3. CASE SendPanics(s, d) BY <3>3 DEF SendPanics
      <3> QED BY <3>1, <3>2, <3>3, <1>3
    <2>4. CASE c # d
      <3>1. \A e \in OnTheWay(c) : e \in OnTheWay(c)' BY <2>2, <2>4
      <3> QED BY <3>1, <2>3, <1>3
    <2>5. CASE c = d
      <3>1. s.event \in Range(queue'[c]) \cup dropped'[c]
        <4>1. CASE SendFits(s, d)
          <5>1. queue[c] \in Seq(Nat) /\ queue'[c] = Append(queue[c], s.event)
            BY <4>1, <2>5, <1>0 DEF SendFits
          <5>2. Len(queue[c]) + 1 \in DOMAIN queue'[c]
                /\ queue'[c][Len(queue[c]) + 1] = s.event
            BY <5>1, <2>1
          <5> QED BY <5>2 DEF Range
        <4>2. CASE SendDropped(s, d) BY <4>2, <2>5, <1>0 DEF SendDropped
        <4>3. CASE SendPanics(s, d) BY <4>3, <2>5, <1>3 DEF SendPanics
        <4> QED BY <4>1, <4>2, <4>3, <1>3
      <3>2. \A e \in OnTheWay(c) : e = s.event \/ e \in OnTheWay(c)' BY <2>2
      <3> QED BY <3>1, <3>2, <2>3, <1>3
    <2> QED BY <2>4, <2>5
  <1>4. ASSUME NEW e \in Clients, Stream(e)
        PROVE  Held(c) \subseteq Held(c)' /\ readAt' = readAt
    <2>1. /\ UNCHANGED <<sending, dropped, readAt>> /\ queue[e] # <<>>
          /\ got' = [got EXCEPT ![e] = Append(@, Head(queue[e]))]
          /\ queue' = [queue EXCEPT ![e] = Tail(@)]
      BY <1>4 DEF Stream
    <2>2. CASE c # e BY <2>1, <2>2, <1>0
    <2>3. CASE c = e
      <3>1. /\ got[c] \in Seq(Nat) /\ queue[c] \in Seq(Nat) /\ queue[c] # <<>>
            /\ got'[c] = Append(got[c], Head(queue[c])) /\ queue'[c] = Tail(queue[c])
        BY <2>1, <2>3, <1>0
      <3>2. \A i \in DOMAIN got[c] : i \in DOMAIN got'[c] /\ got'[c][i] = got[c][i]
        BY <3>1
      <3>3. Len(got[c]) + 1 \in DOMAIN got'[c] /\ got'[c][Len(got[c]) + 1] = queue[c][1]
        BY <3>1
      <3>4. \A i \in DOMAIN queue[c] :
              i = 1 \/ (i - 1 \in DOMAIN queue'[c] /\ queue'[c][i - 1] = queue[c][i])
        <4>1. /\ Len(queue[c]) \in Nat /\ queue'[c] \in Seq(Nat)
              /\ Len(queue'[c]) = Len(queue[c]) - 1
              /\ \A j \in 1 .. Len(queue[c]) - 1 : queue'[c][j] = queue[c][j + 1]
          BY <3>1
        <4>2. /\ DOMAIN queue[c] = 1 .. Len(queue[c])
              /\ DOMAIN queue'[c] = 1 .. Len(queue[c]) - 1
          BY <4>1, <3>1
        <4>3. \A i \in 1 .. Len(queue[c]) :
                i = 1 \/ (i - 1 \in 1 .. Len(queue[c]) - 1 /\ (i - 1) + 1 = i)
          BY <4>1
        <4> QED BY <4>1, <4>2, <4>3
      <3>5. Range(got[c]) \subseteq Range(got'[c]) BY <3>2 DEF Range
      <3>6. Range(queue[c]) \subseteq Range(got'[c]) \cup Range(queue'[c])
        BY <3>3, <3>4 DEF Range
      <3> QED BY <3>5, <3>6, <2>1
    <2> QED BY <2>2, <2>3
  <1>5. ASSUME NEW e \in Clients, Subscribe(e) \/ Leave(e)
        PROVE  UNCHANGED <<got, queue, dropped, sending, readAt>>
    BY <1>5, Zenon DEF Subscribe, Leave
  <1>6. ASSUME NEW e \in Clients, CatchUp(e)
        PROVE  Held(c) \subseteq Held(c)' /\ readAt'[c] = readAt[c]
    <2>1. e # c BY <1>6, <1>0, Joining DEF CatchUp
    <2>2. UNCHANGED <<sending, queue, dropped>> /\ got'[c] = got[c] /\ readAt'[c] = readAt[c]
      BY <1>6, <2>1, <1>0 DEF CatchUp
    <2> QED BY <2>2
  <1>7. ASSUME NEW a \in Agents, SendOne(a)
        PROVE  Held(c) \subseteq Held(c)' /\ readAt' = readAt
    <2>1. c \notin closed BY Joining DEF JoinInv, ConnInv
    <2> QED BY <1>7, <1>3, <2>1 DEF SendOne, clientVars
  <1> QED
    BY <1>1, <1>2, <1>4, <1>5, <1>6, <1>7, StepOfBus DEF ClientStep, busVars

\* A step leaves no streaming client without an event that it should get.
LEMMA NothingMissedStep == JoinInv /\ NothingMissed /\ [Next]_vars => NothingMissed'
  <1> SUFFICES ASSUME JoinInv, NothingMissed, [Next]_vars, NEW c \in Clients, conn'[c] = 2,
                      NEW i \in DOMAIN log', i + HistorySize > readAt'[c]
               PROVE  i \in Held(c)'
    BY Joining DEF NothingMissed, Held, Streaming
  <1> USE EventBusAssumption
  <1>0. /\ log \in Seq(Agents) /\ Len(log) \in Nat /\ DOMAIN log = 1 .. Len(log)
        /\ conn \in [Clients -> 0 .. Gone] /\ subs = {d \in Clients : conn[d] \in {1, 2}}
        /\ got \in [Clients -> Seq(Nat)] /\ readAt \in [Clients -> Nat] /\ HistoryInv
    BY DEF JoinInv, ConnInv, HistoryInv
  <1>1. CASE conn[c] = 2
    <2>1. Held(c) \subseteq Held(c)' /\ readAt'[c] = readAt[c] BY <1>1, HeldStep
    <2>2. CASE i \in DOMAIN log
      <3>1. i \in Held(c) BY <1>1, <2>1, <2>2, Joining DEF NothingMissed, Held, Streaming
      <3> QED BY <3>1, <2>1
    <2>3. CASE i \notin DOMAIN log
      <3>1. log' # log BY <2>3
      <3>2. PICK a \in Agents : Publish(a)
        BY <3>1, StepOfBus
           DEF SendOne, ClientStep, Subscribe, CatchUp, Stream, Leave, busVars
      <3>3. log' = Append(log, a) BY <3>2 DEF Publish
      <3>4. i = Len(log) + 1 BY <3>3, <2>3, <1>0
      <3>5. c \in subs BY <1>0, <1>1
      <3>6. [agent |-> a, event |-> i, to |-> subs] \in sending'
        BY <3>2, <3>4, <3>5 DEF Publish
      <3> QED BY <3>5, <3>6 DEF Held, OnTheWay
    <2> QED BY <2>2, <2>3
  <1>2. CASE conn[c] # 2
    <2>1. conn' # conn BY <1>2
    <2>2. PICK d \in Clients : Subscribe(d) \/ CatchUp(d) \/ Leave(d)
      BY <2>1, StepOfBus DEF Publish, SendOne, clientVars, ClientStep, Stream, busVars
    <2>3. d = c BY <2>2, <1>2, <1>0 DEF Subscribe, CatchUp, Leave
    <2>4. ~Subscribe(c)
      <3> SUFFICES ASSUME Subscribe(c) PROVE FALSE OBVIOUS
      <3>1. Joins(c, "subscribe") /\ conn' = [conn EXCEPT ![c] = @ + 1] BY Zenon DEF Subscribe
      <3>2. conn[c] \in 0 .. Gone BY <1>0
      <3>3. conn[c] = 0 BY <3>1, <3>2, Joining, Zenon
      <3>4. conn'[c] = conn[c] + 1 BY <3>1, <1>0
      <3> QED BY <3>3, <3>4
    <2>5. ~Leave(c) BY Joining, <1>0 DEF Leave
    <2>6. CatchUp(c) BY <2>2, <2>3, <2>4, <2>5
    <2>7. got'[c] = history /\ readAt'[c] = Len(log) /\ log' = log
      BY <2>6, <1>0 DEF CatchUp
    <2>8. i \in Range(history) BY <2>7, <1>0, Recent
    <2> QED BY <2>7, <2>8 DEF Held
  <1> QED BY <1>1, <1>2

\* A browser that joins while agents publish gets every event from the start of
\* the history it was shown, or is told it could not keep up (server.go:
\* handleSSE subscribes before it reads the history), for any sizes.
THEOREM JoinsMissNothing == Spec => []NothingMissed
  <1>1. Init => JoinInv /\ NothingMissed
    <2> SUFFICES ASSUME Init PROVE JoinInv /\ NothingMissed OBVIOUS
    <2> USE EventBusAssumption
    <2>1. /\ log = <<>> /\ history = <<>> /\ subs = {} /\ closed = {} /\ sending = {}
          /\ conn = [c \in Clients |-> 0] /\ readAt = [c \in Clients |-> 0]
          /\ queue = [c \in Clients |-> <<>>] /\ got = [c \in Clients |-> <<>>]
          /\ dropped = [c \in Clients |-> {}]
      BY DEF Init, BusInit
    <2>2. ConnInv BY <2>1, Joining DEF ConnInv
    <2>3. HistoryInv BY <2>1 DEF HistoryInv
    <2>4. JoinInv BY <2>1, <2>2, <2>3 DEF JoinInv
    <2>5. NothingMissed BY <2>1, Joining DEF NothingMissed, Streaming
    <2> QED BY <2>4, <2>5
  <1>2. JoinInv /\ NothingMissed /\ [Next]_vars => (JoinInv /\ NothingMissed)'
    BY JoinStep, NothingMissedStep
  <1> QED BY <1>1, <1>2, PTL DEF Spec

-----------------------------------------------------------------------------
(* The order of one agent's events.                                        *)

\* An agent is in one Publish at a time, and its event there is its last; what
\* a browser has of it, past the history, is older.
OrderInv ==
    /\ JoinInv
    /\ \A s \in sending : s.event \in DOMAIN log /\ log[s.event] = s.agent
    /\ \A s, t \in sending : s.agent = t.agent => s = t
    /\ \A s \in sending : \A e \in DOMAIN log : log[e] = s.agent => e <= s.event
    /\ \A c \in Clients : \A i \in DOMAIN Seen(c) : Seen(c)[i] \in DOMAIN log
    /\ \A s \in sending : \A c \in s.to : \A i \in DOMAIN Seen(c) :
            Seen(c)[i] = s.event => s.event <= readAt[c]

\* An agent publishes its next event when the sends of the last are done.
LEMMA OnePublish ==
    ASSUME [Next]_vars
    PROVE  \/ UNCHANGED busVars
           \/ \E a \in Agents : (Publish(a) /\ ~Publishing(a)) \/ SendOne(a)
           \/ \E c \in Clients : ClientStep(c)
  BY DEF Next, LoopStep, AgentStarts, AgentFails, Replies, CallsTool, PassesGate, Blocks,
         UsesList, UsesOther, AsksAgain, Spawns, SpawnsInBackground, SpawnsAndWaits, WaitEnds,
         SetupFails, TurnEnds, Nudges, Publishes, Sends, Browser, Step, vars

\* What is put into the channel comes last.
LEMMA QueuedLast ==
    ASSUME NEW g \in Seq(Nat), NEW q \in Seq(Nat), NEW e \in Nat
    PROVE  /\ g \o q \in Seq(Nat)
           /\ g \o Append(q, e) = Append(g \o q, e)
  OBVIOUS

\* What is taken out of the channel is written where it was.
LEMMA StreamedInPlace ==
    ASSUME NEW g \in Seq(Nat), NEW q \in Seq(Nat), q # <<>>
    PROVE  Append(g, Head(q)) \o Tail(q) = g \o q
  <1>1. Head(q) = q[1] /\ Head(q) \in Nat /\ Tail(q) \in Seq(Nat) /\ Len(q) \in Nat \ {0}
    OBVIOUS
  <1>2. Tail(q) = SubSeq(q, 2, Len(q)) BY TailIsSubSeq
  <1>3. SubSeq(q, 1, Len(q)) = <<q[1]>> \o SubSeq(q, 1 + 1, Len(q))
    BY <1>1, SubSeqRecursiveFirst
  <1>4. q = <<Head(q)>> \o Tail(q) BY <1>1, <1>2, <1>3, SubSeqFull
  <1>5. Append(g, Head(q)) = g \o <<Head(q)>> BY <1>1, AppendIsConcat
  <1>6. <<Head(q)>> \in Seq(Nat) BY <1>1
  <1>7. (g \o <<Head(q)>>) \o Tail(q) = g \o (<<Head(q)>> \o Tail(q))
    BY <1>1, <1>6, ConcatAssociative
  <1> QED BY <1>4, <1>5, <1>7, Zenon

\* What a client sees is only ever extended, by a send to it, once it has read
\* the history.
LEMMA SeenStep ==
    ASSUME JoinInv
    PROVE  /\ \A c \in Clients : Seen(c) \in Seq(Nat)
           /\ \A d \in Clients : Stream(d) => \A c \in Clients : Seen(c)' = Seen(c)
           /\ \A s \in sending : \A d \in s.to : SendFits(s, d) /\ got' = got =>
                /\ \A c \in Clients \ {d} : Seen(c)' = Seen(c)
                /\ Seen(d)' = Append(Seen(d), s.event)
  <1>0. queue \in [Clients -> Seq(Nat)] /\ got \in [Clients -> Seq(Nat)]
        /\ \A s \in sending : s.event \in Nat /\ s.to \subseteq Clients
    BY DEF JoinInv, Send
  <1>1. \A c \in Clients : Seen(c) \in Seq(Nat) BY <1>0, QueuedLast DEF Seen
  <1>2. ASSUME NEW d \in Clients, Stream(d), NEW c \in Clients PROVE Seen(c)' = Seen(c)
    <2>1. /\ queue[d] # <<>>
          /\ got' = [got EXCEPT ![d] = Append(@, Head(queue[d]))]
          /\ queue' = [queue EXCEPT ![d] = Tail(@)]
      BY <1>2 DEF Stream
    <2>2. CASE c # d BY <1>0, <2>1, <2>2 DEF Seen
    <2>3. CASE c = d
      <3>1. got'[c] = Append(got[c], Head(queue[c])) /\ queue'[c] = Tail(queue[c])
            /\ got[c] \in Seq(Nat) /\ queue[c] \in Seq(Nat) /\ queue[c] # <<>>
        BY <1>0, <2>1, <2>3
      <3> QED BY <3>1, StreamedInPlace DEF Seen
    <2> QED BY <2>2, <2>3
  <1>3. ASSUME NEW s \in sending, NEW d \in s.to, SendFits(s, d), got' = got
        PROVE  /\ \A c \in Clients \ {d} : Seen(c)' = Seen(c)
               /\ Seen(d)' = Append(Seen(d), s.event)
    <2>1. queue' = [queue EXCEPT ![d] = Append(@, s.event)] /\ d \in Clients
      BY <1>0, <1>3 DEF SendFits
    <2>2. \A c \in Clients \ {d} : Seen(c)' = Seen(c) BY <1>0, <1>3, <2>1 DEF Seen
    <2>3. queue'[d] = Append(queue[d], s.event) /\ got'[d] = got[d]
          /\ queue[d] \in Seq(Nat) /\ got[d] \in Seq(Nat) /\ s.event \in Nat
      BY <1>0, <1>3, <2>1
    <2>4. Seen(d)' = Append(Seen(d), s.event) BY <2>3, QueuedLast DEF Seen
    <2> QED BY <2>2, <2>4
  <1> QED BY <1>1, <1>2, <1>3

\* Every step keeps the order of each agent's events.
LEMMA OrderStep == OrderInv /\ AgentOrderKept /\ [Next]_vars => (OrderInv /\ AgentOrderKept)'
  <1> SUFFICES ASSUME OrderInv, AgentOrderKept, [Next]_vars
               PROVE  OrderInv' /\ AgentOrderKept'
    OBVIOUS
  <1>j. JoinInv /\ JoinInv' BY JoinStep DEF OrderInv
  <1>0. /\ log \in Seq(Agents) /\ Len(log) \in Nat /\ DOMAIN log = 1 .. Len(log)
        /\ readAt \in [Clients -> Nat]
        /\ \A c \in Clients : /\ Seen(c) \in Seq(Nat) /\ Len(Seen(c)) \in Nat
                              /\ DOMAIN Seen(c) = 1 .. Len(Seen(c))
        /\ \A s \in sending : s \in Send /\ s.event \in Nat /\ s.to \subseteq Clients
    BY <1>j, SeenStep DEF JoinInv, HistoryInv, Send
  <1>i. /\ \A s \in sending : s.event \in DOMAIN log /\ log[s.event] = s.agent
        /\ \A s, t \in sending : s.agent = t.agent => s = t
        /\ \A s \in sending : \A e \in DOMAIN log : log[e] = s.agent => e <= s.event
        /\ \A c \in Clients : \A i \in DOMAIN Seen(c) : Seen(c)[i] \in DOMAIN log
        /\ \A s \in sending : \A c \in s.to : \A i \in DOMAIN Seen(c) :
                Seen(c)[i] = s.event => s.event <= readAt[c]
    BY DEF OrderInv
  <1>1. ASSUME UNCHANGED <<log, sending, readAt>>, \A c \in Clients : Seen(c)' = Seen(c)
        PROVE  OrderInv' /\ AgentOrderKept'
    <2>1. OrderInv' BY <1>0, <1>1, <1>i, <1>j DEF OrderInv
    <2>2. AgentOrderKept' BY <1>1 DEF AgentOrderKept
    <2> QED BY <2>1, <2>2
  <1>2. ASSUME NEW a \in Agents, Publish(a), ~Publishing(a) PROVE OrderInv' /\ AgentOrderKept'
    <2>1. /\ log' = Append(log, a) /\ UNCHANGED <<queue, got, readAt>>
          /\ \A s \in sending' : \/ s \in sending
                                 \/ s = [agent |-> a, event |-> Len(log) + 1, to |-> subs]
          /\ \A s \in sending : s.agent # a
      BY <1>2 DEF Publish, clientVars, Publishing
    <2>2. /\ Len(log') = Len(log) + 1 /\ DOMAIN log' = DOMAIN log \cup {Len(log) + 1}
          /\ log'[Len(log) + 1] = a
          /\ \A e \in DOMAIN log : log'[e] = log[e] /\ e <= Len(log)
      BY <1>0, <2>1
    <2>3. \A c \in Clients : Seen(c)' = Seen(c) BY <2>1 DEF Seen
    <2>4. \A s \in sending' : s.event \in DOMAIN log' /\ log'[s.event] = s.agent
      BY <1>i, <2>1, <2>2
    <2>5. \A s, t \in sending' : s.agent = t.agent => s = t BY <1>i, <2>1
    <2>6. \A s \in sending' : \A e \in DOMAIN log' : log'[e] = s.agent => e <= s.event
      BY <1>0, <1>i, <2>1, <2>2
    <2>7. \A c \in Clients : \A i \in DOMAIN Seen(c) : Seen(c)[i] \in DOMAIN log'
      BY <1>i, <2>2
    <2>8. subs \subseteq Clients BY <1>j DEF JoinInv, ConnInv
    <2>9. \A s \in sending' : \A c \in s.to : \A i \in DOMAIN Seen(c) :
            Seen(c)[i] = s.event => s.event <= readAt[c]
      BY <1>0, <1>i, <2>1, <2>8
    <2>10. OrderInv'
      BY <1>0, <1>j, <2>1, <2>3, <2>4, <2>5, <2>6, <2>7, <2>8, <2>9 DEF OrderInv
    <2>11. \A c \in Clients : \A i \in DOMAIN Seen(c) : log'[Seen(c)[i]] = log[Seen(c)[i]]
      BY <1>i, <2>2
    <2>12. AgentOrderKept'
      <3> SUFFICES ASSUME NEW c \in Clients, NEW i \in DOMAIN Seen(c), NEW j \in DOMAIN Seen(c),
                          i < j, Seen(c)[i] > readAt[c], Seen(c)[j] > readAt[c],
                          log'[Seen(c)[i]] = log'[Seen(c)[j]]
                   PROVE  Seen(c)[i] < Seen(c)[j]
        BY <2>1, <2>3 DEF AgentOrderKept
      <3>1. log[Seen(c)[i]] = log[Seen(c)[j]] BY <2>11
      <3> QED BY <3>1 DEF AgentOrderKept
    <2> QED BY <2>10, <2>12
  <1>3. ASSUME NEW s \in sending, NEW d \in s.to, sending' = Sent(s, d),
               SendFits(s, d) \/ SendDropped(s, d) \/ SendPanics(s, d),
               UNCHANGED <<log, got, readAt>>
        PROVE  OrderInv' /\ AgentOrderKept'
    <2>0. d \in Clients BY <1>0
    <2>1. ASSUME NEW t \in sending'
          PROVE  \E u \in sending : /\ t.agent = u.agent /\ t.event = u.event
                                    /\ t.to \subseteq u.to
                                    /\ u = s => d \notin t.to /\ t = [s EXCEPT !.to = @ \ {d}]
                                    /\ u # s => t = u
      <3>1. CASE t \in sending \ {s} BY <3>1
      <3>2. CASE t = [s EXCEPT !.to = @ \ {d}]
        <4>1. t.agent = s.agent /\ t.event = s.event /\ t.to = s.to \ {d}
          BY <1>0, <3>2 DEF Send
        <4> QED BY <3>2, <4>1
      <3> QED BY <1>3, <3>1, <3>2 DEF Sent
    <2>2. \A t \in sending' : t.event \in DOMAIN log' /\ log'[t.event] = t.agent
      BY <1>3, <1>i, <2>1
    <2>3. ASSUME NEW t \in sending', NEW u \in sending', t.agent = u.agent PROVE t = u
      <3>1. PICK x \in sending : /\ t.agent = x.agent
                                 /\ x = s => t = [s EXCEPT !.to = @ \ {d}]
                                 /\ x # s => t = x
        BY <2>1
      <3>2. PICK y \in sending : /\ u.agent = y.agent
                                 /\ y = s => u = [s EXCEPT !.to = @ \ {d}]
                                 /\ y # s => u = y
        BY <2>1
      <3>3. x = y BY <1>i, <2>3, <3>1, <3>2
      <3> QED BY <3>1, <3>2, <3>3
    <2>4. \A t \in sending' : \A e \in DOMAIN log' : log'[e] = t.agent => e <= t.event
      BY <1>3, <1>i, <2>1
    <2>5. \A t \in sending' : d \in t.to => t.event # s.event
      BY <1>i, <2>1
    <2>6. \/ \A c \in Clients : Seen(c)' = Seen(c)
          \/ /\ \A c \in Clients \ {d} : Seen(c)' = Seen(c)
             /\ Seen(d)' = Append(Seen(d), s.event)
      <3>1. SendFits(s, d) \/ queue' = queue BY <1>3 DEF SendDropped, SendPanics
      <3>2. CASE SendFits(s, d) BY <1>3, <1>j, <3>2, SeenStep
      <3>3. CASE queue' = queue BY <1>3, <3>3 DEF Seen
      <3> QED BY <3>1, <3>2, <3>3
    <2>7. CASE \A c \in Clients : Seen(c)' = Seen(c)
      <3>1. \A t \in sending' : \A c \in t.to : c \in Clients /\ \A i \in DOMAIN Seen(c) :
              Seen(c)[i] = t.event => t.event <= readAt[c]
        BY <1>0, <1>i, <2>1
      <3>2. OrderInv'
        BY <1>0, <1>3, <1>i, <1>j, <2>2, <2>3, <2>4, <2>7, <3>1 DEF OrderInv
      <3>3. AgentOrderKept' BY <1>3, <2>7 DEF AgentOrderKept
      <3> QED BY <3>2, <3>3
    <2>8. CASE /\ \A c \in Clients \ {d} : Seen(c)' = Seen(c)
               /\ Seen(d)' = Append(Seen(d), s.event)
      <3>1. /\ DOMAIN Seen(d)' = DOMAIN Seen(d) \cup {Len(Seen(d)) + 1}
            /\ \A i \in DOMAIN Seen(d) : Seen(d)'[i] = Seen(d)[i] /\ i <= Len(Seen(d))
            /\ Seen(d)'[Len(Seen(d)) + 1] = s.event
        <4>1. Seen(d) \in Seq(Nat) /\ s.event \in Nat BY <1>0, <2>0
        <4>2. \A q \in Seq(Nat), e \in Nat :
                /\ DOMAIN Append(q, e) = DOMAIN q \cup {Len(q) + 1}
                /\ \A i \in DOMAIN q : Append(q, e)[i] = q[i] /\ i <= Len(q)
                /\ Append(q, e)[Len(q) + 1] = e
          OBVIOUS
        <4> QED BY <2>8, <4>1, <4>2
      <3>2. \A c \in Clients : \A i \in DOMAIN Seen(c)' : Seen(c)'[i] \in DOMAIN log
        BY <1>i, <2>8, <3>1
      <3>3. ASSUME NEW t \in sending', NEW c \in t.to, NEW i \in DOMAIN Seen(c)',
                   Seen(c)'[i] = t.event
            PROVE  t.event <= readAt[c]
        <4>1. PICK u \in sending : t.event = u.event /\ t.to \subseteq u.to BY <2>1
        <4>2. c \in Clients BY <1>0, <4>1
        <4>3. CASE c # d BY <1>i, <2>8, <3>3, <4>1, <4>2, <4>3
        <4>4. CASE c = d /\ i \in DOMAIN Seen(d) BY <1>i, <3>1, <3>3, <4>1, <4>4
        <4>5. CASE c = d /\ i = Len(Seen(d)) + 1 BY <2>5, <3>1, <3>3, <4>5
        <4> QED BY <3>1, <4>3, <4>4, <4>5
      <3>4. OrderInv'
        BY <1>3, <1>j, <2>2, <2>3, <2>4, <3>2, <3>3 DEF OrderInv
      <3>5. ASSUME NEW c \in Clients, NEW i \in DOMAIN Seen(c)', NEW j \in DOMAIN Seen(c)',
                   i < j, Seen(c)'[i] > readAt[c], Seen(c)'[j] > readAt[c],
                   log[Seen(c)'[i]] = log[Seen(c)'[j]]
            PROVE  Seen(c)'[i] < Seen(c)'[j]
        <4>1. CASE c # d BY <2>8, <3>5, <4>1 DEF AgentOrderKept
        <4>2. CASE c = d /\ j \in DOMAIN Seen(d) /\ i \in DOMAIN Seen(d)
          BY <3>1, <3>5, <4>2 DEF AgentOrderKept
        <4>3. CASE c = d /\ j = Len(Seen(d)) + 1 /\ i \in DOMAIN Seen(d)
          <5>1. Seen(d)'[j] = s.event /\ Seen(d)'[i] = Seen(d)[i] BY <3>1, <4>3
          <5>2. Seen(d)[i] \in DOMAIN log /\ log[Seen(d)[i]] = s.agent
            BY <1>i, <2>0, <3>5, <4>3, <5>1
          <5>3. Seen(d)[i] <= s.event BY <1>i, <5>2
          <5>4. Seen(d)[i] # s.event
            <6>1. Seen(d)[i] = s.event => s.event <= readAt[d] BY <1>i, <4>3
            <6>2. s.event > readAt[d] /\ s.event \in Nat /\ readAt[d] \in Nat
              BY <1>0, <2>0, <3>5, <4>3, <5>1
            <6> QED BY <6>1, <6>2
          <5>5. Seen(d)[i] \in Nat /\ s.event \in Nat BY <1>0, <5>2
          <5> QED BY <4>3, <5>1, <5>3, <5>4, <5>5
        <4>4. CASE c = d /\ i = Len(Seen(d)) + 1
          BY <1>0, <2>0, <3>1, <3>5, <4>4
        <4> QED BY <3>1, <4>1, <4>2, <4>3, <4>4
      <3>6. AgentOrderKept' BY <1>3, <3>5, Zenon DEF AgentOrderKept
      <3> QED BY <3>4, <3>6
    <2> QED BY <2>6, <2>7, <2>8
  <1>4. ASSUME NEW d \in Clients, CatchUp(d) PROVE OrderInv' /\ AgentOrderKept'
    <2>1. /\ UNCHANGED <<log, queue, sending>> /\ got' = [got EXCEPT ![d] = history]
          /\ readAt' = [readAt EXCEPT ![d] = Len(log)]
      BY <1>4 DEF CatchUp
    <2>2. \A c \in Clients \ {d} : Seen(c)' = Seen(c) /\ readAt'[c] = readAt[c]
      <3>1. got \in [Clients -> Seq(Nat)] /\ readAt \in [Clients -> Nat] BY <1>j DEF JoinInv
      <3>2. \A c \in Clients \ {d} : got'[c] = got[c] /\ readAt'[c] = readAt[c]
        BY <2>1, <3>1
      <3> QED BY <2>1, <3>2 DEF Seen
    <2>3. readAt'[d] = Len(log) BY <1>0, <2>1
    <2>4. \A i \in DOMAIN Seen(d)' : Seen(d)'[i] \in DOMAIN log
      <3>1. queue[d] \in Seq(Nat) /\ history \in Seq(Nat) /\ got \in [Clients -> Seq(Nat)]
            /\ got[d] \in Seq(Nat)
        BY <1>j DEF JoinInv, HistoryInv
      <3>2. Seen(d)' = history \o queue[d] BY <2>1, <3>1 DEF Seen
      <3>3. \A k \in DOMAIN history : history[k] \in DOMAIN log
        <4>1. /\ Len(history) \in Nat /\ Len(history) <= Len(log)
              /\ DOMAIN history = 1 .. Len(history)
              /\ \A k \in 1 .. Len(history) : history[k] = Len(log) - Len(history) + k
          BY <1>j DEF JoinInv, HistoryInv
        <4>2. \A k \in 1 .. Len(history) : Len(log) - Len(history) + k \in 1 .. Len(log)
          BY <1>0, <4>1
        <4> QED BY <1>0, <4>1, <4>2
      <3>4. \A k \in DOMAIN queue[d] : queue[d][k] \in DOMAIN log
        <4>1. ASSUME NEW k \in DOMAIN queue[d] PROVE queue[d][k] \in DOMAIN log
          <5>1. /\ Len(got[d]) + k \in DOMAIN (got[d] \o queue[d])
                /\ (got[d] \o queue[d])[Len(got[d]) + k] = queue[d][k]
            BY <3>1, <4>1
          <5> QED BY <1>i, <5>1 DEF Seen
        <4> QED BY <4>1
      <3>5. \A h, q \in Seq(Nat) : \A i \in DOMAIN (h \o q) :
                \/ i \in DOMAIN h /\ (h \o q)[i] = h[i]
                \/ i - Len(h) \in DOMAIN q /\ (h \o q)[i] = q[i - Len(h)]
        OBVIOUS
      <3> QED BY <3>1, <3>2, <3>3, <3>4, <3>5
    <2>5. \A e \in DOMAIN log : e <= readAt'[d] BY <1>0, <2>3
    <2>6. OrderInv'
      <3>1. \A c \in Clients : \A i \in DOMAIN Seen(c)' : Seen(c)'[i] \in DOMAIN log
        BY <1>i, <2>2, <2>4
      <3>2. \A s \in sending : \A c \in s.to : \A i \in DOMAIN Seen(c)' :
              Seen(c)'[i] = s.event => s.event <= readAt'[c]
        BY <1>0, <1>i, <2>2, <2>5
      <3> QED BY <1>i, <1>j, <2>1, <3>1, <3>2 DEF OrderInv
    <2>7. AgentOrderKept'
      <3>1. ASSUME NEW c \in Clients, NEW i \in DOMAIN Seen(c)', NEW j \in DOMAIN Seen(c)',
                   i < j, Seen(c)'[i] > readAt'[c], Seen(c)'[j] > readAt'[c],
                   log[Seen(c)'[i]] = log[Seen(c)'[j]]
            PROVE  Seen(c)'[i] < Seen(c)'[j]
        <4>1. CASE c # d BY <2>2, <3>1, <4>1 DEF AgentOrderKept
        <4>2. CASE c = d BY <1>0, <2>3, <2>4, <3>1, <4>2
        <4> QED BY <4>1, <4>2
      <3> QED BY <2>1, <3>1, Zenon DEF AgentOrderKept
    <2> QED BY <2>6, <2>7
  <1>5. ASSUME NEW d \in Clients, Stream(d) PROVE OrderInv' /\ AgentOrderKept'
    <2>1. UNCHANGED <<log, sending, readAt>> BY <1>5 DEF Stream
    <2>2. \A c \in Clients : Seen(c)' = Seen(c) BY <1>5, <1>j, SeenStep
    <2> QED BY <1>1, <2>1, <2>2
  <1>6. ASSUME NEW d \in Clients, Subscribe(d) \/ Leave(d) PROVE OrderInv' /\ AgentOrderKept'
    <2>1. UNCHANGED <<log, sending, readAt, queue, got>> BY <1>6, Zenon DEF Subscribe, Leave
    <2> QED BY <1>1, <2>1 DEF Seen
  <1>7. ASSUME UNCHANGED busVars PROVE OrderInv' /\ AgentOrderKept'
    BY <1>1, <1>7 DEF busVars, Seen
  <1>8. ASSUME NEW a \in Agents, SendOne(a) PROVE OrderInv' /\ AgentOrderKept'
    BY <1>8, <1>3 DEF SendOne, clientVars
  <1> QED BY <1>2, <1>4, <1>5, <1>6, <1>7, <1>8, OnePublish DEF ClientStep

\* However the sends of two agents interleave (events.go: Publish sends after it
\* unlocked), a browser sees the events of one agent in their order, for any
\* agents, browsers and sizes.
THEOREM OrderKept == Spec => []AgentOrderKept
  <1>1. Init => OrderInv /\ AgentOrderKept
    <2> SUFFICES ASSUME Init PROVE OrderInv /\ AgentOrderKept OBVIOUS
    <2> USE EventBusAssumption
    <2>1. /\ log = <<>> /\ history = <<>> /\ subs = {} /\ closed = {} /\ sending = {}
          /\ conn = [c \in Clients |-> 0] /\ readAt = [c \in Clients |-> 0]
          /\ queue = [c \in Clients |-> <<>>] /\ got = [c \in Clients |-> <<>>]
          /\ dropped = [c \in Clients |-> {}]
      BY DEF Init, BusInit
    <2>2. ConnInv BY <2>1, Joining DEF ConnInv
    <2>3. HistoryInv BY <2>1 DEF HistoryInv
    <2>4. JoinInv BY <2>1, <2>2, <2>3 DEF JoinInv
    <2>5. \A c \in Clients : Seen(c) = <<>> BY <2>1 DEF Seen
    <2>6. OrderInv BY <2>1, <2>4, <2>5 DEF OrderInv
    <2>7. AgentOrderKept BY <2>5 DEF AgentOrderKept
    <2> QED BY <2>6, <2>7
  <1>2. OrderInv /\ AgentOrderKept /\ [Next]_vars => (OrderInv /\ AgentOrderKept)'
    BY OrderStep
  <1> QED BY <1>1, <1>2, PTL DEF Spec
=============================================================================
