------------------------------ MODULE TillDone ------------------------------
(***************************************************************************)
(* The task list of the TillDone plugin (internal/plugin/tilldone): the    *)
(* tool's actions, the gate in front of every other tool, and the nudge at *)
(* the end of a turn.  One list serves every agent that loaded the plugin, *)
(* under one lock: each operation is one action.  Titles and texts are     *)
(* left out, and with them update, which changes nothing else.             *)
(***************************************************************************)
EXTENDS Naturals, SequencesExt

CONSTANTS
    MaxBatch,  \* bound: the texts of one add
    MaxId      \* bound: the task ids

ASSUME TillDoneAssumption == MaxBatch \in Nat /\ MaxId \in Nat

VARIABLES
    tasks,   \* TillDone.tasks
    nextID,  \* TillDone.nextID
    nudged   \* TillDone.nudgedThisCycle

listVars == <<tasks, nextID, nudged>>

Statuses == {"idle", "inprogress", "done"}

Task == [id : Nat, status : Statuses]

nextStatus == [s \in Statuses |->
    CASE s = "idle" -> "inprogress" [] s = "inprogress" -> "done" [] s = "done" -> "idle"]

ListInit ==
    /\ tasks = <<>>
    /\ nextID = 1
    /\ nudged = FALSE

-----------------------------------------------------------------------------
(* The tool.                                                               *)

\* new-list and clear.
NewList ==
    /\ tasks' = <<>>
    /\ nextID' = 1
    /\ UNCHANGED nudged

Add(n) ==
    /\ nextID + n <= MaxId + 1
    /\ tasks' = tasks \o [i \in 1 .. n |-> [id |-> nextID + i - 1, status |-> "idle"]]
    /\ nextID' = nextID + n
    /\ UNCHANGED nudged

\* Bug for the checks: the task that was in progress stays so.
Demoted_Kept(task) == task

\* "Enforce single in-progress": what another active task becomes.
Demoted(task) ==
    IF task.status = "inprogress" THEN [task EXCEPT !.status = "idle"] ELSE task

\* Task i moves on, and if it is in progress now, no other one is.
Toggle(i) ==
    LET status == nextStatus[tasks[i].status]
    IN  /\ tasks' = [j \in DOMAIN tasks |->
                        IF j = i THEN [tasks[j] EXCEPT !.status = status]
                        ELSE IF status = "inprogress" THEN Demoted(tasks[j])
                        ELSE tasks[j]]
        /\ UNCHANGED <<nextID, nudged>>

\* Bug for the checks: the numbers of removed tasks are used again.
RemoveTask_ReusesIds(i) ==
    /\ tasks' = RemoveAt(tasks, i)
    /\ nextID' = Len(tasks)
    /\ UNCHANGED nudged

RemoveTask(i) ==
    /\ tasks' = RemoveAt(tasks, i)
    /\ UNCHANGED <<nextID, nudged>>

\* Actions that find no such task, lack an argument, or only read.
NoChange == UNCHANGED listVars

\* findTask returns the first task with the id: there is one index per id.
ToolAction ==
    \/ NewList
    \/ \E n \in 1 .. MaxBatch : Add(n)
    \/ \E i \in DOMAIN tasks : Toggle(i) \/ RemoveTask(i)
    \/ NoChange

-----------------------------------------------------------------------------
(* The gate and the nudge.                                                 *)

Incomplete == \E i \in DOMAIN tasks : tasks[i].status # "done"

InProgress(i) == tasks[i].status = "inprogress"

\* No task, all done, or none in progress: the call is blocked.
Blocked == ~\E i \in DOMAIN tasks : InProgress(i)

\* Bug for the checks: a tool call does not show that the agent works.
ResetNudge_Missing == nudged' = nudged

ResetNudge == nudged' = FALSE

\* BeforeToolCall for any other tool.
Gate(blocked) ==
    /\ blocked = Blocked
    /\ ResetNudge
    /\ UNCHANGED <<tasks, nextID>>

\* AfterTurn returns a nudge, or "".
AfterTurn(nudge) ==
    /\ nudge = (Incomplete /\ ~nudged)
    /\ nudged' = (nudged \/ nudge)
    /\ UNCHANGED <<tasks, nextID>>

ListNext ==
    \/ ToolAction
    \/ \E b \in BOOLEAN : Gate(b) \/ AfterTurn(b)

-----------------------------------------------------------------------------
(* Properties.                                                             *)

ListTypeOK ==
    /\ tasks \in Seq(Task)
    /\ nextID \in Nat \ {0}
    /\ nudged \in BOOLEAN

\* "Only one task can be in progress at a time", whatever is added, toggled,
\* removed or started over.
OneInProgress ==
    \A i, j \in DOMAIN tasks : InProgress(i) /\ InProgress(j) => i = j

\* An id names one task of the list, and the next one is still free: of the
\* tasks of one list, toggle and remove hit the one that was given the id.  (A
\* new list, or a cleared one, counts from one again.)
IdsUnique ==
    /\ \A i, j \in DOMAIN tasks : tasks[i].id = tasks[j].id => i = j
    /\ \A i \in DOMAIN tasks : tasks[i].id < nextID
=============================================================================
