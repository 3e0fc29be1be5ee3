----------------------------- MODULE Environment ----------------------------
(***************************************************************************)
(* What outlasts and surrounds the turns of one process: directories,      *)
(* memory (Workspaces) and skills (Skills), from start to start.           *)
(***************************************************************************)
EXTENDS Workspaces, Skills

CONSTANTS
    MaxSteps,  \* bound: the turns, tool calls, edits and restarts of a behaviour
    MaxEdits   \* bound: the edits by hand among them

ASSUME EnvironmentAssumption == MaxSteps \in Nat /\ MaxEdits \in Nat

VARIABLES
    exiting,  \* Dispatcher.Run has returned, DistillMemory runs
    steps,    \* the steps counted against MaxSteps
    edits     \* the edits counted against MaxEdits

vars == <<placeVars, skillVars, exiting, steps, edits>>

Init ==
    /\ PlacesInit
    /\ SkillsInit
    /\ exiting = FALSE
    /\ steps = 0
    /\ edits = 0

Counted == steps < MaxSteps /\ steps' = steps + 1 /\ UNCHANGED edits

InPlaces == UNCHANGED skillVars /\ UNCHANGED exiting

\* The orchestrator, which alone has skill_write and the tools of the subagents.
Orchestrator == InTurn \/ exiting

\* An agent that is at work.
CanCall(a) == IF a = Main THEN Orchestrator ELSE runs[a].state = "running"

Uncounted == UNCHANGED <<steps, edits>>

TurnStep ==
    \/ \E k \in Keys, made \in Outcomes("mkdir"), entered \in Outcomes("chdir") :
        Counted /\ ~exiting /\ StartTurn(k, made, entered) /\ InPlaces
    \/ \E k \in Keys : Counted /\ ~exiting /\ Reset(k) /\ InPlaces
    \/ \E back \in Outcomes("restore") : EndTurn(back) /\ Uncounted /\ InPlaces

RunStep ==
    \E r \in Runs :
        \/ Counted /\ Orchestrator /\ SpawnRun(r) /\ InPlaces
        \/ RunEnds(r) /\ Uncounted /\ InPlaces
        \/ TakesResult(r) /\ Uncounted /\ InPlaces

\* The arguments of a call.
Arguments == {"read", "write", "append"} \X Relative \cup {"search", "shell", "file"} \X {<<>>}

ToolStep ==
    \/ \E a \in Agents : \E given \in Arguments :
        Counted /\ CanCall(a) /\ Begins(a, given[1], given[2]) /\ InPlaces
    \/ \E a \in Agents :
        (CallEnds(a) \/ Writes(a) \/ Reads(a) \/ FileChanges(a)) /\ Uncounted /\ InPlaces
    \/ Counted /\ Orchestrator /\ Ready /\ SkillWrite /\ UNCHANGED placeVars /\ UNCHANGED exiting

EditStep ==
    /\ steps < MaxSteps /\ edits < MaxEdits
    /\ steps' = steps + 1 /\ edits' = edits + 1
    /\ HandEdit
    /\ UNCHANGED placeVars
    /\ UNCHANGED exiting

\* main: the channels are closed; runs in the background go on.
Exit ==
    /\ ~InTurn /\ ~exiting
    /\ exiting' = TRUE
    /\ Counted
    /\ UNCHANGED placeVars
    /\ UNCHANGED skillVars

Restart ==
    /\ PlacesRestart
    /\ registry' = StartUp(skillFile)
    /\ exiting' = FALSE
    /\ Counted
    /\ UNCHANGED <<skillFile, promised>>

Next == TurnStep \/ RunStep \/ ToolStep \/ EditStep \/ Exit \/ Restart

Spec == Init /\ [][Next]_vars
=============================================================================
