------------------------------ MODULE Plugins ------------------------------
(***************************************************************************)
(* Agents with plugins: the loop of every agent (runner.go: agentLoop)     *)
(* calls the lifecycle, usage, tool and after-turn hooks of the web UI and *)
(* of TillDone, which main.go and buildRuntime (manager.go) hand out.  The *)
(* orchestrator and its background subagents run in goroutines of their    *)
(* own and share the event bus and the task list.                          *)
(***************************************************************************)
EXTENDS EventBus, TillDone

CONSTANTS
    Main,       \* the orchestrator; the other agents are runs of a subagent
    MaxEvents   \* bound: the events of a behaviour

ASSUME PluginsAssumption == Main \in Agents /\ MaxEvents \in Nat

VARIABLES
    plugins,  \* the plugins main.go registered; TillDone is built but not registered now
    named,    \* those of them that the subagent's definition names as well
    pc,       \* agent -> where its goroutine is
    calls,    \* agent -> the tool it calls, or "none"
    events,   \* agent -> the events its hooks have still to publish, in order
    deeds     \* what the orchestrator did in this turn: was it nudged, and what
              \* did it call since?  (not in the code)

agentVars == <<pc, calls, events, deeds>>
vars == <<plugins, named, agentVars, busVars, listVars>>

ToolNames == {"tilldone", "sessions_spawn", "other"}

Init ==
    /\ plugins \in SUBSET {"webui", "tilldone"}
    /\ named \in SUBSET plugins
    /\ pc = [a \in Agents |-> IF a = Main THEN "idle" ELSE "unborn"]
    /\ calls = [a \in Agents |-> "none"]
    /\ events = [a \in Agents |-> <<>>]
    /\ deeds = {}
    /\ BusInit
    /\ ListInit

-----------------------------------------------------------------------------
(* What main.go and buildRuntime wire up.                                  *)

\* Tools and after-turn hooks come only with the plugins of the agent itself.
Own(a) == IF a = Main THEN plugins ELSE named

Has(a, tool) ==
    CASE tool = "tilldone"       -> "tilldone" \in Own(a)
      [] tool = "sessions_spawn" -> a = Main
      [] OTHER                   -> TRUE

\* The base hooks serve every agent; those of a plugin the definition names are
\* added to them, so that the web UI hears of such a subagent twice.
Observed(a, shown) ==
    IF "webui" \notin plugins THEN <<>>
    ELSE IF a # Main /\ "webui" \in named THEN shown \o shown
    ELSE shown

GateApplies(a) == "tilldone" \in plugins /\ calls[a] # "tilldone"

-----------------------------------------------------------------------------
(* agentLoop.                                                              *)

\* The goroutine of the agent is not inside a hook that publishes.
Free(a) == ~crashed /\ events[a] = <<>> /\ ~Publishing(a)

Step(a, from, to, shown) ==
    /\ Free(a)
    /\ pc[a] = from
    /\ pc' = [pc EXCEPT ![a] = to]
    /\ events' = [events EXCEPT ![a] = Observed(a, shown)]
    /\ UNCHANGED busVars
    /\ UNCHANGED <<plugins, named>>

\* The orchestrator runs turn after turn, a subagent once.
Ended(a) == IF a = Main THEN "idle" ELSE "over"

AgentStarts(a) ==
    /\ Step(a, "idle", "chat", <<"agent_start">>)
    /\ deeds' = IF a = Main THEN {} ELSE deeds
    /\ UNCHANGED calls
    /\ UNCHANGED listVars

\* A subagent that cannot be set up: execute() ends before the loop.
SetupFails(a) ==
    /\ a # Main
    /\ Step(a, "idle", "over", <<>>)
    /\ UNCHANGED <<calls, deeds>>
    /\ UNCHANGED listVars

\* A response may come without usage; the later calls of one response do.
UsageOf(reported) == IF reported THEN <<"agent_usage">> ELSE <<>>

\* Chat fails, or the reply cannot be sent: the deferred hooks still run.
AgentFails(a, reported) ==
    /\ Step(a, "chat", Ended(a), UsageOf(reported) \o <<"agent_end">>)
    /\ UNCHANGED <<calls, deeds>>
    /\ UNCHANGED listVars

\* A response that is empty, or calls no tool there is: the model is asked again.
AsksAgain(a) ==
    /\ Step(a, "chat", "chat", UsageOf(TRUE))
    /\ UNCHANGED <<calls, deeds>>
    /\ UNCHANGED listVars

\* The web UI's hook comes first: it announces calls that the gate then blocks.
CallsTool(a, tool, reported) ==
    /\ Has(a, tool)
    /\ calls' = [calls EXCEPT ![a] = tool]
    /\ Step(a, "chat", "gate",
            UsageOf(reported)
            \o (IF tool = "sessions_spawn" THEN <<"agent_spawn">> ELSE <<>>)
            \o <<"tool_start">>)
    /\ UNCHANGED deeds
    /\ UNCHANGED listVars

\* A call reaches the gate: of the list's own tool, or of another one.
Reached(a) ==
    deeds' = IF a # Main THEN deeds
             ELSE deeds \cup {IF calls[a] = "tilldone" THEN "list" ELSE "work"}

PassesGate(a) ==
    \/ /\ ~GateApplies(a)
       /\ Step(a, "gate", "tool", <<>>)
       /\ Reached(a)
       /\ UNCHANGED calls
       /\ UNCHANGED listVars
    \/ /\ GateApplies(a)
       /\ Gate(FALSE)
       /\ Step(a, "gate", "tool", <<>>)
       /\ Reached(a)
       /\ UNCHANGED calls

Called(a) == calls' = [calls EXCEPT ![a] = "none"]

\* A blocked call runs no after hooks.
Blocks(a) ==
    /\ GateApplies(a)
    /\ Gate(TRUE)
    /\ Step(a, "gate", "chat", <<>>)
    /\ Reached(a)
    /\ Called(a)

\* The tool itself, with or without an error, and the after hooks.
UsesList(a) ==
    /\ calls[a] = "tilldone"
    /\ ToolAction
    /\ Step(a, "tool", "chat", <<"tool_end">>)
    /\ Called(a)
    /\ UNCHANGED deeds

UsesOther(a) ==
    /\ calls[a] # "tilldone"
    /\ Step(a, "tool", "chat", <<"tool_end">>)
    /\ Called(a)
    /\ UNCHANGED deeds
    /\ UNCHANGED listVars

\* The run gets a goroutine of its own; the caller goes on, or waits for it.
Spawns(a, run, to, shown) ==
    /\ Free(a)
    /\ calls[a] = "sessions_spawn" /\ pc[a] = "tool"
    /\ pc[run] = "unborn"
    /\ pc' = [pc EXCEPT ![a] = to, ![run] = "idle"]
    /\ events' = [events EXCEPT ![a] = Observed(a, shown)]
    /\ UNCHANGED <<deeds, plugins, named>>
    /\ UNCHANGED busVars
    /\ UNCHANGED listVars

\* A background run: the call is done, and the agent said to be, when it starts.
SpawnsInBackground(a, run) ==
    /\ Spawns(a, run, "chat", <<"tool_end", "agent_done">>)
    /\ Called(a)

SpawnsAndWaits(a, run) ==
    /\ Spawns(a, run, "wait", <<>>)
    /\ UNCHANGED calls

\* The run is over, or the caller waits no longer.
WaitEnds(a) ==
    /\ \/ /\ \E run \in Agents \ {Main} : pc[run] = "over"
          /\ Step(a, "wait", "chat", <<"tool_end", "agent_done">>)
       \/ Step(a, "wait", "chat", <<"tool_end">>)
    /\ Called(a)
    /\ UNCHANGED deeds
    /\ UNCHANGED listVars

Replies(a, reported) ==
    /\ Step(a, "chat", "after_turn", UsageOf(reported))
    /\ UNCHANGED <<calls, deeds>>
    /\ UNCHANGED listVars

TurnEnds(a) ==
    /\ IF "tilldone" \in Own(a) THEN AfterTurn(FALSE) ELSE UNCHANGED listVars
    /\ Step(a, "after_turn", Ended(a), <<"agent_end">>)
    /\ UNCHANGED <<calls, deeds>>

Nudges(a) ==
    /\ "tilldone" \in Own(a)
    /\ AfterTurn(TRUE)
    /\ Step(a, "after_turn", "chat", <<>>)
    /\ deeds' = IF a = Main THEN {"nudge"} ELSE deeds
    /\ UNCHANGED calls

\* A hook calls Publish.  From here on it only counts whose event it is.
Publishes(a) ==
    /\ ~crashed
    /\ events[a] # <<>> /\ ~Publishing(a)
    /\ Len(log) < MaxEvents
    /\ Publish(a)
    /\ events' = [events EXCEPT ![a] = Tail(@)]
    /\ UNCHANGED <<plugins, named, pc, calls, deeds>>
    /\ UNCHANGED listVars

LoopStep(a) ==
    \/ AgentStarts(a) \/ SetupFails(a) \/ AsksAgain(a)
    \/ \E reported \in BOOLEAN :
        \/ AgentFails(a, reported) \/ Replies(a, reported)
        \/ \E tool \in ToolNames : CallsTool(a, tool, reported)
    \/ PassesGate(a) \/ Blocks(a)
    \/ UsesList(a) \/ UsesOther(a)
    \/ \E run \in Agents \ {Main} : SpawnsInBackground(a, run) \/ SpawnsAndWaits(a, run)
    \/ WaitEnds(a)
    \/ TurnEnds(a) \/ Nudges(a)
    \/ Publishes(a)

Sends(a) ==
    /\ ~crashed
    /\ SendOne(a)
    /\ UNCHANGED <<plugins, named, agentVars>>
    /\ UNCHANGED listVars

Browser(c) ==
    /\ ~crashed
    /\ "webui" \in plugins
    /\ ClientStep(c)
    /\ UNCHANGED <<plugins, named, agentVars>>
    /\ UNCHANGED listVars

Next ==
    \/ \E a \in Agents : LoopStep(a) \/ Sends(a)
    \/ \E c \in Clients : Browser(c)

\* The goroutine of an agent that is inside Publish goes on.
Spec == Init /\ [][Next]_vars /\ \A a \in Agents : WF_vars(Sends(a))

-----------------------------------------------------------------------------
(* Properties.                                                             *)

\* The orchestrator ends a turn with unfinished tasks, and nobody else can have
\* taken the nudge.  (A subagent whose definition names the plugin may.)
StopsUnfinished ==
    /\ pc[Main] = "after_turn" /\ pc'[Main] = "idle"
    /\ Incomplete
    /\ "tilldone" \in plugins \ named

\* An orchestrator that called another tool than the list's does not stop with
\* unfinished tasks without a nudge since that call, whatever an earlier turn
\* or a subagent's calls did to the shared flag.
WorkIsNudged == [][StopsUnfinished => "work" \notin deeds]_vars

\* AfterTurn (tilldone.go) "nudges the agent to continue if there are incomplete
\* tasks": an orchestrator that called any tool in a turn does not stop with
\* unfinished tasks without a nudge in that turn.
UnfinishedTurnsWereNudged ==
    [][StopsUnfinished /\ deeds # {} => "nudge" \in deeds]_vars
=============================================================================
