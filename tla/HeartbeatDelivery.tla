-------------------------- MODULE HeartbeatDelivery -------------------------
(***************************************************************************)
(* What becomes of a heartbeat: the active-hours gate of                   *)
(* sched.Channel.Listen (internal/channel/sched/sched.go and               *)
(* internal/heartbeat/hours.go) and HeartbeatDelivery.intercept, through   *)
(* which the dispatcher sends every line that the heartbeat's turn emits:  *)
(* the reply, and before it the status lines of the runner (its token      *)
(* counts and what it says of a compaction).                               *)
(*                                                                         *)
(* What a pruned turn does to the conversation is AgentTurn's subject.     *)
(***************************************************************************)
EXTENDS Integers, Sequences

CONSTANTS
    Configs,          \* the settings a process may have been started with
    Replies,          \* the other answers of a model, and the runner's own
                      \* text when it gives up on a rate limit
    UsageLines,       \* the "[tokens: ...]" lines of servers that report usage
    CompactionLines,  \* "[compacted: ...]" and the other lines of a compaction
    Day,              \* bound: the minutes in a day
    MaxTime           \* bound: when the clock stops

\* The answer that has nothing to report (token.go).
Token == "HEARTBEAT_OK"

\* The runner's reply for a model that answers with nothing.
NoResponse == "[no response]"

NoText == "none"

MetaLines == UsageLines \cup CompactionLines \cup {NoResponse}

(***************************************************************************)
(* target: HeartbeatDelivery.Target; "unset" is an outbound channel that   *)
(* is not configured.  usage: does the model server report usage?          *)
(* compacts: is there a context size, and compaction not switched off?     *)
(* windowed: are both ends of the active hours given (and well formed)?    *)
(* start, end: ActiveStart and ActiveEnd, in minutes.                      *)
(***************************************************************************)
Settings == [target : {"cli", "none", "outbound", "unset"},
             usage : BOOLEAN, compacts : BOOLEAN,
             windowed : BOOLEAN, start : 0 .. Day - 1, end : 0 .. Day - 1]

ASSUME HeartbeatAssumption ==
    /\ Configs \subseteq Settings
    /\ Token \notin Replies \cup MetaLines
    /\ NoText \notin Replies \cup MetaLines
    /\ Replies \cap MetaLines = {}
    /\ Day \in Nat \ {0} /\ MaxTime \in Nat

VARIABLES
    config,    \* the settings of this process
    time,      \* the clock, in minutes
    turn,      \* the heartbeat's turn: is it running, and since when?
    lastText,  \* HeartbeatDelivery.lastText
    lastAt,    \* HeartbeatDelivery.lastAt
    reached,   \* the last two messages that reached the user (not in the code)
    dropped    \* was a line that did not reach the user remembered after the
               \* last one that did?  (not in the code)

vars == <<config, time, turn, lastText, lastAt, reached, dropped>>

NoTurn == [running |-> FALSE, at |-> 0]

Init ==
    /\ config \in Configs
    /\ time \in 0 .. Day - 1
    /\ turn = NoTurn
    /\ lastText = NoText
    /\ lastAt = 0
    /\ reached = <<>>
    /\ dropped = FALSE

\* Bug for the checks: the window includes its end.
IsWithinActiveHours_EndIncluded(minute) ==
    config.windowed =>
        /\ config.start # config.end
        /\ IF config.start < config.end
           THEN config.start <= minute /\ minute <= config.end
           ELSE config.start <= minute \/ minute <= config.end

IsWithinActiveHours(minute) ==
    config.windowed =>
        /\ config.start # config.end
        /\ IF config.start < config.end
           THEN config.start <= minute /\ minute < config.end
           ELSE config.start <= minute \/ minute < config.end

\* Listen takes a heartbeat event outside the active hours: dropped.
HeartbeatSkipped ==
    /\ ~turn.running
    /\ ~IsWithinActiveHours(time % Day)
    /\ UNCHANGED vars

\* Inside them, the dispatcher runs a turn for it.
HeartbeatStarts ==
    /\ ~turn.running
    /\ IsWithinActiveHours(time % Day)
    /\ turn' = [running |-> TRUE, at |-> time]
    /\ UNCHANGED <<config, time, lastText, lastAt, reached, dropped>>

-----------------------------------------------------------------------------
(* intercept()                                                             *)

\* The lines in brackets do not pass Discord's or iMessage's Send, which drops
\* them without an error.
Passes(text) == config.target = "outbound" => text \notin MetaLines

LastTwo(s) == IF Len(s) > 2 THEN Tail(s) ELSE s

Message(text) == [text |-> text, at |-> time, turnAt |-> turn.at, behind |-> dropped]

Reaches(text) ==
    IF config.target \in {"cli", "outbound"} /\ Passes(text)
    THEN /\ reached' = LastTwo(Append(reached, Message(text)))
         /\ dropped' = FALSE
    ELSE /\ dropped' = TRUE
         /\ UNCHANGED reached

\* Bug for the checks: a repeated text counts as the last one delivered.
IsDup_Backwards(text) ==
    config.target # "cli" /\ text = lastText /\ time - lastAt >= Day

IsDup(text) ==
    config.target # "cli" /\ text = lastText /\ time - lastAt < Day

\* Bug for the checks: the text is recorded before it is delivered.
SendFails_Records(text) ==
    /\ config.target \in {"cli", "outbound"} /\ Passes(text) /\ ~IsDup(text)
    /\ IF config.target = "cli" THEN UNCHANGED <<lastText, lastAt>>
                         ELSE lastText' = text /\ lastAt' = time
    /\ UNCHANGED <<reached, dropped>>

\* The send fails: the text is not recorded.
SendFails(text) ==
    /\ config.target \in {"cli", "outbound"} /\ Passes(text) /\ ~IsDup(text)
    /\ UNCHANGED <<lastText, lastAt, reached, dropped>>

Duplicate(text) ==
    /\ IsDup(text)
    /\ UNCHANGED <<lastText, lastAt, reached, dropped>>

Delivered(text) ==
    /\ ~IsDup(text)
    /\ Reaches(text)
    /\ IF config.target = "cli" THEN UNCHANGED <<lastText, lastAt>>
                         ELSE lastText' = text /\ lastAt' = time

\* A text whose send does not fail.
Intercepts(text) ==
    IF text = Token THEN UNCHANGED <<lastText, lastAt, reached, dropped>>
    ELSE Duplicate(text) \/ Delivered(text)

-----------------------------------------------------------------------------
(* The turn.                                                               *)

\* The status lines: of a Chat that reports its usage, and of a compaction
\* that is tried, fails or succeeds.  An error of emit is ignored here.
StatusLines ==
    (IF config.usage THEN UsageLines ELSE {}) \cup
    (IF config.compacts THEN CompactionLines ELSE {})

EmitStatus(line) ==
    /\ turn.running
    /\ line \in StatusLines
    /\ Intercepts(line) \/ SendFails(line)
    /\ UNCHANGED <<config, time, turn>>

\* The reply ends the turn, delivered or not; so does the text that gives up.
EmitReply(text) ==
    /\ turn.running
    /\ Intercepts(text) \/ (text # Token /\ SendFails(text))
    /\ turn' = NoTurn
    /\ UNCHANGED <<config, time>>

\* A Chat fails: the dispatcher logs the error, past intercept.
TurnFails ==
    /\ turn.running
    /\ turn' = NoTurn
    /\ UNCHANGED <<config, time, lastText, lastAt, reached, dropped>>

Clock ==
    /\ time < MaxTime
    /\ time' = time + 1
    /\ UNCHANGED <<config, turn, lastText, lastAt, reached, dropped>>

Next ==
    \/ HeartbeatSkipped \/ HeartbeatStarts
    \/ \E line \in UsageLines \cup CompactionLines : EmitStatus(line)
    \/ \E text \in {Token, NoResponse} \cup Replies : EmitReply(text)
    \/ TurnFails
    \/ Clock

Spec == Init /\ [][Next]_vars

-----------------------------------------------------------------------------
(* Properties.                                                             *)

\* The user hears of a heartbeat only if it fired in the active hours: going
\* on from Start, its minute comes before End, over midnight too.
QuietHoursKept ==
    \A i \in DOMAIN reached :
        config.windowed =>
            (reached[i].turnAt - config.start) % Day < (config.end - config.start) % Day

\* The same message reaches the user twice in a row within a day only behind a
\* line that did not reach him and was remembered in its place.
RepeatsNeedADroppedLine ==
    config.target # "cli" /\ Len(reached) = 2 /\ reached[1].text = reached[2].text
        => reached[2].at - reached[1].at >= Day \/ reached[2].behind

\* A reply is only held back because it reached the user: a failed send is not
\* taken for a delivery.
OnlyDeliveredIsRemembered ==
    config.target = "outbound" /\ lastText \in Replies =>
        \E i \in DOMAIN reached : reached[i].text = lastText /\ reached[i].at = lastAt

\* The same reply does not reach the user twice in a row within a day
\* (sched.go: "identical replies within 24 h are silently dropped on non-CLI
\* targets").
RepeatedReplyDropped ==
    config.target # "cli" /\ Len(reached) = 2 /\ reached[1].text = reached[2].text
        => reached[2].at - reached[1].at >= Day
=============================================================================
