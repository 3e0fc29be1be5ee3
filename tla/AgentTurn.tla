------------------------------ MODULE AgentTurn -----------------------------
(***************************************************************************)
(* One message at a time through Dispatcher.process, Runner.HandleTurn and *)
(* Runner.agentLoop, over the conversations of channel.Store in memory and *)
(* on disk, with crashes.                                                  *)
(*                                                                         *)
(* A turn is a run of steps that the dispatcher's single goroutine takes:  *)
(* Receive, then MaybeCompact and Chat around the loop with a RunTool for  *)
(* every tool call, then Save.  The model's answers, the failures of a     *)
(* send, a save or a summary, and the crash are chosen freely.             *)
(***************************************************************************)
EXTENDS Compaction

CONSTANTS
    Keys,            \* the conversations: the characters of their threads
    SafeChars,       \* the characters sanitizeSegment keeps
    HeartbeatKeys,   \* the keys heartbeat events are addressed to
    NotLoaded,       \* the conversation is not in memory / has no file
    Faults,          \* file errors the code swallows: "load", "remove"
    MaxEmptyRetries, \* runner.go's maxEmptyRetries
    ToolTokens,      \* the sizes a tool's output may have
    MaxCalls,        \* bound: tool calls in one response
    MaxChats,        \* bound: responses with tool calls in one turn
    MaxInjections,   \* bound: messages after-turn hooks inject in one turn
    MaxMsgs          \* bound: messages ever created

(***************************************************************************)
(* `usage' also carries the messages it was measured on, which the code    *)
(* does not keep: UsageCoversPrefix needs them.  usageIndex is 0 for -1.   *)
(***************************************************************************)
Usage == [total : Nat, prompt : Seq(Message)]

Conversation == [messages : Seq(Message), summary : SUBSET Nat,
                 usage : Usage, usageIndex : Nat]

ASSUME AgentTurnAssumption ==
    /\ Keys # {} /\ \A k \in Keys : k \in Seq(STRING)
    /\ HeartbeatKeys \subseteq Keys
    /\ Faults \subseteq {"load", "remove"}
    /\ NotLoaded \notin Conversation
    /\ ToolTokens \subseteq Nat
    /\ MaxEmptyRetries \in Nat /\ MaxCalls \in Nat /\ MaxChats \in Nat
    /\ MaxInjections \in Nat /\ MaxMsgs \in Nat

VARIABLES
    convs,    \* Store.convs: key -> Conversation, NotLoaded until first Get
    disk,     \* path -> the history file, NotLoaded when there is none
    pc,       \* where the dispatcher's goroutine is
    turn,     \* the locals of process, HandleTurn and agentLoop
    nextMsg   \* the id of the next message

vars == <<convs, disk, pc, turn, nextMsg>>

\* Bug for the checks: the code's -1 kept as it is.
EmptyConversation_MinusOne == [messages |-> <<>>, summary |-> {},
                               usage |-> NoUsage, usageIndex |-> -1]

EmptyConversation == [messages |-> <<>>, summary |-> {},
                      usage |-> NoUsage, usageIndex |-> 0]

(***************************************************************************)
(* key, heartbeat: from the Inbound, heartbeat iff InterceptReply is set.  *)
(* preTurnLen: the snapshot process() takes.  spare: whether the backing   *)
(* array may have room past its length since the last compaction.          *)
(* empties: empty replies since the last tool call, for the properties.    *)
(* pruned: a HEARTBEAT_OK pruned this turn, for the properties.            *)
(* older: what the conversation knew before the turn, for the properties.  *)
(***************************************************************************)
Turn == [key : Keys, heartbeat : BOOLEAN, preTurnLen : Nat, pending : Nat,
         hadToolCalls : BOOLEAN, emptyRetries : Nat, chats : Nat,
         injections : Nat, spare : BOOLEAN, empties : Nat, pruned : BOOLEAN,
         older : SUBSET Nat]

Idle == [key |-> CHOOSE k \in Keys : TRUE, heartbeat |-> FALSE,
         preTurnLen |-> 0, pending |-> 0, hadToolCalls |-> FALSE,
         emptyRetries |-> 0, chats |-> 0, injections |-> 0, spare |-> FALSE,
         empties |-> 0, pruned |-> FALSE, older |-> {}]

PCs == {"idle", "compact", "chat", "tools", "save", "panicked"}

\* Store.historyPath: the thread with every other character made '_', under
\* the channel's directory.
HistoryPath(k) == [i \in DOMAIN k |-> IF k[i] \in SafeChars THEN k[i] ELSE "_"]

Paths == {HistoryPath(k) : k \in Keys}

Init ==
    /\ convs = [k \in Keys |-> NotLoaded]
    /\ disk = [p \in Paths |-> NotLoaded]
    /\ pc = "idle"
    /\ turn = Idle
    /\ nextMsg = 1

-----------------------------------------------------------------------------
(* Messages.                                                               *)

Msg(id, role) == [id |-> id, role |-> role, calls |-> 0, answers |-> 0,
                  covers |-> {}, tokens |-> 1]

SystemPrompt == Msg(0, "system")

Conv == convs[turn.key]

\* The conversation of the turn with `ms' for its messages.
WithMessages(ms) == [convs EXCEPT ![turn.key].messages = ms]

Room(n) == nextMsg + n <= MaxMsgs + 1

-----------------------------------------------------------------------------
(* Store and Dispatcher.process, up to the agent loop.                     *)

\* Store.loadHistory: a file that cannot be read or decoded counts as no file.
LoadHistory(k) ==
    IF disk[HistoryPath(k)] = NotLoaded THEN {EmptyConversation}
    ELSE {disk[HistoryPath(k)]} \cup (IF "load" \in Faults THEN {EmptyConversation} ELSE {})

\* Store.Get: the conversation in memory, or hydrated from its file.
Get(k) == IF convs[k] # NotLoaded THEN {convs[k]} ELSE LoadHistory(k)

\* Store.Reset's removal of the file, whose error is ignored.
RemoveFile(k) ==
    \/ disk' = [disk EXCEPT ![HistoryPath(k)] = NotLoaded]
    \/ "remove" \in Faults /\ UNCHANGED disk

\* HandleTurn's preamble: the system prompt when the history is empty, the
\* user's message.
Opened(conv) ==
    [conv EXCEPT !.messages =
        (IF @ = <<>> THEN <<SystemPrompt>> ELSE @) \o <<Msg(nextMsg, "user")>>]

\* Bug for the checks: the snapshot leaves the last message out.
PreTurnLen_OffByOne(conv) == IF conv.messages = <<>> THEN 0 ELSE Len(conv.messages) - 1

PreTurnLen(conv) == Len(conv.messages)

StartTurn(k, heartbeat, conv) ==
    /\ Room(1)
    /\ convs' = [convs EXCEPT ![k] = Opened(conv)]
    /\ turn' = [Idle EXCEPT !.key = k, !.heartbeat = heartbeat,
                            !.preTurnLen = PreTurnLen(conv), !.spare = TRUE,
                            !.older = Known(conv.messages)]
    /\ nextMsg' = nextMsg + 1
    /\ pc' = "compact"

\* An ordinary message, or a scheduled event, whose expansion succeeds (one
\* that fails is answered with the error and changes nothing).
Receive(k, heartbeat) ==
    /\ pc = "idle"
    /\ heartbeat => k \in HeartbeatKeys
    /\ \E conv \in Get(k) : StartTurn(k, heartbeat, conv)
    /\ UNCHANGED disk

\* /new or /reset with a body: memory and file are cleared, the body is the
\* first message of the fresh session.
ReceiveResetWithBody(k) ==
    /\ pc = "idle"
    /\ RemoveFile(k)
    /\ StartTurn(k, FALSE, EmptyConversation)

\* /new or /reset alone, or with a body that does not expand: the reply
\* ends the handling and nothing is saved.
ReceiveResetOnly(k) ==
    /\ pc = "idle"
    /\ convs' = [convs EXCEPT ![k] = EmptyConversation]
    /\ RemoveFile(k)
    /\ UNCHANGED <<pc, turn, nextMsg>>

-----------------------------------------------------------------------------
(* Runner.agentLoop.                                                       *)

\* maybeCompact: below the threshold, nothing to cut, or the summary call
\* failed: the messages stay.  Its status lines never prune, and their
\* errors are ignored.
NeedsCompaction ==
    ShouldCompact(EstimateContextTokens(Conv.messages, Conv.usage, Conv.usageIndex))

KeepHistory ==
    /\ pc = "compact"
    /\ pc' = "chat"
    /\ UNCHANGED <<convs, disk, turn, nextMsg>>

\* Bug for the checks: the usage outlives the messages it counted.
Compacted_KeepsUsage(conv) ==
    [conv EXCEPT !.messages = Compact(@, conv.summary),
                 !.summary = Summarize(conv.messages, @)]

Compacted(conv) ==
    [messages |-> Compact(conv.messages, conv.summary),
     summary |-> Summarize(conv.messages, conv.summary),
     usage |-> NoUsage, usageIndex |-> 0]

\* Bug for the checks: only the retry counter is reset.
ResetAfterCompaction_KeepsToolCalls(t) ==
    [t EXCEPT !.emptyRetries = 0, !.spare = FALSE]

ResetAfterCompaction(t) ==
    [t EXCEPT !.hadToolCalls = FALSE, !.emptyRetries = 0, !.spare = FALSE]

CompactHistory ==
    /\ pc = "compact"
    /\ NeedsCompaction
    /\ Compactable(Conv.messages)
    /\ convs' = [convs EXCEPT ![turn.key] = Compacted(@)]
    /\ turn' = ResetAfterCompaction(turn)
    /\ pc' = "chat"
    /\ UNCHANGED <<disk, nextMsg>>

\* The usage the response may carry, measured on the request's messages.
Measured(conv) ==
    {conv, [conv EXCEPT !.usage = [total |-> TokensFrom(conv.messages, 1) + 1,
                                   prompt |-> conv.messages],
                        !.usageIndex = Len(conv.messages)]}

\* A 429 that is retried: the loop starts over, compaction included.
ChatRateLimited ==
    /\ pc = "chat"
    /\ pc' = "compact"
    /\ UNCHANGED <<convs, disk, turn, nextMsg>>

\* The call fails, or rate limiting is given up: the loop returns the error,
\* which process() replies with or logs.
ChatFails ==
    /\ pc = "chat"
    /\ pc' = "save"
    /\ UNCHANGED <<convs, disk, turn, nextMsg>>

ChatCallsTools(n) ==
    /\ pc = "chat"
    /\ turn.chats < MaxChats
    /\ Room(1 + n)
    /\ \E conv \in Measured(Conv) :
           convs' = [convs EXCEPT ![turn.key] =
                        [conv EXCEPT !.messages =
                            Append(@, [Msg(nextMsg, "assistant") EXCEPT !.calls = n])]]
    /\ turn' = [turn EXCEPT !.hadToolCalls = TRUE, !.emptyRetries = 0,
                            !.chats = @ + 1, !.pending = n, !.spare = TRUE,
                            !.empties = 0]
    /\ nextMsg' = nextMsg + 1
    /\ pc' = "tools"
    /\ UNCHANGED disk

\* One tool call.  Whatever happens to it (unknown tool, bad arguments, a
\* hook that blocks it, an error, a result) it gets one tool message.
RunTool(size) ==
    LET ms == Conv.messages
        asked == Max({i \in DOMAIN ms : ms[i].calls > 0})
    IN  /\ pc = "tools"
        /\ turn.pending > 0
        /\ convs' = WithMessages(Append(ms,
                       [id |-> nextMsg, role |-> "tool", calls |-> 0,
                        answers |-> ms[asked].id, covers |-> {}, tokens |-> size]))
        /\ turn' = [turn EXCEPT !.pending = @ - 1]
        /\ nextMsg' = nextMsg + 1
        /\ pc' = IF turn.pending = 1 THEN "compact" ELSE "tools"
        /\ UNCHANGED disk

\* An empty text after tool calls, with retries left: the recovery prompt.
ChatEmptyRetry ==
    /\ pc = "chat"
    /\ turn.hadToolCalls
    /\ turn.emptyRetries < MaxEmptyRetries
    /\ Room(2)
    /\ \E conv \in Measured(Conv) :
           convs' = [convs EXCEPT ![turn.key] =
                        [conv EXCEPT !.messages =
                            @ \o <<Msg(nextMsg, "assistant"), Msg(nextMsg + 1, "user")>>]]
    /\ turn' = [turn EXCEPT !.emptyRetries = @ + 1, !.spare = TRUE,
                            !.empties = @ + 1]
    /\ nextMsg' = nextMsg + 2
    /\ pc' = "compact"
    /\ UNCHANGED disk

(***************************************************************************)
(* conv.Messages[:preTurnLen], which process() takes when the intercept    *)
(* asks to prune.  Go truncates when preTurnLen is within the length,      *)
(* extends with zero values up to the capacity, and panics past it.  After *)
(* a compaction the capacity is the length until an append grows it, and   *)
(* how far is the allocator's choice.                                      *)
(***************************************************************************)
Pruned(ms) ==
    IF turn.preTurnLen <= Len(ms)
    THEN SubSeq(ms, 1, turn.preTurnLen)
    ELSE ms \o [i \in 1 .. turn.preTurnLen - Len(ms) |-> ZeroMessage]

PruneMayPanic(ms) == turn.preTurnLen > Len(ms)

PruneMaySucceed(ms) == turn.preTurnLen <= Len(ms) \/ turn.spare

\* The final text of a reply after it was emitted: the assistant message is
\* appended to what emit left, then an after-turn hook may inject a message.
Finish(conv, pruned) ==
    LET said == [conv EXCEPT !.messages = Append(@, Msg(nextMsg, "assistant"))]
    IN  /\ \/ /\ Room(1)
              /\ convs' = [convs EXCEPT ![turn.key] = said]
              /\ turn' = [turn EXCEPT !.pruned = @ \/ pruned]
              /\ nextMsg' = nextMsg + 1
              /\ pc' = "save"
           \/ /\ Room(2)
              /\ turn.injections < MaxInjections
              /\ convs' = [convs EXCEPT ![turn.key] =
                              [said EXCEPT !.messages = Append(@, Msg(nextMsg + 1, "user"))]]
              /\ turn' = [turn EXCEPT !.pruned = @ \/ pruned, !.hadToolCalls = FALSE,
                                      !.emptyRetries = 0, !.injections = @ + 1,
                                      !.spare = TRUE, !.empties = 0]
              /\ nextMsg' = nextMsg + 2
              /\ pc' = "compact"
        /\ UNCHANGED disk

\* A text, or the fallback for an empty one, that is delivered.
ChatReplies ==
    /\ pc = "chat"
    /\ \E conv \in Measured(Conv) : Finish(conv, FALSE)

\* A text whose delivery fails: the loop returns before appending it.
ChatReplyFails ==
    /\ pc = "chat"
    /\ \E conv \in Measured(Conv) : convs' = [convs EXCEPT ![turn.key] = conv]
    /\ pc' = "save"
    /\ UNCHANGED <<disk, turn, nextMsg>>

\* HEARTBEAT_OK in a heartbeat turn.
ChatAcknowledges ==
    /\ pc = "chat"
    /\ turn.heartbeat
    /\ PruneMaySucceed(Conv.messages)
    /\ \E conv \in Measured(Conv) :
           Finish([conv EXCEPT !.messages = Pruned(@)], TRUE)

\* The same, with a slice bound past the capacity: the process dies.
ChatAcknowledgesPanics ==
    /\ pc = "chat"
    /\ turn.heartbeat
    /\ PruneMayPanic(Conv.messages)
    /\ pc' = "panicked"
    /\ UNCHANGED <<convs, disk, turn, nextMsg>>

-----------------------------------------------------------------------------
(* The end of process(), and the process's end.                            *)

\* Store.Save: the rename publishes the whole history at once.
Save ==
    /\ pc = "save"
    /\ disk' = [disk EXCEPT ![HistoryPath(turn.key)] = Conv]
    /\ pc' = "idle"
    /\ turn' = Idle
    /\ UNCHANGED <<convs, nextMsg>>

\* Writing or renaming fails; the error is logged.
SaveFails ==
    /\ pc = "save"
    /\ pc' = "idle"
    /\ turn' = Idle
    /\ UNCHANGED <<convs, disk, nextMsg>>

\* The process stops, at any point, and is started again: memory is gone.
Restart ==
    /\ convs' = [k \in Keys |-> NotLoaded]
    /\ pc' = "idle"
    /\ turn' = Idle
    /\ UNCHANGED <<disk, nextMsg>>

Chat ==
    \/ ChatRateLimited
    \/ ChatFails
    \/ \E n \in 1 .. MaxCalls : ChatCallsTools(n)
    \/ ChatEmptyRetry
    \/ ChatReplies
    \/ ChatReplyFails
    \/ ChatAcknowledges
    \/ ChatAcknowledgesPanics

Next ==
    \/ \E k \in Keys, heartbeat \in BOOLEAN : Receive(k, heartbeat)
    \/ \E k \in Keys : ReceiveResetWithBody(k) \/ ReceiveResetOnly(k)
    \/ KeepHistory
    \/ CompactHistory
    \/ Chat
    \/ \E size \in ToolTokens : RunTool(size)
    \/ Save
    \/ SaveFails
    \/ Restart

Spec == Init /\ [][Next]_vars

-----------------------------------------------------------------------------
(* Properties.                                                             *)

\* The variables stay in their sets.
TypeOK ==
    /\ convs \in [Keys -> Conversation \cup {NotLoaded}]
    /\ disk \in [Paths -> Conversation \cup {NotLoaded}]
    /\ pc \in PCs
    /\ turn \in Turn
    /\ nextMsg \in Nat \ {0}

\* What is sent to the model, and what is on disk to be sent one day, is a
\* history in which every tool call is answered and every tool message
\* answers one, whatever was compacted, injected, failed or lost on the way.
RequestsWellFormed ==
    /\ pc = "chat" => CallsAnswered(Conv.messages)
    /\ \A p \in Paths : disk[p] # NotLoaded => CallsAnswered(disk[p].messages)

\* Every request starts with the system prompt HandleTurn prepends, which a
\* compaction keeps.
SystemPromptFirst ==
    pc = "chat" => Conv.messages[1] = SystemPrompt

\* The usage a conversation keeps was measured on the very prefix that
\* EstimateContextTokens lets it stand for: compaction, reset, hydration and
\* failed turns never leave a count for messages that are no longer there.
UsageCoversPrefix ==
    \A k \in Keys :
        convs[k] # NotLoaded /\ convs[k].usage # NoUsage
            /\ convs[k].usageIndex \in DOMAIN convs[k].messages
        => SubSeq(convs[k].messages, 1, convs[k].usageIndex) = convs[k].usage.prompt

\* A model that keeps answering with nothing is asked again at most
\* maxEmptyRetries times, also when compactions reset the counter between.
RecoveryPromptsBounded == turn.empties <= MaxEmptyRetries

\* A turn that is pruned takes nothing with it that the conversation knew
\* before the turn, not even when the turn compacted what it is pruned from.
PruneKeepsOlderHistory ==
    pc = "save" /\ turn.pruned => turn.older \subseteq Known(Conv.messages)

\* A HEARTBEAT_OK turn leaves the history as long as it found it
\* (channel.go: "discarding the exchange from history").
PruneDiscardsExchange ==
    pc = "save" /\ turn.pruned /\ turn.injections = 0
        => Len(Conv.messages) = turn.preTurnLen

(***************************************************************************)
(* What a conversation would recall if it were asked now, what its file    *)
(* would bring back, and the messages there have ever been.                *)
(***************************************************************************)
KnownTo(conv) == IF conv = NotLoaded THEN {} ELSE Known(conv.messages)

Recall == [k \in Keys |-> KnownTo(IF convs[k] = NotLoaded THEN disk[HistoryPath(k)]
                                  ELSE convs[k])]

OnFile == [k \in Keys |-> KnownTo(disk[HistoryPath(k)])]

Used == 1 .. nextMsg - 1

Memory == INSTANCE ConversationMemory WITH recall <- Recall, file <- OnFile, used <- Used

\* The agent loop, the compactor and the store implement ConversationMemory:
\* compacting, failing, retrying or restarting never loses a message that
\* the conversation or its file still owes, and a reset is final.
RemembersItsHistory == Memory!Spec
=============================================================================
