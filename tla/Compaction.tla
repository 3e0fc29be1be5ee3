----------------------------- MODULE Compaction -----------------------------
(***************************************************************************)
(* internal/compaction: how a conversation that outgrows the context       *)
(* window is trimmed.  Everything here is a pure operator over a sequence  *)
(* of messages; AgentTurn uses them inside the agent loop.                 *)
(*                                                                         *)
(* A message is a record.  `id' names it (0 for a system prompt, a         *)
(* synthetic summary and a zero value, which carry no content of their     *)
(* own), `calls' is the number of tool calls an assistant message makes,   *)
(* `answers' the id of the assistant message a tool message answers,       *)
(* `covers' the ids a summary speaks for, `tokens' its chars/4 estimate.   *)
(* Go indexes from 0 and TLA+ from 1: an index here is one more than there.*)
(***************************************************************************)
EXTENDS Integers, Sequences, FiniteSetsExt

CONSTANTS
    ContextSize,       \* the model's window, in tokens
    ReserveTokens,     \* head-room kept free in the window
    KeepRecentTokens,  \* how much of the recent history a compaction keeps
    SummaryTokens      \* what the synthetic summary message is estimated at

ASSUME CompactionAssumption ==
    /\ ContextSize \in Nat /\ ReserveTokens \in Nat
    /\ KeepRecentTokens \in Nat /\ SummaryTokens \in Nat

\* "" is the role of a zero-valued Go message.
Roles == {"system", "user", "assistant", "tool", ""}

Message == [id : Nat, role : Roles, calls : Nat, answers : Nat,
            covers : SUBSET Nat, tokens : Nat]

ZeroMessage == [id |-> 0, role |-> "", calls |-> 0, answers |-> 0,
                covers |-> {}, tokens |-> 0]

\* Nothing measured yet: LastUsage == nil, and the ids of no summary.
NoUsage == [total |-> 0, prompt |-> <<>>]

EstimateTokens(m) == m.tokens

\* The estimate of ms[from..], by summing its messages.
TokensFrom(ms, from) ==
    MapThenSumSet(LAMBDA i : EstimateTokens(ms[i]), from .. Len(ms))

(***************************************************************************)
(* The API's own count stands for the prefix up to `usageIndex'; only the  *)
(* messages after it are estimated.                                        *)
(***************************************************************************)
EstimateContextTokens(ms, usage, usageIndex) ==
    IF usage = NoUsage \/ usageIndex \notin DOMAIN ms
    THEN TokensFrom(ms, 1)
    ELSE usage.total + TokensFrom(ms, usageIndex + 1)

ShouldCompact(tokens) ==
    /\ ContextSize > 0
    /\ tokens > ContextSize - ReserveTokens

ValidCutPoints(ms, start) ==
    {i \in start .. Len(ms) : ms[i].role \in {"user", "assistant"}}

\* Skips tool messages whose assistant message would be dropped.
SelfContained(ms, cut) ==
    Min({i \in cut .. Len(ms) + 1 : i = Len(ms) + 1 \/ ms[i].role # "tool"})

\* Bug for the checks: cut where the budget is filled, without the snap.
FindCutPoint_NoSnap(ms, start, keep) ==
    LET crossing == {i \in start .. Len(ms) : TokensFrom(ms, i) >= keep}
    IN  IF crossing = {} THEN Len(ms) + 1 ELSE Max(crossing)

(***************************************************************************)
(* The first message to keep.  `crossing' holds the positions from which   *)
(* the history already fills the keep budget; the walk backwards stops at  *)
(* the last of them and snaps forward to the next cut point, or stays at   *)
(* the last cut point when there is none.                                  *)
(***************************************************************************)
FindCutPoint(ms, start, keep) ==
    LET points == ValidCutPoints(ms, start)
        crossing == {i \in start .. Len(ms) : TokensFrom(ms, i) >= keep}
        after == IF crossing = {} THEN {}
                 ELSE {p \in points : p >= Max(crossing)}
    IN  IF points = {} THEN Len(ms) + 1
        ELSE SelfContained(ms, IF after = {} THEN Max(points) ELSE Min(after))

\* The ids a message speaks for, and those a history still knows of.
Says(m) == (IF m.id = 0 THEN {} ELSE {m.id}) \cup m.covers

Known(ms) == UNION {Says(ms[i]) : i \in DOMAIN ms}

SyntheticSummaryMessage(summary) ==
    [id |-> 0, role |-> "user", calls |-> 0, answers |-> 0,
     covers |-> summary, tokens |-> SummaryTokens]

\* Where Compact cuts; there is nothing to compact unless it is Compactable.
CutOf(ms) == FindCutPoint(ms, 2, KeepRecentTokens)

Compactable(ms) ==
    /\ Len(ms) >= 2
    /\ CutOf(ms) > 2
    /\ CutOf(ms) <= Len(ms)

\* What the summarizer is given: the dropped messages and the summary so far.
Summarize(ms, previousSummary) == Known(SubSeq(ms, 2, CutOf(ms) - 1)) \cup previousSummary

\* Bugs for the checks: the first message is summarized away; the cut is
\* kept neither in the summary nor in the tail.
Compact_DropsFirst(ms, previousSummary) ==
    <<SyntheticSummaryMessage(Summarize(ms, previousSummary))>>
        \o SubSeq(ms, CutOf(ms), Len(ms))

Compact_DropsCut(ms, previousSummary) ==
    <<ms[1], SyntheticSummaryMessage(Summarize(ms, previousSummary))>>
        \o SubSeq(ms, CutOf(ms) + 1, Len(ms))

\* The first message, the summary, and the kept tail.
Compact(ms, previousSummary) ==
    <<ms[1], SyntheticSummaryMessage(Summarize(ms, previousSummary))>>
        \o SubSeq(ms, CutOf(ms), Len(ms))

(***************************************************************************)
(* The shape a chat API accepts: the calls of an assistant message are     *)
(* answered by exactly the tool messages right behind it, and there is no  *)
(* tool message of any other kind and no zero value.                       *)
(***************************************************************************)
CallsAnswered(ms) ==
    \A i \in DOMAIN ms :
        /\ ms[i].role # ""
        /\ i + ms[i].calls <= Len(ms)
        /\ \A j \in i + 1 .. i + ms[i].calls :
               ms[j].role = "tool" /\ ms[j].answers = ms[i].id
        /\ ms[i].role = "tool" =>
               \E j \in 1 .. i - 1 : ms[j].role = "assistant" /\ i <= j + ms[j].calls
=============================================================================
