------------------------------ MODULE RateLimit -----------------------------
(***************************************************************************)
(* The retry loop of Runner.agentLoop around client.Chat                   *)
(* (internal/cli/runner.go): a rate-limited request is repeated after a    *)
(* backoff that doubles, until the streak of rate-limited answers is older *)
(* than maxRateLimitBackoff.  AgentTurn leaves this timing out: there a    *)
(* rate-limited Chat is repeated or given up on.                           *)
(*                                                                         *)
(* Times are in units of the caller's choosing; a Chat takes any time up   *)
(* to MaxChat, the HTTP client's timeout.                                  *)
(***************************************************************************)
EXTENDS Naturals

CONSTANTS
    Initial,  \* initialRateLimitBackoff
    Max,      \* maxRateLimitBackoff
    MaxChat   \* the longest time a Chat takes

ASSUME RateLimitAssumption ==
    /\ Initial \in Nat /\ Initial > 0
    /\ Max \in Nat
    /\ Initial <= Max
    /\ MaxChat \in Nat

VARIABLES
    pc,       \* where the turn is
    backoff,  \* rateLimitBackoff
    streak,   \* rateLimitStartedAt is set
    elapsed,  \* the time since rateLimitStartedAt
    slept     \* the time slept in this streak, up to Max + Max (not in the code)

vars == <<pc, backoff, streak, elapsed, slept>>

\* The variables of the loop as a turn finds them, and as a served request
\* leaves them.
NoStreak ==
    /\ backoff' = Initial
    /\ streak' = FALSE
    /\ elapsed' = 0
    /\ slept' = 0

Init ==
    /\ pc = "asking"
    /\ backoff = Initial
    /\ streak = FALSE
    /\ elapsed = 0
    /\ slept = 0

\* The next turn of the runner.
StartTurn ==
    /\ pc \in {"returned", "gave up"}
    /\ pc' = "asking"
    /\ NoStreak

\* The request is served: the loop goes on to the next one, or the turn ends.
ChatServed ==
    /\ pc = "asking"
    /\ pc' \in {"asking", "returned"}
    /\ NoStreak

\* Another error ends the turn.
ChatFails ==
    /\ pc = "asking"
    /\ pc' = "returned"
    /\ UNCHANGED <<backoff, streak, elapsed, slept>>

\* Bug for the checks: every rate-limited answer starts the streak anew.
Since_Restarts(d) == 0

\* The age of the streak when a Chat that took d ends.
Since(d) == IF streak THEN elapsed + d ELSE 0

\* A rate-limited answer, after d.
ChatRateLimited(d) ==
    /\ pc = "asking"
    /\ streak' = TRUE
    /\ elapsed' = Since(d)
    /\ pc' = IF Since(d) >= Max THEN "gave up" ELSE "sleeping"
    /\ UNCHANGED <<backoff, slept>>

Doubled(b) == IF 2 * b > Max THEN Max ELSE 2 * b

\* The bound on the history variable.
Capped(n) == IF n > Max + Max THEN Max + Max ELSE n

\* The timer of the backoff.
SleepEnds ==
    /\ pc = "sleeping"
    /\ pc' = "asking"
    /\ elapsed' = elapsed + backoff
    /\ slept' = Capped(slept + backoff)
    /\ backoff' = IF backoff < Max THEN Doubled(backoff) ELSE backoff
    /\ UNCHANGED streak

\* The turn's context ends during the sleep.
SleepCanceled ==
    /\ pc = "sleeping"
    /\ pc' = "returned"
    /\ UNCHANGED <<backoff, streak, elapsed, slept>>

Chat == ChatServed \/ ChatFails \/ \E d \in 0 .. MaxChat : ChatRateLimited(d)

Next == StartTurn \/ Chat \/ SleepEnds \/ SleepCanceled

Spec == Init /\ [][Next]_vars

\* Every Chat returns (the HTTP client has a timeout) and every timer fires.
FairSpec == Spec /\ WF_vars(Chat) /\ WF_vars(SleepEnds)

-----------------------------------------------------------------------------
(* Properties.                                                             *)

\* The variables stay in their sets.
TypeOK ==
    /\ pc \in {"asking", "sleeping", "returned", "gave up"}
    /\ backoff \in Initial .. Max
    /\ streak \in BOOLEAN
    /\ elapsed \in Nat
    /\ slept \in Nat

\* However the waits and the requests add up, a turn sleeps for less than
\* twice the budget in one streak, and no longer than the streak lasts ("I
\* retried with exponential backoff for 5 minutes").
RetryBudget == slept < Max + Max /\ slept <= elapsed

\* A request is first repeated after the initial backoff: nothing of an
\* earlier streak, or of an earlier turn, is left.
FreshStreak == ~streak => backoff = Initial /\ slept = 0 /\ elapsed = 0

\* A streak of rate-limited answers ends: a request is served, or the turn is
\* over.
RetriesEnd == streak ~> ~streak \/ pc \in {"returned", "gave up"}
=============================================================================
