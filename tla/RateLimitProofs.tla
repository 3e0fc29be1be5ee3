--------------------------- MODULE RateLimitProofs --------------------------
(***************************************************************************)
(* The retry budget of RateLimit for every initial and maximal backoff and *)
(* every time a Chat may take.  The strengthening says that a sleep only   *)
(* starts within the budget.                                               *)
(***************************************************************************)
EXTENDS RateLimit, TLAPS

IInv ==
    /\ TypeOK
    /\ RetryBudget
    /\ FreshStreak
    /\ pc = "sleeping" => streak /\ elapsed < Max

\* What holds once the loop's variables are as a fresh turn finds them.
LEMMA Fresh ==
  ASSUME backoff = Initial, elapsed = 0, slept = 0
  PROVE  /\ backoff \in Initial .. Max /\ elapsed \in Nat /\ slept \in Nat
         /\ RetryBudget /\ FreshStreak
  <1>1. /\ backoff \in Initial .. Max /\ elapsed \in Nat /\ slept \in Nat
        /\ RetryBudget
    BY RateLimitAssumption DEF RetryBudget
  <1>2. FreshStreak BY DEF FreshStreak
  <1> QED BY <1>1, <1>2

\* The initial state satisfies the invariant.
LEMMA InitIInv == Init => IInv
  <1> SUFFICES ASSUME Init PROVE IInv
    OBVIOUS
  <1>1. /\ backoff \in Initial .. Max /\ elapsed \in Nat /\ slept \in Nat
        /\ RetryBudget /\ FreshStreak
    BY Fresh DEF Init
  <1>2. pc = "asking" /\ streak \in BOOLEAN BY DEF Init
  <1> QED BY <1>1, <1>2 DEF IInv, TypeOK

\* StartTurn and ChatServed leave no streak.
LEMMA NoStreakIInv ==
  ASSUME NoStreak, pc' \in {"asking", "returned"} PROVE IInv'
  <1>1. /\ backoff' \in Initial .. Max /\ elapsed' \in Nat /\ slept' \in Nat
        /\ RetryBudget' /\ FreshStreak'
    <2>1. backoff' = Initial /\ elapsed' = 0 /\ slept' = 0 BY DEF NoStreak
    <2>2. RetryBudget' BY <2>1, RateLimitAssumption DEF RetryBudget
    <2>3. FreshStreak' BY <2>1 DEF FreshStreak
    <2>4. backoff' \in Initial .. Max BY <2>1, RateLimitAssumption
    <2> QED BY <2>1, <2>2, <2>3, <2>4
  <1>2. streak' \in BOOLEAN BY DEF NoStreak
  <1>3. pc' \in {"asking", "sleeping", "returned", "gave up"} /\ pc' # "sleeping"
    OBVIOUS
  <1> QED BY <1>1, <1>2, <1>3 DEF IInv, TypeOK

\* The doubled backoff stays within the two constants.
LEMMA DoubledInRange ==
  ASSUME NEW b \in Initial .. Max PROVE Doubled(b) \in Initial .. Max
  BY RateLimitAssumption DEF Doubled

\* Every step keeps it.
LEMMA NextIInv == IInv /\ [Next]_vars => IInv'
  <1> SUFFICES ASSUME IInv, [Next]_vars PROVE IInv'
    OBVIOUS
  <1>n. /\ backoff \in Initial .. Max /\ elapsed \in Nat /\ slept \in Nat
        /\ slept < Max + Max /\ slept <= elapsed
    BY DEF IInv, TypeOK, RetryBudget
  <1>s. streak \in BOOLEAN /\ FreshStreak
    BY DEF IInv, TypeOK
  <1>1. CASE StartTurn BY <1>1, NoStreakIInv DEF StartTurn
  <1>2. CASE ChatServed BY <1>2, NoStreakIInv DEF ChatServed
  <1>3. CASE ChatFails
    BY <1>3 DEF ChatFails, IInv, TypeOK, RetryBudget, FreshStreak
  <1>4. ASSUME NEW d \in 0 .. MaxChat, ChatRateLimited(d) PROVE IInv'
    <2>1. Since(d) \in Nat /\ slept <= Since(d)
      <3>1. CASE streak
        <4>1. Since(d) = elapsed + d BY <3>1, Zenon DEF Since
        <4>2. elapsed + d \in Nat /\ slept <= elapsed + d
          BY <1>n, RateLimitAssumption
        <4> QED BY <4>1, <4>2
      <3>2. CASE ~streak
        <4>1. Since(d) = 0 /\ slept = 0 BY <3>2, <1>s, Zenon DEF Since, FreshStreak
        <4> QED BY <4>1
      <3> QED BY <3>1, <3>2
    <2>2. streak' = TRUE /\ elapsed' = Since(d) /\ backoff' = backoff /\ slept' = slept
      BY <1>4 DEF ChatRateLimited
    <2>3. pc' \in {"gave up", "sleeping"} /\ (pc' = "sleeping" => ~(Since(d) >= Max))
      BY <1>4 DEF ChatRateLimited
    <2>4. TypeOK' BY <2>1, <2>2, <2>3, <1>n DEF TypeOK
    <2>5. RetryBudget' BY <2>1, <2>2, <1>n DEF RetryBudget
    <2>6. FreshStreak' BY <2>2 DEF FreshStreak
    <2>7. pc' = "sleeping" => streak' /\ elapsed' < Max
      BY <2>1, <2>2, <2>3, RateLimitAssumption
    <2> QED BY <2>4, <2>5, <2>6, <2>7 DEF IInv
  <1>5. CASE SleepEnds
    <2>1. elapsed < Max /\ streak BY <1>5 DEF SleepEnds, IInv
    <2>2. slept + backoff < Max + Max
      BY <2>1, <1>n, RateLimitAssumption
    <2>3. slept' = slept + backoff /\ elapsed' = elapsed + backoff
      BY <1>5, <2>2, <1>n, RateLimitAssumption DEF SleepEnds, Capped
    <2>4. backoff' \in Initial .. Max
      BY <1>5, <1>n, DoubledInRange DEF SleepEnds
    <2>5. pc' = "asking" /\ streak' = streak BY <1>5 DEF SleepEnds
    <2>6. TypeOK' BY <2>3, <2>4, <2>5, <1>n, <1>s, RateLimitAssumption DEF TypeOK
    <2>7. RetryBudget' BY <2>2, <2>3, <1>n, RateLimitAssumption DEF RetryBudget
    <2>8. FreshStreak' BY <2>1, <2>5 DEF FreshStreak
    <2> QED BY <2>5, <2>6, <2>7, <2>8 DEF IInv
  <1>6. CASE SleepCanceled
    BY <1>6 DEF SleepCanceled, IInv, TypeOK, RetryBudget, FreshStreak
  <1>7. CASE UNCHANGED vars
    BY <1>7 DEF vars, IInv, TypeOK, RetryBudget, FreshStreak
  <1> QED BY <1>1, <1>2, <1>3, <1>4, <1>5, <1>6, <1>7 DEF Next, Chat

\* Whatever the backoffs and however long the requests take, the sleeps of a
\* streak add up to less than twice the budget, and the next streak starts
\* with a clean slate (runner.go, the rate-limit branch of agentLoop).
THEOREM RetriesBounded == Spec => [](RetryBudget /\ FreshStreak)
  <1>1. IInv => RetryBudget /\ FreshStreak BY DEF IInv
  <1> QED BY InitIInv, NextIInv, <1>1, PTL DEF Spec
=============================================================================
