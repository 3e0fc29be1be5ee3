------------------------------ MODULE Schedule ------------------------------
(***************************************************************************)
(* internal/schedule/schedule.go: when a job fires next.                   *)
(*                                                                         *)
(* A time is a positive number and NoTime stands for a nil *time.Time.  A  *)
(* cron expression is the set of the instants it denotes: which ones those *)
(* are is the cron library's affair.                                       *)
(***************************************************************************)
EXTENDS Integers, FiniteSetsExt

NoTime == 0

\* kind=at uses `start' (At); kind=every uses `start' (Anchor) and `every';
\* kind=cron uses `instants'.
JobSchedule ==
    [kind : {"at", "every", "cron"}, start : Nat, every : Nat, instants : SUBSET Nat]

At(t) == [kind |-> "at", start |-> t, every |-> 0, instants |-> {}]

Every(d, anchor) == [kind |-> "every", start |-> anchor, every |-> d, instants |-> {}]

Cron(instants) == [kind |-> "cron", start |-> 0, every |-> 0, instants |-> instants]

Later(s, t) == IF s > t THEN s ELSE t

\* The cron library's Next: the first instant strictly after t.
CronNext(instants, t) ==
    LET after == {i \in instants : i > t}
    IN  IF after = {} THEN NoTime ELSE Min(after)

\* Bug for the checks: the next occasion may be the present one.
EveryNext_NotStrict(s, last, now) ==
    IF last = NoTime /\ now < s.start
    THEN s.start
    ELSE LET base == Later(s.start, Later(now, last))
         IN  s.start + ((base - s.start) \div s.every) * s.every

\* Bug for the checks: the grid begins before its anchor.
EveryNext_BeforeAnchor(s, last, now) ==
    s.start + ((Later(now, last) - s.start) \div s.every + 1) * s.every

\* The first point of the grid strictly after now and the last run; the anchor
\* itself for a job that never ran.
EveryNext(s, last, now) ==
    IF last = NoTime /\ now < s.start
    THEN s.start
    ELSE LET base == Later(s.start, Later(now, last))
         IN  s.start + ((base - s.start) \div s.every + 1) * s.every

\* The time at which a job of schedule s that last ran at `last' fires next.
NextRunAt(s, last, now) ==
    CASE s.kind = "at"    -> IF last = NoTime THEN s.start ELSE NoTime
      [] s.kind = "every" -> EveryNext(s, last, now)
      [] s.kind = "cron"  -> CronNext(s.instants, Later(now, last))

\* Which of the occasions of schedule s the time t belongs to; an at job has
\* one, an every job one per period from its anchor, a cron job one per
\* instant.  (A notion of the properties, not of the code.)
Occasion(s, t) ==
    CASE s.kind = "at"    -> 0
      [] s.kind = "every" -> (t - s.start) \div s.every
      [] s.kind = "cron"  -> Cardinality({i \in s.instants : i <= t})
=============================================================================
