---------------------------- MODULE MCScheduler -----------------------------
(* Scheduler on small instances. *)
EXTENDS Scheduler, TLC

\* A one-shot, a grid whose anchor lies ahead of the first additions, and a
\* cron expression with two instants.
MCSchedules == {At(1), Every(1, 3), Cron({2, 3})}
=============================================================================
