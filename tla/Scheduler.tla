----------------------------- MODULE Scheduler ------------------------------
(***************************************************************************)
(* internal/schedule: the persistent job store (store.go) and the ticker   *)
(* goroutine that fires due jobs into a buffered channel (ticker.go), with *)
(* the schedule tool (internal/tools/schedule.go) that adds and removes    *)
(* jobs from another goroutine, and the sched channel that takes events.   *)
(*                                                                         *)
(* A step is what happens under one acquisition of Store.mu or             *)
(* Scheduler.mu, or one operation on the events channel.  The process may  *)
(* stop and start again between any two steps; jobs.json is renamed into   *)
(* place, so a save happens or does not.                                   *)
(***************************************************************************)
EXTENDS Schedule, Sequences, FiniteSets, Functions

CONSTANTS
    NewSchedules,    \* the schedules the model asks for
    HeartbeatEvery,  \* the heartbeat's interval; 0 is no heartbeat
    MaxJobs,         \* bound: how many jobs are ever added
    MaxTime,         \* bound: when the clock stops
    Buffer,          \* the capacity of the events channel
    MaxRestarts,     \* bound: how often the process restarts
    MaxSaveFaults    \* bound: how many saves fail

ASSUME SchedulerAssumption ==
    /\ NewSchedules \subseteq JobSchedule
    /\ \A s \in NewSchedules : s.kind = "every" => s.every > 0
    /\ HeartbeatEvery \in Nat /\ Buffer \in Nat \ {0}
    /\ MaxJobs \in Nat /\ MaxTime \in Nat \ {0}
    /\ MaxRestarts \in Nat /\ MaxSaveFaults \in Nat

JobIDs == 1 .. MaxJobs

\* The synthetic job that heartbeat.Register injects.
Heartbeat == 0

Job == [schedule : JobSchedule, enabled : BOOLEAN, next : Nat, last : Nat]

VARIABLES
    now,        \* the clock
    jobs,       \* Store.jobs: id -> Job
    disk,       \* jobs.json: id -> Job
    synthetic,  \* Scheduler.synthetic: the heartbeat, if any
    tick,       \* the ticker goroutine
    events,     \* the events channel: a sequence of ids
    asked,      \* id -> the schedule asked for (not in the code)
    answer,     \* id -> what the schedule tool answered last (not in the code)
    fired,      \* id -> its firings (not in the code)
    restarts,   \* how often the process restarted
    faults      \* how many saves failed

vars == <<now, jobs, disk, synthetic, tick, events, asked, answer, fired,
          restarts, faults>>

NoJobs == [id \in {} |-> {}]

Put(store, id, job) ==
    [j \in DOMAIN store \cup {id} |-> IF j = id THEN job ELSE store[j]]

NewJob(s, t) ==
    [schedule |-> s, enabled |-> TRUE, next |-> NextRunAt(s, NoTime, t), last |-> NoTime]

\* What Register and Inject make of the heartbeat when the process starts.
Injected(t) ==
    IF HeartbeatEvery = 0 THEN NoJobs
    ELSE [id \in {Heartbeat} |-> NewJob(Every(HeartbeatEvery, t), t)]

\* Between two ticks.
NoTick == [pc |-> "idle", now |-> NoTime, todo |-> NoJobs, job |-> Heartbeat]

Init ==
    /\ now = 1
    /\ jobs = NoJobs
    /\ disk = NoJobs
    /\ synthetic = Injected(1)
    /\ tick = NoTick
    /\ events = <<>>
    /\ asked = [id \in JobIDs |-> At(1)]
    /\ answer = [id \in JobIDs |-> "none"]
    /\ fired = [id \in JobIDs |-> <<>>]
    /\ restarts = 0
    /\ faults = 0

\* Bug for the checks: the change is not saved.
Saved_Skipped == UNCHANGED <<disk, faults>>

\* save(): a rename, or an error that leaves the file as it was.
Saved == disk' = jobs' /\ UNCHANGED faults

SaveFails ==
    /\ faults < MaxSaveFaults
    /\ faults' = faults + 1
    /\ UNCHANGED disk

-----------------------------------------------------------------------------
(* The schedule tool.                                                      *)

\* Bug for the checks: a refused job stays in memory.
Refused_Kept(id, s) == jobs' = Put(jobs, id, NewJob(s, now))

\* What Add leaves in memory when the save fails.
Refused(id, s) == UNCHANGED jobs

\* add and wake: the job is stored, or refused if it cannot be saved.
Add(id, s) ==
    /\ answer[id] = "none"
    /\ \A other \in JobIDs : answer[other] = "none" => id <= other
    /\ asked' = [asked EXCEPT ![id] = s]
    /\ \/ /\ jobs' = Put(jobs, id, NewJob(s, now))
          /\ answer' = [answer EXCEPT ![id] = "scheduled"]
          /\ Saved
       \/ /\ Refused(id, s)
          /\ answer' = [answer EXCEPT ![id] = "refused"]
          /\ SaveFails
    /\ UNCHANGED <<now, synthetic, tick, events, fired, restarts>>

\* remove: a failed save is reported but not rolled back.
Remove(id) ==
    /\ id \in DOMAIN jobs
    /\ jobs' = Restrict(jobs, DOMAIN jobs \ {id})
    /\ \/ answer' = [answer EXCEPT ![id] = "removed"] /\ Saved
       \/ answer' = [answer EXCEPT ![id] = "unsure"] /\ SaveFails
    /\ UNCHANGED <<now, synthetic, tick, events, asked, fired, restarts>>

-----------------------------------------------------------------------------
(* The ticker goroutine.                                                   *)

Due(job, t) == job.enabled /\ job.next # NoTime /\ job.next <= t

DueIn(jobset, t) == Restrict(jobset, {id \in DOMAIN jobset : Due(jobset[id], t)})

\* tick() reads the clock and lists the jobs; those not due are passed over.
TickStart ==
    /\ tick.pc = "idle"
    /\ tick' = [pc |-> "fire", now |-> now, todo |-> DueIn(jobs, now), job |-> Heartbeat]
    /\ UNCHANGED <<now, jobs, disk, synthetic, events, asked, answer, fired,
                   restarts, faults>>

Rest(id) == Restrict(tick.todo, DOMAIN tick.todo \ {id})

\* List sorts by NextRunAt; the order of equals is the names' affair.
Foremost(id) ==
    /\ id \in DOMAIN tick.todo
    /\ \A other \in DOMAIN tick.todo : tick.todo[id].next <= tick.todo[other].next

Firing == [at |-> tick.now, life |-> restarts, saved |-> FALSE]

\* fire() of a listed job, into a channel with room.
Fire(id) ==
    /\ tick.pc = "fire" /\ Foremost(id)
    /\ Len(events) < Buffer
    /\ events' = Append(events, id)
    /\ fired' = [fired EXCEPT ![id] = Append(@, Firing)]
    /\ tick' = [tick EXCEPT !.pc = "mark", !.job = id, !.todo = Rest(id)]
    /\ UNCHANGED <<now, jobs, disk, synthetic, asked, answer, restarts, faults>>

\* fire() of a listed job, into a full channel: left for the next tick.
FireDropped(id) ==
    /\ tick.pc = "fire" /\ Foremost(id)
    /\ Len(events) = Buffer
    /\ tick' = [tick EXCEPT !.todo = Rest(id)]
    /\ UNCHANGED <<now, jobs, disk, synthetic, events, asked, answer, fired,
                   restarts, faults>>

\* Bug for the checks: the next time is not computed.
MarkedRun_KeepsNext(job, t) ==
    [job EXCEPT !.last = t, !.enabled = @ /\ job.schedule.kind # "at"]

\* What MarkRun makes of a job that ran at t.
MarkedRun(job, t) ==
    [job EXCEPT !.last = t, !.next = NextRunAt(job.schedule, t, t),
                !.enabled = @ /\ job.schedule.kind # "at"]

MarkedJobs(id) ==
    [j \in DOMAIN jobs |-> IF j = id THEN MarkedRun(jobs[j], tick.now) ELSE jobs[j]]

\* MarkRun, whose error tick() ignores: the job may be gone by now, and the
\* save may fail.
Mark ==
    LET id == tick.job
    IN  /\ tick.pc = "mark"
        /\ tick' = [tick EXCEPT !.pc = "fire"]
        /\ jobs' = MarkedJobs(id)
        /\ IF id \in DOMAIN jobs
           THEN \/ /\ Saved
                   /\ fired' = [fired EXCEPT ![id][Len(fired[id])].saved = TRUE]
                \/ SaveFails /\ UNCHANGED fired
           ELSE UNCHANGED <<disk, faults, fired>>
        /\ UNCHANGED <<now, synthetic, events, asked, answer, restarts>>

\* The synthetic jobs follow, under the scheduler's own lock.
TickSynthetic ==
    LET due == DueIn(synthetic, tick.now)
    IN  /\ tick.pc = "fire" /\ DOMAIN tick.todo = {}
        /\ IF DOMAIN due # {} /\ Len(events) < Buffer
           THEN /\ events' = Append(events, Heartbeat)
                /\ synthetic' = [synthetic EXCEPT ![Heartbeat] = MarkedRun(@, tick.now)]
           ELSE UNCHANGED <<events, synthetic>>
        /\ tick' = NoTick
        /\ UNCHANGED <<now, jobs, disk, asked, answer, fired, restarts, faults>>

-----------------------------------------------------------------------------
(* The clock, the consumer and the process.                                *)

Clock ==
    /\ now < MaxTime
    /\ now' = now + 1
    /\ UNCHANGED <<jobs, disk, synthetic, tick, events, asked, answer, fired,
                   restarts, faults>>

\* sched.Channel.Listen takes an event.
Receive ==
    /\ events # <<>>
    /\ events' = Tail(events)
    /\ UNCHANGED <<now, jobs, disk, synthetic, tick, asked, answer, fired,
                   restarts, faults>>

\* The process stops, between any two steps, and starts again: NewStore loads
\* the jobs as they were saved, overdue ones included, and heartbeat.Register
\* injects the heartbeat.
Restart ==
    /\ restarts < MaxRestarts
    /\ restarts' = restarts + 1
    /\ jobs' = disk
    /\ synthetic' = Injected(now)
    /\ tick' = NoTick
    /\ events' = <<>>
    /\ UNCHANGED <<now, disk, asked, answer, fired, faults>>

Tick == TickStart \/ (\E id \in JobIDs : Fire(id) \/ FireDropped(id)) \/ Mark \/ TickSynthetic

Tool ==
    \E id \in JobIDs : Remove(id) \/ \E s \in NewSchedules : Add(id, s)

Next == Tick \/ Tool \/ Clock \/ Receive \/ Restart

Spec == Init /\ [][Next]_vars

\* The ticker ticks and the sched channel listens.
FairSpec == Spec /\ WF_vars(Tick) /\ WF_vars(Receive)

-----------------------------------------------------------------------------
(* Properties.                                                             *)

\* What the schedule tool answered is durable: a job it scheduled is in the
\* file until it is removed, a job it refused or removed is not, whatever the
\* ticker does meanwhile and however often the process restarts.
AnswersAreDurable ==
    \A id \in JobIDs :
        /\ answer[id] = "scheduled" => id \in DOMAIN jobs /\ id \in DOMAIN disk
        /\ answer[id] \in {"refused", "removed"} => id \notin DOMAIN jobs \cup DOMAIN disk

\* Memory and file only part after a failed save.
DiskIsCurrent == faults = 0 => disk = jobs

\* A job fires once per occasion of its schedule: once in all for an at job,
\* once per period for an every job, however late its tick came.  It fires
\* again only after a restart that found the first firing unsaved.  A full
\* channel never swallows it: an at job is only disabled when it fired.
FiresOncePerOccasion ==
    /\ \A id \in JobIDs : \A i, j \in DOMAIN fired[id] :
        i < j /\ Occasion(asked[id], fired[id][i].at) >= Occasion(asked[id], fired[id][j].at)
            => ~fired[id][i].saved /\ fired[id][i].life < fired[id][j].life
    /\ \A id \in DOMAIN jobs : ~jobs[id].enabled => fired[id] # <<>>

\* No job fires before its time: an at job not before At, an every job not
\* before its anchor, a cron job not before its first instant.
NeverEarly ==
    \A id \in JobIDs : \A i \in DOMAIN fired[id] :
        LET s == asked[id]
            t == fired[id][i].at
        IN  IF s.kind = "cron" THEN Occasion(s, t) > 0 ELSE t >= s.start

\* The jobs and the heartbeat that are due.
DueNow(id) ==
    IF id = Heartbeat THEN id \in DOMAIN synthetic /\ Due(synthetic[id], now)
    ELSE id \in DOMAIN jobs /\ Due(jobs[id], now)

\* A job that is due does not stay due: it fires unless it is removed.  A full
\* channel only delays it (ticker.go: "the next tick will retry"), and so do
\* the persisted jobs that a tick fires before the heartbeat.
DueJobsFire == \A id \in JobIDs \cup {Heartbeat} : DueNow(id) ~> ~DueNow(id)
=============================================================================
