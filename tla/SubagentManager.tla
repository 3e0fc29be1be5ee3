--------------------------- MODULE SubagentManager --------------------------
(***************************************************************************)
(* internal/subagents/manager.go: the goroutine that executes each child   *)
(* run, and the callers that spawn, wait for and kill runs through the     *)
(* sessions_spawn and subagents tools.                                     *)
(*                                                                         *)
(* A step is what happens between two acquisitions of Manager.mu or two    *)
(* channel operations.  What a run's agent loop does while it runs (its    *)
(* chats, tools and usage counters) is AgentTurn's subject; here it ends   *)
(* one way or another, or sits in a tool call that does not come back.     *)
(* List only reads.                                                        *)
(***************************************************************************)
EXTENDS Naturals, FiniteSets

CONSTANTS
    MaxRuns,    \* bound: how many runs are ever spawned
    Callers,    \* the goroutines that call the manager
    SetupFails  \* may the client, its log directory or the tools fail?

ASSUME SubagentAssumption == MaxRuns \in Nat /\ SetupFails \in BOOLEAN

Runs == 1 .. MaxRuns

Terminal == {"completed", "error", "timeout", "canceled"}

VARIABLES
    nextID,    \* Manager.nextID
    snapshot,  \* run -> RunSnapshot
    exec,      \* run -> where its execute() goroutine is
    outcome,   \* run -> what RunConversation returned
    armed,     \* run -> childRun.cancel is set
    ctx,       \* run -> the state of its context
    timed,     \* run -> TimeoutMS > 0
    done,      \* run -> childRun.done is closed
    caller,    \* caller -> what it is doing
    reply      \* caller -> what its last call returned

vars == <<nextID, snapshot, exec, outcome, armed, ctx, timed, done, caller, reply>>

Snapshot == [status : {"none", "running"} \cup Terminal, started : BOOLEAN,
             completedAt : BOOLEAN, result : BOOLEAN, error : BOOLEAN]

ExecPC == {"none", "start", "armed", "setup", "running", "held",
           "finishing", "closing", "finished"}

Outcome == {"none", "ok", "failed", "deadline", "canceled"}

\* A waiting caller has a deadline of its own iff `timed'; `spawned' tells a
\* Spawn with Wait from a later Wait.
Caller == [pc : {"idle", "starting", "waiting", "woken", "canceling"}, run : Runs \cup {0},
           timed : BOOLEAN, spawned : BOOLEAN]

Free == [pc |-> "idle", run |-> 0, timed |-> FALSE, spawned |-> FALSE]

Reply == [kind : {"none", "started", "finished", "killed", "expired", "aborted"},
          run : Runs \cup {0}, spawned : BOOLEAN,
          status : {"none", "running"} \cup Terminal]

Answer(kind, r, spawned, status) ==
    [kind |-> kind, run |-> r, spawned |-> spawned, status |-> status]

NoRun == [status |-> "none", started |-> FALSE, completedAt |-> FALSE,
          result |-> FALSE, error |-> FALSE]

NewRun == [status |-> "running", started |-> FALSE, completedAt |-> FALSE,
           result |-> FALSE, error |-> FALSE]

Init ==
    /\ nextID = 0
    /\ snapshot = [r \in Runs |-> NoRun]
    /\ exec = [r \in Runs |-> "none"]
    /\ outcome = [r \in Runs |-> "none"]
    /\ armed = [r \in Runs |-> FALSE]
    /\ ctx = [r \in Runs |-> "live"]
    /\ timed = [r \in Runs |-> FALSE]
    /\ done = [r \in Runs |-> FALSE]
    /\ caller = [c \in Callers |-> Free]
    /\ reply = [c \in Callers |-> Answer("none", 0, FALSE, "none")]

-----------------------------------------------------------------------------
(* The callers.                                                            *)

Return(c, answer) ==
    /\ caller' = [caller EXCEPT ![c] = Free]
    /\ reply' = [reply EXCEPT ![c] = answer]

Go(c, pc, r, limit, spawned) ==
    /\ caller' = [caller EXCEPT ![c] = [pc |-> pc, run |-> r,
                                        timed |-> limit, spawned |-> spawned]]
    /\ UNCHANGED reply

\* Spawn: the run is registered and its goroutine started.  With Wait the
\* caller then waits under the same timeout as the run.
Spawn(c, wait, limit) ==
    LET r == nextID + 1
    IN  /\ caller[c].pc = "idle"
        /\ nextID < MaxRuns
        /\ nextID' = r
        /\ snapshot' = [snapshot EXCEPT ![r] = NewRun]
        /\ exec' = [exec EXCEPT ![r] = "start"]
        /\ timed' = [timed EXCEPT ![r] = limit]
        /\ Go(c, IF wait THEN "waiting" ELSE "starting", r, limit, TRUE)
        /\ UNCHANGED <<outcome, armed, ctx, done>>

\* A Spawn without Wait reports the status it reads, without the lock.
SpawnReturns(c) ==
    LET r == caller[c].run
    IN  /\ caller[c].pc = "starting"
        /\ Return(c, Answer("started", r, TRUE, snapshot[r].status))
        /\ UNCHANGED <<nextID, snapshot, exec, outcome, armed, ctx, timed, done>>

Wait(c, r, limit) ==
    /\ caller[c].pc = "idle"
    /\ r <= nextID
    /\ Go(c, "waiting", r, limit, FALSE)
    /\ UNCHANGED <<nextID, snapshot, exec, outcome, armed, ctx, timed, done>>

\* wait's select takes the closed channel ...
WaitWakes(c) ==
    /\ caller[c].pc = "waiting"
    /\ done[caller[c].run]
    /\ caller' = [caller EXCEPT ![c].pc = "woken"]
    /\ UNCHANGED <<nextID, snapshot, exec, outcome, armed, ctx, timed, done, reply>>

\* ... and reads the snapshot under the lock,
WaitReads(c) ==
    LET r == caller[c].run
    IN  /\ caller[c].pc = "woken"
        /\ Return(c, Answer("finished", r, caller[c].spawned, snapshot[r].status))
        /\ UNCHANGED <<nextID, snapshot, exec, outcome, armed, ctx, timed, done>>

\* or takes the end of the wait's context: its own deadline,
WaitExpires(c) ==
    /\ caller[c].pc = "waiting"
    /\ caller[c].timed
    /\ Return(c, Answer("expired", 0, caller[c].spawned, "none"))
    /\ UNCHANGED <<nextID, snapshot, exec, outcome, armed, ctx, timed, done>>

\* or the cancellation of the calling turn.
WaitAborted(c) ==
    /\ caller[c].pc = "waiting"
    /\ Return(c, Answer("aborted", 0, caller[c].spawned, "none"))
    /\ UNCHANGED <<nextID, snapshot, exec, outcome, armed, ctx, timed, done>>

\* Kill of a run that is not running reports it as it is.
KillFinished(c, r) ==
    /\ caller[c].pc = "idle"
    /\ snapshot[r].status \in Terminal
    /\ Return(c, Answer("killed", r, FALSE, snapshot[r].status))
    /\ UNCHANGED <<nextID, snapshot, exec, outcome, armed, ctx, timed, done>>

\* The cancel functions Kill may read.  execute() stores it without the lock:
\* until its first update() a reader may still see nil.
CancelSeen(r) ==
    IF exec[r] = "armed" THEN BOOLEAN ELSE {armed[r]}

Killed(s) == [s EXCEPT !.status = "canceled", !.completedAt = TRUE]

\* Kill of a running one: marked under the lock, cancelled after it.
KillRunning(c, r) ==
    /\ caller[c].pc = "idle"
    /\ snapshot[r].status = "running"
    /\ snapshot' = [snapshot EXCEPT ![r] = Killed(@)]
    /\ \E seen \in CancelSeen(r) :
           IF seen
           THEN Go(c, "canceling", r, FALSE, FALSE)
           ELSE Return(c, Answer("killed", r, FALSE, "canceled"))
    /\ UNCHANGED <<nextID, exec, outcome, armed, ctx, timed, done>>

\* Bug for the checks: the cancel function is read but not called.
KillCancels_Forgets(c) ==
    /\ caller[c].pc = "canceling"
    /\ Return(c, Answer("killed", caller[c].run, FALSE, "canceled"))
    /\ UNCHANGED <<nextID, snapshot, exec, outcome, armed, ctx, timed, done>>

KillCancels(c) ==
    LET r == caller[c].run
    IN  /\ caller[c].pc = "canceling"
        /\ ctx' = [ctx EXCEPT ![r] = IF @ = "live" THEN "canceled" ELSE @]
        /\ Return(c, Answer("killed", r, FALSE, "canceled"))
        /\ UNCHANGED <<nextID, snapshot, exec, outcome, armed, timed, done>>

-----------------------------------------------------------------------------
(* execute(), the goroutine of a run.                                      *)

\* Makes the context and stores its cancel function, without the lock.
Arm(r) ==
    /\ exec[r] = "start"
    /\ armed' = [armed EXCEPT ![r] = TRUE]
    /\ exec' = [exec EXCEPT ![r] = "armed"]
    /\ UNCHANGED <<nextID, snapshot, outcome, ctx, timed, done, caller, reply>>

MarkStarted(r) ==
    /\ exec[r] = "armed"
    /\ snapshot' = [snapshot EXCEPT ![r].started = TRUE]
    /\ exec' = [exec EXCEPT ![r] = "setup"]
    /\ UNCHANGED <<nextID, outcome, armed, ctx, timed, done, caller, reply>>

SetupFailed(s) ==
    [s EXCEPT !.status = "error", !.error = TRUE, !.completedAt = TRUE]

\* The client factory, the log directory or the runtime fails: an error,
\* whatever the status was.
SetupError(r) ==
    /\ exec[r] = "setup"
    /\ SetupFails
    /\ snapshot' = [snapshot EXCEPT ![r] = SetupFailed(@)]
    /\ exec' = [exec EXCEPT ![r] = "closing"]
    /\ UNCHANGED <<nextID, outcome, armed, ctx, timed, done, caller, reply>>

SetupDone(r) ==
    /\ exec[r] = "setup"
    /\ exec' = [exec EXCEPT ![r] = "running"]
    /\ UNCHANGED <<nextID, snapshot, outcome, armed, ctx, timed, done, caller, reply>>

\* The run is in a bash call.  The command does not start under a context that
\* has ended.
Holds(r) ==
    /\ exec[r] = "running"
    /\ ctx[r] = "live"
    /\ exec' = [exec EXCEPT ![r] = "held"]
    /\ UNCHANGED <<nextID, snapshot, outcome, armed, ctx, timed, done, caller, reply>>

\* The call comes back when the command is over and nobody holds its output
\* any more.  The end of the context kills the shell, but not a process that
\* the shell has started: that one can hold the output for as long as it runs.
Released(r) ==
    /\ exec[r] = "held"
    /\ exec' = [exec EXCEPT ![r] = "running"]
    /\ UNCHANGED <<nextID, snapshot, outcome, armed, ctx, timed, done, caller, reply>>

\* RunConversation returns o: a text, an error, the HTTP client's own
\* deadline, or the end of the run's context.
LoopReturns(r, o) ==
    /\ exec[r] = "running"
    /\ o = "canceled" => ctx[r] = "canceled"
    /\ outcome' = [outcome EXCEPT ![r] = o]
    /\ exec' = [exec EXCEPT ![r] = "finishing"]
    /\ UNCHANGED <<nextID, snapshot, armed, ctx, timed, done, caller, reply>>

\* Bug for the checks: a failure is recorded under the loop's own name.
StatusOf_Unnamed(o) ==
    IF o = "ok" THEN "completed" ELSE o

StatusOf(o) ==
    CASE o = "ok" -> "completed"
      [] o = "deadline" -> "timeout"
      [] o = "canceled" -> "canceled"
      [] OTHER -> "error"

\* Bug for the checks: the last update does not look for a Kill.
Recorded_Overwrites(s, o) ==
    [s EXCEPT !.completedAt = TRUE, !.status = StatusOf(o),
              !.result = (o = "ok"), !.error = (o # "ok")]

\* Bug for the checks: a result that comes after a Kill is kept.
Recorded_KeepsResult(s, o) ==
    [s EXCEPT !.completedAt = TRUE, !.result = (o = "ok"), !.error = (o # "ok"),
              !.status = IF @ = "canceled" THEN @ ELSE StatusOf(o)]

\* The last update of the snapshot: a Kill that came first stands.
Recorded(s, o) ==
    IF s.status = "canceled" THEN [s EXCEPT !.completedAt = TRUE]
    ELSE [s EXCEPT !.completedAt = TRUE, !.status = StatusOf(o),
                   !.result = (o = "ok"), !.error = (o # "ok")]

\* Bug for the checks: done is closed before the outcome is recorded.
Record_AfterClose(r) ==
    /\ exec[r] = "finishing"
    /\ exec' = [exec EXCEPT ![r] = "closing"]
    /\ UNCHANGED <<nextID, snapshot, outcome, armed, ctx, timed, done, caller, reply>>

Record(r) ==
    /\ exec[r] = "finishing"
    /\ snapshot' = [snapshot EXCEPT ![r] = Recorded(@, outcome[r])]
    /\ exec' = [exec EXCEPT ![r] = "closing"]
    /\ UNCHANGED <<nextID, outcome, armed, ctx, timed, done, caller, reply>>

\* Bug for the checks: done is closed on the last return only.
Close_NotDeferred(r) ==
    /\ exec[r] = "closing"
    /\ outcome[r] # "none"
    /\ done' = [done EXCEPT ![r] = TRUE]
    /\ exec' = [exec EXCEPT ![r] = "finished"]
    /\ UNCHANGED <<nextID, snapshot, outcome, armed, ctx, timed, caller, reply>>

\* The deferred close of childRun.done.
Close(r) ==
    /\ exec[r] = "closing"
    /\ done' = [done EXCEPT ![r] = TRUE]
    /\ exec' = [exec EXCEPT ![r] = "finished"]
    /\ UNCHANGED <<nextID, snapshot, outcome, armed, ctx, timed, caller, reply>>

\* The timer of context.WithTimeout.
DeadlineFires(r) ==
    /\ timed[r] /\ armed[r]
    /\ ctx[r] = "live"
    /\ exec[r] # "finished"
    /\ ctx' = [ctx EXCEPT ![r] = "deadline"]
    /\ UNCHANGED <<nextID, snapshot, exec, outcome, armed, timed, done, caller, reply>>

Execute(r) ==
    \/ Arm(r) \/ MarkStarted(r)
    \/ SetupError(r) \/ SetupDone(r)
    \/ Holds(r) \/ Released(r)
    \/ \E o \in Outcome \ {"none"} : LoopReturns(r, o)
    \/ Record(r) \/ Close(r)
    \/ DeadlineFires(r)

Call(c) ==
    \/ \E wait, limit \in BOOLEAN : Spawn(c, wait, limit)
    \/ SpawnReturns(c)
    \/ \E r \in Runs, limit \in BOOLEAN : Wait(c, r, limit)
    \/ WaitWakes(c) \/ WaitReads(c) \/ WaitExpires(c) \/ WaitAborted(c)
    \/ \E r \in Runs : KillFinished(c, r) \/ KillRunning(c, r)
    \/ KillCancels(c)

Next ==
    \/ \E r \in Runs : Execute(r)
    \/ \E c \in Callers : Call(c)

Spec == Init /\ [][Next]_vars

(***************************************************************************)
(* The Go scheduler runs every goroutine that can run, and timers fire.    *)
(* The agent loop is only known to return once its context has ended, and  *)
(* only while it is not held in a tool call: a model may keep calling      *)
(* tools for ever, and nothing makes a held call come back.                *)
(***************************************************************************)
Ending(r) == ctx[r] # "live" /\ \E o \in Outcome \ {"none"} : LoopReturns(r, o)

Fairness ==
    /\ \A r \in Runs :
           /\ WF_vars(Arm(r) \/ MarkStarted(r) \/ SetupError(r) \/ SetupDone(r)
                        \/ Record(r) \/ Close(r))
           /\ WF_vars(DeadlineFires(r))
           /\ WF_vars(Ending(r))
    /\ \A c \in Callers :
           WF_vars(WaitWakes(c) \/ WaitReads(c) \/ KillCancels(c))

FairSpec == Spec /\ Fairness

-----------------------------------------------------------------------------
(* Properties.                                                             *)

\* The variables stay in their sets.
TypeOK ==
    /\ nextID \in 0 .. MaxRuns
    /\ snapshot \in [Runs -> Snapshot]
    /\ exec \in [Runs -> ExecPC]
    /\ outcome \in [Runs -> Outcome]
    /\ armed \in [Runs -> BOOLEAN]
    /\ ctx \in [Runs -> {"live", "canceled", "deadline"}]
    /\ timed \in [Runs -> BOOLEAN]
    /\ done \in [Runs -> BOOLEAN]
    /\ caller \in [Callers -> Caller]
    /\ reply \in [Callers -> Reply]

\* A wait that reports a run finished reports a terminal status, whatever
\* kills, timeouts and failures raced with the run's end.
WaitReportsTheEnd ==
    \A c \in Callers : reply[c].kind = "finished" => reply[c].status \in Terminal

\* A snapshot is consistent whenever the lock is free: it is completed iff
\* its status is terminal, and carries a result only when it completed.
SnapshotConsistent ==
    \A r \in Runs :
        /\ snapshot[r].completedAt <=> snapshot[r].status \in Terminal
        /\ snapshot[r].result <=> snapshot[r].status = "completed"

\* A terminal status is final, but for a cancelled run whose setup fails: a
\* killed run never turns out completed, a completed one never cancelled, and
\* nobody is told that a run is over before it has its status.
Lifecycle == INSTANCE SubagentLifecycle WITH
    status <- [r \in Runs |-> snapshot[r].status],
    over <- {r \in Runs : done[r]}

ImplementsLifecycle == Lifecycle!Spec

\* Every tool call of the run comes back.
CallsReturn(r) == []<>(exec[r] # "held")

\* A run with a timeout whose tool calls come back ends and releases its
\* waiters, whichever way its setup and its agent loop go.
TimeoutEndsRun ==
    \A r \in Runs :
        CallsReturn(r) => (exec[r] # "none" /\ timed[r] ~> done[r])

\* A Kill that found the cancel function ends a run whose tool calls come back.
CancelEndsRun ==
    \A c \in Callers, r \in Runs :
        CallsReturn(r) => (caller[c].pc = "canceling" /\ caller[c].run = r ~> done[r])

\* A killed run whose tool calls come back ends (tools.go: "action=kill to
\* cancel a background child run that is no longer needed").
KillEndsRun ==
    \A r \in Runs :
        CallsReturn(r) => (snapshot[r].status = "canceled" ~> done[r])

\* A run with a timeout is over some day, whatever it does (tools.go:
\* "timeout_ms ... Optional timeout for the child run").
TimeoutBoundsRun ==
    \A r \in Runs :
        exec[r] # "none" /\ timed[r] ~> snapshot[r].status \in Terminal
=============================================================================
