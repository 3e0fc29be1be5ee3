------------------------ MODULE SubagentManagerProofs -----------------------
(***************************************************************************)
(* The safety of SubagentManager for any number of runs and callers: its   *)
(* types, the invariant that ties a run's snapshot to its goroutine, and   *)
(* the refinement of SubagentLifecycle.                                    *)
(***************************************************************************)
EXTENDS SubagentManager, TLAPS

\* What ties a run's snapshot to where its goroutine is.  The last conjunct
\* but one says that only a Kill can give a status before the goroutine does.
RunInv(r) ==
    /\ r <= nextID <=> exec[r] # "none"
    /\ exec[r] = "none" <=> snapshot[r].status = "none"
    /\ exec[r] \in {"closing", "finished"} => snapshot[r].status \in Terminal
    /\ done[r] <=> exec[r] = "finished"
    /\ snapshot[r].status \in Terminal /\ exec[r] \notin {"closing", "finished"}
           => snapshot[r].status = "canceled"
    /\ exec[r] = "finishing" => outcome[r] # "none"

\* A caller that is not idle deals with a run there is, and one that was woken
\* with a run that is over.
CallerInv(c) ==
    /\ caller[c].pc # "idle" => caller[c].run \in Runs
    /\ caller[c].pc = "woken" => done[caller[c].run]

IInv ==
    /\ TypeOK
    /\ \A r \in Runs : RunInv(r)
    /\ SnapshotConsistent
    /\ \A c \in Callers : CallerInv(c)
    /\ WaitReportsTheEnd

\* The initial state satisfies the invariant.
LEMMA InitIInv == Init => IInv
  BY SubagentAssumption
     DEF Init, IInv, TypeOK, RunInv, CallerInv, SnapshotConsistent, WaitReportsTheEnd,
         Runs, Snapshot, NoRun, ExecPC, Outcome, Caller, Free, Reply, Answer, Terminal

\* What the updates do to a snapshot, one by one.
LEMMA Updates ==
  ASSUME NEW s \in Snapshot
  PROVE  /\ Killed(s) \in Snapshot
         /\ Killed(s).status = "canceled" /\ Killed(s).completedAt
         /\ Killed(s).result = s.result
         /\ SetupFailed(s) \in Snapshot
         /\ SetupFailed(s).status = "error" /\ SetupFailed(s).completedAt
         /\ SetupFailed(s).result = s.result
  BY DEF Snapshot, Killed, SetupFailed, Terminal

\* The locked write at the end of execute: an ended status, and a kill's is kept.
LEMMA Recording ==
  ASSUME NEW s \in Snapshot, NEW o \in Outcome
  PROVE  /\ Recorded(s, o) \in Snapshot
         /\ Recorded(s, o).status \in Terminal /\ Recorded(s, o).completedAt
         /\ s.status = "canceled" =>
                Recorded(s, o).status = "canceled" /\ Recorded(s, o).result = s.result
         /\ s.status # "canceled" =>
                (Recorded(s, o).result <=> Recorded(s, o).status = "completed")
  BY DEF Snapshot, Recorded, StatusOf, Outcome, Terminal

\* A run that Spawn registers is running and empty.
LEMMA FreshRun ==
  /\ NewRun \in Snapshot
  /\ NewRun.status = "running" /\ ~NewRun.completedAt /\ ~NewRun.result
  BY DEF Snapshot, NewRun

\* The bookkeeping of a caller, one way to return and one to go on.
LEMMA Answers ==
  ASSUME NEW kind \in {"started", "finished", "killed", "expired", "aborted"},
         NEW r \in Runs \cup {0}, NEW spawned \in BOOLEAN,
         NEW status \in {"none", "running"} \cup Terminal
  PROVE  Answer(kind, r, spawned, status) \in Reply
  BY DEF Answer, Reply

\* A call that returns leaves its caller free, with an answer.
LEMMA Returning ==
  ASSUME TypeOK, NEW c \in Callers, NEW answer \in Reply, Return(c, answer)
  PROVE  caller' \in [Callers -> Caller] /\ reply' \in [Callers -> Reply]
  <1>1. Free \in Caller BY DEF Free, Caller
  <1> QED BY <1>1 DEF TypeOK, Return

\* A call that goes on leaves its caller at a later step.
LEMMA Going ==
  ASSUME TypeOK, NEW c \in Callers, NEW pc \in {"starting", "waiting", "canceling"},
         NEW r \in Runs, NEW limit \in BOOLEAN, NEW spawned \in BOOLEAN,
         Go(c, pc, r, limit, spawned)
  PROVE  caller' \in [Callers -> Caller] /\ reply' \in [Callers -> Reply]
  <1>1. [pc |-> pc, run |-> r, timed |-> limit, spawned |-> spawned] \in Caller
    BY DEF Caller
  <1> QED BY <1>1 DEF TypeOK, Go

\* The assumption, by name.
LEMMA MaxRunsNat == MaxRuns \in Nat
  BY SubagentAssumption

\* The variables stay in their sets.
LEMMA TypeStep == IInv /\ [Next]_vars => TypeOK'
  <1> SUFFICES ASSUME IInv, [Next]_vars PROVE TypeOK'
    OBVIOUS
  <1>t. TypeOK BY DEF IInv
  <1>s. \A r \in Runs : /\ snapshot[r] \in Snapshot
                        /\ snapshot[r].status \in {"none", "running"} \cup Terminal
                        /\ outcome[r] \in Outcome
    BY <1>t DEF TypeOK, Snapshot
  <1>c. \A c \in Callers : caller[c] \in Caller /\ caller[c].spawned \in BOOLEAN
    BY <1>t DEF TypeOK, Caller
  <1>1. ASSUME NEW r \in Runs, Execute(r) PROVE TypeOK'
    <2> USE <1>t DEF TypeOK
    <2>1. CASE Arm(r) BY <2>1 DEF Arm, ExecPC
    <2>2. CASE MarkStarted(r)
      <3>1. [snapshot[r] EXCEPT !.started = TRUE] \in Snapshot BY <1>s DEF Snapshot
      <3> QED BY <2>2, <3>1 DEF MarkStarted, ExecPC
    <2>3. CASE SetupError(r)
      <3>1. SetupFailed(snapshot[r]) \in Snapshot BY <1>s, Updates
      <3> QED BY <2>3, <3>1 DEF SetupError, ExecPC
    <2>4. CASE SetupDone(r) \/ Holds(r) \/ Released(r)
      BY <2>4 DEF SetupDone, Holds, Released, ExecPC
    <2>5. ASSUME NEW o \in Outcome \ {"none"}, LoopReturns(r, o) PROVE TypeOK'
      BY <2>5 DEF LoopReturns, ExecPC
    <2>6. CASE Record(r)
      <3>1. Recorded(snapshot[r], outcome[r]) \in Snapshot BY <1>s, Recording
      <3> QED BY <2>6, <3>1 DEF Record, ExecPC
    <2>7. CASE Close(r) BY <2>7 DEF Close, ExecPC
    <2>8. CASE DeadlineFires(r) BY <2>8 DEF DeadlineFires
    <2> QED BY <1>1, <2>1, <2>2, <2>3, <2>4, <2>5, <2>6, <2>7, <2>8 DEF Execute
  <1>2. ASSUME NEW c \in Callers, Call(c) PROVE TypeOK'
    <2>1. ASSUME NEW wait \in BOOLEAN, NEW limit \in BOOLEAN, Spawn(c, wait, limit)
          PROVE TypeOK'
      <3>1. nextID + 1 \in Runs /\ nextID' \in 0 .. MaxRuns
        BY <2>1, <1>t, MaxRunsNat DEF Spawn, TypeOK, Runs
      <3>2. caller' \in [Callers -> Caller] /\ reply' \in [Callers -> Reply]
        BY <2>1, <3>1, <1>t, Going DEF Spawn
      <3> QED BY <2>1, <3>1, <3>2, <1>t, FreshRun DEF Spawn, TypeOK, ExecPC
    <2>2. ASSUME NEW r \in Runs, NEW limit \in BOOLEAN, Wait(c, r, limit) PROVE TypeOK'
      <3>1. caller' \in [Callers -> Caller] /\ reply' \in [Callers -> Reply]
        BY <2>2, <1>t, Going DEF Wait
      <3> QED BY <2>2, <3>1, <1>t DEF Wait, TypeOK
    <2>3. CASE WaitWakes(c)
      <3>1. [caller[c] EXCEPT !.pc = "woken"] \in Caller BY <1>c DEF Caller
      <3> QED BY <2>3, <3>1, <1>t DEF WaitWakes, TypeOK
    <2>4. CASE WaitReads(c)
      <3>1. caller[c].run \in Runs BY <2>4 DEF WaitReads, CallerInv, IInv
      <3>2. Answer("finished", caller[c].run, caller[c].spawned,
                   snapshot[caller[c].run].status) \in Reply
        BY <3>1, <1>s, <1>c, Answers
      <3> QED BY <2>4, <3>2, <1>t, Returning DEF WaitReads, TypeOK
    <2>5. CASE WaitExpires(c)
      <3>1. Answer("expired", 0, caller[c].spawned, "none") \in Reply
        BY <1>c, Answers
      <3> QED BY <2>5, <3>1, <1>t, Returning DEF WaitExpires, TypeOK
    <2>6. CASE WaitAborted(c)
      <3>1. Answer("aborted", 0, caller[c].spawned, "none") \in Reply
        BY <1>c, Answers
      <3> QED BY <2>6, <3>1, <1>t, Returning DEF WaitAborted, TypeOK
    <2>7. ASSUME NEW r \in Runs, KillFinished(c, r) PROVE TypeOK'
      <3>1. Answer("killed", r, FALSE, snapshot[r].status) \in Reply
        BY <1>s, Answers
      <3> QED BY <2>7, <3>1, <1>t, Returning DEF KillFinished, TypeOK
    <2>8. ASSUME NEW r \in Runs, KillRunning(c, r) PROVE TypeOK'
      <3>1. Killed(snapshot[r]) \in Snapshot BY <1>s, Updates
      <3>2. Answer("killed", r, FALSE, "canceled") \in Reply
        BY Answers DEF Terminal
      <3>3. caller' \in [Callers -> Caller] /\ reply' \in [Callers -> Reply]
        BY <2>8, <3>2, <1>t, Going, Returning DEF KillRunning
      <3> QED BY <2>8, <3>1, <3>3, <1>t DEF KillRunning, TypeOK
    <2>9. CASE KillCancels(c)
      <3>1. caller[c].run \in Runs BY <2>9 DEF KillCancels, CallerInv, IInv
      <3>2. Answer("killed", caller[c].run, FALSE, "canceled") \in Reply
        BY <3>1, Answers DEF Terminal
      <3> QED BY <2>9, <3>2, <1>t, Returning DEF KillCancels, TypeOK
    <2>10. CASE SpawnReturns(c)
      <3>1. caller[c].run \in Runs BY <2>10 DEF SpawnReturns, CallerInv, IInv
      <3>2. Answer("started", caller[c].run, TRUE, snapshot[caller[c].run].status) \in Reply
        BY <3>1, <1>s, Answers
      <3> QED BY <2>10, <3>2, <1>t, Returning DEF SpawnReturns, TypeOK
    <2> QED BY <1>2, <2>1, <2>2, <2>3, <2>4, <2>5, <2>6, <2>7, <2>8, <2>9, <2>10 DEF Call
  <1>3. CASE UNCHANGED vars BY <1>t, <1>3 DEF vars, TypeOK
  <1> QED BY <1>1, <1>2, <1>3 DEF Next

\* A step of a run's own goroutine, or of a caller, keeps the rest.
LEMMA InvStep == IInv /\ [Next]_vars => IInv'
  <1> SUFFICES ASSUME IInv, [Next]_vars PROVE IInv'
    OBVIOUS
  <1>t. TypeOK /\ TypeOK' BY TypeStep DEF IInv
  <1>s. \A r \in Runs : snapshot[r] \in Snapshot /\ outcome[r] \in Outcome
    BY <1>t DEF TypeOK
  <1>n. nextID \in Nat BY <1>t, MaxRunsNat DEF TypeOK
  <1>i. /\ \A r \in Runs : RunInv(r) /\ r \in Nat
        /\ SnapshotConsistent
        /\ \A c \in Callers : CallerInv(c)
        /\ WaitReportsTheEnd
    BY MaxRunsNat DEF IInv, Runs
  <1> DEFINE Rest == /\ \A r \in Runs : RunInv(r)
                     /\ SnapshotConsistent
                     /\ \A c \in Callers : CallerInv(c)
                     /\ WaitReportsTheEnd
  <1> SUFFICES Rest'
    BY <1>t DEF IInv
  <1>1. ASSUME NEW r \in Runs, Execute(r) PROVE Rest'
    <2> USE <1>t, <1>i DEF RunInv, SnapshotConsistent, CallerInv, WaitReportsTheEnd, TypeOK
    <2>1. CASE Arm(r) BY <2>1 DEF Arm
    <2>2. CASE MarkStarted(r)
      <3>1. /\ snapshot'[r].status = snapshot[r].status
            /\ snapshot'[r].completedAt = snapshot[r].completedAt
            /\ snapshot'[r].result = snapshot[r].result
        BY <2>2, <1>s DEF MarkStarted, Snapshot
      <3> QED BY <2>2, <3>1 DEF MarkStarted
    <2>3. CASE SetupError(r)
      <3>1. snapshot[r].status # "completed"
        BY <2>3 DEF SetupError, Terminal
      <3>2. /\ snapshot'[r].status = "error" /\ snapshot'[r].completedAt
            /\ snapshot'[r].result = snapshot[r].result
        BY <2>3, <1>s, Updates DEF SetupError
      <3> QED BY <2>3, <3>1, <3>2 DEF SetupError, Terminal
    <2>4. CASE SetupDone(r) \/ Holds(r) \/ Released(r)
      BY <2>4 DEF SetupDone, Holds, Released
    <2>5. ASSUME NEW o \in Outcome \ {"none"}, LoopReturns(r, o) PROVE Rest'
      BY <2>5 DEF LoopReturns
    <2>6. CASE Record(r)
      <3>1. /\ snapshot'[r] = Recorded(snapshot[r], outcome[r])
            /\ \A q \in Runs \ {r} : snapshot'[q] = snapshot[q]
        BY <2>6 DEF Record
      <3>2. snapshot[r].result <=> snapshot[r].status = "completed"
        BY <1>i DEF SnapshotConsistent
      <3>3. /\ snapshot'[r].status \in Terminal /\ snapshot'[r].completedAt
            /\ snapshot'[r].result <=> snapshot'[r].status = "completed"
        <4> HIDE DEF SnapshotConsistent, TypeOK, RunInv, CallerInv, WaitReportsTheEnd
        <4>1. CASE snapshot[r].status = "canceled" BY <4>1, <3>1, <3>2, <1>s, Recording
        <4>2. CASE snapshot[r].status # "canceled" BY <4>2, <3>1, <1>s, Recording
        <4> QED BY <4>1, <4>2
      <3> QED BY <2>6, <3>1, <3>3 DEF Record, Terminal
    <2>7. CASE Close(r) BY <2>7 DEF Close
    <2>8. CASE DeadlineFires(r) BY <2>8 DEF DeadlineFires
    <2> QED BY <1>1, <2>1, <2>2, <2>3, <2>4, <2>5, <2>6, <2>7, <2>8 DEF Execute
  <1>2. ASSUME NEW c \in Callers, Call(c) PROVE Rest'
    <2>1. ASSUME NEW wait \in BOOLEAN, NEW limit \in BOOLEAN, Spawn(c, wait, limit)
          PROVE Rest'
      <3> DEFINE n == nextID + 1
      <3>1. n \in Runs /\ nextID' = n
        BY <2>1, <1>t, MaxRunsNat DEF Spawn, TypeOK, Runs
      <3>2. snapshot'[n].status = "running" /\ ~snapshot'[n].completedAt
              /\ ~snapshot'[n].result
        BY <2>1, <3>1, <1>t, FreshRun DEF Spawn, TypeOK
      <3>3. /\ exec'[n] = "start" /\ done' = done
            /\ \A q \in Runs \ {n} : snapshot'[q] = snapshot[q] /\ exec'[q] = exec[q]
        BY <2>1, <3>1, <1>t DEF Spawn, TypeOK
      <3>4. \A q \in Runs \ {n} : q <= nextID' <=> q <= nextID
        BY <3>1, <1>n, <1>i
      <3>5. ~done[n]
        BY <3>1, <1>n, <1>i DEF RunInv
      <3>6. (\A r \in Runs : RunInv(r))' /\ SnapshotConsistent'
        BY <2>1, <3>1, <3>2, <3>3, <3>4, <3>5, <1>i DEF Spawn, RunInv, SnapshotConsistent, Terminal
      <3>7. (\A d \in Callers : CallerInv(d))' /\ WaitReportsTheEnd'
        BY <2>1, <3>1, <3>3, <1>i, <1>t
           DEF Spawn, Go, CallerInv, WaitReportsTheEnd, TypeOK
      <3> QED BY <3>6, <3>7
    <2>2. ASSUME NEW r \in Runs, NEW limit \in BOOLEAN, Wait(c, r, limit) PROVE Rest'
      BY <2>2, <1>i, <1>t
         DEF Wait, Go, RunInv, SnapshotConsistent, CallerInv, WaitReportsTheEnd, TypeOK
    <2>3. CASE WaitWakes(c)
      BY <2>3, <1>i, <1>t
         DEF WaitWakes, RunInv, SnapshotConsistent, CallerInv, WaitReportsTheEnd, TypeOK, Caller
    <2>4. CASE WaitReads(c)
      <3>1. snapshot[caller[c].run].status \in Terminal
        BY <2>4, <1>i DEF WaitReads, RunInv, CallerInv
      <3> QED BY <2>4, <3>1, <1>i, <1>t
              DEF WaitReads, Return, Answer, Free, RunInv, SnapshotConsistent, CallerInv,
                  WaitReportsTheEnd, TypeOK
    <2>5. CASE WaitExpires(c)
      BY <2>5, <1>i, <1>t
         DEF WaitExpires, Return, Answer, Free, RunInv, SnapshotConsistent, CallerInv,
             WaitReportsTheEnd, TypeOK
    <2>6. CASE WaitAborted(c)
      BY <2>6, <1>i, <1>t
         DEF WaitAborted, Return, Answer, Free, RunInv, SnapshotConsistent, CallerInv,
             WaitReportsTheEnd, TypeOK
    <2>7. ASSUME NEW r \in Runs, KillFinished(c, r) PROVE Rest'
      BY <2>7, <1>i, <1>t
         DEF KillFinished, Return, Answer, Free, RunInv, SnapshotConsistent, CallerInv,
             WaitReportsTheEnd, TypeOK
    <2>8. ASSUME NEW r \in Runs, KillRunning(c, r) PROVE Rest'
      <3>1. /\ snapshot'[r].status = "canceled" /\ snapshot'[r].completedAt
            /\ snapshot'[r].result = snapshot[r].result
            /\ \A q \in Runs \ {r} : snapshot'[q] = snapshot[q]
        BY <2>8, <1>s, <1>t, Updates DEF KillRunning, TypeOK
      <3>2. (\A q \in Runs : RunInv(q))' /\ SnapshotConsistent'
        BY <2>8, <3>1, <1>i DEF KillRunning, RunInv, SnapshotConsistent, Terminal
      <3>3. (\A d \in Callers : CallerInv(d))' /\ WaitReportsTheEnd'
        BY <2>8, <1>i, <1>t
           DEF KillRunning, Go, Return, Answer, Free, CallerInv, WaitReportsTheEnd, TypeOK
      <3> QED BY <3>2, <3>3
    <2>9. CASE KillCancels(c)
      BY <2>9, <1>i, <1>t
         DEF KillCancels, Return, Answer, Free, RunInv, SnapshotConsistent, CallerInv,
             WaitReportsTheEnd, TypeOK
    <2>10. CASE SpawnReturns(c)
      BY <2>10, <1>i, <1>t
         DEF SpawnReturns, Return, Answer, Free, RunInv, SnapshotConsistent, CallerInv,
             WaitReportsTheEnd, TypeOK
    <2> QED BY <1>2, <2>1, <2>2, <2>3, <2>4, <2>5, <2>6, <2>7, <2>8, <2>9, <2>10 DEF Call
  <1>3. CASE UNCHANGED vars
    BY <1>3, <1>i DEF vars, RunInv, SnapshotConsistent, CallerInv, WaitReportsTheEnd
  <1> QED BY <1>1, <1>2, <1>3 DEF Next

\* The variables stay in their sets.
THEOREM TypeCorrect == Spec => []TypeOK
  <1>1. IInv => TypeOK BY DEF IInv
  <1> QED BY InitIInv, InvStep, <1>1, PTL DEF Spec

\* A snapshot is completed iff its status is terminal and has a result iff it
\* completed: for any number of runs, waiters and killers.
THEOREM SnapshotsSafe == Spec => []SnapshotConsistent
  <1>1. IInv => SnapshotConsistent BY DEF IInv
  <1> QED BY InitIInv, InvStep, <1>1, PTL DEF Spec

\* A wait that says a run has finished reports a terminal status: for any number
\* of runs, waiters and killers, whoever ends the run while it waits.
THEOREM WaitsSeeTheEnd == Spec => []WaitReportsTheEnd
  <1>1. IInv => WaitReportsTheEnd BY DEF IInv
  <1> QED BY InitIInv, InvStep, <1>1, PTL DEF Spec

-----------------------------------------------------------------------------
(* The refinement: what the waiters and List see of a run is what          *)
(* SubagentLifecycle allows.                                               *)

\* A step that leaves every status and every done alone is a stutter.
LEMMA Stutter ==
  ASSUME \A r \in Runs : snapshot'[r].status = snapshot[r].status, done' = done
  PROVE  UNCHANGED Lifecycle!vars
  <1>1. [r \in Runs |-> snapshot'[r].status] = [r \in Runs |-> snapshot[r].status]
    OBVIOUS
  <1> QED BY <1>1 DEF Lifecycle!vars

\* A step that gives one run another status is the abstract one.
LEMMA NewStatus ==
  ASSUME TypeOK, TypeOK', NEW r \in Runs, done' = done,
         \A q \in Runs \ {r} : snapshot'[q] = snapshot[q],
         \/ snapshot[r].status = "none" /\ snapshot'[r].status = "running"
         \/ snapshot[r].status = "running" /\ snapshot'[r].status \in Terminal
         \/ /\ snapshot[r].status = "canceled" /\ snapshot'[r].status = "error"
            /\ ~done[r]
  PROVE  Lifecycle!Next
  <1> DEFINE before == [q \in Runs |-> snapshot[q].status]
             after == [q \in Runs |-> snapshot'[q].status]
  <1>1. after = [before EXCEPT ![r] = snapshot'[r].status]
    OBVIOUS
  <1>2. before[r] = snapshot[r].status
    OBVIOUS
  <1>3. {q \in Runs : done[q]} = {q \in Runs : done'[q]}
    OBVIOUS
  <1>4. CASE snapshot[r].status = "none" /\ snapshot'[r].status = "running"
    <2>1. Lifecycle!Start(r) BY <1>1, <1>2, <1>3, <1>4 DEF Lifecycle!Start
    <2> QED BY <2>1 DEF Lifecycle!Next
  <1>5. CASE snapshot[r].status = "running" /\ snapshot'[r].status \in Terminal
    <2>1. PICK s \in Terminal : s = snapshot'[r].status
      BY <1>5
    <2>2. Lifecycle!End(r, s)
      BY <2>1, <1>1, <1>2, <1>3, <1>5 DEF Lifecycle!End
    <2>3. \E t \in Lifecycle!Terminal : Lifecycle!End(r, t)
      BY <2>2 DEF Lifecycle!Terminal, Terminal
    <2> QED BY <2>3 DEF Lifecycle!Next
  <1>6. CASE /\ snapshot[r].status = "canceled" /\ snapshot'[r].status = "error"
             /\ ~done[r]
    <2>1. Lifecycle!Amend(r) BY <1>1, <1>2, <1>3, <1>6 DEF Lifecycle!Amend
    <2> QED BY <2>1 DEF Lifecycle!Next
  <1> QED BY <1>4, <1>5, <1>6

\* The manager starts where the lifecycle starts.
LEMMA RefinesInit == Init => Lifecycle!Init
  BY DEF Init, NoRun, Lifecycle!Init

\* Every step of the manager is a step of the lifecycle or a stutter.
LEMMA RefinesStep == IInv /\ IInv' /\ [Next]_vars => [Lifecycle!Next]_(Lifecycle!vars)
  <1> SUFFICES ASSUME IInv, IInv', [Next]_vars
               PROVE  Lifecycle!Next \/ UNCHANGED Lifecycle!vars
    OBVIOUS
  <1>t. TypeOK /\ TypeOK' BY DEF IInv
  <1>i. \A r \in Runs : RunInv(r) BY DEF IInv
  <1>f. \A r \in Runs : /\ snapshot[r] \in Snapshot
                        /\ snapshot[r].status \in {"none", "running"} \cup Terminal
                        /\ outcome[r] \in Outcome
    BY <1>t DEF TypeOK, Snapshot
  <1>1. ASSUME NEW r \in Runs, Execute(r)
        PROVE  Lifecycle!Next \/ UNCHANGED Lifecycle!vars
    <2>1. CASE Arm(r) BY <2>1, Stutter DEF Arm
    <2>2. CASE MarkStarted(r)
      <3>1. \A q \in Runs : snapshot'[q].status = snapshot[q].status
        BY <2>2, <1>f, <1>t DEF MarkStarted, TypeOK, Snapshot
      <3> QED BY <2>2, <3>1, Stutter DEF MarkStarted
    <2>3. CASE SetupError(r)
      <3>1. snapshot'[r].status = "error" /\ done' = done /\ ~done[r]
              /\ \A q \in Runs \ {r} : snapshot'[q] = snapshot[q]
        BY <2>3, <1>f, <1>i, <1>t, Updates DEF SetupError, RunInv, TypeOK
      <3>2. snapshot[r].status \in {"running", "canceled"}
        BY <2>3, <1>f, <1>i DEF SetupError, RunInv
      <3> QED BY <3>1, <3>2, <1>t, NewStatus DEF Terminal
    <2>4. CASE SetupDone(r) \/ Holds(r) \/ Released(r)
      BY <2>4, Stutter DEF SetupDone, Holds, Released
    <2>5. ASSUME NEW o \in Outcome \ {"none"}, LoopReturns(r, o)
          PROVE  Lifecycle!Next \/ UNCHANGED Lifecycle!vars
      BY <2>5, Stutter DEF LoopReturns
    <2>6. CASE Record(r)
      <3>1. snapshot'[r] = Recorded(snapshot[r], outcome[r]) /\ done' = done
              /\ \A q \in Runs \ {r} : snapshot'[q] = snapshot[q]
        BY <2>6, <1>t DEF Record, TypeOK
      <3>2. snapshot[r].status \in {"running", "canceled"}
        BY <2>6, <1>f, <1>i DEF Record, RunInv
      <3>3. CASE snapshot[r].status = "canceled"
        <4>1. \A q \in Runs : snapshot'[q].status = snapshot[q].status
          BY <3>1, <3>3, <1>f, Recording
        <4> QED BY <3>1, <4>1, Stutter
      <3>4. CASE snapshot[r].status = "running"
        <4>1. snapshot'[r].status \in Terminal BY <3>1, <1>f, Recording
        <4> QED BY <3>1, <3>4, <4>1, <1>t, NewStatus
      <3> QED BY <3>2, <3>3, <3>4
    <2>7. CASE Close(r)
      <3>1. done' = [done EXCEPT ![r] = TRUE] /\ snapshot' = snapshot
        BY <2>7 DEF Close
      <3>2. snapshot[r].status \in Terminal /\ ~done[r]
        BY <2>7, <1>i DEF Close, RunInv
      <3>3. {q \in Runs : done'[q]} = {q \in Runs : done[q]} \cup {r}
        BY <3>1, <1>t DEF TypeOK
      <3>4. Lifecycle!Announce(r)
        BY <3>1, <3>2, <3>3 DEF Lifecycle!Announce, Lifecycle!Terminal, Terminal
      <3> QED BY <3>4 DEF Lifecycle!Next
    <2>8. CASE DeadlineFires(r) BY <2>8, Stutter DEF DeadlineFires
    <2> QED BY <1>1, <2>1, <2>2, <2>3, <2>4, <2>5, <2>6, <2>7, <2>8 DEF Execute
  <1>2. ASSUME NEW c \in Callers, Call(c)
        PROVE  Lifecycle!Next \/ UNCHANGED Lifecycle!vars
    <2>1. ASSUME NEW wait \in BOOLEAN, NEW limit \in BOOLEAN, Spawn(c, wait, limit)
          PROVE  Lifecycle!Next
      <3> DEFINE n == nextID + 1
      <3>1. n \in Runs /\ ~(n <= nextID)
        BY <2>1, <1>t, MaxRunsNat DEF Spawn, TypeOK, Runs
      <3>2. snapshot[n].status = "none"
        BY <3>1, <1>i DEF RunInv
      <3>3. snapshot'[n].status = "running" /\ done' = done
              /\ \A q \in Runs \ {n} : snapshot'[q] = snapshot[q]
        BY <2>1, <3>1, <1>t, FreshRun DEF Spawn, TypeOK
      <3> QED BY <3>1, <3>2, <3>3, <1>t, NewStatus
    <2>2. ASSUME NEW r \in Runs, KillRunning(c, r) PROVE Lifecycle!Next
      <3>1. snapshot[r].status = "running" /\ snapshot'[r].status = "canceled"
              /\ done' = done /\ \A q \in Runs \ {r} : snapshot'[q] = snapshot[q]
        BY <2>2, <1>f, <1>t, Updates DEF KillRunning, TypeOK
      <3> QED BY <3>1, <1>t, NewStatus DEF Terminal
    <2>3. CASE snapshot' = snapshot /\ done' = done
      BY <2>3, Stutter
    <2> QED BY <1>2, <2>1, <2>2, <2>3
            DEF Call, SpawnReturns, Wait, WaitWakes, WaitReads, WaitExpires, WaitAborted,
                KillFinished, KillCancels
  <1>3. CASE UNCHANGED vars BY <1>3, Stutter DEF vars
  <1> QED BY <1>1, <1>2, <1>3 DEF Next

\* A child run gets one terminal status, which stands but for the amendment of
\* a cancelled run whose setup fails, and its waiters are released only after:
\* for any number of runs, waiters and killers (manager.go, execute and Kill).
THEOREM RefinesLifecycle == Spec => ImplementsLifecycle
  <1>1. Spec => []IInv BY InitIInv, InvStep, PTL DEF Spec
  <1> QED BY <1>1, RefinesInit, RefinesStep, PTL DEF Spec, ImplementsLifecycle, Lifecycle!Spec
=============================================================================
