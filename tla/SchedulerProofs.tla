--------------------------- MODULE SchedulerProofs --------------------------
(***************************************************************************)
(* When jobs fire (Schedule), for any periods, anchors and cron instants,  *)
(* and what the store, the ticker and the schedule tool make of it         *)
(* (Scheduler), for any number of jobs, any capacity of the channel, any   *)
(* failing saves and any restarts.                                         *)
(***************************************************************************)
EXTENDS Scheduler, FiniteSetTheorems, WellFoundedInduction, TLAPS

-----------------------------------------------------------------------------
(* Arithmetic.                                                             *)

\* What the quotient of Go's divisions is.
LEMMA Division ==
    ASSUME NEW a \in Int, NEW d \in Nat \ {0}
    PROVE  /\ a \div d \in Int
           /\ (a \div d) * d <= a
           /\ a < (a \div d + 1) * d
  OBVIOUS

\* Nothing else is the quotient.
LEMMA DivisionUnique ==
    ASSUME NEW a \in Int, NEW q \in Int, NEW d \in Nat \ {0}, q * d <= a, a < (q + 1) * d
    PROVE  a \div d = q
  OBVIOUS

\* A quotient grows with the dividend.
LEMMA DivisionGrows ==
    ASSUME NEW a \in Int, NEW b \in Int, NEW d \in Nat \ {0}, a <= b
    PROVE  a \div d <= b \div d
  OBVIOUS

\* Times are natural numbers, so that a set of them has a first one: strict
\* inclusion of the intervals up to its members is well-founded.
LEMMA LeastNumber ==
    ASSUME NEW T \in SUBSET Nat, T # {}
    PROVE  \E m \in T : \A k \in T : m <= k
  <1> DEFINE Upto == {0 .. k : k \in T}
  <1>1. IsWellFoundedOn(StrictSubsetOrdering(Nat), FiniteSubsetsOf(Nat))
    BY FS_StrictSubsetOrderingWellFounded
  <1>2. Upto \subseteq FiniteSubsetsOf(Nat) /\ Upto # {}
    <2>1. \A k \in T : 0 .. k \in SUBSET Nat /\ IsFiniteSet(0 .. k) BY FS_Interval
    <2> QED BY <2>1 DEF FiniteSubsetsOf
  <1>3. PICK b \in Upto : \A c \in Upto : <<c, b>> \notin StrictSubsetOrdering(Nat)
    BY <1>1, <1>2, WFMin
  <1>4. PICK m \in T : b = 0 .. m OBVIOUS
  <1>5. ASSUME NEW k \in T, k < m PROVE FALSE
    <2>1. <<0 .. k, b>> \in StrictSubsetOrdering(Nat)
      BY <1>4, <1>5 DEF StrictSubsetOrdering
    <2> QED BY <1>3, <2>1
  <1> QED BY <1>4, <1>5

-----------------------------------------------------------------------------
(* When a job fires next.                                                  *)

\* A schedule the tool accepts.
Sound(s) == s \in JobSchedule /\ (s.kind = "every" => s.every > 0)

\* The points at which an every job may fire.
Grid(s) == {s.start + k * s.every : k \in Nat}

\* The next run of an every job is the first point of its grid that is strictly
\* after now and after the last run (schedule.go: NextRunAt), however late the
\* ticker is, for any period and anchor.  (A job never runs before its anchor:
\* that is NeverEarly.)
THEOREM EveryNextIsFirst ==
    ASSUME NEW s, Sound(s), s.kind = "every", NEW last \in Nat, NEW t \in Nat,
           last = NoTime \/ last >= s.start
    PROVE  /\ EveryNext(s, last, t) \in Grid(s)
           /\ EveryNext(s, last, t) > Later(t, last)
           /\ \A p \in Grid(s) : p > Later(t, last) => EveryNext(s, last, t) <= p
  <1> DEFINE n == EveryNext(s, last, t)
             base == Later(t, last)
             q == (base - s.start) \div s.every
  <1>0. s.start \in Nat /\ s.every \in Nat \ {0} /\ base \in Nat
    BY DEF Sound, JobSchedule, Later
  <1>1. CASE last = NoTime /\ t < s.start
    <2>1. n = s.start BY <1>1 DEF EveryNext
    <2>2. n = s.start + 0 * s.every BY <2>1, <1>0
    <2>3. n \in Grid(s) BY <2>2 DEF Grid
    <2>4. \A p \in Grid(s) : s.start <= p BY <1>0 DEF Grid
    <2> QED BY <1>0, <1>1, <2>1, <2>3, <2>4 DEF Later, NoTime
  <1>2. CASE ~(last = NoTime /\ t < s.start)
    <2>1. base >= s.start /\ Later(s.start, base) = base BY <1>0, <1>2 DEF Later
    <2>2. n = s.start + (q + 1) * s.every BY <1>2, <2>1 DEF EveryNext
    <2> HIDE DEF n, base
    <2>3. q \in Int /\ q * s.every <= base - s.start /\ base - s.start < (q + 1) * s.every
      <3>1. base - s.start \in Int BY <1>0
      <3>2. \A a \in Int, d \in Nat \ {0} :
                a \div d \in Int /\ (a \div d) * d <= a /\ a < (a \div d + 1) * d
        BY Division
      <3> QED BY <3>1, <3>2, <1>0, Zenon
    <2>4. q >= 0 BY <1>0, <2>1
    <2> HIDE DEF q
    <2>5. n \in Grid(s) BY <2>2, <2>3, <2>4 DEF Grid
    <2>6. n > base BY <2>2, <2>3, <1>0
    <2>7. ASSUME NEW k \in Nat, s.start + k * s.every > base PROVE n <= s.start + k * s.every
      <3>1. k > q
        <4>1. k <= q => k * s.every <= q * s.every BY <2>3, <1>0
        <4> QED BY <4>1, <2>3, <2>7, <1>0
      <3>2. (q + 1) * s.every <= k * s.every BY <3>1, <2>3, <1>0
      <3> QED BY <3>2, <2>2, <2>3, <1>0
    <2>8. \A p \in Grid(s) : p > base => n <= p BY <2>7 DEF Grid
    <2> QED BY <2>5, <2>6, <2>8 DEF n, base
  <1> QED BY <1>1, <1>2

\* The cron library's Next is the first of the instants after t, if there is one.
LEMMA CronNextIsFirst ==
    ASSUME NEW instants \in SUBSET Nat, NEW t \in Nat
    PROVE  LET n == CronNext(instants, t)
           IN  /\ n \in Nat
               /\ n # NoTime => n \in instants /\ n > t
               /\ \A i \in instants : i > t => n # NoTime /\ n <= i
  <1> DEFINE after == {i \in instants : i > t}
  <1>1. CASE after = {} BY <1>1 DEF CronNext, NoTime
  <1>2. CASE after # {}
    <2>1. \E m \in after : \A k \in after : m <= k BY <1>2, LeastNumber
    <2>2. Min(after) \in after /\ \A k \in after : Min(after) <= k BY <2>1 DEF Min
    <2>3. CronNext(instants, t) = Min(after) BY <1>2 DEF CronNext
    <2>4. CronNext(instants, t) \in after /\ \A k \in after : CronNext(instants, t) <= k
      BY <2>2, <2>3
    <2>5. PICK n \in after : n = CronNext(instants, t) /\ \A k \in after : n <= k
      BY <2>4
    <2>6. n \in instants /\ n > t /\ \A i \in instants : i > t => n <= i BY <2>5
    <2>7. n \in Nat /\ n # NoTime BY <2>6 DEF NoTime
    <2> QED BY <2>5, <2>6, <2>7
  <1> QED BY <1>1, <1>2

\* What is counted of a cron expression is finite.
LEMMA InstantsUpTo ==
    ASSUME NEW instants \in SUBSET Nat, NEW t \in Nat
    PROVE  /\ IsFiniteSet({i \in instants : i <= t})
           /\ Cardinality({i \in instants : i <= t}) \in Nat
  <1>1. {i \in instants : i <= t} \in SUBSET Nat OBVIOUS
  <1>2. \A i \in {j \in instants : j <= t} : i <= t OBVIOUS
  <1> HIDE <1>1
  <1>3. IsFiniteSet({i \in instants : i <= t})
    BY <1>1, <1>2, FS_BoundedSetOfNaturals
  <1> QED BY <1>3, FS_CardinalityType

\* Later times belong to later occasions.
LEMMA OccasionGrows ==
    ASSUME NEW s, Sound(s), NEW a \in Nat, NEW b \in Nat, a <= b
    PROVE  /\ Occasion(s, a) \in Int /\ Occasion(s, b) \in Int
           /\ Occasion(s, a) <= Occasion(s, b)
  <1>0. s.start \in Nat /\ s.every \in Nat /\ s.instants \in SUBSET Nat
        /\ s.kind \in {"at", "every", "cron"}
    BY DEF Sound, JobSchedule
  <1>1. CASE s.kind = "at" BY <1>1 DEF Occasion
  <1>2. CASE s.kind = "every"
    <2>1. Occasion(s, a) = (a - s.start) \div s.every /\ Occasion(s, b) = (b - s.start) \div s.every
      BY <1>2 DEF Occasion
    <2>2. s.every \in Nat \ {0} /\ a - s.start \in Int /\ b - s.start \in Int
          /\ a - s.start <= b - s.start
      BY <1>0, <1>2 DEF Sound
    <2>3. \A x \in Int, d \in Nat \ {0} : x \div d \in Int BY Division
    <2>4. \A x, y \in Int, d \in Nat \ {0} : x <= y => x \div d <= y \div d BY DivisionGrows
    <2> QED BY <2>1, <2>2, <2>3, <2>4, Zenon
  <1>3. CASE s.kind = "cron"
    <2> DEFINE upto(t) == {i \in s.instants : i <= t}
    <2>1. Occasion(s, a) = Cardinality(upto(a)) /\ Occasion(s, b) = Cardinality(upto(b))
      BY <1>3 DEF Occasion
    <2>2. IsFiniteSet(upto(b)) /\ Cardinality(upto(a)) \in Nat /\ Cardinality(upto(b)) \in Nat
      BY <1>0, InstantsUpTo
    <2>3. upto(a) \in SUBSET upto(b) BY <1>0
    <2>4. Cardinality(upto(a)) <= Cardinality(upto(b)) BY <2>2, <2>3, FS_Subset
    <2> QED BY <2>1, <2>2, <2>4
  <1> QED BY <1>0, <1>1, <1>2, <1>3

\* After a run at t, the next occasion is a later one; an at job has none.
LEMMA NextIsLater ==
    ASSUME NEW s, Sound(s), NEW t \in Nat \ {0}
    PROVE  LET n == NextRunAt(s, t, t)
           IN  /\ n \in Nat
               /\ n # NoTime => n > t /\ Occasion(s, n) > Occasion(s, t)
  <1> DEFINE n == NextRunAt(s, t, t)
  <1>0. s.start \in Nat /\ s.every \in Nat /\ s.instants \in SUBSET Nat
        /\ s.kind \in {"at", "every", "cron"}
    BY DEF Sound, JobSchedule
  <1>1. CASE s.kind = "at"
    <2>1. n = NoTime BY <1>1 DEF NextRunAt, NoTime
    <2> QED BY <2>1 DEF NoTime
  <1>2. CASE s.kind = "every"
    <2> DEFINE base == Later(s.start, t)
               q == (base - s.start) \div s.every
    <2>1. n = s.start + (q + 1) * s.every
      BY <1>0, <1>2 DEF NextRunAt, EveryNext, NoTime, Later
    <2>2. s.every \in Nat \ {0} /\ base \in Nat /\ base >= s.start /\ base >= t
          /\ base - s.start \in Nat /\ t - s.start \in Int
      BY <1>0, <1>2 DEF Sound, Later
    <2>3. \A a \in Int, d \in Nat \ {0} :
              a \div d \in Int /\ (a \div d) * d <= a /\ a < (a \div d + 1) * d
      BY Division
    <2> HIDE DEF n, base
    <2>4. q \in Int /\ q * s.every <= base - s.start /\ base - s.start < (q + 1) * s.every
      <3>1. base - s.start \in Int BY <2>2
      <3> QED BY <2>2, <2>3, <3>1, Zenon
    <2>5. q >= 0 BY <2>2
    <2>6. (t - s.start) \div s.every <= q
      <3>1. base - s.start \in Int /\ t - s.start <= base - s.start BY <2>2, <1>0
      <3>2. \A x, y \in Int, d \in Nat \ {0} : x <= y => x \div d <= y \div d BY DivisionGrows
      <3> QED BY <2>2, <3>1, <3>2, Zenon
    <2>7. (t - s.start) \div s.every \in Int BY <2>2, <2>3
    <2> HIDE DEF q
    <2>8. n \in Nat /\ n > base
      <3>1. (q + 1) * s.every \in Nat BY <2>2, <2>4, <2>5
      <3> QED BY <3>1, <2>1, <2>2, <2>4, <1>0
    <2>9. (n - s.start) \div s.every = q + 1
      <3>1. (q + 1) * s.every \in Int /\ n - s.start = (q + 1) * s.every
        BY <2>1, <2>2, <2>4, <1>0
      <3>2. (q + 2) * s.every = (q + 1) * s.every + s.every BY <2>2, <2>4
      <3>3. n - s.start < (q + 2) * s.every BY <3>1, <3>2, <2>2
      <3> QED BY <3>1, <3>3, <2>2, <2>4, DivisionUnique
    <2>10. Occasion(s, n) = q + 1 /\ Occasion(s, t) = (t - s.start) \div s.every
      BY <2>9, <1>2 DEF Occasion
    <2>11. n > t BY <2>2, <2>8
    <2> QED BY <2>4, <2>6, <2>7, <2>8, <2>10, <2>11 DEF n
  <1>3. CASE s.kind = "cron"
    <2> DEFINE upto(u) == {i \in s.instants : i <= u}
    <2>1. n = CronNext(s.instants, t) BY <1>0, <1>3 DEF NextRunAt, Later
    <2>2. n \in Nat /\ (n # NoTime => n \in s.instants /\ n > t)
      BY <1>0, <2>1, CronNextIsFirst
    <2> SUFFICES ASSUME n # NoTime PROVE Occasion(s, n) > Occasion(s, t) BY <2>2
    <2> HIDE DEF n
    <2>3. Occasion(s, n) = Cardinality(upto(n)) /\ Occasion(s, t) = Cardinality(upto(t))
      BY <1>3 DEF Occasion
    <2>4. IsFiniteSet(upto(n)) /\ Cardinality(upto(n)) \in Nat /\ Cardinality(upto(t)) \in Nat
      BY <1>0, <2>2, InstantsUpTo
    <2>5. upto(t) \in SUBSET upto(n) /\ n \in upto(n) /\ n \notin upto(t) BY <1>0, <2>2
    <2>6. Cardinality(upto(t)) <= Cardinality(upto(n))
          /\ (Cardinality(upto(n)) = Cardinality(upto(t)) => upto(n) = upto(t))
      BY <2>4, <2>5, FS_Subset
    <2> QED BY <2>3, <2>4, <2>5, <2>6
  <1> QED BY <1>0, <1>1, <1>2, <1>3

\* Whether a job of schedule s may run at t at all.
MayRunAt(s, t) == IF s.kind = "cron" THEN Occasion(s, t) > 0 ELSE t >= s.start

\* The time computed for a job is never before the first one its schedule has,
\* nor is any later time.
LEMMA NextNotEarly ==
    ASSUME NEW s, Sound(s), NEW last \in Nat, NEW t \in Nat
    PROVE  LET n == NextRunAt(s, last, t)
           IN  n \in Nat /\ (n # NoTime => \A u \in Nat : u >= n => MayRunAt(s, u))
  <1> DEFINE n == NextRunAt(s, last, t)
  <1>0. s.start \in Nat /\ s.every \in Nat /\ s.instants \in SUBSET Nat
        /\ s.kind \in {"at", "every", "cron"}
    BY DEF Sound, JobSchedule
  <1>1. CASE s.kind = "at"
    BY <1>0, <1>1 DEF NextRunAt, MayRunAt, NoTime
  <1>2. CASE s.kind = "every"
    <2> DEFINE base == Later(s.start, Later(t, last))
               q == (base - s.start) \div s.every
    <2>0. s.every \in Nat \ {0} /\ base - s.start \in Nat BY <1>0, <1>2 DEF Sound, Later
    <2>1. q \in Nat BY <2>0
    <2> HIDE DEF q
    <2>2. (q + 1) * s.every \in Nat BY <2>0, <2>1
    <2>3. n = s.start \/ n = s.start + (q + 1) * s.every BY <1>2 DEF NextRunAt, EveryNext, q
    <2> HIDE DEF n, base
    <2>4. n \in Nat /\ n >= s.start BY <2>2, <2>3, <1>0
    <2> QED BY <2>4, <1>0, <1>2 DEF MayRunAt, n
  <1>3. CASE s.kind = "cron"
    <2>1. n = CronNext(s.instants, Later(t, last)) /\ Later(t, last) \in Nat
      BY <1>3 DEF NextRunAt, Later
    <2>2. n \in Nat /\ (n # NoTime => n \in s.instants)
      BY <1>0, <2>1, CronNextIsFirst
    <2> HIDE DEF n
    <2>3. ASSUME n # NoTime, NEW u \in Nat, u >= n PROVE Occasion(s, u) > 0
      <3>1. n \in {i \in s.instants : i <= u} BY <2>2, <2>3
      <3>2. IsFiniteSet({i \in s.instants : i <= u})
            /\ Cardinality({i \in s.instants : i <= u}) \in Nat
        BY <1>0, InstantsUpTo
      <3>3. Cardinality({i \in s.instants : i <= u}) # 0
        BY <3>1, <3>2, FS_EmptySet
      <3> QED BY <3>2, <3>3, <1>3 DEF Occasion
    <2> QED BY <2>2, <2>3, <1>3 DEF MayRunAt, n
  <1> QED BY <1>0, <1>1, <1>2, <1>3

-----------------------------------------------------------------------------
(* The invariant.                                                          *)

Asked == NewSchedules \cup {At(1)}

\* A job is stored with a schedule that was asked for.
Stored == {job \in Job : job.schedule \in Asked}

Stores == UNION {[D -> Stored] : D \in SUBSET JobIDs}

Fired == [at : Nat \ {0}, life : Nat, saved : BOOLEAN]

Ticker == [pc : {"idle", "fire", "mark"}, now : Nat, todo : Stores, job : 0 .. MaxJobs]

Answer == {"none", "scheduled", "refused", "removed", "unsure"}

Types ==
    /\ now \in Nat \ {0}
    /\ jobs \in Stores /\ disk \in Stores
    /\ tick \in Ticker
    /\ asked \in [JobIDs -> Asked]
    /\ answer \in [JobIDs -> Answer]
    /\ fired \in [JobIDs -> Seq(Fired)]
    /\ restarts \in Nat /\ faults \in Nat

\* An id that was not given out yet is nowhere.
Unused ==
    \A id \in JobIDs : answer[id] = "none" =>
        /\ id \notin DOMAIN jobs \cup DOMAIN disk \cup DOMAIN tick.todo
        /\ tick.job # id /\ fired[id] = <<>>

\* The file may have a job that memory has not, after a failed Remove, but not
\* the other way round.
OnDisk == DOMAIN jobs \subseteq DOMAIN disk

\* Where a job stands: with the schedule it was asked for, not before its time,
\* and not disabled before it fired.
JobInv(store) ==
    \A id \in DOMAIN store :
        /\ store[id].schedule = asked[id]
        /\ store[id].next # NoTime =>
            \A t \in Nat : t >= store[id].next => MayRunAt(asked[id], t)
        /\ ~store[id].enabled => fired[id] # <<>>

\* The occasion of a firing at t is behind the job.
Past(job, t) ==
    ~job.enabled \/ job.next = NoTime
    \/ Occasion(job.schedule, job.next) > Occasion(job.schedule, t)

\* The ticker is between fire() and MarkRun of firing i of the job.
Unmarked(id, i) == tick.pc = "mark" /\ tick.job = id /\ i = Len(fired[id])

\* What is not yet listed at this tick, in memory, and in the file, knows of
\* the firings of this process and of those that were saved.
KnowsFirings ==
    \A id \in JobIDs : \A i \in DOMAIN fired[id] :
        LET f == fired[id][i]
        IN  /\ f.life = restarts \/ f.saved =>
                /\ id \in DOMAIN jobs => Past(jobs[id], f.at) \/ Unmarked(id, i)
                /\ id \in DOMAIN tick.todo => Past(tick.todo[id], f.at)
            /\ f.saved /\ id \in DOMAIN disk => Past(disk[id], f.at)

TickInv ==
    /\ tick.pc = "idle" => tick.todo = NoJobs
    /\ tick.pc # "idle" => tick.now \in 1 .. now
    /\ \A id \in DOMAIN tick.todo : Due(tick.todo[id], tick.now)
    /\ tick.pc = "mark" =>
        /\ tick.job \in JobIDs /\ tick.job \notin DOMAIN tick.todo
        /\ fired[tick.job] # <<>>
        /\ fired[tick.job][Len(fired[tick.job])] = Firing

FiredInv ==
    \A id \in JobIDs : \A i \in DOMAIN fired[id] :
        /\ fired[id][i].at <= now
        /\ tick.pc # "idle" => fired[id][i].at <= tick.now
        /\ fired[id][i].life <= restarts

StoreInv == Types /\ Unused /\ OnDisk /\ AnswersAreDurable /\ DiskIsCurrent

FiringInv ==
    /\ JobInv(jobs) /\ JobInv(disk) /\ JobInv(tick.todo)
    /\ TickInv
    /\ FiredInv
    /\ KnowsFirings
    /\ FiresOncePerOccasion
    /\ NeverEarly

-----------------------------------------------------------------------------
(* Stores of jobs.                                                         *)

\* A store is a function from some ids to jobs.
LEMMA StoreShape ==
    ASSUME NEW store
    PROVE  store \in Stores <=> DOMAIN store \subseteq JobIDs /\ store \in [DOMAIN store -> Stored]
  BY DEF Stores

\* Every schedule that can be asked for is sound.
LEMMA AskedSound == \A s \in Asked : Sound(s)
  BY SchedulerAssumption DEF Asked, Sound, At, JobSchedule

\* What Add stores.
LEMMA NewJobStored ==
    ASSUME NEW s \in Asked, NEW t \in Nat
    PROVE  /\ NewJob(s, t) \in Stored
           /\ NewJob(s, t).schedule = s /\ NewJob(s, t).enabled
           /\ NewJob(s, t).next = NextRunAt(s, NoTime, t)
  <1>1. Sound(s) /\ s \in JobSchedule BY AskedSound DEF Sound
  <1>2. NextRunAt(s, NoTime, t) \in Nat BY <1>1, NextNotEarly DEF NoTime
  <1> QED BY <1>1, <1>2 DEF NewJob, Stored, Job, NoTime

\* What MarkRun stores.
LEMMA MarkedRunStored ==
    ASSUME NEW job \in Stored, NEW t \in Nat \ {0}
    PROVE  /\ MarkedRun(job, t) \in Stored
           /\ MarkedRun(job, t).schedule = job.schedule
           /\ MarkedRun(job, t).next = NextRunAt(job.schedule, t, t)
           /\ ~MarkedRun(job, t).enabled => ~job.enabled \/ job.schedule.kind = "at"
  <1>0. job \in [schedule : JobSchedule, enabled : BOOLEAN, next : Nat, last : Nat]
        /\ job.schedule \in Asked
    BY DEF Stored, Job
  <1>1. Sound(job.schedule) BY <1>0, AskedSound
  <1>2. NextRunAt(job.schedule, t, t) \in Nat BY <1>1, NextIsLater
  <1>3. \A u, n \in Nat, e \in BOOLEAN :
            LET r == [job EXCEPT !.last = u, !.next = n, !.enabled = e]
            IN  /\ r \in [schedule : JobSchedule, enabled : BOOLEAN, next : Nat, last : Nat]
                /\ r.schedule = job.schedule /\ r.next = n /\ r.enabled = e
    BY <1>0
  <1>4. (job.enabled /\ job.schedule.kind # "at") \in BOOLEAN BY <1>0
  <1>5. /\ MarkedRun(job, t) \in Job
        /\ MarkedRun(job, t).schedule = job.schedule
        /\ MarkedRun(job, t).next = NextRunAt(job.schedule, t, t)
        /\ MarkedRun(job, t).enabled = (job.enabled /\ job.schedule.kind # "at")
    BY <1>2, <1>3, <1>4, t \in Nat, Zenon DEF MarkedRun, Job
  <1>6. MarkedRun(job, t) \in Stored BY <1>0, <1>5 DEF Stored
  <1>7. ~MarkedRun(job, t).enabled => ~job.enabled \/ job.schedule.kind = "at"
    BY <1>5, Zenon
  <1> QED BY <1>5, <1>6, <1>7, Zenon

\* Put adds one job.
LEMMA PutStored ==
    ASSUME NEW store \in Stores, NEW id \in JobIDs, NEW job \in Stored
    PROVE  /\ Put(store, id, job) \in Stores
           /\ DOMAIN Put(store, id, job) = DOMAIN store \cup {id}
           /\ \A j \in DOMAIN store \cup {id} :
                Put(store, id, job)[j] = IF j = id THEN job ELSE store[j]
  <1>1. DOMAIN store \subseteq JobIDs /\ store \in [DOMAIN store -> Stored] BY StoreShape
  <1>2. Put(store, id, job) \in [DOMAIN store \cup {id} -> Stored] BY <1>1 DEF Put
  <1>3. DOMAIN Put(store, id, job) = DOMAIN store \cup {id} BY DEF Put
  <1> QED BY <1>1, <1>2, <1>3, StoreShape DEF Put

\* A part of a store is one.
LEMMA RestrictStored ==
    ASSUME NEW store \in Stores, NEW D \in SUBSET DOMAIN store
    PROVE  /\ Restrict(store, D) \in Stores
           /\ DOMAIN Restrict(store, D) = D
           /\ \A j \in D : Restrict(store, D)[j] = store[j]
  <1>1. DOMAIN store \subseteq JobIDs /\ store \in [DOMAIN store -> Stored] BY StoreShape
  <1>2. Restrict(store, D) \in [D -> Stored] BY <1>1 DEF Restrict
  <1> QED BY <1>1, <1>2, StoreShape DEF Restrict

\* No jobs are a store.
LEMMA NoJobsStored == NoJobs \in Stores /\ DOMAIN NoJobs = {}
  <1>1. NoJobs \in [{} -> Stored] /\ DOMAIN NoJobs = {} BY DEF NoJobs
  <1> QED BY <1>1, StoreShape

\* The jobs after MarkRun.
LEMMA MarkedStored ==
    ASSUME jobs \in Stores, NEW id, tick.now \in Nat \ {0}
    PROVE  /\ MarkedJobs(id) \in Stores
           /\ DOMAIN MarkedJobs(id) = DOMAIN jobs
           /\ \A j \in DOMAIN jobs :
                MarkedJobs(id)[j] = IF j = id THEN MarkedRun(jobs[j], tick.now) ELSE jobs[j]
           /\ id \notin DOMAIN jobs => MarkedJobs(id) = jobs
  <1>1. DOMAIN jobs \subseteq JobIDs /\ jobs \in [DOMAIN jobs -> Stored] BY StoreShape
  <1>2. \A j \in DOMAIN jobs : MarkedRun(jobs[j], tick.now) \in Stored
    BY <1>1, MarkedRunStored
  <1>3. MarkedJobs(id) \in [DOMAIN jobs -> Stored] /\ DOMAIN MarkedJobs(id) = DOMAIN jobs
    BY <1>1, <1>2 DEF MarkedJobs
  <1>4. \A j \in DOMAIN jobs :
            MarkedJobs(id)[j] = IF j = id THEN MarkedRun(jobs[j], tick.now) ELSE jobs[j]
    BY DEF MarkedJobs
  <1>5. ASSUME id \notin DOMAIN jobs PROVE MarkedJobs(id) = jobs
    BY <1>1, <1>3, <1>4, <1>5
  <1>6. MarkedJobs(id) \in Stores BY <1>1, <1>3, StoreShape
  <1> QED BY <1>3, <1>4, <1>5, <1>6

-----------------------------------------------------------------------------
(* The types.                                                              *)

\* The jobs that are due are some of the jobs.
LEMMA DueStored ==
    ASSUME NEW store \in Stores, NEW t
    PROVE  /\ DueIn(store, t) \in Stores
           /\ \A id \in DOMAIN DueIn(store, t) :
                /\ id \in DOMAIN store /\ DueIn(store, t)[id] = store[id]
                /\ Due(store[id], t)
  <1>1. {id \in DOMAIN store : Due(store[id], t)} \in SUBSET DOMAIN store OBVIOUS
  <1> QED BY <1>1, RestrictStored DEF DueIn

\* A firing is added to those of its job.
LEMMA FiringAdded ==
    ASSUME Types, NEW id \in JobIDs, tick.now \in Nat \ {0}
    PROVE  LET new == [fired EXCEPT ![id] = Append(@, Firing)]
           IN  /\ new \in [JobIDs -> Seq(Fired)]
               /\ \A j \in JobIDs \ {id} : new[j] = fired[j]
               /\ Len(new[id]) = Len(fired[id]) + 1 /\ new[id] # <<>>
               /\ \A i \in DOMAIN fired[id] : new[id][i] = fired[id][i]
               /\ DOMAIN new[id] = DOMAIN fired[id] \cup {Len(new[id])}
               /\ new[id][Len(new[id])] = Firing
  <1>1. fired[id] \in Seq(Fired) /\ fired \in [JobIDs -> Seq(Fired)] BY DEF Types
  <1>2. Firing \in Fired BY DEF Firing, Fired, Types
  <1> HIDE DEF Types
  <1> QED BY <1>1, <1>2

\* The last firing of a job is found to be saved.
LEMMA FiringSaved ==
    ASSUME Types, NEW id \in JobIDs, fired[id] # <<>>
    PROVE  LET new == [fired EXCEPT ![id][Len(fired[id])].saved = TRUE]
           IN  /\ new \in [JobIDs -> Seq(Fired)]
               /\ \A j \in JobIDs : DOMAIN new[j] = DOMAIN fired[j] /\ Len(new[j]) = Len(fired[j])
               /\ \A j \in JobIDs : \A i \in DOMAIN fired[j] :
                    /\ new[j][i].at = fired[j][i].at /\ new[j][i].life = fired[j][i].life
                    /\ j # id \/ i # Len(fired[id]) => new[j][i] = fired[j][i]
                    /\ fired[j][i].saved => new[j][i].saved
  <1>1. fired[id] \in Seq(Fired) /\ fired \in [JobIDs -> Seq(Fired)] BY DEF Types
  <1>2. Len(fired[id]) \in DOMAIN fired[id] /\ fired[id][Len(fired[id])] \in Fired BY <1>1
  <1>3. PICK f \in Fired : f = [fired[id][Len(fired[id])] EXCEPT !.saved = TRUE]
                /\ f.at = fired[id][Len(fired[id])].at /\ f.life = fired[id][Len(fired[id])].life
                /\ f.saved = TRUE
    <2>1. \A g \in Fired :
            LET f == [g EXCEPT !.saved = TRUE]
            IN  f \in Fired /\ f.at = g.at /\ f.life = g.life /\ f.saved = TRUE
      BY DEF Fired
    <2> QED BY <2>1, <1>2, Zenon
  <1> DEFINE new == [fired EXCEPT ![id] = [@ EXCEPT ![Len(fired[id])] = f]]
  <1>4. new = [fired EXCEPT ![id][Len(fired[id])].saved = TRUE] BY <1>3
  <1>5. new[id] \in Seq(Fired) /\ DOMAIN new[id] = DOMAIN fired[id]
        /\ Len(new[id]) = Len(fired[id]) /\ new[id][Len(fired[id])] = f
        /\ \A i \in DOMAIN fired[id] : i # Len(fired[id]) => new[id][i] = fired[id][i]
    BY <1>1, <1>2
  <1>6. \A j \in JobIDs : j # id => new[j] = fired[j] BY <1>1
  <1>7. new \in [JobIDs -> Seq(Fired)] BY <1>1, <1>5
  <1> HIDE DEF new
  <1> QED BY <1>3, <1>4, <1>5, <1>6, <1>7

\* The ticker's fields in a new tick.
LEMMA TickTypes ==
    /\ NoTick \in Ticker
    /\ \A t \in Nat, todo \in Stores :
        [pc |-> "fire", now |-> t, todo |-> todo, job |-> Heartbeat] \in Ticker
  <1>1. Heartbeat \in 0 .. MaxJobs BY SchedulerAssumption DEF Heartbeat
  <1>2. NoTime \in Nat BY DEF NoTime
  <1> QED BY <1>1, <1>2, NoJobsStored DEF NoTick, Ticker

\* What is left of a tick's list.
LEMMA RestStored ==
    ASSUME Types, NEW id
    PROVE  /\ Rest(id) \in Stores
           /\ DOMAIN Rest(id) = DOMAIN tick.todo \ {id}
           /\ \A j \in DOMAIN Rest(id) : Rest(id)[j] = tick.todo[j]
  <1>1. tick.todo \in Stores BY DEF Types, Ticker
  <1>2. DOMAIN tick.todo \ {id} \in SUBSET DOMAIN tick.todo OBVIOUS
  <1> QED BY <1>1, <1>2, RestrictStored DEF Rest

\* A step of the ticker, field by field.
LEMMA TickerSteps ==
    ASSUME Types
    PROVE  /\ TickStart => /\ tick' \in Ticker /\ tick'.pc = "fire" /\ tick'.now = now
                           /\ tick'.todo = DueIn(jobs, now)
           /\ \A id \in JobIDs :
                /\ Fire(id) => /\ tick' \in Ticker /\ tick'.pc = "mark" /\ tick'.now = tick.now
                               /\ tick'.todo = Rest(id) /\ tick'.job = id
                /\ FireDropped(id) => /\ tick' \in Ticker /\ tick'.pc = "fire"
                                      /\ tick'.now = tick.now /\ tick'.todo = Rest(id)
           /\ Mark => /\ tick' \in Ticker /\ tick'.pc = "fire" /\ tick'.now = tick.now
                      /\ tick'.todo = tick.todo
           /\ TickSynthetic \/ Restart => /\ tick' \in Ticker /\ tick'.pc = "idle"
                                          /\ tick'.todo = NoJobs
  <1>0. /\ now \in Nat /\ jobs \in Stores /\ tick \in Ticker /\ tick.pc \in {"idle", "fire", "mark"}
        /\ tick.todo \in Stores /\ tick.job \in 0 .. MaxJobs
    BY DEF Types, Ticker
  <1>1. ASSUME TickStart
        PROVE  /\ tick' \in Ticker /\ tick'.pc = "fire" /\ tick'.now = now
               /\ tick'.todo = DueIn(jobs, now)
    <2>1. DueIn(jobs, now) \in Stores BY <1>0, DueStored
    <2> QED BY <1>0, <1>1, <2>1, TickTypes DEF TickStart
  <1>2. ASSUME NEW id \in JobIDs, Fire(id)
        PROVE  /\ tick' \in Ticker /\ tick'.pc = "mark" /\ tick'.now = tick.now
               /\ tick'.todo = Rest(id) /\ tick'.job = id
    <2>1. Rest(id) \in Stores BY RestStored
    <2>2. id \in 0 .. MaxJobs BY DEF JobIDs
    <2>3. tick' = [tick EXCEPT !.pc = "mark", !.job = id, !.todo = Rest(id)]
      BY <1>2 DEF Fire
    <2> QED BY <1>0, <2>1, <2>2, <2>3 DEF Ticker
  <1>3. ASSUME NEW id \in JobIDs, FireDropped(id)
        PROVE  /\ tick' \in Ticker /\ tick'.pc = "fire" /\ tick'.now = tick.now
               /\ tick'.todo = Rest(id)
    <2>1. Rest(id) \in Stores BY RestStored
    <2>2. tick' = [tick EXCEPT !.todo = Rest(id)] /\ tick.pc = "fire" BY <1>3 DEF FireDropped
    <2> QED BY <1>0, <2>1, <2>2 DEF Ticker
  <1>4. ASSUME Mark
        PROVE  /\ tick' \in Ticker /\ tick'.pc = "fire" /\ tick'.now = tick.now
               /\ tick'.todo = tick.todo
    <2>1. tick' = [tick EXCEPT !.pc = "fire"] BY <1>4 DEF Mark
    <2> QED BY <1>0, <2>1 DEF Ticker
  <1>5. ASSUME TickSynthetic \/ Restart
        PROVE  tick' \in Ticker /\ tick'.pc = "idle" /\ tick'.todo = NoJobs
    <2>1. tick' = NoTick BY <1>5 DEF TickSynthetic, Restart
    <2> QED BY <2>1, TickTypes DEF NoTick
  <1> QED BY <1>1, <1>2, <1>3, <1>4, <1>5

\* Every step keeps the types.
LEMMA TypesStep ==
    ASSUME Types, TickInv, [Next]_vars
    PROVE  Types'
  <1>0. /\ now \in Nat \ {0} /\ jobs \in Stores /\ disk \in Stores /\ tick \in Ticker
        /\ asked \in [JobIDs -> Asked] /\ answer \in [JobIDs -> Answer]
        /\ fired \in [JobIDs -> Seq(Fired)] /\ restarts \in Nat /\ faults \in Nat
        /\ tick.now \in Nat
    BY DEF Types, Ticker
  <1>1. CASE UNCHANGED vars BY <1>1 DEF vars, Types
  <1>2. CASE TickStart
    <2>1. tick' \in Ticker BY <1>2, TickerSteps
    <2> QED BY <1>0, <1>2, <2>1 DEF TickStart, Types
  <1>3. ASSUME NEW id \in JobIDs, Fire(id) PROVE Types'
    <2>1. tick.now \in Nat \ {0} BY <1>0, <1>3 DEF Fire, TickInv
    <2>2. fired' \in [JobIDs -> Seq(Fired)] BY <1>3, <2>1, FiringAdded DEF Fire
    <2>3. tick' \in Ticker BY <1>3, TickerSteps
    <2> QED BY <1>0, <1>3, <2>2, <2>3 DEF Fire, Types
  <1>4. ASSUME NEW id \in JobIDs, FireDropped(id) PROVE Types'
    <2>1. tick' \in Ticker BY <1>4, TickerSteps
    <2> QED BY <1>0, <1>4, <2>1 DEF FireDropped, Types
  <1>5. CASE Mark
    <2>1. tick.now \in Nat \ {0} /\ tick.job \in JobIDs /\ fired[tick.job] # <<>>
      BY <1>0, <1>5 DEF Mark, TickInv
    <2>2. jobs' \in Stores BY <1>0, <1>5, <2>1, MarkedStored DEF Mark
    <2>3. tick' \in Ticker BY <1>5, TickerSteps
    <2>4. fired' \in [JobIDs -> Seq(Fired)]
      <3>1. [fired EXCEPT ![tick.job][Len(fired[tick.job])].saved = TRUE] \in [JobIDs -> Seq(Fired)]
        BY <2>1, FiringSaved
      <3> QED BY <1>0, <1>5, <3>1, Zenon DEF Mark
    <2>5. disk' \in Stores /\ faults' \in Nat BY <1>0, <1>5, <2>2 DEF Mark, Saved, SaveFails
    <2> QED BY <1>0, <1>5, <2>2, <2>3, <2>4, <2>5 DEF Mark, Types
  <1>6. CASE TickSynthetic
    <2>1. tick' \in Ticker BY <1>6, TickerSteps
    <2> QED BY <1>0, <1>6, <2>1 DEF TickSynthetic, Types
  <1>7. ASSUME NEW id \in JobIDs, NEW s \in NewSchedules, Add(id, s) PROVE Types'
    <2>1. s \in Asked BY DEF Asked
    <2>2. NewJob(s, now) \in Stored BY <1>0, <2>1, NewJobStored
    <2>3. Put(jobs, id, NewJob(s, now)) \in Stores BY <1>0, <2>2, PutStored
    <2>4. jobs' \in Stores BY <1>0, <1>7, <2>3 DEF Add, Refused
    <2>5. disk' \in Stores /\ faults' \in Nat BY <1>0, <1>7, <2>4 DEF Add, Saved, SaveFails
    <2>6. \A a \in Answer : [answer EXCEPT ![id] = a] \in [JobIDs -> Answer] BY <1>0
    <2>7. answer' \in [JobIDs -> Answer] BY <1>7, <2>6 DEF Add, Answer
    <2>8. asked' \in [JobIDs -> Asked] BY <1>0, <1>7, <2>1 DEF Add
    <2> QED BY <1>0, <1>7, <2>4, <2>5, <2>7, <2>8 DEF Add, Types
  <1>8. ASSUME NEW id \in JobIDs, Remove(id) PROVE Types'
    <2>1. DOMAIN jobs \ {id} \in SUBSET DOMAIN jobs OBVIOUS
    <2>2. jobs' \in Stores BY <1>0, <1>8, <2>1, RestrictStored DEF Remove
    <2>3. disk' \in Stores /\ faults' \in Nat BY <1>0, <1>8, <2>2 DEF Remove, Saved, SaveFails
    <2>4. \A a \in Answer : [answer EXCEPT ![id] = a] \in [JobIDs -> Answer] BY <1>0
    <2>5. answer' \in [JobIDs -> Answer] BY <1>8, <2>4 DEF Remove, Answer
    <2> QED BY <1>0, <1>8, <2>2, <2>3, <2>5 DEF Remove, Types
  <1>9. CASE Clock BY <1>0, <1>9 DEF Clock, Types
  <1>10. CASE Receive BY <1>10 DEF Receive, Types
  <1>11. CASE Restart
    <2>1. tick' \in Ticker BY <1>11, TickerSteps
    <2> QED BY <1>0, <1>11, <2>1 DEF Restart, Types
  <1> QED BY <1>1, <1>2, <1>3, <1>4, <1>5, <1>6, <1>7, <1>8, <1>9, <1>10, <1>11
          DEF Next, Tick, Tool

\* The types, when the process starts.
LEMMA TypesInit == Init => Types
  <1> SUFFICES ASSUME Init PROVE Types OBVIOUS
  <1>1. At(1) \in Asked /\ "none" \in Answer BY DEF Asked, Answer
  <1>2. asked \in [JobIDs -> Asked] /\ answer \in [JobIDs -> Answer] BY <1>1 DEF Init
  <1>3. fired \in [JobIDs -> Seq(Fired)] BY DEF Init
  <1>4. tick \in Ticker BY TickTypes DEF Init
  <1>5. jobs \in Stores /\ disk \in Stores BY NoJobsStored DEF Init
  <1> QED BY <1>2, <1>3, <1>4, <1>5 DEF Init, Types

-----------------------------------------------------------------------------
(* Memory, file and answers.                                               *)

\* What the store promises is kept by every step.
LEMMA StoreStep ==
    ASSUME StoreInv, TickInv, [Next]_vars
    PROVE  StoreInv'
  <1>0. Types /\ Types' BY TypesStep DEF StoreInv
  <1>t. /\ jobs \in Stores /\ disk \in Stores /\ now \in Nat /\ faults \in Nat
        /\ answer \in [JobIDs -> Answer] /\ fired \in [JobIDs -> Seq(Fired)]
        /\ tick.todo \in Stores
    BY <1>0 DEF Types, Ticker
  <1> USE DEF StoreInv
  <1>1. CASE UNCHANGED vars
    BY <1>0, <1>1 DEF vars, Unused, OnDisk, AnswersAreDurable, DiskIsCurrent
  <1>2. CASE TickStart
    <2>1. tick'.todo = DueIn(jobs, now) /\ tick'.job = Heartbeat
      BY <1>0, <1>2, TickerSteps DEF TickStart
    <2>2. DOMAIN tick'.todo \subseteq DOMAIN jobs BY <1>t, <2>1, DueStored
    <2>3. Unused' BY <1>2, <2>1, <2>2 DEF TickStart, Unused, Heartbeat, JobIDs
    <2> QED BY <1>0, <1>2, <2>3 DEF TickStart, OnDisk, AnswersAreDurable, DiskIsCurrent
  <1>3. ASSUME NEW id \in JobIDs, Fire(id) PROVE StoreInv'
    <2>1. tick'.todo = Rest(id) /\ tick'.job = id BY <1>0, <1>3, TickerSteps
    <2>2. DOMAIN tick'.todo \subseteq DOMAIN tick.todo BY <1>0, <2>1, RestStored
    <2>3. id \in DOMAIN tick.todo BY <1>3 DEF Fire, Foremost
    <2>4. \A j \in JobIDs \ {id} : fired'[j] = fired[j] BY <1>3, <1>t DEF Fire
    <2>5. Unused' BY <1>3, <2>1, <2>2, <2>3, <2>4 DEF Fire, Unused
    <2> QED BY <1>0, <1>3, <2>5 DEF Fire, OnDisk, AnswersAreDurable, DiskIsCurrent
  <1>4. ASSUME NEW id \in JobIDs, FireDropped(id) PROVE StoreInv'
    <2>1. tick'.todo = Rest(id) BY <1>0, <1>4, TickerSteps
    <2>2. tick'.job = tick.job BY <1>0, <1>4 DEF FireDropped, Types, Ticker
    <2>3. DOMAIN tick'.todo \subseteq DOMAIN tick.todo BY <1>0, <2>1, RestStored
    <2>4. Unused' BY <1>4, <2>2, <2>3 DEF FireDropped, Unused
    <2> QED BY <1>0, <1>4, <2>4 DEF FireDropped, OnDisk, AnswersAreDurable, DiskIsCurrent
  <1>5. CASE Mark
    <2>1. tick.now \in Nat \ {0} BY <1>0, <1>5 DEF Mark, TickInv, Types
    <2>2. /\ jobs' = MarkedJobs(tick.job) /\ DOMAIN jobs' = DOMAIN jobs
          /\ tick.job \notin DOMAIN jobs => jobs' = jobs
      BY <1>5, <1>t, <2>1, MarkedStored DEF Mark
    <2>3. \/ disk' = jobs' /\ faults' = faults
          \/ disk' = disk /\ faults' = faults + 1
          \/ disk' = disk /\ faults' = faults /\ jobs' = jobs
      BY <1>5, <2>2 DEF Mark, Saved, SaveFails
    <2>4. tick'.todo = tick.todo BY <1>0, <1>5, TickerSteps
    <2>5. tick'.job = tick.job BY <1>0, <1>5 DEF Mark, Types, Ticker
    <2>6. answer' = answer /\ \A id \in JobIDs \ {tick.job} : fired'[id] = fired[id]
      BY <1>5, <1>t DEF Mark
    <2>7. OnDisk' BY <2>2, <2>3 DEF OnDisk
    <2>8. DiskIsCurrent' BY <1>t, <2>3 DEF DiskIsCurrent
    <2>9. AnswersAreDurable' BY <2>2, <2>3, <2>6 DEF AnswersAreDurable
    <2>10. Unused' BY <2>2, <2>3, <2>4, <2>5, <2>6 DEF Unused
    <2> QED BY <1>0, <2>7, <2>8, <2>9, <2>10
  <1>6. CASE TickSynthetic
    <2>1. DOMAIN tick'.todo = {} /\ tick'.job = Heartbeat
      BY <1>6, NoJobsStored DEF TickSynthetic, NoTick
    <2>2. Unused' BY <1>6, <2>1 DEF TickSynthetic, Unused, Heartbeat, JobIDs
    <2> QED BY <1>0, <1>6, <2>2 DEF TickSynthetic, OnDisk, AnswersAreDurable, DiskIsCurrent
  <1>7. ASSUME NEW id \in JobIDs, NEW s \in NewSchedules, Add(id, s) PROVE StoreInv'
    <2>1. id \notin DOMAIN jobs \cup DOMAIN disk BY <1>7 DEF Add, Unused
    <2>2. \A a : [answer EXCEPT ![id] = a][id] = a BY <1>t
    <2>3. \A a : \A j \in JobIDs \ {id} : [answer EXCEPT ![id] = a][j] = answer[j] BY <1>t
    <2>4. CASE /\ jobs' = Put(jobs, id, NewJob(s, now))
               /\ answer' = [answer EXCEPT ![id] = "scheduled"] /\ Saved
      <3>1. s \in Asked /\ NewJob(s, now) \in Stored BY <1>t, NewJobStored DEF Asked
      <3>2. DOMAIN jobs' = DOMAIN jobs \cup {id} /\ disk' = jobs' /\ faults' = faults
        BY <1>t, <2>4, <3>1, PutStored DEF Saved
      <3>3. answer'[id] = "scheduled" /\ \A j \in JobIDs \ {id} : answer'[j] = answer[j]
        BY <2>2, <2>3, <2>4
      <3>4. AnswersAreDurable' BY <3>2, <3>3 DEF AnswersAreDurable, OnDisk
      <3>5. Unused' BY <1>7, <3>2, <3>3 DEF Add, Unused, OnDisk
      <3> QED BY <1>0, <3>2, <3>4, <3>5 DEF OnDisk, DiskIsCurrent
    <2>5. CASE /\ Refused(id, s)
               /\ answer' = [answer EXCEPT ![id] = "refused"] /\ SaveFails
      <3>1. jobs' = jobs /\ disk' = disk /\ faults' = faults + 1
        BY <2>5 DEF Refused, SaveFails
      <3>2. answer'[id] = "refused" /\ \A j \in JobIDs \ {id} : answer'[j] = answer[j]
        BY <2>2, <2>3, <2>5
      <3>3. AnswersAreDurable' BY <2>1, <3>1, <3>2 DEF AnswersAreDurable
      <3>4. Unused' BY <1>7, <3>1, <3>2 DEF Add, Unused
      <3> QED BY <1>0, <1>t, <3>1, <3>3, <3>4 DEF OnDisk, DiskIsCurrent
    <2> QED BY <1>7, <2>4, <2>5 DEF Add
  <1>8. ASSUME NEW id \in JobIDs, Remove(id) PROVE StoreInv'
    <2>1. DOMAIN jobs \ {id} \in SUBSET DOMAIN jobs OBVIOUS
    <2>2. DOMAIN jobs' = DOMAIN jobs \ {id} BY <1>8, <1>t, <2>1, RestrictStored DEF Remove
    <2>3. \A a : [answer EXCEPT ![id] = a][id] = a BY <1>t
    <2>4. \A a : \A j \in JobIDs \ {id} : [answer EXCEPT ![id] = a][j] = answer[j] BY <1>t
    <2>5. \/ answer'[id] = "removed" /\ disk' = jobs' /\ faults' = faults
          \/ answer'[id] = "unsure" /\ disk' = disk /\ faults' = faults + 1
      BY <1>8, <2>3 DEF Remove, Saved, SaveFails
    <2>6. \A j \in JobIDs \ {id} : answer'[j] = answer[j] BY <1>8, <2>4 DEF Remove
    <2>7. OnDisk' BY <2>2, <2>5 DEF OnDisk
    <2>8. DiskIsCurrent' BY <1>t, <2>5 DEF DiskIsCurrent
    <2>9. AnswersAreDurable' BY <2>2, <2>5, <2>6 DEF AnswersAreDurable
    <2>10. Unused' BY <1>8, <2>2, <2>5, <2>6 DEF Remove, Unused
    <2> QED BY <1>0, <2>7, <2>8, <2>9, <2>10
  <1>9. CASE Clock
    BY <1>0, <1>9 DEF Clock, Unused, OnDisk, AnswersAreDurable, DiskIsCurrent
  <1>10. CASE Receive
    BY <1>0, <1>10 DEF Receive, Unused, OnDisk, AnswersAreDurable, DiskIsCurrent
  <1>11. CASE Restart
    <2>1. DOMAIN tick'.todo = {} /\ tick'.job = Heartbeat
      BY <1>11, NoJobsStored DEF Restart, NoTick
    <2>2. Unused' BY <1>11, <2>1 DEF Restart, Unused, Heartbeat, JobIDs
    <2>3. AnswersAreDurable' BY <1>11 DEF Restart, AnswersAreDurable
    <2> QED BY <1>0, <1>11, <2>2, <2>3 DEF Restart, OnDisk, DiskIsCurrent
  <1> QED BY <1>1, <1>2, <1>3, <1>4, <1>5, <1>6, <1>7, <1>8, <1>9, <1>10, <1>11
          DEF Next, Tick, Tool

-----------------------------------------------------------------------------
(* The firings.                                                            *)

\* The pairs of firings of which FiresOncePerOccasion speaks.
OncePerOccasion ==
    \A id \in JobIDs : \A i, j \in DOMAIN fired[id] :
        i < j /\ Occasion(asked[id], fired[id][i].at) >= Occasion(asked[id], fired[id][j].at)
            => ~fired[id][i].saved /\ fired[id][i].life < fired[id][j].life

\* Two of the invariant's parts, said with the others' notions.
LEMMA FiringParts ==
    /\ JobInv(jobs) /\ Types => (FiresOncePerOccasion <=> OncePerOccasion)
    /\ NeverEarly <=> \A id \in JobIDs : \A i \in DOMAIN fired[id] :
                        MayRunAt(asked[id], fired[id][i].at)
  <1>1. Types => DOMAIN jobs \subseteq JobIDs BY StoreShape DEF Types
  <1>2. JobInv(jobs) /\ Types => (FiresOncePerOccasion <=> OncePerOccasion)
    BY DEF JobInv, FiresOncePerOccasion, OncePerOccasion
  <1>3. NeverEarly <=> \A id \in JobIDs : \A i \in DOMAIN fired[id] :
                        MayRunAt(asked[id], fired[id][i].at)
    BY Zenon DEF NeverEarly, MayRunAt
  <1> QED BY <1>2, <1>3

\* What a firing is made of.
LEMMA FiringTypes ==
    ASSUME Types, NEW id \in JobIDs
    PROVE  /\ fired[id] \in Seq(Fired) /\ asked[id] \in Asked
           /\ Len(fired[id]) \in Nat /\ DOMAIN fired[id] = 1 .. Len(fired[id])
           /\ \A i \in DOMAIN fired[id] :
                /\ fired[id][i] \in Fired /\ fired[id][i].at \in Nat \ {0}
                /\ fired[id][i].life \in Nat /\ fired[id][i].saved \in BOOLEAN
  <1>1. fired[id] \in Seq(Fired) /\ asked[id] \in Asked BY DEF Types
  <1>2. \A i \in DOMAIN fired[id] : fired[id][i] \in Fired BY <1>1
  <1> QED BY <1>1, <1>2 DEF Fired

\* A job that ran at t is past everything up to t.
LEMMA MarkedIsPast ==
    ASSUME NEW job \in Stored, NEW t \in Nat \ {0}, NEW u \in Nat, u <= t
    PROVE  Past(MarkedRun(job, t), u)
  <1>0. job.schedule \in Asked BY DEF Stored
  <1>1. Sound(job.schedule) BY <1>0, AskedSound
  <1> DEFINE n == NextRunAt(job.schedule, t, t)
  <1>2. n \in Nat /\ (n # NoTime => Occasion(job.schedule, n) > Occasion(job.schedule, t))
    BY <1>1, NextIsLater
  <1>3. /\ Occasion(job.schedule, u) \in Int /\ Occasion(job.schedule, t) \in Int
        /\ Occasion(job.schedule, u) <= Occasion(job.schedule, t)
    BY <1>1, OccasionGrows
  <1>4. Occasion(job.schedule, n) \in Int BY <1>1, <1>2, OccasionGrows
  <1>5. MarkedRun(job, t).schedule = job.schedule /\ MarkedRun(job, t).next = n
    BY MarkedRunStored
  <1> HIDE DEF n
  <1> QED BY <1>2, <1>3, <1>4, <1>5 DEF Past

\* A job that is due is not past the present.
LEMMA DueIsNotPast ==
    ASSUME NEW job \in Stored, NEW t \in Nat, NEW u \in Nat, Due(job, t), Past(job, u)
    PROVE  Occasion(job.schedule, t) > Occasion(job.schedule, u)
  <1>0. job.schedule \in Asked /\ job.next \in Nat BY DEF Stored, Job
  <1>1. Sound(job.schedule) BY <1>0, AskedSound
  <1>2. job.next <= t /\ Occasion(job.schedule, job.next) > Occasion(job.schedule, u)
    BY DEF Due, Past
  <1>3. /\ Occasion(job.schedule, job.next) \in Int /\ Occasion(job.schedule, t) \in Int
        /\ Occasion(job.schedule, job.next) <= Occasion(job.schedule, t)
    BY <1>0, <1>1, <1>2, OccasionGrows
  <1>4. Occasion(job.schedule, u) \in Int BY <1>1, OccasionGrows
  <1> QED BY <1>2, <1>3, <1>4

\* A listed job fires for an occasion none of its other firings had.
LEMMA FireStep ==
    ASSUME StoreInv, FiringInv, Types', NEW id \in JobIDs, Fire(id)
    PROVE  FiringInv'
  <1>0. Types /\ tick.pc = "fire" /\ id \in DOMAIN tick.todo /\ JobInv(tick.todo)
        /\ restarts \in Nat /\ now \in Nat
    BY DEF StoreInv, FiringInv, Fire, Foremost, Types
  <1>1. tick.now \in 1 .. now /\ tick.now \in Nat \ {0} BY <1>0 DEF FiringInv, TickInv
  <1>2. /\ \A j \in JobIDs \ {id} : fired'[j] = fired[j]
        /\ Len(fired'[id]) = Len(fired[id]) + 1 /\ fired'[id] # <<>>
        /\ \A i \in DOMAIN fired[id] : fired'[id][i] = fired[id][i]
        /\ DOMAIN fired'[id] = DOMAIN fired[id] \cup {Len(fired'[id])}
        /\ fired'[id][Len(fired'[id])] = Firing
    BY <1>0, <1>1, FiringAdded DEF Fire
  <1>3. /\ tick'.pc = "mark" /\ tick'.now = tick.now /\ tick'.job = id
        /\ tick'.todo = Rest(id) /\ DOMAIN tick'.todo = DOMAIN tick.todo \ {id}
        /\ \A j \in DOMAIN tick'.todo : tick'.todo[j] = tick.todo[j]
    <2>1. /\ tick'.pc = "mark" /\ tick'.now = tick.now /\ tick'.job = id
          /\ tick'.todo = Rest(id)
      BY <1>0, TickerSteps
    <2>2. DOMAIN Rest(id) = DOMAIN tick.todo \ {id}
          /\ \A j \in DOMAIN Rest(id) : Rest(id)[j] = tick.todo[j]
      BY <1>0, RestStored
    <2> QED BY <2>1, <2>2
  <1>4. UNCHANGED <<now, jobs, disk, asked, restarts>> BY DEF Fire
  <1>5. /\ Firing.at = tick.now /\ Firing.life = restarts /\ ~Firing.saved
        /\ Firing' = Firing
    BY <1>3, <1>4 DEF Firing
  <1>6. \A j \in JobIDs : fired[j] # <<>> => fired'[j] # <<>> BY <1>2
  <1>7. DOMAIN jobs \subseteq JobIDs /\ DOMAIN disk \subseteq JobIDs
        /\ DOMAIN tick.todo \subseteq JobIDs /\ tick.todo[id] \in Stored
    BY <1>0, StoreShape DEF Types, Ticker
  <1>8. JobInv(jobs)' /\ JobInv(disk)' /\ JobInv(tick.todo)'
    BY <1>3, <1>4, <1>6, <1>7 DEF FiringInv, JobInv
  <1>9. TickInv' BY <1>2, <1>3, <1>4, <1>5, <1>1 DEF FiringInv, TickInv
  <1>10. FiredInv'
    BY <1>0, <1>1, <1>2, <1>3, <1>4, <1>5 DEF FiringInv, FiredInv
  <1>11. KnowsFirings'
    BY <1>0, <1>2, <1>3, <1>4, <1>5 DEF FiringInv, KnowsFirings, Unmarked
  <1>12. OncePerOccasion'
    <2>1. OncePerOccasion BY <1>0, FiringParts DEF FiringInv
    <2>2. ASSUME NEW i \in DOMAIN fired[id],
                 Occasion(asked[id], fired[id][i].at) >= Occasion(asked[id], tick.now)
          PROVE  ~fired[id][i].saved /\ fired[id][i].life < restarts
      <3>1. fired[id][i].at \in Nat /\ fired[id][i].life \in Nat BY <1>0, FiringTypes
      <3>2. tick.todo[id].schedule = asked[id] /\ Due(tick.todo[id], tick.now)
        BY <1>0 DEF FiringInv, TickInv, JobInv
      <3>3. ~Past(tick.todo[id], fired[id][i].at)
        <4>1. asked[id] \in Asked BY <1>0, FiringTypes
        <4>2. Sound(asked[id]) BY <4>1, AskedSound
        <4>3. /\ Occasion(asked[id], fired[id][i].at) \in Int
              /\ Occasion(asked[id], tick.now) \in Int
          BY <4>2, <3>1, <1>1, OccasionGrows
        <4> SUFFICES ASSUME Past(tick.todo[id], fired[id][i].at) PROVE FALSE OBVIOUS
        <4>4. Occasion(asked[id], tick.now) > Occasion(asked[id], fired[id][i].at)
          BY <1>1, <1>7, <3>1, <3>2, DueIsNotPast
        <4> QED BY <2>2, <4>3, <4>4
      <3>4. ~(fired[id][i].life = restarts \/ fired[id][i].saved)
        BY <1>0, <3>3 DEF FiringInv, KnowsFirings
      <3>5. fired[id][i].life <= restarts BY DEF FiringInv, FiredInv
      <3> QED BY <1>0, <3>1, <3>4, <3>5
    <2>3. \A i \in DOMAIN fired[id] : i \in 1 .. Len(fired[id]) BY <1>0, FiringTypes
    <2>4. Len(fired[id]) \in Nat BY <1>0, FiringTypes
    <2> HIDE DEF FiringInv, StoreInv
    <2> SUFFICES ASSUME NEW k \in JobIDs, NEW i \in DOMAIN fired'[k], NEW j \in DOMAIN fired'[k],
                        i < j,
                        Occasion(asked[k], fired'[k][i].at) >= Occasion(asked[k], fired'[k][j].at)
                 PROVE  ~fired'[k][i].saved /\ fired'[k][i].life < fired'[k][j].life
      BY <1>4 DEF OncePerOccasion
    <2>5. CASE k # id BY <1>2, <2>1, <2>5 DEF OncePerOccasion
    <2>6. CASE k = id /\ i \in DOMAIN fired[id] /\ j \in DOMAIN fired[id]
      BY <1>2, <2>1, <2>6 DEF OncePerOccasion
    <2>7. CASE k = id /\ i \in DOMAIN fired[id] /\ j = Len(fired'[id])
      BY <1>2, <1>5, <2>2, <2>7
    <2>8. CASE k = id /\ i = Len(fired'[id]) BY <1>2, <2>3, <2>4, <2>8
    <2> QED BY <1>2, <2>5, <2>6, <2>7, <2>8
  <1>13. NeverEarly'
    <2>1. tick.todo[id].next # NoTime /\ tick.now >= tick.todo[id].next
      <3>1. Due(tick.todo[id], tick.now) BY <1>0 DEF FiringInv, TickInv
      <3>2. tick.todo[id].next \in Nat BY <1>7 DEF Stored, Job
      <3> QED BY <3>1, <3>2, <1>1 DEF Due
    <2>2. MayRunAt(asked[id], tick.now) BY <1>0, <1>1, <2>1 DEF JobInv
    <2>3. \A k \in JobIDs : \A i \in DOMAIN fired[k] : MayRunAt(asked[k], fired[k][i].at)
      BY FiringParts DEF FiringInv
    <2>4. \A k \in JobIDs : \A i \in DOMAIN fired'[k] : MayRunAt(asked[k], fired'[k][i].at)
      BY <1>2, <1>5, <2>2, <2>3
    <2> QED BY <1>4, <2>4, Zenon DEF NeverEarly, MayRunAt
  <1>14. FiresOncePerOccasion'
    <2>1. DOMAIN jobs' \subseteq JobIDs BY <1>4, <1>7
    <2> QED BY <1>8, <1>12, Zenon DEF FiresOncePerOccasion, OncePerOccasion, JobInv
  <1> QED BY <1>8, <1>9, <1>10, <1>11, <1>13, <1>14 DEF FiringInv

\* Where nothing fires and nothing is asked for, the firings are as good as they
\* were.
LEMMA FiringsKept ==
    ASSUME StoreInv, FiringInv, Types', UNCHANGED <<fired, asked>>, JobInv(jobs)'
    PROVE  FiresOncePerOccasion' /\ NeverEarly'
  <1>0. DOMAIN jobs' \subseteq JobIDs BY StoreShape DEF Types
  <1>1. OncePerOccasion BY FiringParts DEF StoreInv, FiringInv
  <1>2. OncePerOccasion' BY <1>1 DEF OncePerOccasion
  <1>3. FiresOncePerOccasion'
    BY <1>0, <1>2, Zenon DEF FiresOncePerOccasion, OncePerOccasion, JobInv
  <1>4. NeverEarly BY DEF FiringInv
  <1>5. NeverEarly' BY <1>4 DEF NeverEarly
  <1> QED BY <1>3, <1>5

\* After MarkRun the job is past the firing, in memory and, once saved, in the
\* file.
LEMMA MarkStep ==
    ASSUME StoreInv, FiringInv, Types', Mark
    PROVE  FiringInv'
  <1> DEFINE id == tick.job
  <1>0. /\ Types /\ tick.pc = "mark" /\ JobInv(jobs) /\ JobInv(disk) /\ JobInv(tick.todo)
        /\ restarts \in Nat /\ now \in Nat /\ jobs \in Stores
        /\ fired \in [JobIDs -> Seq(Fired)]
    BY DEF StoreInv, FiringInv, Mark, Types
  <1>1. /\ tick.now \in 1 .. now /\ tick.now \in Nat \ {0} /\ id \in JobIDs
        /\ id \notin DOMAIN tick.todo /\ fired[id] # <<>>
        /\ fired[id][Len(fired[id])] = Firing
    BY <1>0 DEF FiringInv, TickInv
  <1>2. /\ jobs' = MarkedJobs(id) /\ DOMAIN jobs' = DOMAIN jobs
        /\ \A j \in DOMAIN jobs :
             jobs'[j] = IF j = id THEN MarkedRun(jobs[j], tick.now) ELSE jobs[j]
        /\ id \notin DOMAIN jobs => jobs' = jobs
    BY <1>0, <1>1, MarkedStored DEF Mark
  <1>3. tick'.pc = "fire" /\ tick'.now = tick.now /\ tick'.todo = tick.todo
    BY <1>0, TickerSteps
  <1>4. UNCHANGED <<now, asked, restarts>> BY DEF Mark
  <1>5. \/ /\ id \in DOMAIN jobs /\ disk' = jobs'
           /\ fired' = [fired EXCEPT ![id][Len(fired[id])].saved = TRUE]
        \/ disk' = disk /\ fired' = fired
    BY Zenon DEF Mark, Saved, SaveFails
  <1>6. /\ \A j \in JobIDs : DOMAIN fired'[j] = DOMAIN fired[j] /\ Len(fired'[j]) = Len(fired[j])
        /\ \A j \in JobIDs : \A i \in DOMAIN fired[j] :
             /\ fired'[j][i].at = fired[j][i].at /\ fired'[j][i].life = fired[j][i].life
             /\ j # id \/ i # Len(fired[id]) => fired'[j][i] = fired[j][i]
             /\ fired[j][i].saved => fired'[j][i].saved
    <2> DEFINE new == [fired EXCEPT ![id][Len(fired[id])].saved = TRUE]
    <2>1. /\ \A j \in JobIDs : DOMAIN new[j] = DOMAIN fired[j] /\ Len(new[j]) = Len(fired[j])
          /\ \A j \in JobIDs : \A i \in DOMAIN fired[j] :
               /\ new[j][i].at = fired[j][i].at /\ new[j][i].life = fired[j][i].life
               /\ j # id \/ i # Len(fired[id]) => new[j][i] = fired[j][i]
               /\ fired[j][i].saved => new[j][i].saved
      BY <1>0, <1>1, FiringSaved
    <2>2. fired' = new \/ fired' = fired BY <1>5
    <2> HIDE DEF new, id
    <2> QED BY <2>1, <2>2
  <1>7. DOMAIN jobs \subseteq JobIDs /\ DOMAIN disk \subseteq JobIDs
        /\ DOMAIN tick.todo \subseteq JobIDs /\ \A j \in DOMAIN jobs : jobs[j] \in Stored
    BY <1>0, StoreShape DEF Types, StoreInv, Ticker
  <1> HIDE DEF id
  <1>8. \A j \in JobIDs : fired[j] # <<>> => fired'[j] # <<>>
    <2>1. \A j \in JobIDs : fired[j] \in Seq(Fired) /\ fired'[j] \in Seq(Fired)
      BY <1>0 DEF Types
    <2>2. \A j \in JobIDs : Len(fired'[j]) = Len(fired[j]) BY <1>6
    <2>3. \A a, b \in Seq(Fired) : Len(a) = Len(b) /\ a # <<>> => b # <<>> OBVIOUS
    <2> QED BY <2>1, <2>2, <2>3
  <1>9. JobInv(jobs)'
    <2>1. ASSUME id \in DOMAIN jobs
          PROVE  LET job == MarkedRun(jobs[id], tick.now)
                 IN  /\ job.schedule = asked[id]
                     /\ job.next # NoTime => \A t \in Nat : t >= job.next => MayRunAt(asked[id], t)
      <3>1. /\ jobs[id] \in Stored /\ jobs[id].schedule = asked[id]
            /\ jobs[id].schedule \in Asked
        BY <1>0, <1>7, <2>1 DEF JobInv, Stored
      <3>2. Sound(asked[id]) BY <3>1, AskedSound
      <3>3. /\ MarkedRun(jobs[id], tick.now).schedule = asked[id]
            /\ MarkedRun(jobs[id], tick.now).next = NextRunAt(asked[id], tick.now, tick.now)
        BY <1>1, <3>1, MarkedRunStored
      <3>4. LET n == NextRunAt(asked[id], tick.now, tick.now)
            IN  n # NoTime => \A t \in Nat : t >= n => MayRunAt(asked[id], t)
        BY <1>1, <3>2, NextNotEarly
      <3> QED BY <3>3, <3>4
    <2>2. \A j \in DOMAIN jobs \ {id} : jobs'[j] = jobs[j] BY <1>2
    <2>3. id \in DOMAIN jobs => jobs'[id] = MarkedRun(jobs[id], tick.now) BY <1>2
    <2>4. \A j \in DOMAIN jobs' : jobs'[j].schedule = asked[j]
      BY <1>0, <1>2, <2>1, <2>2, <2>3 DEF JobInv
    <2>5. \A j \in DOMAIN jobs' : jobs'[j].next # NoTime =>
              \A t \in Nat : t >= jobs'[j].next => MayRunAt(asked[j], t)
      BY <1>0, <1>2, <2>1, <2>2, <2>3, Zenon DEF JobInv
    <2>6. \A j \in DOMAIN jobs' : ~jobs'[j].enabled => fired'[j] # <<>>
      BY <1>0, <1>1, <1>2, <1>7, <1>8, <2>2 DEF JobInv
    <2> QED BY <1>4, <2>4, <2>5, <2>6, Zenon DEF JobInv
  <1>10. JobInv(disk)'
    <2>1. CASE disk' = jobs' BY <1>9, <2>1 DEF JobInv
    <2>2. CASE disk' = disk BY <1>0, <1>4, <1>7, <1>8, <2>2 DEF JobInv
    <2> QED BY <1>5, <2>1, <2>2
  <1>11. JobInv(tick.todo)' BY <1>0, <1>3, <1>4, <1>7, <1>8 DEF JobInv
  <1>12. TickInv' BY <1>0, <1>3, <1>4 DEF FiringInv, TickInv
  <1>13. FiredInv' BY <1>0, <1>3, <1>4, <1>6 DEF FiringInv, FiredInv
  <1>14. \A i \in DOMAIN fired[id] : id \in DOMAIN jobs => Past(jobs'[id], fired[id][i].at)
    <2> SUFFICES ASSUME NEW i \in DOMAIN fired[id], id \in DOMAIN jobs
                 PROVE  Past(jobs'[id], fired[id][i].at)
      OBVIOUS
    <2>1. fired[id][i].at \in Nat BY <1>0, <1>1, FiringTypes
    <2>2. fired[id][i].at <= tick.now BY <1>0, <1>1 DEF FiringInv, FiredInv
    <2> QED BY <1>1, <1>2, <1>7, <2>1, <2>2, MarkedIsPast
  <1>15. KnowsFirings'
    <2> SUFFICES ASSUME NEW j \in JobIDs, NEW i \in DOMAIN fired[j]
                 PROVE  /\ fired'[j][i].life = restarts \/ fired'[j][i].saved =>
                            /\ j \in DOMAIN jobs' => Past(jobs'[j], fired[j][i].at)
                            /\ j \in DOMAIN tick.todo => Past(tick.todo[j], fired[j][i].at)
                        /\ fired'[j][i].saved /\ j \in DOMAIN disk' =>
                            Past(disk'[j], fired[j][i].at)
      BY <1>3, <1>4, <1>6 DEF KnowsFirings
    <2>1. /\ fired[j][i].life = restarts \/ fired[j][i].saved =>
                /\ j \in DOMAIN jobs => Past(jobs[j], fired[j][i].at) \/ Unmarked(j, i)
                /\ j \in DOMAIN tick.todo => Past(tick.todo[j], fired[j][i].at)
          /\ fired[j][i].saved /\ j \in DOMAIN disk => Past(disk[j], fired[j][i].at)
      BY DEF FiringInv, KnowsFirings
    <2>2. CASE j = id
      <3>1. j \in DOMAIN jobs' => Past(jobs'[j], fired[j][i].at) BY <1>2, <1>14, <2>2
      <3>2. j \notin DOMAIN tick.todo BY <1>1, <2>2
      <3>3. fired'[j][i].saved /\ j \in DOMAIN disk' => Past(disk'[j], fired[j][i].at)
        BY <1>5, <2>1, <3>1
      <3> QED BY <3>1, <3>2, <3>3
    <2>3. CASE j # id
      <3>1. ~Unmarked(j, i) BY <2>3 DEF Unmarked, id
      <3>2. fired'[j][i] = fired[j][i] BY <1>6, <2>3
      <3>3. j \in DOMAIN jobs' => jobs'[j] = jobs[j] BY <1>2, <2>3
      <3>4. fired[j][i].life = restarts \/ fired[j][i].saved =>
              /\ j \in DOMAIN jobs' => Past(jobs'[j], fired[j][i].at)
              /\ j \in DOMAIN tick.todo => Past(tick.todo[j], fired[j][i].at)
        BY <1>2, <2>1, <3>1, <3>3
      <3>5. fired[j][i].saved /\ j \in DOMAIN disk' => Past(disk'[j], fired[j][i].at)
        <4>1. CASE disk' = jobs' BY <3>4, <4>1
        <4>2. CASE disk' = disk BY <2>1, <4>2
        <4> QED BY <1>5, <4>1, <4>2
      <3> QED BY <3>2, <3>4, <3>5
    <2> QED BY <2>2, <2>3
  <1>16. OncePerOccasion'
    <2>1. OncePerOccasion BY <1>0, FiringParts DEF FiringInv
    <2>2. \A k \in JobIDs : Len(fired[k]) \in Nat /\ DOMAIN fired[k] = 1 .. Len(fired[k])
      BY <1>0, FiringTypes
    <2> HIDE DEF FiringInv, StoreInv
    <2> SUFFICES ASSUME NEW k \in JobIDs, NEW i \in DOMAIN fired[k], NEW j \in DOMAIN fired[k],
                        i < j,
                        Occasion(asked[k], fired[k][i].at) >= Occasion(asked[k], fired[k][j].at)
                 PROVE  ~fired'[k][i].saved /\ fired[k][i].life < fired[k][j].life
      BY <1>4, <1>6 DEF OncePerOccasion
    <2>3. ~fired[k][i].saved /\ fired[k][i].life < fired[k][j].life
      BY <2>1 DEF OncePerOccasion
    <2>4. i # Len(fired[k]) BY <2>2
    <2>5. fired'[k][i] = fired[k][i] BY <1>6, <2>4
    <2> QED BY <2>3, <2>5
  <1>17. NeverEarly'
    <2>1. \A k \in JobIDs : \A i \in DOMAIN fired[k] : MayRunAt(asked[k], fired[k][i].at)
      BY FiringParts DEF FiringInv
    <2>2. \A k \in JobIDs : \A i \in DOMAIN fired'[k] : MayRunAt(asked[k], fired'[k][i].at)
      BY <1>6, <2>1
    <2> QED BY <1>4, <2>2, Zenon DEF NeverEarly, MayRunAt
  <1>18. FiresOncePerOccasion'
    <2>1. DOMAIN jobs' \subseteq JobIDs BY <1>2, <1>7
    <2> QED BY <1>9, <1>16, <2>1, Zenon DEF FiresOncePerOccasion, OncePerOccasion, JobInv
  <1> QED BY <1>9, <1>10, <1>11, <1>12, <1>13, <1>15, <1>17, <1>18 DEF FiringInv

\* Every step keeps what is said of the firings.
LEMMA FiringStep ==
    ASSUME StoreInv, FiringInv, [Next]_vars
    PROVE  FiringInv'
  <1>0. Types /\ Types' /\ TickInv /\ JobInv(jobs) /\ JobInv(disk) /\ JobInv(tick.todo)
    BY TypesStep DEF StoreInv, FiringInv
  <1>s. StoreInv' BY <1>0, StoreStep
  <1>t. /\ jobs \in Stores /\ disk \in Stores /\ tick.todo \in Stores
        /\ now \in Nat \ {0} /\ restarts \in Nat
        /\ asked \in [JobIDs -> Asked] /\ fired \in [JobIDs -> Seq(Fired)]
    BY <1>0 DEF Types, Ticker
  <1>d. DOMAIN jobs \subseteq JobIDs /\ DOMAIN disk \subseteq JobIDs
        /\ DOMAIN tick.todo \subseteq JobIDs
    BY <1>t, StoreShape
  <1>u. \A id \in JobIDs, i \in Int : tick.pc # "mark" => ~Unmarked(id, i) BY DEF Unmarked
  <1>f. \A id \in JobIDs : \A i \in DOMAIN fired[id] :
            /\ i \in Int /\ fired[id][i].at \in Nat \ {0} /\ fired[id][i].life \in Nat
    BY <1>0, FiringTypes
  <1>k. KnowsFirings /\ FiredInv BY DEF FiringInv
  <1>1. CASE UNCHANGED vars
    <2>1. UNCHANGED <<now, jobs, disk, tick, asked, fired, restarts>> BY <1>1 DEF vars
    <2>2. JobInv(jobs)' /\ JobInv(disk)' /\ JobInv(tick.todo)' BY <1>0, <2>1 DEF JobInv
    <2>3. TickInv' BY <1>0, <2>1 DEF TickInv, Firing
    <2>4. FiredInv' BY <1>k, <2>1 DEF FiredInv
    <2>5. KnowsFirings' BY <1>k, <2>1 DEF KnowsFirings, Unmarked
    <2> QED BY <1>0, <2>1, <2>2, <2>3, <2>4, <2>5, FiringsKept DEF FiringInv
  <1>2. CASE TickStart
    <2>1. UNCHANGED <<now, jobs, disk, asked, fired, restarts>> /\ tick.pc = "idle"
      BY <1>2 DEF TickStart
    <2>2. tick'.pc = "fire" /\ tick'.now = now /\ tick'.todo = DueIn(jobs, now)
      BY <1>0, <1>2, TickerSteps
    <2>3. \A id \in DOMAIN tick'.todo :
            id \in DOMAIN jobs /\ tick'.todo[id] = jobs[id] /\ Due(jobs[id], now)
      BY <1>t, <2>2, DueStored
    <2>4. JobInv(jobs)' /\ JobInv(disk)' BY <1>0, <2>1 DEF JobInv
    <2>5. JobInv(tick.todo)' BY <1>0, <2>1, <2>3 DEF JobInv
    <2>6. TickInv' BY <1>t, <2>1, <2>2, <2>3 DEF TickInv
    <2>7. FiredInv' BY <1>k, <2>1, <2>2 DEF FiredInv
    <2>8. KnowsFirings'
      BY <1>k, <1>u, <1>f, <2>1, <2>2, <2>3 DEF KnowsFirings, Unmarked
    <2> QED BY <1>0, <2>1, <2>4, <2>5, <2>6, <2>7, <2>8, FiringsKept DEF FiringInv
  <1>3. ASSUME NEW id \in JobIDs, Fire(id) PROVE FiringInv' BY <1>0, <1>3, FireStep
  <1>4. ASSUME NEW id \in JobIDs, FireDropped(id) PROVE FiringInv'
    <2>1. UNCHANGED <<now, jobs, disk, asked, fired, restarts>> /\ tick.pc = "fire"
      BY <1>4 DEF FireDropped
    <2>2. tick'.pc = "fire" /\ tick'.now = tick.now /\ tick'.todo = Rest(id)
      BY <1>0, <1>4, TickerSteps
    <2>3. \A j \in DOMAIN tick'.todo : j \in DOMAIN tick.todo /\ tick'.todo[j] = tick.todo[j]
      <3>1. DOMAIN Rest(id) = DOMAIN tick.todo \ {id}
            /\ \A j \in DOMAIN Rest(id) : Rest(id)[j] = tick.todo[j]
        BY <1>0, RestStored
      <3> QED BY <2>2, <3>1
    <2>4. JobInv(jobs)' /\ JobInv(disk)' BY <1>0, <2>1 DEF JobInv
    <2>5. JobInv(tick.todo)' BY <1>0, <2>1, <2>3 DEF JobInv
    <2>6. TickInv' BY <1>0, <2>1, <2>2, <2>3 DEF TickInv
    <2>7. FiredInv' BY <1>k, <2>1, <2>2 DEF FiredInv
    <2>8. KnowsFirings'
      BY <1>k, <1>u, <1>f, <2>1, <2>2, <2>3 DEF KnowsFirings, Unmarked
    <2> QED BY <1>0, <2>1, <2>4, <2>5, <2>6, <2>7, <2>8, FiringsKept DEF FiringInv
  <1>5. CASE Mark BY <1>0, <1>5, MarkStep
  <1>6. CASE TickSynthetic
    <2>1. UNCHANGED <<now, jobs, disk, asked, fired, restarts>> /\ tick.pc = "fire"
      BY <1>6 DEF TickSynthetic
    <2>2. tick'.pc = "idle" /\ tick'.todo = NoJobs /\ DOMAIN tick'.todo = {}
      BY <1>0, <1>6, TickerSteps, NoJobsStored
    <2>4. JobInv(jobs)' /\ JobInv(disk)' /\ JobInv(tick.todo)' BY <1>0, <2>1, <2>2 DEF JobInv
    <2>6. TickInv' BY <2>2 DEF TickInv
    <2>7. FiredInv' BY <1>k, <2>1, <2>2 DEF FiredInv
    <2>8. KnowsFirings' BY <1>k, <1>u, <1>f, <2>1, <2>2 DEF KnowsFirings, Unmarked
    <2> QED BY <1>0, <2>1, <2>4, <2>6, <2>7, <2>8, FiringsKept DEF FiringInv
  <1>7. ASSUME NEW id \in JobIDs, NEW s \in NewSchedules, Add(id, s) PROVE FiringInv'
    <2>1. UNCHANGED <<now, tick, fired, restarts>> BY <1>7 DEF Add
    <2>2. /\ id \notin DOMAIN jobs \cup DOMAIN disk \cup DOMAIN tick.todo
          /\ fired[id] = <<>>
      BY <1>7 DEF Add, StoreInv, Unused
    <2>3. asked'[id] = s /\ \A j \in JobIDs \ {id} : asked'[j] = asked[j]
      BY <1>7, <1>t DEF Add
    <2>4. s \in Asked /\ Sound(s) BY AskedSound DEF Asked
    <2>5. /\ NewJob(s, now) \in Stored /\ NewJob(s, now).schedule = s
          /\ NewJob(s, now).enabled /\ NewJob(s, now).next = NextRunAt(s, NoTime, now)
      BY <1>t, <2>4, NewJobStored
    <2>6. LET n == NextRunAt(s, NoTime, now)
          IN  n # NoTime => \A t \in Nat : t >= n => MayRunAt(s, t)
      BY <1>t, <2>4, NextNotEarly DEF NoTime
    <2>7. \/ /\ DOMAIN jobs' = DOMAIN jobs \cup {id} /\ disk' = jobs'
             /\ jobs'[id] = NewJob(s, now)
             /\ \A j \in DOMAIN jobs : jobs'[j] = jobs[j]
          \/ jobs' = jobs /\ disk' = disk
      <3>1. CASE jobs' = Put(jobs, id, NewJob(s, now)) /\ Saved
        <4>1. jobs' = [j \in DOMAIN jobs \cup {id} |-> IF j = id THEN NewJob(s, now) ELSE jobs[j]]
          BY <3>1 DEF Put
        <4>2. disk' = jobs' BY <3>1 DEF Saved
        <4> QED BY <2>2, <4>1, <4>2
      <3>2. CASE Refused(id, s) /\ SaveFails BY <3>2 DEF Refused, SaveFails
      <3> QED BY <1>7, <3>1, <3>2 DEF Add
    <2>8. JobInv(jobs)'
      <3>1. CASE jobs' = jobs BY <1>0, <1>d, <2>1, <2>2, <2>3, <3>1 DEF JobInv
      <3>2. CASE /\ DOMAIN jobs' = DOMAIN jobs \cup {id} /\ jobs'[id] = NewJob(s, now)
                 /\ \A j \in DOMAIN jobs : jobs'[j] = jobs[j]
        <4>1. ASSUME NEW j \in DOMAIN jobs
              PROVE  /\ jobs'[j].schedule = asked'[j]
                     /\ jobs'[j].next # NoTime =>
                         \A t \in Nat : t >= jobs'[j].next => MayRunAt(asked'[j], t)
                     /\ ~jobs'[j].enabled => fired'[j] # <<>>
          BY <1>0, <1>d, <2>1, <2>2, <2>3, <3>2 DEF JobInv
        <4>2. /\ jobs'[id].schedule = asked'[id]
              /\ jobs'[id].next # NoTime =>
                  \A t \in Nat : t >= jobs'[id].next => MayRunAt(asked'[id], t)
              /\ jobs'[id].enabled
          BY <2>3, <2>5, <2>6, <3>2
        <4> QED BY <3>2, <4>1, <4>2, Zenon DEF JobInv
      <3> QED BY <2>7, <3>1, <3>2
    <2>9. JobInv(disk)'
      <3>1. CASE disk' = disk BY <1>0, <1>d, <2>1, <2>2, <2>3, <3>1 DEF JobInv
      <3>2. CASE disk' = jobs' BY <2>8, <3>2 DEF JobInv
      <3> QED BY <2>7, <3>1, <3>2
    <2>10. JobInv(tick.todo)' BY <1>0, <1>d, <2>1, <2>2, <2>3 DEF JobInv
    <2>11. TickInv' BY <1>0, <2>1 DEF TickInv, Firing
    <2>12. FiredInv' BY <1>k, <2>1 DEF FiredInv
    <2>13. KnowsFirings'
      <3> SUFFICES ASSUME NEW j \in JobIDs, NEW i \in DOMAIN fired[j]
                   PROVE  /\ fired[j][i].life = restarts \/ fired[j][i].saved =>
                              /\ j \in DOMAIN jobs' => Past(jobs'[j], fired[j][i].at) \/ Unmarked(j, i)
                              /\ j \in DOMAIN tick.todo => Past(tick.todo[j], fired[j][i].at)
                          /\ fired[j][i].saved /\ j \in DOMAIN disk' =>
                              Past(disk'[j], fired[j][i].at)
        BY <2>1 DEF KnowsFirings, Unmarked
      <3>1. j # id /\ i \in Int BY <2>2, <1>f
      <3>2. j \in DOMAIN jobs' => j \in DOMAIN jobs /\ jobs'[j] = jobs[j] BY <2>7, <3>1
      <3>3. \/ disk' = disk
            \/ j \in DOMAIN disk' => j \in DOMAIN jobs /\ disk'[j] = jobs[j]
        BY <2>7, <3>2
      <3>4. fired[j][i].saved => ~Unmarked(j, i)
        BY <1>0 DEF TickInv, Unmarked, Firing
      <3> QED BY <1>k, <3>2, <3>3, <3>4 DEF KnowsFirings
    <2>14. OncePerOccasion'
      <3>1. OncePerOccasion BY <1>0, FiringParts DEF FiringInv
      <3>2. \A j \in JobIDs : j # id \/ DOMAIN fired[j] = {} BY <2>2
      <3> QED BY <2>1, <2>3, <3>1, <3>2 DEF OncePerOccasion
    <2>15. NeverEarly'
      <3>1. \A j \in JobIDs : \A i \in DOMAIN fired[j] : MayRunAt(asked[j], fired[j][i].at)
        BY FiringParts DEF FiringInv
      <3>2. \A j \in JobIDs : \A i \in DOMAIN fired'[j] : MayRunAt(asked'[j], fired'[j][i].at)
        BY <2>1, <2>2, <2>3, <3>1
      <3> QED BY <3>2, Zenon DEF NeverEarly, MayRunAt
    <2>16. FiresOncePerOccasion'
      <3>1. DOMAIN jobs' \subseteq JobIDs BY <1>0, StoreShape DEF Types
      <3> QED BY <2>8, <2>14, <3>1, Zenon DEF FiresOncePerOccasion, OncePerOccasion, JobInv
    <2> QED BY <2>8, <2>9, <2>10, <2>11, <2>12, <2>13, <2>15, <2>16 DEF FiringInv
  <1>8. ASSUME NEW id \in JobIDs, Remove(id) PROVE FiringInv'
    <2>1. UNCHANGED <<now, tick, asked, fired, restarts>> BY <1>8 DEF Remove
    <2>2. DOMAIN jobs \ {id} \in SUBSET DOMAIN jobs OBVIOUS
    <2>3. \A j \in DOMAIN jobs' : j \in DOMAIN jobs /\ jobs'[j] = jobs[j]
      BY <1>8, <1>t, <2>2, RestrictStored DEF Remove
    <2>4. disk' = disk \/ disk' = jobs' BY <1>8 DEF Remove, Saved, SaveFails
    <2>5. \A j \in DOMAIN disk' : \/ disk' = disk
                                  \/ j \in DOMAIN jobs /\ disk'[j] = jobs[j]
      BY <2>3, <2>4
    <2>6. JobInv(jobs)' BY <1>0, <2>1, <2>3 DEF JobInv
    <2>7. JobInv(disk)' BY <1>0, <2>1, <2>4, <2>6 DEF JobInv
    <2>8. JobInv(tick.todo)' BY <1>0, <2>1 DEF JobInv
    <2>9. TickInv' BY <1>0, <2>1 DEF TickInv, Firing
    <2>10. FiredInv' BY <1>k, <2>1 DEF FiredInv
    <2>11. KnowsFirings'
      <3> SUFFICES ASSUME NEW j \in JobIDs, NEW i \in DOMAIN fired[j]
                   PROVE  /\ fired[j][i].life = restarts \/ fired[j][i].saved =>
                              /\ j \in DOMAIN jobs' => Past(jobs'[j], fired[j][i].at) \/ Unmarked(j, i)
                              /\ j \in DOMAIN tick.todo => Past(tick.todo[j], fired[j][i].at)
                          /\ fired[j][i].saved /\ j \in DOMAIN disk' =>
                              Past(disk'[j], fired[j][i].at)
        BY <2>1 DEF KnowsFirings, Unmarked
      <3>1. fired[j][i].saved => ~Unmarked(j, i)
        BY <1>0 DEF TickInv, Unmarked, Firing
      <3> QED BY <1>k, <2>3, <2>5, <3>1 DEF KnowsFirings
    <2> QED BY <1>0, <2>1, <2>6, <2>7, <2>8, <2>9, <2>10, <2>11, FiringsKept DEF FiringInv
  <1>9. CASE Clock
    <2>1. UNCHANGED <<jobs, disk, tick, asked, fired, restarts>> /\ now' = now + 1
      BY <1>9 DEF Clock
    <2>2. JobInv(jobs)' /\ JobInv(disk)' /\ JobInv(tick.todo)' BY <1>0, <2>1 DEF JobInv
    <2>3. TickInv' BY <1>0, <1>t, <2>1 DEF TickInv, Firing
    <2>4. FiredInv' BY <1>k, <1>t, <1>f, <2>1 DEF FiredInv
    <2>5. KnowsFirings' BY <1>k, <2>1 DEF KnowsFirings, Unmarked
    <2> QED BY <1>0, <2>1, <2>2, <2>3, <2>4, <2>5, FiringsKept DEF FiringInv
  <1>10. CASE Receive
    <2>1. UNCHANGED <<now, jobs, disk, tick, asked, fired, restarts>> BY <1>10 DEF Receive
    <2>2. JobInv(jobs)' /\ JobInv(disk)' /\ JobInv(tick.todo)' BY <1>0, <2>1 DEF JobInv
    <2>3. TickInv' BY <1>0, <2>1 DEF TickInv, Firing
    <2>4. FiredInv' BY <1>k, <2>1 DEF FiredInv
    <2>5. KnowsFirings' BY <1>k, <2>1 DEF KnowsFirings, Unmarked
    <2> QED BY <1>0, <2>1, <2>2, <2>3, <2>4, <2>5, FiringsKept DEF FiringInv
  <1>11. CASE Restart
    <2>1. UNCHANGED <<now, disk, asked, fired>> /\ jobs' = disk /\ restarts' = restarts + 1
      BY <1>11 DEF Restart
    <2>2. tick'.pc = "idle" /\ tick'.todo = NoJobs /\ DOMAIN tick'.todo = {}
      BY <1>0, <1>11, TickerSteps, NoJobsStored
    <2>3. JobInv(jobs)' /\ JobInv(disk)' /\ JobInv(tick.todo)' BY <1>0, <2>1, <2>2 DEF JobInv
    <2>4. TickInv' BY <2>2 DEF TickInv
    <2>5. FiredInv' BY <1>k, <1>t, <1>f, <2>1, <2>2 DEF FiredInv
    <2>6. KnowsFirings'
      <3>1. \A id \in JobIDs : \A i \in DOMAIN fired[id] : fired[id][i].life # restarts'
        BY <1>k, <1>t, <1>f, <2>1 DEF FiredInv
      <3> QED BY <1>k, <2>1, <2>2, <3>1 DEF KnowsFirings
    <2> QED BY <1>0, <2>1, <2>3, <2>4, <2>5, <2>6, FiringsKept DEF FiringInv
  <1> QED BY <1>1, <1>2, <1>3, <1>4, <1>5, <1>6, <1>7, <1>8, <1>9, <1>10, <1>11
          DEF Next, Tick, Tool

-----------------------------------------------------------------------------
(* The theorems.                                                           *)

\* What the store, the file, the ticker and the firings satisfy throughout.
THEOREM SchedulerInv == Spec => [](StoreInv /\ FiringInv)
  <1>1. ASSUME Init PROVE StoreInv /\ FiringInv
    <2>0. Types BY <1>1, TypesInit
    <2>1. /\ jobs = NoJobs /\ disk = NoJobs /\ DOMAIN NoJobs = {}
          /\ tick.pc = "idle" /\ tick.todo = NoJobs /\ tick.job = Heartbeat
          /\ \A id \in JobIDs : fired[id] = <<>> /\ answer[id] = "none"
      BY <1>1, NoJobsStored DEF Init, NoTick
    <2>2. Unused BY <2>1 DEF Unused, Heartbeat, JobIDs
    <2>3. OnDisk /\ AnswersAreDurable /\ DiskIsCurrent
      BY <2>1 DEF OnDisk, AnswersAreDurable, DiskIsCurrent
    <2>4. JobInv(jobs) /\ JobInv(disk) /\ JobInv(tick.todo) BY <2>1 DEF JobInv
    <2>5. TickInv BY <2>1 DEF TickInv
    <2>6. \A id \in JobIDs : DOMAIN fired[id] = {} BY <2>1
    <2>7. FiredInv /\ KnowsFirings BY <2>6 DEF FiredInv, KnowsFirings
    <2>8. NeverEarly BY <2>6 DEF NeverEarly
    <2>9. FiresOncePerOccasion BY <2>1, <2>6 DEF FiresOncePerOccasion
    <2> QED BY <2>0, <2>2, <2>3, <2>4, <2>5, <2>7, <2>8, <2>9 DEF StoreInv, FiringInv
  <1>2. StoreInv /\ FiringInv /\ [Next]_vars => (StoreInv /\ FiringInv)'
    BY StoreStep, FiringStep DEF FiringInv
  <1> QED BY <1>1, <1>2, PTL DEF Spec

\* What the schedule tool answered is durable, for any number of jobs, whatever
\* the ticker does, whichever saves fail, and however often the process restarts.
THEOREM SchedulerAnswersAreDurable == Spec => []AnswersAreDurable
  <1>1. StoreInv => AnswersAreDurable BY DEF StoreInv
  <1> QED BY <1>1, SchedulerInv, PTL

\* Without a failed save, the file holds what memory holds.
THEOREM SchedulerDiskIsCurrent == Spec => []DiskIsCurrent
  <1>1. StoreInv => DiskIsCurrent BY DEF StoreInv
  <1> QED BY <1>1, SchedulerInv, PTL

\* A job fires once per occasion of its schedule, for any schedules, any channel
\* and any lateness; only a firing that was not saved is repeated, after a
\* restart; and an at job is disabled only by its firing.
THEOREM SchedulerFiresOncePerOccasion == Spec => []FiresOncePerOccasion
  <1>1. FiringInv => FiresOncePerOccasion BY DEF FiringInv
  <1> QED BY <1>1, SchedulerInv, PTL

\* No job fires before the first time its schedule has.
THEOREM SchedulerNeverEarly == Spec => []NeverEarly
  <1>1. FiringInv => NeverEarly BY DEF FiringInv
  <1> QED BY <1>1, SchedulerInv, PTL
=============================================================================
