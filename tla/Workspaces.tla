----------------------------- MODULE Workspaces -----------------------------
(***************************************************************************)
(* Whose directories the tools work in.  Threads of messaging channels     *)
(* have a workspace and a memory directory of their own (main.go:          *)
(* threadProvisioner), the terminal and the scheduler share the project's. *)
(* HandleTurn switches the working directory and the active memory store   *)
(* of the whole process for a turn.  A tool call looks one of them up when *)
(* it begins and works on while the turns change: the calls of a subagent  *)
(* in the background do, and its result goes to whichever turn asks for it.*)
(*                                                                         *)
(* The two path segments channel/thread are one here.                      *)
(***************************************************************************)
EXTENDS Naturals, SequencesExt

CONSTANTS
    Threads,    \* conversations of messaging channels
    Exempt,     \* conversations of the terminal and the scheduler
    Main,       \* the agent of the turns and of the distillation
    Runs,       \* background runs of subagents
    Home,       \* the project: its directory, its memory
    Segments,   \* names of directories for threads
    Segment,    \* thread -> its name as a directory: sanitizePathSegment
    Faults,     \* which of "mkdir", "chdir" and "restore" may fail
    NoTurn, NoStore, NoCall

Keys == Threads \cup Exempt

Agents == Runs \cup {Main}

\* Where a workspace or a memory can be.
Places == Segments \cup {Home}

\* No other thread has its directory's name.
Alone(k) == \A j \in Threads \ {k} : Segment[j] # Segment[k]

Curated == "MEMORY.md"

\* A store's directory below .yak/memory: the project's holds those of the threads.
Base(store) == IF store = Home THEN <<>> ELSE <<store>>

\* What an agent may give as a path.
Relative == {<<Curated>>, <<"..", Curated>>}
    \cup {<<d, Curated>> : d \in Segments} \cup {<<"..", d, Curated>> : d \in Segments}
    \cup {<<d, "..", Curated>> : d \in Segments}

\* Where that can lead from the directory of a store; outside of all, too.
Paths == {<<Curated>>, <<"..", Curated>>}
    \cup {<<d, Curated>> : d \in Segments} \cup {<<"..", d, Curated>> : d \in Segments}
    \cup {<<d, e, Curated>> : d \in Segments, e \in Segments}

\* Who does something: for whose turn it was started, in whose turn it acts, and
\* whether it is a run that has outlived its turn.
Mark == [for : Keys \cup {NoTurn}, turn : Keys \cup {NoTurn}, strayed : BOOLEAN]

\* What was written: by whom, through which store, to which file.
Note == [by : Mark, store : Places, path : Paths]

\* What a conversation shows before it has a system prompt: no set of notes.
NoHistory == {NoTurn}

Turn == [key : Keys, cwd : Places, active : Places \cup {NoStore},
         seen : {NoHistory} \cup SUBSET Note]

\* A subagent: what it was told and has read makes its result.
Run == [state : {"none", "running", "ended"}, for : Keys \cup {NoTurn},
        strayed : BOOLEAN, got : SUBSET Note]

NoRun == [state |-> "none", for |-> NoTurn, strayed |-> FALSE, got |-> {}]

OnMemory == {"read", "write", "append", "search"}

OnFiles == {"shell", "file"}

\* A tool call under way: the store or directory it looked up when it began.
Call == [kind : OnMemory \cup OnFiles, path : Relative \cup {<<>>}, at : Places, by : Mark]

ASSUME PlacesAssumption ==
    /\ Threads \cap Exempt = {} /\ Home \notin Segments
    /\ Segment \in [Threads -> Segments]
    /\ Main \notin Runs
    /\ NoStore \notin Places /\ NoCall \notin Call
    /\ NoTurn \notin Turn /\ NoTurn \notin Note /\ NoTurn \notin Keys

VARIABLES
    cwd,     \* the working directory of the process
    active,  \* Runner.activeMemoryStore
    place,   \* key -> where its Conversation is provisioned, or NoStore
    turn,    \* the turn that runs, with what it will restore, or NoTurn
    runs,    \* the subagents
    pending, \* agent -> its tool call under way, or NoCall
    notes,   \* path -> the notes in the file
    work,    \* workspace -> who changed files there
    seen,    \* key -> the notes its history shows, or NoHistory
    \* not in the code:
    fallen,  \* the threads whose directory could not be made
    told,    \* the keys whose history has the result of a run of an earlier turn
    stuck    \* the directories that a turn failed to leave

books == <<fallen, told, stuck>>

placeVars == <<cwd, active, place, turn, runs, pending, notes, work, seen, books>>

PlacesInit ==
    /\ cwd = Home
    /\ active = NoStore
    /\ place = [k \in Keys |-> NoStore]
    /\ turn = NoTurn
    /\ runs = [r \in Runs |-> NoRun]
    /\ pending = [a \in Agents |-> NoCall]
    /\ notes = [p \in Paths |-> {}]
    /\ work = [p \in Places |-> {}]
    /\ seen = [k \in Keys |-> NoHistory]
    /\ fallen = {}
    /\ told = {}
    /\ stuck = {}

-----------------------------------------------------------------------------
(* The memory store.                                                       *)

\* filepath.Clean.
Clean(path) ==
    FoldLeft(LAMBDA done, segment :
                IF segment = ".." /\ done # <<>> /\ Last(done) # ".."
                THEN Front(done) ELSE Append(done, segment),
             <<>>, path)

Cleaned == [path \in Relative |-> Clean(path)]

\* Bug for the checks: only the path as it was given is looked at.
Escapes_Unclean(path) == path = <<"..">>

\* The path leads out of the directory.
Escapes(path) == Head(Cleaned[path]) = ".."

\* Bug for the checks: always the project's store.
ActiveMemoryStore_Project == Home

ActiveMemoryStore == IF active = NoStore THEN Home ELSE active

\* SandboxPath: the file, or none.  Join cleans once more.
SandboxPath(store, path) ==
    IF Escapes(path) THEN {} ELSE {Clean(Base(store) \o Cleaned[path])}

\* LoadCurated.
LoadCurated(store) == notes[Append(Base(store), Curated)]

\* Search and List walk the store's directory.
Below(store) == UNION {notes[p] : p \in {q \in Paths : IsPrefix(Base(store), q)}}

\* filepath.Join of a directory and a cleaned path that does not lead out of it
\* stays below the directory.
ASSUME CleanAssumption ==
    \A store \in Places, path \in Relative :
        Head(Clean(path)) # ".." =>
            /\ Clean(Base(store) \o Clean(path)) \in Paths
            /\ store \in Segments => Head(Clean(Base(store) \o Clean(path))) = store

-----------------------------------------------------------------------------
(* Turns.                                                                  *)

\* What a call to the system may do.
Outcomes(fault) == IF fault \in Faults THEN BOOLEAN ELSE {TRUE}

\* Provision: exempt channels share the project's; so does, silently, a thread
\* whose directory cannot be made.
Provisioned(k, made) == IF k \in Threads /\ made THEN Segment[k] ELSE Home

InTurn == turn # NoTurn

Key == IF InTurn THEN turn.key ELSE NoTurn

\* Between two calls of the agent loop.
Ready == pending[Main] = NoCall

\* Store.Get, then HandleTurn up to its loop.  A failed mkdir or chdir leaves the
\* working directory as it is.
StartTurn(k, made, entered) ==
    LET at == IF place[k] # NoStore THEN place[k] ELSE Provisioned(k, made)
    IN  /\ ~InTurn /\ Ready
        /\ place' = [place EXCEPT ![k] = at]
        /\ fallen' = IF k \in Threads /\ at = Home THEN fallen \cup {k} ELSE fallen
        /\ turn' = [key |-> k, cwd |-> cwd, active |-> active, seen |-> seen[k]]
        /\ cwd' = IF at # Home /\ entered THEN at ELSE cwd
        /\ active' = at
        /\ seen' = IF seen[k] = NoHistory THEN [seen EXCEPT ![k] = LoadCurated(at)] ELSE seen
        /\ UNCHANGED <<runs, pending, notes, work, told, stuck>>

\* The runs of a turn that is over.
Strayed == [r \in Runs |-> IF runs[r].state = "none" THEN NoRun
                           ELSE [runs[r] EXCEPT !.strayed = TRUE]]

\* The deferred functions, but for the store.  The error of Chdir is ignored.
LeaveTurn(back) ==
    /\ InTurn /\ Ready
    /\ turn' = NoTurn
    /\ cwd' = IF back THEN turn.cwd ELSE cwd
    /\ stuck' = IF back \/ cwd = turn.cwd THEN stuck ELSE stuck \cup {cwd}
    /\ runs' = Strayed
    /\ UNCHANGED <<place, pending, notes, work, seen, fallen, told>>

\* Bug for the checks: the store of the turn stays active.
EndTurn_KeepsStore(back) == LeaveTurn(back) /\ UNCHANGED active

EndTurn(back) == LeaveTurn(back) /\ active' = turn.active

\* A reset between turns: the next turn builds a new system prompt.
Reset(k) ==
    /\ ~InTurn
    /\ seen' = [seen EXCEPT ![k] = NoHistory]
    /\ told' = told \ {k}
    /\ UNCHANGED <<cwd, active, place, turn, runs, pending, notes, work, fallen, stuck>>

-----------------------------------------------------------------------------
(* Subagents.                                                              *)

\* The task may tell what the conversation shows.
SpawnRun(r) ==
    /\ Ready
    /\ runs[r].state = "none"
    /\ runs' = [runs EXCEPT ![r] =
          [state |-> "running", for |-> Key, strayed |-> ~InTurn,
           got |-> IF InTurn THEN seen[turn.key] ELSE {}]]
    /\ UNCHANGED <<cwd, active, place, turn, pending, notes, work, seen, books>>

RunEnds(r) ==
    /\ runs[r].state = "running" /\ pending[r] = NoCall
    /\ runs' = [runs EXCEPT ![r].state = "ended"]
    /\ UNCHANGED <<cwd, active, place, turn, pending, notes, work, seen, books>>

\* The turn waits for a run, of whatever turn, and has its result in the history.
TakesResult(r) ==
    /\ InTurn /\ Ready
    /\ runs[r].state = "ended"
    /\ seen' = [seen EXCEPT ![turn.key] = @ \cup runs[r].got]
    /\ told' = IF runs[r].strayed THEN told \cup {turn.key} ELSE told
    /\ UNCHANGED <<cwd, active, place, turn, runs, pending, notes, work, fallen, stuck>>

-----------------------------------------------------------------------------
(* Tool calls, of the turn's agent or of a run.                            *)

By(a) ==
    [for |-> IF a = Main THEN Key ELSE runs[a].for,
     turn |-> Key,
     strayed |-> a # Main /\ runs[a].strayed]

\* A memory call asks for the store, bash for the working directory.
Begins(a, kind, path) ==
    /\ pending[a] = NoCall
    /\ pending' = [pending EXCEPT ![a] =
          [kind |-> kind, path |-> path, by |-> By(a),
           at |-> IF kind \in OnMemory THEN ActiveMemoryStore ELSE cwd]]
    /\ UNCHANGED <<cwd, active, place, turn, runs, notes, work, seen, books>>

\* It returns, with or without an error; a refused path has changed nothing.
Returns(a) ==
    /\ pending[a] # NoCall
    /\ pending' = [pending EXCEPT ![a] = NoCall]

CallEnds(a) ==
    /\ Returns(a)
    /\ UNCHANGED <<cwd, active, place, turn, runs, notes, work, seen, books>>

\* Store.Write, with the store found before.
Writes(a) ==
    LET call == pending[a] IN
    /\ Returns(a)
    /\ call.kind \in {"write", "append"}
    /\ \E p \in SandboxPath(call.at, call.path) :
        LET note == [by |-> call.by, store |-> call.at, path |-> p]
        IN  notes' = [notes EXCEPT ![p] =
                IF call.kind = "append" THEN @ \cup {note} ELSE {note}]
    /\ UNCHANGED <<cwd, active, place, turn, runs, work, seen, books>>

\* What a call finds.
Found(call) ==
    IF call.kind = "search" THEN Below(call.at)
    ELSE UNION {notes[p] : p \in SandboxPath(call.at, call.path)}

\* The result goes into the history of the turn, or into the run's; that of the
\* distillation is thrown away.
Reads(a) ==
    LET call == pending[a] IN
    /\ Returns(a)
    /\ call.kind \in {"read", "search"}
    /\ IF a # Main THEN
            /\ runs' = [runs EXCEPT ![a].got = @ \cup Found(call)]
            /\ UNCHANGED seen
       ELSE /\ seen' = IF InTurn THEN [seen EXCEPT ![turn.key] = @ \cup Found(call)] ELSE seen
            /\ UNCHANGED runs
    /\ UNCHANGED <<cwd, active, place, turn, notes, work, books>>

\* A command works in the directory it was started in, an edit or a write of a
\* relative path in what is current at that moment.
FileChanges(a) ==
    /\ pending[a] # NoCall
    /\ \/ /\ pending[a].kind = "shell"
          /\ work' = [work EXCEPT ![pending[a].at] = @ \cup {pending[a].by}]
       \/ /\ pending[a].kind = "file"
          /\ work' = [work EXCEPT ![cwd] = @ \cup {By(a)}]
    /\ UNCHANGED <<cwd, active, place, turn, runs, pending, notes, seen, books>>

\* A new process: histories come back from their files, a turn's own is lost.
PlacesRestart ==
    /\ cwd' = Home
    /\ active' = NoStore
    /\ place' = [k \in Keys |-> NoStore]
    /\ turn' = NoTurn
    /\ runs' = [r \in Runs |-> NoRun]
    /\ pending' = [a \in Agents |-> NoCall]
    /\ seen' = IF InTurn THEN [seen EXCEPT ![turn.key] = turn.seen] ELSE seen
    /\ UNCHANGED <<notes, work, books>>

-----------------------------------------------------------------------------

PlacesTypeOK ==
    /\ cwd \in Places
    /\ active \in Places \cup {NoStore}
    /\ place \in [Keys -> Places \cup {NoStore}]
    /\ turn \in Turn \cup {NoTurn}
    /\ runs \in [Runs -> Run]
    /\ pending \in [Agents -> Call \cup {NoCall}]
    /\ notes \in [Paths -> SUBSET Note]
    /\ work \in [Places -> SUBSET Mark]
    /\ seen \in [Keys -> {NoHistory} \cup SUBSET Note]
    /\ fallen \subseteq Threads /\ told \subseteq Keys /\ stuck \subseteq Places

OwnPath(k, p) == Head(p) = Segment[k]

\* Put into a thread's own memory, other than through the project's store, which
\* reaches into all of them.
Written(k) ==
    {note.by : note \in {n \in UNION {notes[p] : p \in {q \in Paths : OwnPath(k, q)}} :
                            n.store # Home}}

\* For the thread's turn, or by a run that an earlier turn left behind.
Welcome(k, mark) == mark.turn = k /\ (mark.for = k \/ mark.strayed)

\* Nothing gets into the memory of a thread that has a directory of its own but by a
\* call that began during one of the thread's turns, and nothing into its workspace
\* but in one, unless a turn once failed to leave it: on whatever path and however
\* late the call ends.  An agent of another thread does so only as a run in the
\* background that outlived its turn.
OwnDirectory ==
    \A k \in Threads : Alone(k) =>
        /\ \A mark \in Written(k) : Welcome(k, mark)
        /\ Segment[k] \notin stuck => \A mark \in work[Segment[k]] : Welcome(k, mark)

\* "Per-(channel, thread) isolation" (main.go:144): a thread's directories hold what
\* agents of that thread wrote.  HandleTurn calls its switch "Safe because the
\* dispatcher serializes turns", but a run in the background outlives its turn; and
\* two threads may have one name.
Isolated ==
    \A k \in Threads : \A mark \in Written(k) \cup work[Segment[k]] : mark.for = k

\* The notes a thread's history shows lie in its own directory.
OwnHistory(k) == seen[k] # NoHistory => \A note \in seen[k] : OwnPath(k, note.path)

\* Neither a thread's prompt, which is built once and outlives restarts, nor what its
\* turns read, nor the results of the runs they started, show a file of another's
\* memory or of the project's.  (A thread whose directory could not be made works at
\* home, and the result of a run of an earlier turn may be of another thread.)
NothingLeaks == \A k \in Threads \ (fallen \cup told) : OwnHistory(k)

\* main.go:144 again: a thread's history shows no file of another thread's own memory,
\* whatever its turns do.
HistoriesSeparate ==
    \A k \in Threads \ fallen : seen[k] # NoHistory =>
        \A j \in Threads \ {k} : Alone(j) => \A note \in seen[k] : ~OwnPath(j, note.path)

\* Between turns no thread's memory is active, and the process is at home unless a
\* turn once failed to leave its directory: what the scheduler, a background run or
\* the distillation at exit does then, it does in the project.
HomeBetweenTurns == ~InTurn => active = NoStore /\ cwd \in {Home} \cup stuck
=============================================================================
