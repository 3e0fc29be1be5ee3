------------------------- MODULE EnvironmentProofs -------------------------
(***************************************************************************)
(* The isolation of threads, for any threads, runs and failures: where the *)
(* process is between turns, who can have written into the directories of  *)
(* a thread, and what its history can show of other memories.  And the     *)
(* skills: what skill_write promised is what the command expands to.       *)
(***************************************************************************)
EXTENDS Environment, SequenceTheorems, WellFoundedInduction, TLAPS

\* A step as Workspaces sees it.
PlacesNext ==
    \/ \E k \in Keys, made, entered \in BOOLEAN : StartTurn(k, made, entered)
    \/ \E back \in BOOLEAN : EndTurn(back)
    \/ \E k \in Keys : Reset(k)
    \/ \E r \in Runs : SpawnRun(r) \/ RunEnds(r) \/ TakesResult(r)
    \/ \E a \in Agents : \E given \in Arguments :
         (a \in Runs => runs[a].state = "running") /\ Begins(a, given[1], given[2])
    \/ \E a \in Agents : CallEnds(a) \/ Writes(a) \/ Reads(a) \/ FileChanges(a)
    \/ PlacesRestart

\* Every step of the environment is one of the directories and the memory, or leaves them.
LEMMA StepOfPlaces == [Next]_vars => [PlacesNext]_placeVars
  <1> SUFFICES ASSUME [Next]_vars PROVE [PlacesNext]_placeVars OBVIOUS
  <1>1. CASE TurnStep BY <1>1 DEF TurnStep, PlacesNext, Outcomes
  <1>2. CASE RunStep BY <1>2 DEF RunStep, PlacesNext
  <1>3. CASE ToolStep
    BY <1>3, PlacesAssumption DEF ToolStep, CanCall, PlacesNext
  <1> QED BY <1>1, <1>2, <1>3 DEF Next, EditStep, Exit, Restart, PlacesNext, vars

\* Whose files the notes are.
Own(k, shown) == \A note \in shown : OwnPath(k, note.path)

\* A thread is provisioned with a place of its own, or has fallen.
PlaceInv ==
    \A k \in Keys :
        /\ k \in Exempt => place[k] \in {NoStore, Home}
        /\ k \in Threads => place[k] \in {NoStore, Home, Segment[k]}
        /\ k \in Threads /\ place[k] = Home => k \in fallen

\* The threads whose histories NothingLeaks is about.
Sound == Threads \ (fallen \cup told)

\* During a turn the process is where its thread is provisioned, or where it was, and
\* what the deferred functions go back to is home, or a place left with an error.
TurnInv ==
    IF InTurn
    THEN /\ turn.cwd \in {Home} \cup stuck /\ turn.active = NoStore
         /\ active = place[turn.key] /\ active # NoStore
         /\ cwd \in {turn.cwd, active}
         /\ seen[turn.key] # NoHistory
         /\ turn.key \in Sound /\ turn.seen # NoHistory => Own(turn.key, turn.seen)
    ELSE cwd \in {Home} \cup stuck /\ active = NoStore

\* A note says where it is.
NoteInv == \A p \in Paths : \A note \in notes[p] : note.path = p

\* A run that has not outlived its turn is of the turn that runs, and has read what
\* that may read.
RunInv ==
    \A r \in Runs : runs[r].state # "none" /\ ~runs[r].strayed =>
        /\ InTurn /\ runs[r].for = turn.key
        /\ turn.key \in Sound => Own(turn.key, runs[r].got)

\* A call under way is of an agent at work, and where it leads was the place of the
\* turn in which it began; that of an agent of the turn leads to this turn's place.
CallInv(a, call) ==
    /\ a \in Runs => runs[a].state = "running"
    /\ call.kind \in {"read", "write", "append"} => call.path \in Relative
    /\ \A k \in Threads : Alone(k) /\ call.at = Segment[k] =>
         /\ call.kind \in OnMemory => Welcome(k, call.by)
         /\ call.kind = "shell" /\ Segment[k] \notin stuck => Welcome(k, call.by)
    /\ InTurn /\ call.kind \in OnMemory /\ (a \in Runs => ~runs[a].strayed) =>
         call.at = active

PendingInv == \A a \in Agents : pending[a] # NoCall => CallInv(a, pending[a])

\* What is in a thread's memory was put there through the project's store or in its
\* turns, what is in its workspace in its turns.
MemoryInv ==
    \A k \in Threads : Alone(k) =>
        \A p \in Paths : OwnPath(k, p) =>
            \A note \in notes[p] : note.store = Home \/ Welcome(k, note.by)

WorkInv ==
    \A k \in Threads : Alone(k) /\ Segment[k] \notin stuck =>
        \A mark \in work[Segment[k]] : Welcome(k, mark)

IInv ==
    /\ PlacesTypeOK
    /\ PlaceInv
    /\ TurnInv
    /\ NoteInv
    /\ RunInv
    /\ PendingInv
    /\ MemoryInv
    /\ WorkInv
    /\ NothingLeaks

-----------------------------------------------------------------------------
(* Where a tool's path leads.                                              *)

\* SandboxPath of a thread's store gives a path below the store.
LEMMA Sandboxed ==
    ASSUME NEW store \in Places, NEW path \in Relative, NEW p \in SandboxPath(store, path)
    PROVE  p \in Paths /\ (store \in Segments => Head(p) = store)
  <1>1. Cleaned[path] = Clean(path) BY DEF Cleaned
  <1>2. Head(Clean(path)) # ".." /\ p = Clean(Base(store) \o Clean(path))
    BY <1>1 DEF SandboxPath, Escapes
  <1> QED BY <1>2, CleanAssumption

\* So is the file LoadCurated reads.
LEMMA CuratedPath ==
    ASSUME NEW store \in Places
    PROVE  /\ Append(Base(store), Curated) \in Paths
           /\ store \in Segments => Head(Append(Base(store), Curated)) = store
  <1>1. CASE store = Home
    <2>1. Append(Base(store), Curated) = <<Curated>> BY <1>1 DEF Base
    <2> QED BY <2>1, <1>1, PlacesAssumption DEF Paths
  <1>2. CASE store # Home
    <2>1. store \in Segments BY <1>2 DEF Places
    <2>b. Base(store) = <<store>> BY <1>2 DEF Base
    <2>2. Append(<<store>>, Curated) = <<store, Curated>>
      <3>1. <<store>> \in Seq({store, Curated}) /\ Len(<<store>>) = 1 /\ <<store>>[1] = store
        OBVIOUS
      <3>2. Append(<<store>>, Curated) \in Seq({store, Curated})
            /\ Len(Append(<<store>>, Curated)) = 2
            /\ Append(<<store>>, Curated)[1] = store
            /\ Append(<<store>>, Curated)[2] = Curated
        BY <3>1, AppendProperties
      <3>3. <<store, Curated>> \in Seq({store, Curated}) /\ Len(<<store, Curated>>) = 2
            /\ <<store, Curated>>[1] = store /\ <<store, Curated>>[2] = Curated
        OBVIOUS
      <3> DEFINE s == Append(<<store>>, Curated)
                 t == <<store, Curated>>
      <3>4. s \in Seq({store, Curated}) /\ t \in Seq({store, Curated}) BY <3>2, <3>3
      <3>5. Len(s) = Len(t) /\ 1 .. Len(s) = {1, 2} BY <3>2, <3>3
      <3>6. s[1] = t[1] /\ s[2] = t[2] BY <3>2, <3>3
      <3> HIDE DEF s, t
      <3>7. \A i \in 1 .. Len(s) : s[i] = t[i] BY <3>5, <3>6
      <3>8. s = t BY <3>4, <3>5, <3>7, SeqEqual
      <3> QED BY <3>8 DEF s, t
    <2>3. Head(<<store, Curated>>) = store OBVIOUS
    <2> QED BY <2>b, <2>1, <2>2, <2>3 DEF Paths
  <1> QED BY <1>1, <1>2

\* Search and List of a thread's store stay below it.
LEMMA BelowIsOwn ==
    ASSUME NEW k \in Segments, NEW p \in Paths, IsPrefix(Base(k), p)
    PROVE  Head(p) = k
  <1>1. Base(k) = <<k>> BY PlacesAssumption DEF Base
  <1> DEFINE S == Segments \cup {"..", Curated}
  <1>2. p \in Seq(S) /\ Len(p) \in Nat \ {0}
    <2>1. CASE p = <<Curated>> BY <2>1
    <2>5. CASE p = <<"..", Curated>> BY <2>5
    <2>2. CASE \E j \in Segments : p = <<j, Curated>> BY <2>2
    <2>3. CASE \E j \in Segments : p = <<"..", j, Curated>> BY <2>3
    <2>4. CASE \E i, j \in Segments : p = <<i, j, Curated>> BY <2>4
    <2> QED BY <2>1, <2>2, <2>3, <2>4, <2>5 DEF Paths
  <1> HIDE DEF S
  <1>3. SubSeq(<<k>>, 1, 1) = SubSeq(p, 1, 1) BY <1>1 DEF IsPrefix
  <1>4. SubSeq(<<k>>, 1, 1)[1] = k OBVIOUS
  <1>5. SubSeq(p, 1, 1)[1] = p[1]
    BY <1>2
  <1> QED BY <1>2, <1>3, <1>4, <1>5

-----------------------------------------------------------------------------
(* What the steps use.                                                     *)

\* The types of the variables.
LEMMA Facts ==
    ASSUME IInv
    PROVE  /\ cwd \in Places /\ active \in Places \cup {NoStore}
           /\ place \in [Keys -> Places \cup {NoStore}]
           /\ runs \in [Runs -> Run]
           /\ pending \in [Agents -> Call \cup {NoCall}]
           /\ notes \in [Paths -> SUBSET Note]
           /\ work \in [Places -> SUBSET Mark]
           /\ seen \in [Keys -> {NoHistory} \cup SUBSET Note]
           /\ fallen \subseteq Threads /\ told \subseteq Keys /\ stuck \subseteq Places
           /\ InTurn => turn \in Turn /\ turn.key \in Keys /\ turn.cwd \in Places
           /\ Key \in Keys \cup {NoTurn}
           /\ NoStore \notin Places /\ Home \in Places
           /\ ActiveMemoryStore \in Places
           /\ \A k \in Threads : k \in Keys /\ Segment[k] \in Places \ {Home}
           /\ \A r \in Runs : r \in Agents /\ r # Main
           /\ Main \in Agents
  BY PlacesAssumption
     DEF IInv, PlacesTypeOK, InTurn, Key, Turn, Places, Keys, ActiveMemoryStore, Agents

\* A thread's store is active in its own turns only.
LEMMA Here ==
    ASSUME IInv, NEW k \in Threads, Alone(k), active = Segment[k]
    PROVE  InTurn /\ turn.key = k
  <1>1. InTurn /\ active = place[turn.key] BY Facts DEF IInv, TurnInv
  <1>2. turn.key \in Threads /\ active = Segment[turn.key]
    BY <1>1, Facts DEF IInv, PlaceInv, Keys
  <1> QED BY <1>1, <1>2 DEF Alone

\* The process is in a thread's directory in its own turns only, or stuck there.
LEMMA InWorkspace ==
    ASSUME IInv, NEW k \in Threads, Alone(k), cwd = Segment[k], Segment[k] \notin stuck
    PROVE  InTurn /\ turn.key = k
  <1>1. InTurn /\ cwd = active BY Facts DEF IInv, TurnInv
  <1> QED BY <1>1, Here

\* What an agent at work does during a turn is welcome to the turn's thread.
LEMMA Welcomed ==
    ASSUME IInv, NEW a \in Agents, a \in Runs => runs[a].state = "running", InTurn
    PROVE  Welcome(turn.key, By(a))
  <1>1. CASE a = Main BY <1>1 DEF Welcome, By, Key
  <1>2. CASE a \in Runs
    <2>1. runs[a].strayed \/ runs[a].for = turn.key BY <1>2 DEF IInv, RunInv
    <2> QED BY <1>2, <2>1, PlacesAssumption DEF Welcome, By, Key
  <1> QED BY <1>1, <1>2 DEF Agents

\* By is a mark.
LEMMA ByType == ASSUME IInv, NEW a \in Agents PROVE By(a) \in Mark
  <1>1. CASE a = Main BY <1>1, Facts DEF By, Mark
  <1>2. CASE a \in Runs
    <2>1. runs[a] \in Run /\ a # Main BY <1>2, Facts
    <2>2. runs[a].for \in Keys \cup {NoTurn} /\ runs[a].strayed \in BOOLEAN BY <2>1 DEF Run
    <2> QED BY <2>1, <2>2, Facts DEF By, Mark
  <1> QED BY <1>1, <1>2 DEF Agents

\* What a read or a search finds are notes, and of a thread's store the thread's.
LEMMA FoundIsOwn ==
    ASSUME IInv, NEW call \in Call,
           call.kind = "search" \/ (call.kind = "read" /\ call.path \in Relative)
    PROVE  /\ Found(call) \in SUBSET Note
           /\ \A k \in Threads : call.at = Segment[k] => Own(k, Found(call))
  <1>1. call.at \in Places BY DEF Call
  <1>2. CASE call.kind = "search"
    <2>1. Found(call) = Below(call.at) BY <1>2 DEF Found
    <2>2. Below(call.at) \in SUBSET Note BY Facts DEF Below
    <2>3. ASSUME NEW k \in Threads, call.at = Segment[k] PROVE Own(k, Below(call.at))
      <3> SUFFICES ASSUME NEW note \in Below(call.at) PROVE OwnPath(k, note.path) BY DEF Own
      <3>1. PICK p \in {q \in Paths : IsPrefix(Base(call.at), q)} : note \in notes[p]
        BY DEF Below
      <3>2. call.at \in Segments BY <2>3, PlacesAssumption
      <3>3. Head(p) = call.at BY <3>1, <3>2, BelowIsOwn
      <3>4. note.path = p BY <3>1 DEF IInv, NoteInv
      <3> QED BY <3>3, <3>4, <2>3 DEF OwnPath
    <2> QED BY <2>1, <2>2, <2>3
  <1>3. CASE call.kind = "read" /\ call.path \in Relative
    <2> DEFINE ps == SandboxPath(call.at, call.path)
    <2>1. Found(call) = UNION {notes[p] : p \in ps} BY <1>3 DEF Found
    <2>2. \A p \in ps : p \in Paths /\ (call.at \in Segments => Head(p) = call.at)
      BY <1>1, <1>3, Sandboxed
    <2> HIDE DEF ps
    <2>3. UNION {notes[p] : p \in ps} \in SUBSET Note BY <2>2, Facts
    <2>4. ASSUME NEW k \in Threads, call.at = Segment[k] PROVE Own(k, Found(call))
      <3> SUFFICES ASSUME NEW note \in Found(call) PROVE OwnPath(k, note.path) BY DEF Own
      <3>1. PICK p \in ps : note \in notes[p] BY <2>1
      <3>2. p \in Paths /\ Head(p) = Segment[k] BY <3>1, <2>2, <2>4, PlacesAssumption
      <3>3. note.path = p BY <3>1, <3>2 DEF IInv, NoteInv
      <3> QED BY <3>2, <3>3 DEF OwnPath
    <2> QED BY <2>1, <2>3, <2>4
  <1> QED BY <1>2, <1>3

\* The curated memory of a place.
LEMMA CuratedIsOwn ==
    ASSUME IInv, NEW at \in Places
    PROVE  /\ LoadCurated(at) \in SUBSET Note
           /\ \A k \in Threads : at = Segment[k] => Own(k, LoadCurated(at))
  <1> DEFINE p == Append(Base(at), Curated)
  <1>1. p \in Paths /\ (at \in Segments => Head(p) = at) BY CuratedPath
  <1>2. LoadCurated(at) = notes[p] BY DEF LoadCurated
  <1> HIDE DEF p
  <1>3. \A note \in notes[p] : note.path = p BY <1>1 DEF IInv, NoteInv
  <1> QED BY <1>1, <1>2, <1>3, Facts, PlacesAssumption DEF Own, OwnPath

\* What an agent of the turn has found in the active store may be shown by a sound thread.
LEMMA ActiveIsOwn ==
    ASSUME IInv, InTurn, turn.key \in Sound
    PROVE  active = Segment[turn.key]
  BY Facts DEF IInv, TurnInv, PlaceInv, Sound

-----------------------------------------------------------------------------
(* Turns.                                                                  *)

\* Where no turn runs, every run is of an earlier one.
LEMMA AllStrayed ==
    ASSUME IInv, ~InTurn, NEW r \in Runs
    PROVE  runs[r].state = "none" \/ runs[r].strayed
  BY DEF IInv, RunInv

\* A turn starts where its thread is provisioned, with its own memory in the prompt.
LEMMA StartTurnStep ==
    ASSUME IInv, NEW k \in Keys, NEW made \in BOOLEAN, NEW entered \in BOOLEAN,
           StartTurn(k, made, entered)
    PROVE  IInv'
  <1> DEFINE at == IF place[k] # NoStore THEN place[k] ELSE Provisioned(k, made)
  <1>f. /\ cwd \in Places /\ active \in Places \cup {NoStore}
        /\ place \in [Keys -> Places \cup {NoStore}]
        /\ seen \in [Keys -> {NoHistory} \cup SUBSET Note]
        /\ fallen \subseteq Threads
        /\ NoStore \notin Places /\ Home \in Places
        /\ \A j \in Threads : j \in Keys /\ Segment[j] \in Places \ {Home}
    BY Facts
  <1>1. /\ ~InTurn /\ pending[Main] = NoCall
        /\ place' = [place EXCEPT ![k] = at]
        /\ fallen' = IF k \in Threads /\ at = Home THEN fallen \cup {k} ELSE fallen
        /\ turn' = [key |-> k, cwd |-> cwd, active |-> active, seen |-> seen[k]]
        /\ cwd' = IF at # Home /\ entered THEN at ELSE cwd
        /\ active' = at
        /\ seen' = IF seen[k] = NoHistory THEN [seen EXCEPT ![k] = LoadCurated(at)] ELSE seen
        /\ UNCHANGED <<runs, pending, notes, work, told, stuck>>
    BY DEF StartTurn, Ready
  <1>2. /\ at \in Places
        /\ k \in Exempt => at = Home
        /\ k \in Threads => at \in {Home, Segment[k]}
    <2>1. CASE place[k] # NoStore BY <2>1, <1>f DEF IInv, PlaceInv
    <2>2. CASE place[k] = NoStore
      BY <2>2, <1>f, PlacesAssumption DEF Provisioned
    <2> QED BY <2>1, <2>2
  <1>h. cwd \in {Home} \cup stuck /\ active = NoStore BY <1>1 DEF IInv, TurnInv
  <1> HIDE DEF at
  <1>3. turn' \in Turn /\ turn' # NoTurn /\ turn'.key = k
    BY <1>1, <1>f, PlacesAssumption DEF Turn
  <1>i. InTurn' BY <1>3 DEF InTurn
  <1>4. LoadCurated(at) \in SUBSET Note
        /\ \A j \in Threads : at = Segment[j] => Own(j, LoadCurated(at))
    BY <1>2, CuratedIsOwn
  <1>n. LoadCurated(at) # NoHistory BY <1>4, PlacesAssumption DEF NoHistory
  <1>5. PlacesTypeOK' BY <1>1, <1>2, <1>3, <1>4, <1>f DEF IInv, PlacesTypeOK
  <1>6. PlaceInv'
    <2>1. \A j \in Keys : place'[j] = IF j = k THEN at ELSE place[j] BY <1>1, <1>f
    <2>2. fallen \subseteq fallen' /\ (k \in Threads /\ at = Home => k \in fallen') BY <1>1
    <2> QED BY <2>1, <2>2, <1>2 DEF IInv, PlaceInv
  <1>7. \A j \in Keys : seen'[j] = IF j = k /\ seen[k] = NoHistory THEN LoadCurated(at) ELSE seen[j]
    BY <1>1, <1>f
  <1>8. Sound' \subseteq Sound /\ (k \in Sound' => at = Segment[k])
    BY <1>1, <1>2 DEF Sound
  <1>9. TurnInv'
    <2>2. turn'.cwd = cwd /\ turn'.active = NoStore /\ turn'.seen = seen[k]
      BY <1>1, <1>h
    <2>3. active' = place'[k] /\ active' # NoStore /\ cwd' \in {cwd, active'}
      BY <1>1, <1>2, <1>f
    <2>4. seen'[k] # NoHistory BY <1>7, <1>n
    <2>5. k \in Sound' /\ seen[k] # NoHistory => Own(k, seen[k])
      BY <1>8 DEF IInv, NothingLeaks, OwnHistory, Own, Sound
    <2>6. cwd \in {Home} \cup stuck' BY <1>1, <1>h
    <2> QED BY <1>i, <2>2, <2>3, <2>4, <2>5, <2>6, <1>3, Zenon DEF TurnInv, Own, OwnPath
  <1>10. NoteInv' /\ MemoryInv' /\ WorkInv'
    BY <1>1 DEF IInv, NoteInv, MemoryInv, WorkInv, Alone, OwnPath, Welcome
  <1>11. RunInv' BY <1>1, AllStrayed DEF RunInv
  <1>12. PendingInv'
    <2> SUFFICES ASSUME NEW a \in Agents, pending[a] # NoCall PROVE CallInv(a, pending[a])'
      BY <1>1 DEF PendingInv
    <2>1. a \in Runs BY <1>1 DEF Agents
    <2>2. CallInv(a, pending[a]) BY DEF IInv, PendingInv
    <2>3. runs[a].strayed BY <1>1, <2>1, <2>2, AllStrayed DEF CallInv
    <2> QED BY <1>1, <2>1, <2>2, <2>3 DEF CallInv, Alone, Welcome
  <1>13. NothingLeaks'
    <2> SUFFICES ASSUME NEW j \in Sound', seen'[j] # NoHistory PROVE Own(j, seen'[j])
      BY DEF NothingLeaks, OwnHistory, Own, OwnPath, Sound
    <2>1. j \in Sound /\ j \in Keys BY <1>8, <1>f DEF Sound
    <2>2. CASE j = k /\ seen[k] = NoHistory BY <2>1, <2>2, <1>7, <1>8, <1>4 DEF Sound
    <2>3. CASE ~(j = k /\ seen[k] = NoHistory)
      BY <2>1, <2>3, <1>7 DEF IInv, NothingLeaks, OwnHistory, Own, Sound
    <2> QED BY <2>2, <2>3
  <1> QED BY <1>5, <1>6, <1>9, <1>10, <1>11, <1>12, <1>13 DEF IInv

\* The deferred functions take the process back to where the turn found it, or the
\* directory counts as stuck.
LEMMA EndTurnStep == ASSUME IInv, NEW back \in BOOLEAN, EndTurn(back) PROVE IInv'
  <1>1. /\ InTurn /\ pending[Main] = NoCall
        /\ cwd' = (IF back THEN turn.cwd ELSE cwd) /\ active' = NoStore /\ turn' = NoTurn
        /\ stuck' = IF back \/ cwd = turn.cwd THEN stuck ELSE stuck \cup {cwd}
        /\ runs' = Strayed
        /\ UNCHANGED <<place, pending, notes, work, seen, fallen, told>>
    BY DEF EndTurn, LeaveTurn, Ready, IInv, TurnInv
  <1>2. ~InTurn' BY <1>1 DEF InTurn
  <1>3. turn.cwd \in {Home} \cup stuck /\ turn.cwd \in Places BY <1>1, Facts DEF IInv, TurnInv
  <1>4. \A r \in Runs : /\ runs'[r] \in Run
                        /\ runs'[r].state = runs[r].state
                        /\ runs'[r].state = "none" \/ runs'[r].strayed
    <2> SUFFICES ASSUME NEW r \in Runs
                 PROVE  /\ runs'[r] \in Run
                        /\ runs'[r].state = runs[r].state
                        /\ runs'[r].state = "none" \/ runs'[r].strayed
      OBVIOUS
    <2>1. runs[r] \in Run BY Facts
    <2>2. runs'[r] = IF runs[r].state = "none" THEN NoRun ELSE [runs[r] EXCEPT !.strayed = TRUE]
      BY <1>1 DEF Strayed
    <2>3. CASE runs[r].state = "none" BY <2>2, <2>3 DEF NoRun, Run
    <2>4. CASE runs[r].state # "none" BY <2>1, <2>2, <2>4 DEF Run
    <2> QED BY <2>3, <2>4
  <1>5. PlacesTypeOK'
    <2>1. runs' \in [Runs -> Run] BY <1>1, <1>4 DEF Strayed
    <2> QED BY <1>1, <1>3, <2>1, Facts DEF IInv, PlacesTypeOK
  <1>6. TurnInv' BY <1>1, <1>2, <1>3 DEF TurnInv
  <1>7. RunInv' BY <1>4 DEF RunInv
  <1>8. stuck \subseteq stuck' BY <1>1
  <1>9. PendingInv'
    <2> SUFFICES ASSUME NEW a \in Agents, pending[a] # NoCall PROVE CallInv(a, pending[a])'
      BY <1>1 DEF PendingInv
    <2>1. CallInv(a, pending[a]) BY DEF IInv, PendingInv
    <2> QED BY <1>1, <1>2, <1>4, <1>8, <2>1 DEF CallInv, Alone, Welcome
  <1>10. WorkInv' BY <1>1, <1>8 DEF IInv, WorkInv, Alone, Welcome
  <1>11. PlaceInv' /\ NoteInv' /\ MemoryInv' /\ NothingLeaks'
    BY <1>1 DEF IInv, PlaceInv, NoteInv, MemoryInv, NothingLeaks, OwnHistory, OwnPath, Alone,
                Welcome
  <1> QED BY <1>5, <1>6, <1>7, <1>9, <1>10, <1>11 DEF IInv

\* A reset shows nothing.
LEMMA ResetStep == ASSUME IInv, NEW k \in Keys, Reset(k) PROVE IInv'
  <1>1. /\ ~InTurn /\ ~InTurn' /\ seen' = [seen EXCEPT ![k] = NoHistory]
        /\ told' = told \ {k}
        /\ UNCHANGED <<cwd, active, place, turn, runs, pending, notes, work, fallen, stuck>>
    BY DEF Reset, InTurn
  <1>2. \A j \in Keys : seen'[j] = IF j = k THEN NoHistory ELSE seen[j] BY <1>1, Facts
  <1>3. PlacesTypeOK' BY <1>1 DEF IInv, PlacesTypeOK
  <1>4. TurnInv' /\ RunInv' BY <1>1, AllStrayed DEF IInv, TurnInv, RunInv
  <1>5. PendingInv'
    BY <1>1 DEF IInv, PendingInv, CallInv, Alone, Welcome
  <1>6. NothingLeaks'
    BY <1>1, <1>2, Facts DEF IInv, NothingLeaks, OwnHistory, OwnPath
  <1>7. PlaceInv' /\ NoteInv' /\ MemoryInv' /\ WorkInv'
    BY <1>1 DEF IInv, PlaceInv, NoteInv, MemoryInv, WorkInv, OwnPath, Alone, Welcome
  <1> QED BY <1>3, <1>4, <1>5, <1>6, <1>7 DEF IInv

\* A new process starts at home, with the histories of the files.
LEMMA RestartStep == ASSUME IInv, PlacesRestart PROVE IInv'
  <1>1. /\ cwd' = Home /\ active' = NoStore /\ turn' = NoTurn
        /\ runs' = [r \in Runs |-> NoRun]
        /\ pending' = [a \in Agents |-> NoCall]
        /\ place' = [k \in Keys |-> NoStore]
        /\ seen' = IF InTurn THEN [seen EXCEPT ![turn.key] = turn.seen] ELSE seen
        /\ UNCHANGED <<notes, work, fallen, told, stuck>>
    BY DEF PlacesRestart, books
  <1>2. \A j \in Keys : seen'[j] = IF InTurn /\ j = turn.key THEN turn.seen ELSE seen[j]
    BY <1>1, Facts
  <1>3. PlacesTypeOK'
    <2>1. InTurn => turn.seen \in {NoHistory} \cup SUBSET Note BY Facts DEF Turn
    <2>2. seen' \in [Keys -> {NoHistory} \cup SUBSET Note] BY <1>1, <2>1, Facts
    <2>3. runs' \in [Runs -> Run] BY <1>1 DEF NoRun, Run
    <2> QED BY <1>1, <2>2, <2>3, Facts DEF IInv, PlacesTypeOK
  <1>4. PlaceInv'
    <2>1. \A k \in Keys : place'[k] = NoStore BY <1>1
    <2> QED BY <2>1, <1>1, Facts DEF PlaceInv
  <1>5. TurnInv' BY <1>1 DEF TurnInv, InTurn
  <1>6. RunInv' /\ PendingInv' BY <1>1 DEF RunInv, PendingInv, NoRun
  <1>7. ASSUME NEW k \in Sound, seen'[k] # NoHistory PROVE Own(k, seen'[k])
    <2>1. k \in Keys BY Facts DEF Sound
    <2>2. CASE InTurn /\ k = turn.key BY <2>1, <2>2, <1>2, <1>7 DEF IInv, TurnInv
    <2>3. CASE ~(InTurn /\ k = turn.key)
      BY <2>1, <2>3, <1>2, <1>7 DEF IInv, NothingLeaks, OwnHistory, Own, Sound
    <2> QED BY <2>2, <2>3
  <1>8. NothingLeaks'
    BY <1>1, <1>7 DEF NothingLeaks, OwnHistory, Own, OwnPath, Sound
  <1>9. NoteInv' /\ MemoryInv' /\ WorkInv'
    BY <1>1 DEF IInv, NoteInv, MemoryInv, WorkInv, OwnPath, Alone, Welcome
  <1> QED BY <1>3, <1>4, <1>5, <1>6, <1>8, <1>9 DEF IInv

-----------------------------------------------------------------------------
(* Subagents.                                                              *)

\* A step that changes the subagents, what histories show and the results told only.
LEMMA RunsOrHistories ==
    ASSUME IInv, UNCHANGED <<cwd, active, place, turn, notes, work, fallen, stuck>>,
           runs' \in [Runs -> Run],
           pending' \in [Agents -> Call \cup {NoCall}],
           seen' \in [Keys -> {NoHistory} \cup SUBSET Note],
           told \subseteq told', told' \subseteq Keys,
           InTurn => seen'[turn.key] # NoHistory,
           RunInv', PendingInv', NothingLeaks'
    PROVE  IInv'
  <1>1. PlacesTypeOK' BY DEF IInv, PlacesTypeOK
  <1>2. TurnInv' BY DEF IInv, TurnInv, InTurn, Sound, Own, OwnPath
  <1>3. PlaceInv' /\ NoteInv' /\ MemoryInv' /\ WorkInv'
    BY DEF IInv, PlaceInv, NoteInv, MemoryInv, WorkInv, OwnPath, Alone, Welcome
  <1> QED BY <1>1, <1>2, <1>3 DEF IInv

\* A run is started in a turn, and told what the thread may know, or at exit.
LEMMA SpawnRunStep == ASSUME IInv, NEW r \in Runs, SpawnRun(r) PROVE IInv'
  <1> DEFINE new == [state |-> "running", for |-> Key, strayed |-> ~InTurn,
                     got |-> IF InTurn THEN seen[turn.key] ELSE {}]
  <1>1. /\ runs[r].state = "none" /\ runs' = [runs EXCEPT ![r] = new]
        /\ UNCHANGED <<cwd, active, place, turn, pending, notes, work, seen, fallen, told, stuck>>
    BY DEF SpawnRun, books
  <1>2. InTurn => seen[turn.key] \in SUBSET Note /\ seen[turn.key] # NoHistory
    BY Facts DEF IInv, TurnInv
  <1>3. new \in Run BY <1>2, Facts DEF Run
  <1>4. new.state = "running" /\ new.for = Key /\ new.strayed = ~InTurn
        /\ (InTurn => new.got = seen[turn.key])
    OBVIOUS
  <1> HIDE DEF new
  <1>5. \A q \in Runs : runs'[q] = IF q = r THEN new ELSE runs[q] BY <1>1, Facts
  <1>6. runs' \in [Runs -> Run] BY <1>1, <1>3, Facts
  <1>7. RunInv'
    <2> SUFFICES ASSUME NEW q \in Runs, runs'[q].state # "none", ~runs'[q].strayed
                 PROVE  /\ InTurn /\ runs'[q].for = turn.key
                        /\ turn.key \in Sound => Own(turn.key, runs'[q].got)
      BY <1>1 DEF RunInv, InTurn, Sound, Own, OwnPath
    <2>1. CASE q = r
      <3>1. InTurn /\ runs'[q].for = turn.key /\ runs'[q].got = seen[turn.key]
        BY <2>1, <1>4, <1>5 DEF Key
      <3>2. turn.key \in Sound => Own(turn.key, seen[turn.key])
        BY <3>1, <1>2 DEF IInv, NothingLeaks, OwnHistory, Own, Sound
      <3> QED BY <3>1, <3>2
    <2>2. CASE q # r BY <2>2, <1>5 DEF IInv, RunInv
    <2> QED BY <2>1, <2>2
  <1>8. PendingInv'
    <2> SUFFICES ASSUME NEW a \in Agents, pending[a] # NoCall PROVE CallInv(a, pending[a])'
      BY <1>1 DEF PendingInv
    <2>1. CallInv(a, pending[a]) BY DEF IInv, PendingInv
    <2>2. a \in Runs => a # r BY <1>1, <2>1 DEF CallInv
    <2> QED BY <1>1, <1>5, <2>1, <2>2 DEF CallInv, InTurn, Alone, Welcome
  <1>9. NothingLeaks' BY <1>1 DEF IInv, NothingLeaks, OwnHistory, OwnPath
  <1> QED BY <1>1, <1>2, <1>6, <1>7, <1>8, <1>9, Facts, RunsOrHistories

\* A run ends with what it has.
LEMMA RunEndsStep == ASSUME IInv, NEW r \in Runs, RunEnds(r) PROVE IInv'
  <1>1. /\ runs[r].state = "running" /\ pending[r] = NoCall
        /\ runs' = [runs EXCEPT ![r].state = "ended"]
        /\ UNCHANGED <<cwd, active, place, turn, pending, notes, work, seen, fallen, told, stuck>>
    BY DEF RunEnds, books
  <1>2. runs[r] \in Run BY Facts
  <1>3. \A q \in Runs : /\ runs'[q].for = runs[q].for /\ runs'[q].strayed = runs[q].strayed
                        /\ runs'[q].got = runs[q].got
                        /\ runs'[q].state = IF q = r THEN "ended" ELSE runs[q].state
    BY <1>1, <1>2, Facts DEF Run
  <1>4. runs' \in [Runs -> Run] BY <1>1, <1>2, Facts DEF Run
  <1>5. RunInv' BY <1>1, <1>3 DEF IInv, RunInv, InTurn, Sound, Own, OwnPath
  <1>6. PendingInv'
    <2> SUFFICES ASSUME NEW a \in Agents, pending[a] # NoCall PROVE CallInv(a, pending[a])'
      BY <1>1 DEF PendingInv
    <2>1. CallInv(a, pending[a]) BY DEF IInv, PendingInv
    <2>2. a # r BY <1>1
    <2> QED BY <1>1, <1>3, <2>1, <2>2 DEF CallInv, InTurn, Alone, Welcome
  <1>7. NothingLeaks' BY <1>1 DEF IInv, NothingLeaks, OwnHistory, OwnPath
  <1>8. InTurn => seen[turn.key] # NoHistory BY DEF IInv, TurnInv
  <1> QED BY <1>1, <1>4, <1>5, <1>6, <1>7, <1>8, Facts, RunsOrHistories

\* More is shown in the turn's history.
LEMMA MoreIsSeen ==
    ASSUME IInv, InTurn, NEW more \in SUBSET Note,
           seen' = [seen EXCEPT ![turn.key] = @ \cup more]
    PROVE  /\ seen' \in [Keys -> {NoHistory} \cup SUBSET Note]
           /\ seen'[turn.key] # NoHistory
           /\ \A k \in Sound : (k = turn.key => Own(k, more)) /\ seen'[k] # NoHistory =>
                Own(k, seen'[k])
  <1>1. turn.key \in Keys /\ seen[turn.key] # NoHistory /\ seen[turn.key] \in SUBSET Note
    BY Facts DEF IInv, TurnInv
  <1>2. \A j \in Keys : seen'[j] = IF j = turn.key THEN seen[j] \cup more ELSE seen[j]
    BY Facts
  <1>3. seen'[turn.key] # NoHistory
    <2>1. seen'[turn.key] \in SUBSET Note BY <1>1, <1>2
    <2> QED BY <2>1, PlacesAssumption DEF NoHistory
  <1>4. seen' \in [Keys -> {NoHistory} \cup SUBSET Note] BY <1>1, Facts
  <1>5. ASSUME NEW k \in Sound, k = turn.key => Own(k, more), seen'[k] # NoHistory
        PROVE  Own(k, seen'[k])
    <2>1. k \in Keys BY Facts DEF Sound
    <2>2. CASE k = turn.key
      <3>1. Own(k, seen[k]) BY <2>2, <1>1 DEF IInv, NothingLeaks, OwnHistory, Own, Sound
      <3> QED BY <3>1, <2>1, <2>2, <1>2, <1>5 DEF Own
    <2>3. CASE k # turn.key
      BY <2>1, <2>3, <1>2, <1>5 DEF IInv, NothingLeaks, OwnHistory, Own, Sound
    <2> QED BY <2>2, <2>3
  <1> QED BY <1>3, <1>4, <1>5

\* A turn has the result of its own run, or of another and is told.
LEMMA TakesResultStep == ASSUME IInv, NEW r \in Runs, TakesResult(r) PROVE IInv'
  <1>1. /\ InTurn /\ runs[r].state = "ended"
        /\ seen' = [seen EXCEPT ![turn.key] = @ \cup runs[r].got]
        /\ told' = IF runs[r].strayed THEN told \cup {turn.key} ELSE told
        /\ UNCHANGED <<cwd, active, place, turn, runs, pending, notes, work, fallen, stuck>>
    BY DEF TakesResult
  <1>2. runs[r].got \in SUBSET Note /\ turn.key \in Keys BY <1>1, Facts DEF Run
  <1>3. /\ seen' \in [Keys -> {NoHistory} \cup SUBSET Note]
        /\ seen'[turn.key] # NoHistory
        /\ \A k \in Sound : (k = turn.key => Own(k, runs[r].got)) /\ seen'[k] # NoHistory =>
             Own(k, seen'[k])
    BY <1>1, <1>2, MoreIsSeen
  <1>4. told \subseteq told' /\ told' \subseteq Keys /\ Sound' \subseteq Sound
    BY <1>1, <1>2, Facts DEF Sound
  <1>5. turn.key \in Sound' => Own(turn.key, runs[r].got)
    BY <1>1 DEF Sound, IInv, RunInv
  <1>6. NothingLeaks'
    <2> SUFFICES ASSUME NEW k \in Sound', seen'[k] # NoHistory PROVE Own(k, seen'[k])
      BY DEF NothingLeaks, OwnHistory, Own, OwnPath, Sound
    <2> QED BY <1>3, <1>4, <1>5
  <1>7. RunInv' BY <1>1, <1>4 DEF IInv, RunInv, InTurn, Own, OwnPath
  <1>8. PendingInv' BY <1>1 DEF IInv, PendingInv, CallInv, InTurn, Alone, Welcome
  <1> QED BY <1>1, <1>3, <1>4, <1>6, <1>7, <1>8, Facts, RunsOrHistories

-----------------------------------------------------------------------------
(* Tool calls.                                                             *)

\* A call begins: it leads to where the turn is.
LEMMA BeginsStep ==
    ASSUME IInv, NEW a \in Agents, NEW given \in Arguments,
           a \in Runs => runs[a].state = "running", Begins(a, given[1], given[2])
    PROVE  IInv'
  <1> DEFINE call == [kind |-> given[1], path |-> given[2], by |-> By(a),
                      at |-> IF given[1] \in OnMemory THEN ActiveMemoryStore ELSE cwd]
  <1>1. /\ pending' = [pending EXCEPT ![a] = call]
        /\ UNCHANGED <<cwd, active, place, turn, runs, notes, work, seen, fallen, told, stuck>>
    BY DEF Begins, books
  <1>2. /\ given[1] \in OnMemory \cup OnFiles /\ given[2] \in Relative \cup {<<>>}
        /\ given[1] \in {"read", "write", "append"} => given[2] \in Relative
    BY DEF Arguments, OnMemory, OnFiles
  <1>3. call \in Call BY <1>2, ByType, Facts DEF Call
  <1>4. call.kind = given[1] /\ call.path = given[2] /\ call.by = By(a)
        /\ call.at = IF given[1] \in OnMemory THEN ActiveMemoryStore ELSE cwd
    OBVIOUS
  <1> HIDE DEF call
  <1>5. ASSUME NEW k \in Threads, Alone(k), call.at = Segment[k]
        PROVE  /\ call.kind \in OnMemory => Welcome(k, call.by)
               /\ call.kind = "shell" /\ Segment[k] \notin stuck => Welcome(k, call.by)
    <2>1. CASE call.kind \in OnMemory
      <3>1. active = Segment[k] BY <2>1, <1>4, <1>5, Facts DEF ActiveMemoryStore
      <3>2. InTurn /\ turn.key = k BY <3>1, <1>5, Here
      <3>3. Welcome(k, call.by) BY <3>2, <1>4, Welcomed
      <3> QED BY <2>1, <3>3 DEF OnMemory
    <2>2. CASE call.kind \notin OnMemory /\ Segment[k] \notin stuck
      <3>1. cwd = Segment[k] BY <2>2, <1>4, <1>5
      <3>2. InTurn /\ turn.key = k BY <3>1, <2>2, <1>5, InWorkspace
      <3> QED BY <3>2, <1>4, Welcomed
    <2> QED BY <2>1, <2>2
  <1>6. InTurn /\ call.kind \in OnMemory => call.at = active
    BY <1>4 DEF IInv, TurnInv, ActiveMemoryStore
  <1>7. CallInv(a, call) BY <1>2, <1>4, <1>5, <1>6 DEF CallInv
  <1>8. \A b \in Agents : pending'[b] = IF b = a THEN call ELSE pending[b] BY <1>1, Facts
  <1>9. \A b \in Agents : pending'[b] # NoCall => CallInv(b, pending'[b])
    BY <1>7, <1>8 DEF IInv, PendingInv
  <1>10. PendingInv' BY <1>1, <1>9 DEF PendingInv, CallInv, InTurn, Alone, Welcome
  <1>11. pending' \in [Agents -> Call \cup {NoCall}] BY <1>1, <1>3, Facts
  <1>12. RunInv' /\ NothingLeaks'
    BY <1>1 DEF IInv, RunInv, InTurn, Sound, Own, NothingLeaks, OwnHistory, OwnPath
  <1>13. InTurn => seen[turn.key] # NoHistory BY DEF IInv, TurnInv
  <1> QED BY <1>1, <1>10, <1>11, <1>12, <1>13, Facts, RunsOrHistories

\* A call that returns leaves those of the others.
LEMMA ReturnsKeeps ==
    ASSUME IInv, NEW a \in Agents, Returns(a),
           UNCHANGED <<active, turn, stuck>>,
           \A r \in Runs : runs'[r].state = runs[r].state /\ runs'[r].strayed = runs[r].strayed
    PROVE  /\ PendingInv' /\ pending' \in [Agents -> Call \cup {NoCall}]
           /\ pending[a] \in Call /\ CallInv(a, pending[a])
  <1>1. pending' = [pending EXCEPT ![a] = NoCall] BY DEF Returns
  <1>2. \A b \in Agents : pending'[b] = IF b = a THEN NoCall ELSE pending[b] BY <1>1, Facts
  <1>3. pending' \in [Agents -> Call \cup {NoCall}] BY <1>1, Facts
  <1>4. pending[a] \in Call /\ CallInv(a, pending[a]) BY Facts DEF Returns, IInv, PendingInv
  <1>5. ASSUME NEW b \in Agents, pending'[b] # NoCall PROVE CallInv(b, pending[b])'
    <2>1. pending'[b] = pending[b] /\ CallInv(b, pending[b]) BY <1>2, <1>5 DEF IInv, PendingInv
    <2> QED BY <2>1 DEF CallInv, InTurn, Alone, Welcome
  <1> QED BY <1>3, <1>4, <1>5 DEF PendingInv

\* A call ends without effect.
LEMMA CallEndsStep == ASSUME IInv, NEW a \in Agents, CallEnds(a) PROVE IInv'
  <1>1. /\ Returns(a)
        /\ UNCHANGED <<cwd, active, place, turn, runs, notes, work, seen, fallen, told, stuck>>
    BY DEF CallEnds, books
  <1>2. PendingInv' /\ pending' \in [Agents -> Call \cup {NoCall}] BY <1>1, ReturnsKeeps
  <1>3. RunInv' /\ NothingLeaks'
    BY <1>1 DEF IInv, RunInv, InTurn, Sound, Own, NothingLeaks, OwnHistory, OwnPath
  <1>4. InTurn => seen[turn.key] # NoHistory BY DEF IInv, TurnInv
  <1> QED BY <1>1, <1>2, <1>3, <1>4, Facts, RunsOrHistories

\* A write of a thread's store is of an agent that was welcome when it began.
LEMMA WritesStep == ASSUME IInv, NEW a \in Agents, Writes(a) PROVE IInv'
  <1> DEFINE call == pending[a]
  <1>0. /\ Returns(a) /\ call.kind \in {"write", "append"}
        /\ UNCHANGED <<cwd, active, place, turn, runs, work, seen, fallen, told, stuck>>
    BY DEF Writes, books
  <1>1. PICK p \in SandboxPath(call.at, call.path) :
          notes' = [notes EXCEPT ![p] =
              IF call.kind = "append"
              THEN @ \cup {[by |-> call.by, store |-> call.at, path |-> p]}
              ELSE {[by |-> call.by, store |-> call.at, path |-> p]}]
    BY DEF Writes
  <1>2. /\ PendingInv' /\ pending' \in [Agents -> Call \cup {NoCall}]
        /\ call \in Call /\ CallInv(a, call)
    BY <1>0, ReturnsKeeps
  <1> HIDE DEF call
  <1>3. call.path \in Relative /\ call.at \in Places /\ call.by \in Mark
    BY <1>0, <1>2 DEF CallInv, Call
  <1>4. p \in Paths /\ (call.at \in Segments => Head(p) = call.at) BY <1>3, Sandboxed
  <1> DEFINE note == [by |-> call.by, store |-> call.at, path |-> p]
  <1>5. note \in Note BY <1>3, <1>4 DEF Note
  <1>6. notes' = [notes EXCEPT ![p] = IF call.kind = "append" THEN @ \cup {note} ELSE {note}]
    BY <1>1
  <1>7. note.by = call.by /\ note.store = call.at /\ note.path = p OBVIOUS
  <1> HIDE DEF note
  <1>8. /\ \A q \in Paths : notes'[q] \subseteq notes[q] \cup {note}
        /\ \A q \in Paths : q # p => notes'[q] = notes[q]
    BY <1>6, Facts
  <1>9. notes' \in [Paths -> SUBSET Note] BY <1>5, <1>6, Facts
  <1>10. PlacesTypeOK' BY <1>0, <1>2, <1>9 DEF IInv, PlacesTypeOK
  <1>11. NoteInv' BY <1>7, <1>8 DEF IInv, NoteInv
  <1>12. ASSUME NEW k \in Threads, Alone(k), OwnPath(k, p)
         PROVE  note.store = Home \/ Welcome(k, note.by)
    <2>1. CASE call.at = Home BY <2>1, <1>7
    <2>2. CASE call.at # Home
      <3>1. call.at = Segment[k] BY <2>2, <1>3, <1>4, <1>12 DEF Places, OwnPath
      <3>2. call.kind \in OnMemory BY <1>0 DEF OnMemory
      <3> QED BY <3>1, <3>2, <1>2, <1>7, <1>12 DEF CallInv
    <2> QED BY <2>1, <2>2
  <1>13. MemoryInv'
    <2> SUFFICES ASSUME NEW k \in Threads, Alone(k), NEW q \in Paths, OwnPath(k, q),
                        NEW n \in notes'[q]
                 PROVE  n.store = Home \/ Welcome(k, n.by)
      BY DEF MemoryInv, Alone, OwnPath, Welcome
    <2>1. CASE n = note /\ q = p BY <2>1, <1>12
    <2>2. CASE n \in notes[q] BY <2>2 DEF IInv, MemoryInv
    <2> QED BY <2>1, <2>2, <1>8
  <1>14. PlaceInv' /\ TurnInv' /\ RunInv' /\ WorkInv' /\ NothingLeaks'
    BY <1>0 DEF IInv, PlaceInv, TurnInv, RunInv, InTurn, Sound, Own, WorkInv, NothingLeaks,
                OwnHistory, OwnPath, Alone, Welcome
  <1> QED BY <1>2, <1>10, <1>11, <1>13, <1>14 DEF IInv

\* What the turn's agent or a run of the turn finds is the thread's own.
LEMMA ReadsStep == ASSUME IInv, NEW a \in Agents, Reads(a) PROVE IInv'
  <1> DEFINE call == pending[a]
  <1>0. /\ Returns(a) /\ call.kind \in {"read", "search"}
        /\ UNCHANGED <<cwd, active, place, turn, notes, work, fallen, told, stuck>>
    BY DEF Reads, books
  <1>1. a # Main => runs' = [runs EXCEPT ![a].got = @ \cup Found(call)] /\ seen' = seen
    BY DEF Reads
  <1>2. a = Main =>
          /\ seen' = IF InTurn THEN [seen EXCEPT ![turn.key] = @ \cup Found(call)] ELSE seen
          /\ runs' = runs
    BY DEF Reads
  <1>3. a \in Runs <=> a # Main BY PlacesAssumption DEF Agents
  <1>4. call \in Call /\ CallInv(a, call)
    BY <1>0, Facts DEF Returns, IInv, PendingInv
  <1>r. \A r \in Runs : runs[r] \in Run BY Facts
  <1> HIDE DEF call
  <1>5. /\ Found(call) \in SUBSET Note
        /\ \A k \in Threads : call.at = Segment[k] => Own(k, Found(call))
    BY <1>0, <1>4, FoundIsOwn DEF CallInv
  <1>6. InTurn /\ turn.key \in Sound /\ (a \in Runs => ~runs[a].strayed) =>
          Own(turn.key, Found(call))
    <2> SUFFICES ASSUME InTurn, turn.key \in Sound, a \in Runs => ~runs[a].strayed
                 PROVE  Own(turn.key, Found(call))
      OBVIOUS
    <2>1. call.kind \in OnMemory BY <1>0 DEF OnMemory
    <2>2. call.at = active BY <1>4, <2>1 DEF CallInv
    <2>3. active = Segment[turn.key] /\ turn.key \in Threads BY ActiveIsOwn DEF Sound
    <2> QED BY <2>2, <2>3, <1>5
  <1>7. \A r \in Runs : runs'[r].state = runs[r].state /\ runs'[r].strayed = runs[r].strayed
                        /\ runs'[r].for = runs[r].for
                        /\ runs'[r].got = IF r = a THEN runs[r].got \cup Found(call) ELSE runs[r].got
    <2> DEFINE more == Found(call)
    <2>1. CASE a = Main BY <2>1, <1>2, <1>3
    <2>2. CASE a # Main
      <3>1. runs' = [runs EXCEPT ![a].got = @ \cup more] /\ a \in Runs BY <2>2, <1>1, <1>3
      <3> HIDE DEF more
      <3>2. runs \in [Runs -> Run] BY Facts
      <3>3. \A r \in Runs : runs'[r] = IF r = a THEN [runs[r] EXCEPT !.got = @ \cup more] ELSE runs[r]
        BY <3>1, <3>2
      <3>4. \A r \in Runs : runs'[r].state = runs[r].state /\ runs'[r].strayed = runs[r].strayed
                            /\ runs'[r].for = runs[r].for
                            /\ runs'[r].got = IF r = a THEN runs[r].got \cup more ELSE runs[r].got
        BY <3>3, <1>r DEF Run
      <3> QED BY <3>4 DEF more
    <2> QED BY <2>1, <2>2
  <1>8. runs' \in [Runs -> Run] BY <1>1, <1>2, <1>3, <1>5, <1>r, Facts DEF Run
  <1>9. PendingInv' /\ pending' \in [Agents -> Call \cup {NoCall}]
    BY <1>0, <1>7, ReturnsKeeps
  <1>10. RunInv'
    <2> SUFFICES ASSUME NEW r \in Runs, runs[r].state # "none", ~runs[r].strayed
                 PROVE  /\ InTurn /\ runs[r].for = turn.key
                        /\ turn.key \in Sound => Own(turn.key, runs'[r].got)
      BY <1>0, <1>7 DEF RunInv, InTurn, Sound, Own, OwnPath
    <2>1. /\ InTurn /\ runs[r].for = turn.key
          /\ turn.key \in Sound => Own(turn.key, runs[r].got)
      BY DEF IInv, RunInv
    <2>2. turn.key \in Sound /\ r = a => Own(turn.key, Found(call)) BY <2>1, <1>6
    <2> QED BY <2>1, <2>2, <1>7 DEF Own
  <1>11. CASE a = Main /\ InTurn
    <2>1. /\ seen' \in [Keys -> {NoHistory} \cup SUBSET Note]
          /\ seen'[turn.key] # NoHistory
          /\ \A k \in Sound : (k = turn.key => Own(k, Found(call))) /\ seen'[k] # NoHistory =>
               Own(k, seen'[k])
      BY <1>2, <1>5, <1>11, MoreIsSeen
    <2>2. \A k \in Sound : seen'[k] # NoHistory => Own(k, seen'[k])
      BY <2>1, <1>3, <1>6, <1>11
    <2>3. NothingLeaks' BY <2>2, <1>0 DEF NothingLeaks, OwnHistory, Own, OwnPath, Sound
    <2> QED BY <2>1, <2>3, <1>0, <1>8, <1>9, <1>10, <1>11, Facts, RunsOrHistories
  <1>12. CASE ~(a = Main /\ InTurn)
    <2>1. seen' = seen BY <1>1, <1>2, <1>12
    <2>2. NothingLeaks' BY <2>1, <1>0 DEF IInv, NothingLeaks, OwnHistory, OwnPath
    <2>3. InTurn => seen[turn.key] # NoHistory BY DEF IInv, TurnInv
    <2> QED BY <2>1, <2>2, <2>3, <1>0, <1>8, <1>9, <1>10, Facts, RunsOrHistories
  <1> QED BY <1>11, <1>12

\* A file is changed where a command was started, or where the process is.
LEMMA FileChangesStep == ASSUME IInv, NEW a \in Agents, FileChanges(a) PROVE IInv'
  <1>0. /\ pending[a] # NoCall
        /\ UNCHANGED <<cwd, active, place, turn, runs, pending, notes, seen, fallen, told, stuck>>
    BY DEF FileChanges, books
  <1>1. pending[a] \in Call /\ CallInv(a, pending[a]) BY <1>0, Facts DEF IInv, PendingInv
  <1>2. PICK d \in Places, mark \in Mark :
          /\ work' = [work EXCEPT ![d] = @ \cup {mark}]
          /\ \A k \in Threads : Alone(k) /\ d = Segment[k] /\ Segment[k] \notin stuck =>
               Welcome(k, mark)
    <2>1. CASE pending[a].kind = "shell"
      <3>1. work' = [work EXCEPT ![pending[a].at] = @ \cup {pending[a].by}]
        BY <2>1 DEF FileChanges
      <3>2. pending[a].at \in Places /\ pending[a].by \in Mark BY <1>1 DEF Call
      <3> QED BY <2>1, <3>1, <3>2, <1>1 DEF CallInv
    <2>2. CASE pending[a].kind = "file"
      <3>1. work' = [work EXCEPT ![cwd] = @ \cup {By(a)}] BY <2>2 DEF FileChanges
      <3>2. cwd \in Places /\ By(a) \in Mark BY Facts, ByType
      <3>3. ASSUME NEW k \in Threads, Alone(k), cwd = Segment[k], Segment[k] \notin stuck
            PROVE  Welcome(k, By(a))
        <4>1. InTurn /\ turn.key = k BY <3>3, InWorkspace
        <4>2. a \in Runs => runs[a].state = "running" BY <1>1 DEF CallInv
        <4> QED BY <4>1, <4>2, Welcomed
      <3> QED BY <3>1, <3>2, <3>3
    <2> QED BY <2>1, <2>2 DEF FileChanges
  <1>3. PlacesTypeOK'
    <2>1. work' \in [Places -> SUBSET Mark] BY <1>2, Facts
    <2> QED BY <1>0, <2>1 DEF IInv, PlacesTypeOK
  <1>4. \A e \in Places : work'[e] = IF e = d THEN work[e] \cup {mark} ELSE work[e]
    BY <1>2, Facts
  <1>5. WorkInv'
    <2> SUFFICES ASSUME NEW k \in Threads, Alone(k), Segment[k] \notin stuck,
                        NEW n \in work'[Segment[k]]
                 PROVE  Welcome(k, n)
      BY <1>0 DEF WorkInv, Alone, Welcome
    <2>1. Segment[k] \in Places BY Facts
    <2>2. CASE n \in work[Segment[k]] BY <2>2 DEF IInv, WorkInv
    <2>3. CASE n = mark /\ d = Segment[k] BY <2>3, <1>2
    <2> QED BY <2>1, <2>2, <2>3, <1>4
  <1>6. PlaceInv' /\ TurnInv' /\ NoteInv' /\ MemoryInv' /\ NothingLeaks'
    BY <1>0 DEF IInv, PlaceInv, TurnInv, InTurn, Sound, Own, NoteInv, MemoryInv, NothingLeaks,
                OwnHistory, OwnPath, Alone, Welcome
  <1>7. RunInv' BY <1>0 DEF IInv, RunInv, InTurn, Sound, Own, OwnPath
  <1>8. PendingInv' BY <1>0 DEF IInv, PendingInv, CallInv, InTurn, Alone, Welcome
  <1> QED BY <1>3, <1>5, <1>6, <1>7, <1>8 DEF IInv

-----------------------------------------------------------------------------
(* The invariant and the theorems.                                         *)

\* The first process starts at home, with nothing written.
LEMMA Initially == Init => IInv
  <1> SUFFICES ASSUME Init PROVE IInv OBVIOUS
  <1>1. PlacesInit BY DEF Init
  <1>2. PlacesTypeOK BY <1>1 DEF PlacesInit, PlacesTypeOK, Places, NoRun, Run
  <1>3. PlaceInv
    <2>1. \A k \in Keys : place[k] = NoStore BY <1>1 DEF PlacesInit
    <2> QED BY <2>1, PlacesAssumption DEF PlaceInv, Places
  <1>4. TurnInv BY <1>1 DEF PlacesInit, TurnInv, InTurn
  <1>5. NoteInv /\ MemoryInv
    BY <1>1 DEF PlacesInit, NoteInv, MemoryInv
  <1>6. WorkInv BY <1>1, PlacesAssumption DEF PlacesInit, WorkInv, Places
  <1>7. RunInv /\ PendingInv BY <1>1 DEF PlacesInit, RunInv, PendingInv, NoRun
  <1>8. NothingLeaks BY <1>1 DEF PlacesInit, NothingLeaks, OwnHistory, Keys
  <1> QED BY <1>2, <1>3, <1>4, <1>5, <1>6, <1>7, <1>8 DEF IInv

\* A step that leaves all of it alone.
LEMMA Idle == ASSUME IInv, UNCHANGED placeVars PROVE IInv'
  <1>1. UNCHANGED <<cwd, active, place, turn, runs, pending, notes, work, seen, fallen, told, stuck>>
    BY DEF placeVars, books
  <1>2. RunInv' /\ NothingLeaks'
    BY <1>1 DEF IInv, RunInv, InTurn, Sound, Own, NothingLeaks, OwnHistory, OwnPath
  <1>3. PendingInv' BY <1>1 DEF IInv, PendingInv, CallInv, InTurn, Alone, Welcome
  <1>4. InTurn => seen[turn.key] # NoHistory BY DEF IInv, TurnInv
  <1> QED BY <1>1, <1>2, <1>3, <1>4, Facts, RunsOrHistories

\* Every step keeps the invariant.
LEMMA Inductive == IInv /\ [PlacesNext]_placeVars => IInv'
  <1> SUFFICES ASSUME IInv, [PlacesNext]_placeVars PROVE IInv' OBVIOUS
  <1>0. CASE UNCHANGED placeVars BY <1>0, Idle
  <1>1. CASE \E k \in Keys, made, entered \in BOOLEAN : StartTurn(k, made, entered)
    BY <1>1, StartTurnStep
  <1>2. CASE \E back \in BOOLEAN : EndTurn(back) BY <1>2, EndTurnStep
  <1>3. CASE \E k \in Keys : Reset(k) BY <1>3, ResetStep
  <1>4. CASE \E r \in Runs : SpawnRun(r) \/ RunEnds(r) \/ TakesResult(r)
    BY <1>4, SpawnRunStep, RunEndsStep, TakesResultStep
  <1>5. CASE \E a \in Agents : \E given \in Arguments :
               (a \in Runs => runs[a].state = "running") /\ Begins(a, given[1], given[2])
    BY <1>5, BeginsStep
  <1>6. CASE \E a \in Agents : CallEnds(a) \/ Writes(a) \/ Reads(a) \/ FileChanges(a)
    BY <1>6, CallEndsStep, WritesStep, ReadsStep, FileChangesStep
  <1>7. CASE PlacesRestart BY <1>7, RestartStep
  <1> QED BY <1>0, <1>1, <1>2, <1>3, <1>4, <1>5, <1>6, <1>7 DEF PlacesNext

\* The invariant holds throughout: every behaviour keeps it, step by step.
LEMMA Throughout == Spec => []IInv
  <1>1. IInv /\ [Next]_vars => IInv' BY Inductive, StepOfPlaces
  <1> QED BY Initially, <1>1, PTL DEF Spec

\* HandleTurn's deferred functions: whenever no turn runs, no thread's memory store is
\* active and the process is in the project's directory, or in one that a turn failed
\* to leave.
THEOREM HomeKept == Spec => []HomeBetweenTurns
  <1>1. IInv => HomeBetweenTurns BY DEF IInv, TurnInv, HomeBetweenTurns
  <1> QED BY <1>1, Throughout, PTL

\* threadProvisioner, SandboxPath and the switch of a turn: what is in a thread's
\* directories came from calls of its turns, on whatever path and however late they
\* ended; of another thread's agents only by runs that had outlived their turn.
THEOREM ThreadsIsolated == Spec => []OwnDirectory
  <1>1. ASSUME IInv PROVE OwnDirectory
    <2> SUFFICES ASSUME NEW k \in Threads, Alone(k)
                 PROVE  /\ \A mark \in Written(k) : Welcome(k, mark)
                        /\ Segment[k] \notin stuck =>
                             \A mark \in work[Segment[k]] : Welcome(k, mark)
      BY DEF OwnDirectory
    <2>1. ASSUME NEW mark \in Written(k) PROVE Welcome(k, mark)
      <3>1. PICK note \in UNION {notes[p] : p \in {q \in Paths : OwnPath(k, q)}} :
              note.store # Home /\ mark = note.by
        BY <2>1 DEF Written
      <3>2. PICK p \in Paths : OwnPath(k, p) /\ note \in notes[p] BY <3>1
      <3> QED BY <1>1, <3>1, <3>2 DEF IInv, MemoryInv
    <2>2. Segment[k] \notin stuck => \A mark \in work[Segment[k]] : Welcome(k, mark)
      BY <1>1 DEF IInv, WorkInv
    <2> QED BY <2>1, <2>2
  <1> QED BY <1>1, Throughout, PTL

\* LoadCurated, memory read and search, and the results of subagents: the history of a
\* thread that has its directory, and asked for no result of an earlier turn's run,
\* shows files of its own memory only.
THEOREM MemoryStaysIn == Spec => []NothingLeaks
  <1>1. IInv => NothingLeaks BY DEF IInv
  <1> QED BY <1>1, Throughout, PTL

-----------------------------------------------------------------------------
(* Skills: LoadSkills leads to a written file that has no rival.           *)

\* What skill_write said of a name stands on the disk and in the registry, nothing
\* comes before it, and the next start will find no file it cannot read.
PromiseInv ==
    \A name \in Names :
        promised[name] # None =>
            /\ ~LoadFails(skillFile)
            /\ Unrivalled(skillFile, name)
            /\ skillFile[<<"project", name>>] = Rendered(name, promised[name])
            /\ registry[name] = <<"project", name>>

SkillInv ==
    /\ skillFile \in [Locations -> Contents]
    /\ DOMAIN registry = Names
    /\ promised \in [Names -> Texts \cup {None}]
    /\ PromiseInv

\* A set of natural numbers has a least member, which Min finds.
LEMMA LeastMember ==
    ASSUME NEW T \in SUBSET Nat, T # {}
    PROVE  Min(T) \in T
  <1> DEFINE R == {ss \in Nat \X Nat : ss[1] < ss[2]}
  <1>1. IsWellFoundedOn(R, Nat)
    BY NatLessThanWellFounded DEF OpToRel
  <1>2. \A x, y \in Nat : <<y, x>> \in R <=> y < x
    OBVIOUS
  <1> HIDE DEF R
  <1>3. PICK x \in T : \A y \in T : <<y, x>> \notin R
    BY <1>1, WFMin
  <1>4. \A y \in T : x <= y
    <2> SUFFICES ASSUME NEW y \in T PROVE x <= y OBVIOUS
    <2>1. ~(y < x) BY <1>2, <1>3
    <2> QED BY <2>1
  <1> QED BY <1>4 DEF Min

\* Where no SKILL.md is in a directory itself, both are scanned entry by entry,
\* home first.
LEMMA BothScanned ==
    ASSUME NEW files, \A dir \in {"home", "project"} : files[<<dir, Root>>] = None
    PROVE  /\ DOMAIN Candidates(files) \subseteq Nat
           /\ \A i \in DOMAIN Candidates(files) :
                Candidates(files)[i] \in Locations
           /\ \A name \in Names : \E i \in DOMAIN Candidates(files) :
                Candidates(files)[i] = <<"project", name>>
  <1> DEFINE h == [i \in DOMAIN Entries |-> <<"home", Entries[i]>>]
             p == [i \in DOMAIN Entries |-> <<"project", Entries[i]>>]
             n == Len(Entries)
  <1>1. Candidates(files) = h \o p BY DEF Candidates, Scanned
  <1>2. Entries \in Seq(Names) /\ n \in Nat /\ DOMAIN Entries = 1 .. n
    BY SkillsAssumption
  <1>3. \A i \in 1 .. n : Entries[i] \in Names BY <1>2
  <1>4. h \in Seq(Locations) /\ Len(h) = n
    BY <1>2, <1>3 DEF Locations
  <1>5. p \in Seq(Locations) /\ Len(p) = n
    BY <1>2, <1>3 DEF Locations
  <1>6. h \o p \in Seq(Locations) /\ Len(h \o p) = n + n
        /\ \A i \in 1 .. n : (h \o p)[n + i] = p[i]
    BY <1>2, <1>4, <1>5, ConcatProperties
  <1>7. DOMAIN (h \o p) = 1 .. (n + n) BY <1>6
  <1>8. ASSUME NEW name \in Names
        PROVE  \E i \in 1 .. (n + n) : (h \o p)[i] = <<"project", name>>
    <2>1. PICK i \in 1 .. n : Entries[i] = name BY <1>2 DEF Names, Range
    <2>2. p[i] = <<"project", name>> BY <2>1, <1>2
    <2>3. n + i \in 1 .. (n + n) BY <1>2
    <2> QED BY <2>2, <2>3, <1>6
  <1> HIDE DEF h, p, n
  <1>9. \A i \in 1 .. (n + n) : (h \o p)[i] \in Locations
    <2> DEFINE q == h \o p
    <2>1. q \in Seq(Locations) /\ DOMAIN q = 1 .. (n + n) BY <1>6, <1>7
    <2> HIDE DEF q
    <2>2. ASSUME NEW S, NEW s \in Seq(S), NEW i \in DOMAIN s PROVE s[i] \in S
      BY <2>2
    <2> QED BY <2>1, <2>2 DEF q
  <1> DEFINE both == h \o p
  <1>10. DOMAIN both = 1 .. (n + n) /\ 1 .. (n + n) \subseteq Nat BY <1>2, <1>7
  <1>11. /\ \A i \in DOMAIN both : both[i] \in Locations
         /\ \A name \in Names : \E i \in DOMAIN both : both[i] = <<"project", name>>
    BY <1>8, <1>9, <1>10
  <1> HIDE DEF both
  <1>12. Candidates(files) = both BY <1>1 DEF both
  <1> QED BY <1>10, <1>11, <1>12

\* LoadSkills finds a skill that no other file rivals.
LEMMA UnrivalledIsLoaded ==
    ASSUME NEW files, NEW name \in Names, NEW text \in Texts,
           Unrivalled(files, name),
           files[<<"project", name>>] = Rendered(name, text)
    PROVE  LoadSkills(files)[name] = <<"project", name>>
  <1> DEFINE found == Called(files, name)
             written == <<"project", name>>
  <1>1. \A dir \in {"home", "project"} : files[<<dir, Root>>] = None BY DEF Unrivalled
  <1>2. IsSkill(files[written]) /\ files[written].name = name
    <2>1. Rendered(name, text) \in Skill BY DEF Rendered, Skill
    <2> QED BY <2>1, SkillsAssumption DEF IsSkill, Rendered
  <1>3. found # {}
    <2>1. PICK i \in DOMAIN Candidates(files) : Candidates(files)[i] = written
      BY <1>1, BothScanned
    <2> QED BY <2>1, <1>2 DEF Called
  <1>4. found \in SUBSET Nat BY <1>1, BothScanned DEF Called
  <1>5. \A i \in found : Candidates(files)[i] = written
    <2> SUFFICES ASSUME NEW i \in found PROVE Candidates(files)[i] = written OBVIOUS
    <2>1. /\ i \in DOMAIN Candidates(files)
          /\ IsSkill(files[Candidates(files)[i]])
          /\ files[Candidates(files)[i]].name = name
      BY DEF Called
    <2>2. Candidates(files)[i] \in Locations BY <2>1, <1>1, BothScanned
    <2> QED BY <2>1, <2>2 DEF Unrivalled
  <1>6. Winner(found) \in found BY <1>3, <1>4, LeastMember DEF Winner
  <1> QED BY <1>3, <1>5, <1>6 DEF LoadSkills

\* Initially nothing is written or promised.
LEMMA SkillsInitially == SkillsInit => SkillInv
  BY DEF SkillsInit, SkillInv, PromiseInv, NoSkills, Contents

\* A write of one skill leaves what was promised of another.
LEMMA OthersStand ==
    ASSUME SkillInv, NEW name \in Names, NEW other \in Names \ {name},
           NEW content \in {NoSkill} \cup [name : {name}, text : Texts],
           promised[other] # None
    PROVE  LET files == [skillFile EXCEPT ![<<"project", name>>] = content] IN
             /\ ~LoadFails(files)
             /\ Unrivalled(files, other)
             /\ files[<<"project", other>>] = Rendered(other, promised[other])
  <1> DEFINE written == <<"project", name>>
             files == [skillFile EXCEPT ![written] = content]
  <1>1. /\ skillFile \in [Locations -> Contents]
        /\ ~LoadFails(skillFile)
        /\ Unrivalled(skillFile, other)
        /\ skillFile[<<"project", other>>] = Rendered(other, promised[other])
    BY DEF SkillInv, PromiseInv
  <1>2. written \in Locations /\ <<"project", other>> # written
        /\ \A dir \in {"home", "project"} :
             <<dir, Root>> \in Locations /\ <<dir, Root>> # written
    BY SkillsAssumption DEF Locations
  <1>3. \A l \in Locations : files[l] = IF l = written THEN content ELSE skillFile[l]
    BY <1>1, <1>2
  <1>4. content # Unreadable /\ (IsSkill(content) => content.name # other)
    <2>1. CASE content = NoSkill BY <2>1, SkillsAssumption DEF IsSkill
    <2>2. CASE content \in [name : {name}, text : Texts]
      <3>1. content \in Skill BY <2>2 DEF Skill
      <3> QED BY <2>2, <3>1, SkillsAssumption
    <2> QED BY <2>1, <2>2
  <1>5. <<"project", other>> \in Locations BY DEF Locations
  <1> HIDE DEF files, written
  <1>6. files[<<"project", other>>] = Rendered(other, promised[other])
    BY <1>1, <1>2, <1>3, <1>5
  <1>7. \A dir \in {"home", "project"} :
          files[<<dir, Root>>] = None /\ skillFile[<<dir, Root>>] = None
    BY <1>1, <1>2, <1>3 DEF Unrivalled
  <1>8. Unrivalled(files, other) BY <1>1, <1>3, <1>4, <1>7 DEF Unrivalled
  <1>9. ~LoadFails(files)
    <2>1. Candidates(files) = Candidates(skillFile) BY <1>7 DEF Candidates, Scanned
    <2>2. \A i \in DOMAIN Candidates(files) : Candidates(files)[i] \in Locations
      BY <1>7, BothScanned
    <2>3. Range(Candidates(files)) \subseteq Locations BY <2>2 DEF Range
    <2> QED BY <2>1, <2>3, <1>1, <1>3, <1>4 DEF LoadFails
  <1> QED BY <1>6, <1>8, <1>9 DEF files, written

\* skill_write wrote the file and loaded the registry again.
LEMMA SkillWrittenStep ==
    ASSUME SkillInv, NEW name \in Names, NEW text \in Texts, NEW overwrite \in BOOLEAN,
           SkillWritten(name, text, overwrite)
    PROVE  SkillInv'
  <1> DEFINE new == Rendered(name, text)
             files == [skillFile EXCEPT ![<<"project", name>>] = new]
  <1>1. skillFile' = files BY DEF SkillWritten
  <1>2. registry' = IF LoadFails(files) THEN registry ELSE LoadSkills(files)
    BY <1>1 DEF SkillWritten, Reload
  <1>3. promised' = [promised EXCEPT ![name] =
          IF LoadFails(files) \/ ~Unrivalled(files, name) THEN None ELSE text]
    BY <1>1 DEF SkillWritten, Promise
  <1>4. new \in [name : {name}, text : Texts] /\ new \in Contents
    BY DEF Rendered, Contents, Skill
  <1>5. <<"project", name>> \in Locations BY DEF Locations
  <1>6. skillFile \in [Locations -> Contents] /\ DOMAIN registry = Names
        /\ promised \in [Names -> Texts \cup {None}]
    BY DEF SkillInv
  <1>7. files \in [Locations -> Contents] /\ files[<<"project", name>>] = new
    BY <1>4, <1>5, <1>6
  <1>8. DOMAIN registry' = Names BY <1>2, <1>6 DEF LoadSkills
  <1>9. promised' \in [Names -> Texts \cup {None}] BY <1>3, <1>6
  <1>10. ASSUME NEW other \in Names, promised'[other] # None
         PROVE  /\ ~LoadFails(files)
                /\ Unrivalled(files, other)
                /\ files[<<"project", other>>] = Rendered(other, promised'[other])
                /\ registry'[other] = <<"project", other>>
    <2>1. CASE other = name
      <3>1. promised'[other] = text /\ ~LoadFails(files) /\ Unrivalled(files, name)
        BY <2>1, <1>3, <1>6, <1>10
      <3>2. LoadSkills(files)[name] = <<"project", name>>
        BY <3>1, <1>7, UnrivalledIsLoaded
      <3> QED BY <3>1, <3>2, <2>1, <1>2, <1>7
    <2>2. CASE other # name
      <3>1. promised'[other] = promised[other] BY <2>2, <1>3, <1>6
      <3>2. promised[other] \in Texts BY <3>1, <1>10 DEF SkillInv, PromiseInv
      <3>3. /\ ~LoadFails(files)
            /\ Unrivalled(files, other)
            /\ files[<<"project", other>>] = Rendered(other, promised[other])
        BY <3>1, <1>4, <1>10, <2>2, OthersStand
      <3>4. LoadSkills(files)[other] = <<"project", other>>
        BY <3>2, <3>3, UnrivalledIsLoaded
      <3> QED BY <3>1, <3>2, <3>3, <3>4, <1>2
    <2> QED BY <2>1, <2>2
  <1> HIDE DEF files
  <1> QED BY <1>1, <1>7, <1>8, <1>9, <1>10 DEF SkillInv, PromiseInv

\* skill_write failed, perhaps after it truncated the file.
LEMMA SkillWriteFailsStep ==
    ASSUME SkillInv, NEW name \in Names, NEW overwrite \in BOOLEAN,
           SkillWriteFails(name, overwrite)
    PROVE  SkillInv'
  <1>1. registry' = registry BY DEF SkillWriteFails
  <1>2. skillFile \in [Locations -> Contents] /\ DOMAIN registry = Names
        /\ promised \in [Names -> Texts \cup {None}]
    BY DEF SkillInv
  <1>3. CASE skillFile' = skillFile
    <2>1. promised' = [promised EXCEPT ![name] = promised[name]]
      BY <1>3 DEF SkillWriteFails, Promise
    <2>2. promised' = promised BY <1>2, <2>1
    <2> QED BY <1>1, <1>3, <2>2 DEF SkillInv, PromiseInv
  <1>4. CASE skillFile' # skillFile
    <2> DEFINE files == [skillFile EXCEPT ![<<"project", name>>] = NoSkill]
    <2>1. skillFile' = files /\ promised' = [promised EXCEPT ![name] = None]
      BY <1>4 DEF SkillWriteFails, Promise
    <2>2. files \in [Locations -> Contents] BY <1>2 DEF Contents
    <2>3. promised' \in [Names -> Texts \cup {None}] BY <2>1, <1>2
    <2>4. ASSUME NEW other \in Names, promised'[other] # None
          PROVE  /\ ~LoadFails(files)
                 /\ Unrivalled(files, other)
                 /\ files[<<"project", other>>] = Rendered(other, promised'[other])
                 /\ registry'[other] = <<"project", other>>
      <3>1. other # name /\ promised'[other] = promised[other] BY <2>1, <2>4, <1>2
      <3>2. promised[other] \in Texts /\ registry[other] = <<"project", other>>
        BY <3>1, <2>4 DEF SkillInv, PromiseInv
      <3> QED BY <3>1, <3>2, <1>1, <2>4, OthersStand
    <2> HIDE DEF files
    <2> QED BY <1>1, <1>2, <2>1, <2>2, <2>3, <2>4 DEF SkillInv, PromiseInv
  <1> QED BY <1>3, <1>4

\* A start loads the registry anew: what was promised is found again.
LEMMA SkillRestartStep ==
    ASSUME SkillInv, registry' = StartUp(skillFile), UNCHANGED <<skillFile, promised>>
    PROVE  SkillInv'
  <1>1. DOMAIN registry' = Names BY DEF StartUp, NoSkills, LoadSkills
  <1>2. ASSUME NEW name \in Names, promised[name] # None
        PROVE  registry'[name] = <<"project", name>>
    <2>1. /\ ~LoadFails(skillFile) /\ Unrivalled(skillFile, name)
          /\ promised[name] \in Texts
          /\ skillFile[<<"project", name>>] = Rendered(name, promised[name])
      BY <1>2 DEF SkillInv, PromiseInv
    <2>2. LoadSkills(skillFile)[name] = <<"project", name>> BY <2>1, UnrivalledIsLoaded
    <2> QED BY <2>1, <2>2 DEF StartUp
  <1> QED BY <1>1, <1>2 DEF SkillInv, PromiseInv

\* Somebody edits the files: nothing is promised any more.
LEMMA HandEditStep ==
    ASSUME SkillInv, HandEdit
    PROVE  SkillInv'
  BY DEF HandEdit, SkillInv, PromiseInv, NoSkills

\* Every step of the environment keeps it.
LEMMA SkillInductive == SkillInv /\ [Next]_vars => SkillInv'
  <1> SUFFICES ASSUME SkillInv, [Next]_vars PROVE SkillInv' OBVIOUS
  <1>1. CASE UNCHANGED skillVars BY <1>1 DEF skillVars, SkillInv, PromiseInv
  <1>2. CASE SkillWrite
    BY <1>1, <1>2, SkillWrittenStep, SkillWriteFailsStep DEF SkillWrite, SkillRefused
  <1>3. CASE HandEdit BY <1>3, HandEditStep
  <1>4. CASE Restart BY <1>4, SkillRestartStep DEF Restart
  <1> QED
    BY <1>1, <1>2, <1>3, <1>4
       DEF Next, TurnStep, RunStep, ToolStep, EditStep, Exit, InPlaces, vars, skillVars

\* skill_write, LoadSkills and Expand: what the tool said is invocable now is what
\* the command expands to, after other writes, failed ones and restarts, until
\* somebody edits the files.
THEOREM SkillsAnswer == Spec => []WrittenSkillAnswers
  <1>1. Init => SkillInv BY SkillsInitially DEF Init
  <1>2. SkillInv => WrittenSkillAnswers
    <2> SUFFICES ASSUME SkillInv, NEW name \in Names, promised[name] # None
                 PROVE  Expand(name) = promised[name]
      BY DEF WrittenSkillAnswers
    <2>1. /\ registry[name] = <<"project", name>>
          /\ promised[name] \in Texts
          /\ skillFile[<<"project", name>>] = Rendered(name, promised[name])
      BY DEF SkillInv, PromiseInv
    <2>2. Rendered(name, promised[name]) \in Skill BY <2>1 DEF Rendered, Skill
    <2>3. IsSkill(Rendered(name, promised[name])) BY <2>2, SkillsAssumption DEF IsSkill
    <2>4. registry[name] # None BY <2>1, SkillsAssumption DEF Locations
    <2> QED BY <2>1, <2>3, <2>4 DEF Expand, Rendered
  <1> QED BY <1>1, <1>2, SkillInductive, PTL DEF Spec
=============================================================================
