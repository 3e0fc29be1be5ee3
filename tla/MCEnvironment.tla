--------------------------- MODULE MCEnvironment ----------------------------
EXTENDS Environment
CONSTANTS t1, t2, terminal, run1, e1, e2
\* Each thread has a name of its own ...
OwnSegments == [k \in Threads |-> k]
\* ... or they share one: sanitizePathSegment writes every odd character as "_".
OneSegment == [k \in Threads |-> t1]
NoEntries == <<>>
SortedEntries == <<e1, e2>>
EitherThread == Permutations(Threads)

\* The skills and the directories share nothing but the turns and the bound on the
\* steps: a behaviour changes the ones or the others.
NoSkillFiles == \A l \in Locations : skillFile[l] = None
NothingInPlaces ==
    /\ \A k \in Threads : place[k] = NoStore
    /\ runs = [r \in Runs |-> NoRun]
    /\ pending = [a \in Agents |-> NoCall]
    /\ notes = [p \in Paths |-> {}] /\ work = [p \in Places |-> {}]
EitherPart == NoSkillFiles \/ NothingInPlaces
=============================================================================
