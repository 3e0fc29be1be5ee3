------------------------------- MODULE Skills -------------------------------
(***************************************************************************)
(* Skills: SKILL.md files below ~/.yak/skills and the project's            *)
(* .yak/skills, the registry loaded from them (internal/skills), the       *)
(* skill_write tool that adds to the project's, and /skill:<name>, which   *)
(* reads the file the registry leads to.  A skill is its name and what it  *)
(* says; a SKILL.md without a description is there but is no skill.        *)
(***************************************************************************)
EXTENDS Naturals, SequencesExt

CONSTANTS
    Entries,     \* the names of skills and of the directories they are in, sorted
    Texts,       \* what a skill may say
    Root,        \* the entry for a SKILL.md in the skills directory itself
    NoSkill,     \* a file without a description
    Unreadable,  \* a file that os.ReadFile refuses
    None

Names == Range(Entries)

Locations == {"home", "project"} \X (Names \cup {Root})

Skill == [name : Names, text : Texts]

Contents == Skill \cup {NoSkill, Unreadable, None}

ASSUME SkillsAssumption ==
    /\ Entries \in Seq(Names) /\ Root \notin Names
    /\ None # NoSkill /\ None # Unreadable /\ NoSkill # Unreadable
    /\ {NoSkill, Unreadable, None} \cap Skill = {} /\ None \notin Locations

VARIABLES
    skillFile,  \* location -> the file there, or None
    registry,   \* name -> the FilePath of the loaded skill, or None
    promised    \* name -> the text skill_write said is invocable now, or None
                \* (not in the code)

skillVars == <<skillFile, registry, promised>>

-----------------------------------------------------------------------------
(* LoadSkills.                                                             *)

\* scanDir: a SKILL.md in the directory itself hides those below it.
Scanned(files, dir) ==
    IF files[<<dir, Root>>] # None THEN << <<dir, Root>> >>
    ELSE [i \in DOMAIN Entries |-> <<dir, Entries[i]>>]

\* LoadSkills(home, project).
Candidates(files) == Scanned(files, "home") \o Scanned(files, "project")

LoadFails(files) == \E l \in Range(Candidates(files)) : files[l] = Unreadable

\* loadSkillFile: "description is required".
IsSkill(file) == file \notin {NoSkill, Unreadable, None}

\* Where, in the order they are loaded, the skills of that name come.
Called(files, name) ==
    {i \in DOMAIN Candidates(files) :
        /\ IsSkill(files[Candidates(files)[i]])
        /\ files[Candidates(files)[i]].name = name}

\* "The first skill with a given name wins."
Winner(found) == Min(found)

LoadSkills(files) ==
    [n \in Names |-> IF Called(files, n) = {} THEN None
                     ELSE Candidates(files)[Winner(Called(files, n))]]

NoSkills == [n \in Names |-> None]

\* At start-up an error leaves the registry empty.
StartUp(files) == IF LoadFails(files) THEN NoSkills ELSE LoadSkills(files)

SkillsInit ==
    /\ skillFile = [l \in Locations |-> None]
    /\ registry = NoSkills
    /\ promised = NoSkills

-----------------------------------------------------------------------------
(* /skill:<name> and skill_write.                                          *)

\* What Expand returns; None and Unreadable are its errors.
Expand(name) ==
    IF registry[name] = None THEN None
    ELSE IF IsSkill(skillFile[registry[name]]) THEN skillFile[registry[name]].text
    ELSE skillFile[registry[name]]

Promise(name, text) == promised' = [promised EXCEPT ![name] = text]

\* renderSkillFile.
Rendered(name, text) == [name |-> name, text |-> text]

\* No other file goes by the name, nor does a SKILL.md of a whole directory hide it.
Unrivalled(files, name) ==
    /\ \A dir \in {"home", "project"} : files[<<dir, Root>>] = None
    /\ \A l \in Locations \ {<<"project", name>>} :
        IsSkill(files[l]) => files[l].name # name

\* Invalid parameters, or a skill that is there and not to be replaced.
SkillRefused == UNCHANGED skillVars

MayWrite(name, overwrite) == overwrite \/ skillFile[<<"project", name>>] = None

\* Bug for the checks: the registry is not loaded again.
Reload_Skipped(files) == registry' = registry

\* reloadSkills replaces the registry, or keeps it when the loader fails.
Reload(files) == registry' = IF LoadFails(files) THEN registry ELSE LoadSkills(files)

SkillWritten(name, text, overwrite) ==
    /\ MayWrite(name, overwrite)
    /\ skillFile' = [skillFile EXCEPT ![<<"project", name>>] = Rendered(name, text)]
    /\ Reload(skillFile')
    /\ Promise(name, IF LoadFails(skillFile') \/ ~Unrivalled(skillFile', name)
                     THEN None ELSE text)

\* The write fails before, or after, it truncated the file; nothing is loaded.
SkillWriteFails(name, overwrite) ==
    /\ MayWrite(name, overwrite)
    /\ skillFile' \in {skillFile, [skillFile EXCEPT ![<<"project", name>>] = NoSkill]}
    /\ Promise(name, IF skillFile' = skillFile THEN promised[name] ELSE None)
    /\ UNCHANGED registry

SkillWrite ==
    \E name \in Names, overwrite \in BOOLEAN :
        \/ SkillRefused
        \/ SkillWriteFails(name, overwrite)
        \/ \E text \in Texts : SkillWritten(name, text, overwrite)

\* Somebody edits, adds or removes a skill by hand: the registry does not know.
HandEdit ==
    /\ \E l \in Locations, content \in Contents :
        skillFile' = [skillFile EXCEPT ![l] = content]
    /\ promised' = NoSkills
    /\ UNCHANGED registry

-----------------------------------------------------------------------------

\* What skill_write said is "invocable now via /skill:<name>" is what the command
\* expands to, after later writes, failed ones and restarts, until somebody edits
\* the files.  (The tool does not look whether another file has the name and comes
\* first: such an answer is no promise here.)
WrittenSkillAnswers ==
    \A name \in Names : promised[name] # None => Expand(name) = promised[name]
=============================================================================
