SPECIFICATION Spec
CONSTANTS
    t1 = t1
    t2 = t2
    terminal = terminal
    run1 = run1
    e1 = e1
    e2 = e2
    Threads = {t1, t2}
    Exempt = {terminal}
    Main = Main
    Runs = {run1}
    Home = Home
    Segments = {t1, t2}
    Segment <- OwnSegments
    Faults = {"mkdir", "chdir", "restore"}
    NoTurn = NoTurn
    NoStore = NoStore
    NoCall = NoCall
    Entries <- SortedEntries
    Texts = {"old", "new"}
    Root = Root
    NoSkill = NoSkill
    Unreadable = Unreadable
    None = None
    MaxSteps = 5
    MaxEdits = 1
SYMMETRY EitherThread
CONSTRAINT EitherPart
INVARIANTS OwnDirectory NothingLeaks HomeBetweenTurns WrittenSkillAnswers
CHECK_DEADLOCK FALSE
