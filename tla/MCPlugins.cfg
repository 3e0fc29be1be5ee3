SPECIFICATION Spec
CONSTANTS
    orchestrator = orchestrator
    researcher = researcher
    browser = browser
    Agents = {orchestrator, researcher}
    Main = orchestrator
    Clients = {browser}
    HistorySize = 2
    ClientChanSize = 1
    MaxBatch = 2
    MaxId = 2
    MaxEvents = 4
INVARIANTS NothingMissed AgentOrderKept PanicNeedsALateLeaver OneInProgress IdsUnique
PROPERTIES PublishEnds WorkIsNudged
CHECK_DEADLOCK FALSE
