\* One command of the CLI from its flags to its exit code.
SPECIFICATION FairSpec
CONSTANTS
    checkout = checkout
    required = required
    sub = sub
    block = block
    login = login
    reset = reset
    pay = pay
    ship = ship
    deliver = deliver
    shop = shop
    smoke = smoke
    journey = journey
    sweep = sweep
    draft = draft
    notes = notes
    Flows <- MCFlows
    InFile <- MCInFile
    NeedsProxy <- MCNeedsProxy
    Requires <- MCRequires
    Pre <- MCPre
    Body <- MCBody
    Adapters = {"none", "unknown", "file"}
    MaxRequests = 2
    MaxRestarts = 1
    Files <- MCFiles
    Sorted <- MCSorted
    Path <- MCPath
    Tags <- MCTags
    NotWalked = {".drafts"}
    NotYaml = {notes}
    TestFile <- MCTestFile
    Commands <- MCCommands
    CliPre = {"none", "force"}
    ConfigPre = {"none", "skip"}
INVARIANTS
    ExitHonest
    EntriesIndependent
    MainGated
    EventsNest
    CancelStops
PROPERTIES
    FailureStops
    Terminates
\* The command exits.
CHECK_DEADLOCK FALSE
