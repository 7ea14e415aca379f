\* A flow file that a script names can be loaded, whichever command runs the script.
SPECIFICATION FairSpec
CONSTANTS
    checkout = checkout
    required = required
    sub = sub
    block = block
    login = login
    reset = reset
    pay = pay
    ship = ship
    deliver = deliver
    shop = shop
    smoke = smoke
    journey = journey
    sweep = sweep
    draft = draft
    notes = notes
    Flows <- MCFlows
    InFile <- MCInFile
    NeedsProxy <- MCNeedsProxy
    Requires <- MCRequires
    Pre <- MCPre
    Body <- MCBody
    Adapters = {"none", "unknown", "file"}
    MaxRequests = 2
    MaxRestarts = 1
    Files <- MCFiles
    Sorted <- MCSorted
    Path <- MCPath
    Tags <- MCTags
    NotWalked = {".drafts"}
    NotYaml = {notes}
    TestFile <- MCTestFile
    Commands <- MCCommands
    CliPre = {"none", "force"}
    ConfigPre = {"none", "skip"}
INVARIANT
    FlowsReachable
CHECK_DEADLOCK FALSE
