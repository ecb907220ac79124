\* Fair behaviours of one dataset with either executor.
CONSTANTS
    Links = {l1}
    NoLink = NoLink
    Organizations = {o1}
    integrity_organization <- AllTogether
    Handlers = {h1, h2}
    MaxUploads = 1
    MaxNames = 1
    MaxRuns = 2
    Recurring = {l1}
    Faults = {"task", "cancel"}
    Clients = "settled"
    Exported = {l1}
    Executors = {"AIRFLOW", "LOCAL"}

SPECIFICATION PlatformFairSpec
INVARIANTS PlatformWellFormed RefreshCleansUp
PROPERTIES WrittenGetsRetrieved DeletedStopsRunning BackendAnswers EndedRunsAnswered

CHECK_DEADLOCK FALSE
