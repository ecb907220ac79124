\* A dataset made here and one of another platform, either executor.
CONSTANTS
    Links = {l1, l2}
    NoLink = NoLink
    Organizations = {o1}
    integrity_organization <- AllTogether
    Handlers = {h1, h2}
    MaxUploads = 1
    MaxNames = 2
    MaxRuns = 2
    Recurring = {}
    Faults = {"task", "restart"}
    Clients = "settled"
    Exported = {l2}
    Executors = {"AIRFLOW", "LOCAL"}

SPECIFICATION PlatformSpec
SYMMETRY Interchangeable
INVARIANTS RetrievedWasWritten
PROPERTIES RowsKept AttachedComplete

\* Bounded identifiers run out, and deleted datasets need nothing more.
CHECK_DEADLOCK FALSE
