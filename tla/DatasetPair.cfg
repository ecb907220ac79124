\* Two datasets of one title, users who wait for the callbacks, deletions at every rest.
CONSTANTS
    Links = {l1, l2}
    NoLink = NoLink
    Organizations = {o1}
    integrity_organization <- AllTogether
    Handlers = {h1, h2}
    MaxUploads = 3
    MaxNames = 2
    MaxRuns = 4
    Recurring = {}
    Faults = {"task", "cleanup", "publish", "record", "trigger"}
    Clients = "settled"

SPECIFICATION Spec
SYMMETRY Interchangeable
INVARIANTS NoForeignData DeletedLeavesNothing
PROPERTIES KeepsContract

\* Bounded identifiers run out, and deleted datasets need nothing more.
CHECK_DEADLOCK FALSE
