\* Two datasets of one title in two organizations, one schema.
CONSTANTS
    Links = {l1, l2}
    NoLink = NoLink
    Organizations = {o1, o2}
    integrity_organization <- EachItsOwn
    Handlers = {h1, h2}
    MaxUploads = 2
    MaxNames = 2
    MaxRuns = 4
    Recurring = {}
    Faults = {}
    Clients = "settled"

SPECIFICATION Spec
INVARIANTS NoForeignData

\* Bounded identifiers run out, and deleted datasets need nothing more.
CHECK_DEADLOCK FALSE
