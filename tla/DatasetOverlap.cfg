\* One dataset, any request at any time, tasks and publications that fail, lost callbacks.
CONSTANTS
    Links = {l1}
    NoLink = NoLink
    Organizations = {o1}
    integrity_organization <- AllTogether
    Handlers = {h1, h2}
    MaxUploads = 2
    MaxNames = 2
    MaxRuns = 3
    Recurring = {l1}
    Faults = {"task", "cleanup", "publish", "callback"}
    Clients = "overlap"

SPECIFICATION Spec
SYMMETRY Interchangeable
INVARIANTS WellFormed LayerBacksDataId
PROPERTIES UploadKeptForRun PublishedSurvives RefreshKeepsTable

\* Bounded identifiers run out, and deleted datasets need nothing more.
CHECK_DEADLOCK FALSE
