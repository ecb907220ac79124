\* Pages of one item, chunks of two rows, requests that fail.
CONSTANTS
    BATCH_SIZE = 1
    InitialRows = 3
    MaxRows = 4
    MaxRequests = 3
    MaxChanges = 2
    Filters = {"all", "odd"}
    NoFilter = "all"
    InitialMatching <- MatchingRows
    Faults = {"api"}

SPECIFICATION Spec
INVARIANTS PagesMakeTheList SkippedAtMostRemoved RepeatedAtMostAdded ShownMatchesFilters

\* The pages and the rows of the instance run out.
CHECK_DEADLOCK FALSE
