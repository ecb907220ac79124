\* A dataset that joins another one, and a copy to another platform.
CONSTANTS
    d1 = d1
    d2 = d2
    u1 = u1
    u2 = u2
    None = None
    Datasets = {d1, d2}
    Users = {u1, u2}
    owner <- Owner
    Administrators = {}
    Recurring = {d1}
    Exported = {d1}
    Sources <- TheSources
    Rules <- TheRules
    Choices <- TheChoices
    MaxRunning = 2
    MaxWrites = 2

SPECIFICATION CopiesSpec
INVARIANTS LoadedWhole ExcludedPreviewable JoinVetted RestoredWasPublished
PROPERTIES WrittenAsShown RefreshKeepsData
CHECK_DEADLOCK FALSE
