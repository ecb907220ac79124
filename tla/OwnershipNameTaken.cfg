\* Two datasets of two organizations with one table name, nothing fails.
CONSTANTS
    Links = {l1, l2}
    NoLink = NoLink
    Organizations = {o1, o2}
    DEFAULT_DATA_SCHEMA = data
    None = None
    InitialOrgSchema = TRUE
    Recurring = {}
    Faults = {}

SPECIFICATION Spec
SYMMETRY Interchangeable
PROPERTIES RefusedMovesNothing
