\* One scheduled dataset, three organizations, GeoServer that fails, a changed configuration.
CONSTANTS
    Links = {l1}
    NoLink = NoLink
    Organizations = {o1, o2, o3}
    DEFAULT_DATA_SCHEMA = data
    None = None
    InitialOrgSchema = TRUE
    Recurring = {l1}
    Faults = {"publish", "delete", "config"}

SPECIFICATION Spec
SYMMETRY Interchangeable
INVARIANTS OwnershipTypeOK LayerReadsOwnTable OldLayerWithdrawn
PROPERTIES RefusedMovesNothing
