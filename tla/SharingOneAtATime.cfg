\* Requests served one at a time, services that fail.
CONSTANTS
    Groups = {g1, g2}
    EVERYONE = EVERYONE
    Handlers = {h1}
    Requests = {"data", "metadata", "gs", "gn"}
    Faults = {"geoserver", "geonetwork"}

SPECIFICATION Spec
SYMMETRY Interchangeable
INVARIANTS SharingTypeOK EveryoneFlag
PROPERTIES RulesCommittedWithAcl RecordFollowsRules
