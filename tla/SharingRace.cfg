\* Two concurrent changes of rules, nothing fails.
CONSTANTS
    Groups = {g1, g2}
    EVERYONE = EVERYONE
    Handlers = {h1, h2}
    Requests = {"data"}
    Faults = {}

SPECIFICATION Spec
SYMMETRY Interchangeable
INVARIANTS AclForwarded
