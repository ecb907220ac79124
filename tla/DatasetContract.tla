--------------------------- MODULE DatasetContract ---------------------------
(***************************************************************************)
(* What users are promised about datasets, whatever the requests, runs and *)
(* callbacks behind it: a dataset is drafted, published and deleted, has a *)
(* table name of its own, is deleted only if someone asked for it, and is  *)
(* taken back only if its import failed when it was a draft.               *)
(***************************************************************************)
EXTENDS Naturals

CONSTANTS Links, Organizations, integrity_organization, MaxNames

VARIABLES
    phase,     \* how far each dataset is
    name,      \* the table name reserved for it, 0 for none
    asked,     \* datasets whose deletion is being carried out
    doomed     \* datasets that are being taken back

contractVars == <<phase, name, asked, doomed>>

Phases == {"absent", "draft", "published", "discarded", "deleted"}

Existing(l) == phase[l] \in {"draft", "published"}

ContractTypeOK ==
    /\ phase \in [Links -> Phases]
    /\ name \in [Links -> 0..MaxNames]
    /\ asked \subseteq Links
    /\ doomed \subseteq Links

Init ==
    /\ phase = [l \in Links |-> "absent"]
    /\ name = [l \in Links |-> 0]
    /\ asked = {}
    /\ doomed = {}

\* No other dataset of the organization has the name.
Reservable(l, n) ==
    \A m \in Links \ {l} :
        Existing(m) /\ integrity_organization[m] = integrity_organization[l] => name[m] # n

Create(l) ==
    /\ phase[l] = "absent"
    /\ phase' = [phase EXCEPT ![l] = "draft"]
    /\ UNCHANGED <<name, asked, doomed>>

\* A processing reserves the name it is going to write.
Reserve(l, n) ==
    /\ Existing(l) /\ Reservable(l, n)
    /\ name' = [name EXCEPT ![l] = n]
    /\ UNCHANGED <<phase, asked, doomed>>

\* Its end makes a published dataset of it, under the name it wrote.
Publish(l, n) ==
    /\ Existing(l) /\ Reservable(l, n)
    /\ phase' = [phase EXCEPT ![l] = "published"]
    /\ name' = [name EXCEPT ![l] = n]
    /\ UNCHANGED <<asked, doomed>>

\* An import that fails dooms its dataset when it finds a draft, and no other.
Doom(l) ==
    /\ phase[l] = "draft"
    /\ doomed' = doomed \cup {l}
    /\ UNCHANGED <<phase, name, asked>>

\* A doomed dataset is taken back, whatever became of it. Several imports of it may
\* have failed.
Discard(l) ==
    /\ l \in doomed
    /\ IF Existing(l)
       THEN /\ phase' = [phase EXCEPT ![l] = "discarded"]
            /\ name' = [name EXCEPT ![l] = 0]
       ELSE UNCHANGED <<phase, name>>
    /\ doomed' \in {doomed, doomed \ {l}}
    /\ UNCHANGED asked

Ask(l) ==
    /\ Existing(l)
    /\ asked' = asked \cup {l}
    /\ UNCHANGED <<phase, name, doomed>>

\* The same deletion may be under way in several requests.
Delete(l) ==
    /\ l \in asked
    /\ phase' = [phase EXCEPT ![l] = "deleted"]
    /\ name' = [name EXCEPT ![l] = 0]
    /\ asked' \in {asked, asked \ {l}}
    /\ UNCHANGED doomed

Next ==
    \E l \in Links :
        \/ Create(l) \/ Doom(l) \/ Discard(l) \/ Ask(l) \/ Delete(l)
        \/ \E n \in 1..MaxNames : Reserve(l, n) \/ Publish(l, n)

Spec == Init /\ [][Next]_contractVars

\* Two datasets of one organization never have the same table name.
NamesReserved ==
    \A l, m \in Links :
        l # m /\ Existing(l) /\ Existing(m)
              /\ integrity_organization[l] = integrity_organization[m]
              /\ name[l] # 0
           => name[l] # name[m]
=============================================================================
