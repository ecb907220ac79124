------------------------- MODULE MCDatasetLifecycle -------------------------
(***************************************************************************)
(* Instances of DatasetLifecycle for TLC.                                  *)
(***************************************************************************)
EXTENDS DatasetLifecycle, TLC

\* Every dataset in one organization, or each in its own.
AllTogether == [l \in Links |-> CHOOSE o \in Organizations : TRUE]
EachItsOwn ==
    CHOOSE f \in [Links -> Organizations] :
        \A l, m \in Links : l # m => f[l] # f[m]

\* Datasets of one organization and handler slots are interchangeable.
Interchangeable == Permutations(Links) \cup Permutations(Handlers)
=============================================================================
