-------------------------- MODULE MCDatasetPlatform --------------------------
(***************************************************************************)
(* Instances of DatasetPlatform for TLC.                                   *)
(***************************************************************************)
EXTENDS DatasetPlatform, TLC

\* Every dataset in one organization.
AllTogether == [l \in Links |-> CHOOSE o \in Organizations : TRUE]

\* Handler slots are interchangeable.
Interchangeable == Permutations(Handlers)
=============================================================================
