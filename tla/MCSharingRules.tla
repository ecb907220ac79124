--------------------------- MODULE MCSharingRules ---------------------------
(***************************************************************************)
(* Instances of SharingRules for TLC.                                      *)
(***************************************************************************)
EXTENDS SharingRules, TLC

\* Groups and handler slots are interchangeable.
Interchangeable == Permutations(Groups) \cup Permutations(Handlers)
=============================================================================
