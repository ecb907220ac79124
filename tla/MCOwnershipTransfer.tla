------------------------ MODULE MCOwnershipTransfer ------------------------
(***************************************************************************)
(* Instances of OwnershipTransfer for TLC.                                 *)
(***************************************************************************)
EXTENDS OwnershipTransfer, TLC

\* Datasets and organizations are interchangeable.
Interchangeable == Permutations(Links) \cup Permutations(Organizations)
=============================================================================
