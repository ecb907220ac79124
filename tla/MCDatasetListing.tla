-------------------------- MODULE MCDatasetListing --------------------------
(***************************************************************************)
(* An instance of DatasetListing for TLC: a filter that lets everything    *)
(* through, and one that leaves some rows out.                             *)
(***************************************************************************)
EXTENDS DatasetListing

MatchingRows == [f \in Filters |-> IF f = "all" THEN Rows ELSE {n \in Rows : n % 2 = 1}]
=============================================================================
