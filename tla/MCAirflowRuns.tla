--------------------------- MODULE MCAirflowRuns ---------------------------
(***************************************************************************)
(* An instance of AirflowRuns for TLC.                                     *)
(***************************************************************************)
EXTENDS AirflowRuns
=============================================================================
