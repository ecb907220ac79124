---------------------------- MODULE TableTransfer ----------------------------
(***************************************************************************)
(* A final table copied to another platform while runs go on replacing it: *)
(* it is dumped to a file under a lock, sent, and restored in one           *)
(* transaction (table_transfer.py, GET and PUT of integrity_link_admin.py). *)
(* The table here and the copy there are functions from column names.      *)
(***************************************************************************)
EXTENDS TableTransformation

CONSTANT Exported    \* datasets an administrator may export

ASSUME ExportedAssumption == Exported \subseteq Datasets

VARIABLES
    dump,      \* the dump being written, or its file when it is done
    copy       \* the table of the other platform, or None

transferVars == <<dump, copy>>

\* defined_by and number: the writes that made the table whose definition, and whose
\* rows, were read.
NoDump == [phase |-> "idle", dataset |-> None, defined_by |-> 0, number |-> 0]

TransferInit == dump = NoDump /\ copy = None

\* A bug to compare with: the dump takes no lock.
never_locked == {}

\* Datasets whose table a dump holds ACCESS SHARE: dropping it waits.
locked ==
    IF dump.phase \in {"locked", "defined"} THEN {dump.dataset} ELSE {}

-----------------------------------------------------------------------------
(* This platform *)

\* The export of a dataset that has a table starts a dump and locks the table.
dump_table(d) ==
    /\ dump.phase = "idle" /\ copy = None
    /\ d \in live \cap named /\ final[d] # None
    /\ dump' = [NoDump EXCEPT !.phase = "locked", !.dataset = d]
    /\ UNCHANGED copy /\ UNCHANGED tableVars

\* Its definition is read, unless the table is gone.
read_definition ==
    LET t == final[dump.dataset] IN
    /\ dump.phase = "locked"
    /\ dump' = IF t = None THEN NoDump
               ELSE [dump EXCEPT !.phase = "defined", !.defined_by = t.number]
    /\ UNCHANGED copy /\ UNCHANGED tableVars

\* Then its rows, in the columns of the definition.
copy_rows ==
    LET t == final[dump.dataset] IN
    /\ dump.phase = "defined"
    /\ dump' = IF t = None THEN NoDump
               ELSE [dump EXCEPT !.phase = "done", !.number = t.number]
    /\ UNCHANGED copy /\ UNCHANGED tableVars

-----------------------------------------------------------------------------
(* The other platform *)

\* A bug to compare with: what was read of a cut stream is kept.
restore_part(truncated) ==
    /\ dump.phase = "done" /\ copy = None
    /\ copy' = [defined_by |-> dump.defined_by,
                number |-> IF truncated THEN 0 ELSE dump.number]
    /\ dump' = NoDump
    /\ UNCHANGED tableVars

\* The table is created, filled and indexed in one transaction.  A stream that ends
\* early, or rows that the columns do not take, leave nothing.
restore_table(truncated) ==
    /\ dump.phase = "done" /\ copy = None
    /\ copy' = IF truncated THEN None
               ELSE [defined_by |-> dump.defined_by, number |-> dump.number]
    /\ dump' = NoDump
    /\ UNCHANGED tableVars

-----------------------------------------------------------------------------

CopiesInit == TransformationInit /\ TransferInit

CopiesNext ==
    \/ TransformationNext(locked) /\ UNCHANGED transferVars
    \/ \E d \in Exported : dump_table(d)
    \/ read_definition \/ copy_rows
    \/ \E truncated \in BOOLEAN : restore_table(truncated)

CopiesSpec == CopiesInit /\ [][CopiesNext]_<<tableVars, transferVars>>

\* What is restored on another platform is one table published here, its columns and
\* its rows of the same write, however runs replaced the table while it was read and
\* wherever the stream was cut.
RestoredWasPublished ==
    copy # None => copy.number = copy.defined_by
=============================================================================
