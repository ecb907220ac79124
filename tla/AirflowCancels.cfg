\* Four runs, pages of two.
CONSTANTS
    LIMIT = 2
    MaxRuns = 4
    MaxManual = 1
    MaxOther = 1
    Operations = {"cancel_dataset_runs", "remove_ingestion_dag", "purge_dataset_dag_runs"}
    Faults = {"delete", "api"}

SPECIFICATION FairSpec
INVARIANTS RunsTypeOK CancelledRunsAreOver PurgedHistory
PROPERTIES OthersSpared CallsEnd

\* The runs of the instance run out.
CHECK_DEADLOCK FALSE
