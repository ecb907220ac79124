---------------------------- MODULE LocalExecutor ----------------------------
(***************************************************************************)
(* services/executors/local_executor.py: the executor that runs the tasks  *)
(* inside the backend. A request that triggers a run executes it before it *)
(* answers; the callback is left to a thread pool, which calls it once.    *)
(* Its runs are run[r] like those of Airflow, kept in memory only.         *)
(***************************************************************************)
EXTENDS DatasetState

\* A callback called by the run itself, before it returns.
held_until_answered ==
    \E r \in Runs : /\ run[r].kind \in {"staging", "reimport"}
                    /\ Active(r) \/ run[r].step \in {"success", "failed"}

\* The async handlers (submit and edit a staging, import a dataset) hold the event
\* loop for the whole run they trigger; the request to process runs in a thread.
LoopHeld == \E r \in Runs : run[r].kind \in {"staging", "reimport"} /\ Active(r)

TaskRaises == "task" \in Faults

\* _ingest reads the upload from the disk of the backend.
readable(r) == run[r].is_file => run[r].source \in files

-----------------------------------------------------------------------------
(* _run_staging *)

local_run_staging(r) ==
    LET u == run[r].source IN
    /\ run[r].kind = "staging" /\ run[r].step = "ingest"
    /\ \/ /\ readable(r)
          /\ staging' = staging \cup {u}
          /\ run' = Goto(r, "success")
       \/ /\ TaskRaises \/ ~readable(r)
          /\ staging' \in {staging} \cup (IF readable(r) THEN {staging \cup {u}} ELSE {})
          /\ run' = Goto(r, "failed")
    /\ UNCHANGED <<backendVars, temp, owner, hollow, catalogVars, dag, lastRun, req>>

-----------------------------------------------------------------------------
(* _run_process and _transform. Whatever raises ends the run as failed: no step *)
(* is made after a failure, so that a table ingested for the run is left.       *)

local_reingest(r) ==
    /\ run[r].kind = "reimport" /\ run[r].step = "ingest"
    /\ \/ /\ temp' = temp \cup {r}
          /\ run' = Goto(r, "transform")
       \/ /\ TaskRaises
          /\ temp' \in {temp, temp \cup {r}}
          /\ run' = Goto(r, "failed")
    /\ UNCHANGED <<backendVars, staging, owner, hollow, catalogVars, dag, lastRun, req>>

\* The table of a dataset processed before is dropped first, best-effort.
local_drop(r) ==
    LET name == run[r].final_table_name IN
    /\ run[r].step = "drop"
    /\ \/ owner' = [owner EXCEPT ![name] = NoLink] /\ hollow' = hollow \ {name}
       \/ TaskRaises /\ UNCHANGED <<owner, hollow>>
    /\ run' = Goto(r, "transform")
    /\ UNCHANGED <<backendVars, staging, temp, catalogVars, dag, lastRun, req>>

to_transform(r) == IF run[r].kind = "reimport" THEN r \in temp ELSE run[r].source \in staging

\* A run without rows is a run like another.
empty_is_fine(r) == "success"

\* Where a run goes when no row was written: the check of row_count raises.
no_data_to_write(r) == "failed"

local_transform(r) ==
    LET name == run[r].final_table_name IN
    /\ run[r].step = "transform"
    /\ \/ /\ to_transform(r)
          /\ owner' = [owner EXCEPT ![name] = run[r].link]
          /\ hollow' = hollow \ {name}
          /\ run' = [run EXCEPT ![r] = [@ EXCEPT !.step = "clean", !.wrote = TRUE]]
       \/ /\ to_transform(r) /\ TaskRaises
          /\ owner' = [owner EXCEPT ![name] = run[r].link]
          /\ hollow' = hollow \cup {name}
          /\ run' = Goto(r, no_data_to_write(r))
       \/ /\ TaskRaises \/ ~to_transform(r)
          /\ run' = Goto(r, "failed")
          /\ UNCHANGED <<owner, hollow>>
    /\ UNCHANGED <<backendVars, staging, temp, catalogVars, dag, lastRun, req>>

\* The last statement of _transform drops the table the run read. The rows are
\* written by then, but the run fails when the drop does.
local_clean(r) ==
    /\ run[r].step = "clean"
    /\ \/ /\ IF run[r].kind = "reimport"
             THEN temp' = temp \ {r} /\ UNCHANGED staging
             ELSE staging' = staging \ {run[r].source} /\ UNCHANGED temp
          /\ run' = Goto(r, "success")
       \/ /\ "cleanup" \in Faults
          /\ run' = Goto(r, "failed")
          /\ UNCHANGED <<staging, temp>>
    /\ UNCHANGED <<backendVars, owner, hollow, catalogVars, dag, lastRun, req>>

-----------------------------------------------------------------------------
(* Callbacks and restarts *)

\* _call_callback logs whatever its only try raises.
local_callback_lost(r) ==
    /\ "callback" \in Faults
    /\ run[r].step \in {"success", "failed"}
    /\ run' = CallbackCalled(r)
    /\ UNCHANGED <<backendVars, pgVars, catalogVars, dag, lastRun, req>>

LocalStep(r) ==
    \/ local_run_staging(r)
    \/ local_reingest(r)
    \/ local_drop(r)
    \/ local_transform(r)
    \/ local_clean(r)

LocalNext ==
    \/ \E r \in Runs : LocalStep(r)
    \/ \E r \in Runs : local_callback_lost(r)

\* A restart forgets the registry, the threads and the callbacks not yet called.
local_registry_lost ==
    [r \in Runs |->
        IF Active(r) \/ run[r].step \in {"success", "failed"}
        THEN [run[r] EXCEPT !.step = "cancelled"]
        ELSE run[r]]
=============================================================================
