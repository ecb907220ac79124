---------------------------- MODULE AirflowRuns ----------------------------
(***************************************************************************)
(* The backend stops, spares and purges the Airflow runs of a dataset page *)
(* by page (services/airflow_client.py), recognising them by their run ids *)
(* (core/run_ids.py), while Airflow runs them and starts others.           *)
(***************************************************************************)
EXTENDS Naturals, Sequences, FiniteSets

CONSTANTS
    LIMIT,       \* runs of one answer (100)
    MaxRuns,     \* runs that Airflow ever starts
    MaxManual,   \* manual runs of the dataset not over at the same time
    MaxOther,    \* runs of other datasets
    Operations,  \* calls of the backend, see OperationKinds
    Faults       \* see FaultKinds

OperationKinds ==
    {"cancel_dataset_runs", "remove_ingestion_dag", "purge_dataset_dag_runs"}

FaultKinds ==
    { "delete",  \* a run cannot be deleted
      "api" }    \* Airflow does not answer, or neither with success nor with a 404

ASSUME AirflowAssumption ==
    /\ LIMIT \in Nat \ {0} /\ MaxRuns \in Nat /\ MaxManual \in Nat /\ MaxOther \in Nat
    /\ MaxManual < LIMIT
    /\ Operations \subseteq OperationKinds
    /\ Faults \subseteq FaultKinds

VARIABLES
    run,      \* the runs, by their order in the database
    lastRun,
    deployed, \* the DAG ingestion_<id> exists
    call      \* the operation in progress

vars == <<run, lastRun, deployed, call>>

-----------------------------------------------------------------------------

Runs == 1..MaxRuns

\* What the run ids tell apart: <id>, <id>_<ts>, <id>_<ts>_manual, <id>_<ts_nodash>, and
\* the ids of other datasets. ingestion_<id> has runs of its own.
Kinds == {"ingestion", "scheduled", "manual", "staging", "other"}

\* active: queued or running; over: success or failed.
States == {"active", "over", "deleted"}

DagRun == [ kind : Kinds, state : States, parent : 0..MaxRuns ]

Active(r)    == run[r].state = "active"
Existing     == {r \in 1..lastRun : run[r].state # "deleted"}
ActiveRuns   == {r \in 1..lastRun : Active(r)}
OfDataset    == {r \in 1..lastRun : run[r].kind # "other"}

process_dag   == {"scheduled", "manual", "other"}
staging_dag   == {"staging", "other"}
ingestion_dag == {"ingestion"}

\* One call of _for_each_dag_run; or the deletion of the DAG, tried twice.
Loop ==
    [ action : {"force_fail", "delete"},
      dag : {process_dag, staging_dag, ingestion_dag}, spared : SUBSET Kinds ]
    \cup [ action : {"delete_dag"}, retry : BOOLEAN ]

force_fail(dag, spared) == [ action |-> "force_fail", dag |-> dag, spared |-> spared ]
delete(dag)             == [ action |-> "delete", dag |-> dag, spared |-> {} ]
delete_dag(retry)       == [ action |-> "delete_dag", retry |-> retry ]

\* since: the last run started before the call; failed: a deletion failed; raised: the
\* call ended with an exception.
Call ==
    [ op : Operations \cup {"none"}, loops : Seq(Loop), page : SUBSET Runs,
      progressed : BOOLEAN, since : 0..MaxRuns, failed : BOOLEAN,
      raised : BOOLEAN ]

NoCall ==
    [ op |-> "none", loops |-> <<>>, page |-> {}, progressed |-> FALSE,
      since |-> 0, failed |-> FALSE, raised |-> FALSE ]

RunsTypeOK ==
    /\ lastRun \in 0..MaxRuns
    /\ run \in [1..lastRun -> DagRun]
    /\ deployed \in BOOLEAN
    /\ call \in Call
    /\ call.page \subseteq 1..lastRun /\ Cardinality(call.page) <= LIMIT

Init ==
    /\ run = <<>>
    /\ lastRun = 0
    /\ deployed = TRUE
    /\ call = NoCall

-----------------------------------------------------------------------------
(* Airflow *)

Start(kind, parent) ==
    /\ lastRun < MaxRuns
    /\ lastRun' = lastRun + 1
    /\ run' = Append(run, [kind |-> kind, state |-> "active", parent |-> parent])
    /\ UNCHANGED <<deployed, call>>

Waiting(kind) == {r \in ActiveRuns : run[r].kind = kind}

\* A cron fires (max_active_runs=1), users trigger runs, of other datasets as well.
trigger(kind) ==
    /\ kind = "ingestion" => deployed /\ Waiting("ingestion") = {}
    /\ kind = "manual" => Cardinality(Waiting("manual")) < MaxManual
    /\ kind = "other" => Cardinality((1..lastRun) \ OfDataset) < MaxOther
    /\ Start(kind, 0)

Children(r) == {s \in 1..lastRun : run[s].parent = r}

\* The task of an ingestion_<id> run triggers one run of process_dag.
trigger_process_dag(r) ==
    /\ run[r].kind = "ingestion" /\ Active(r) /\ Children(r) = {}
    /\ Start("scheduled", r)

\* A run ends; one of ingestion_<id> waits for its child.
end(r) ==
    /\ Active(r)
    /\ run[r].kind = "ingestion" =>
          Children(r) # {} /\ \A s \in Children(r) : ~Active(s)
    /\ run' = [run EXCEPT ![r].state = "over"]
    /\ UNCHANGED <<lastRun, deployed, call>>

-----------------------------------------------------------------------------
(* The backend *)

\* process_dag is searched before the DAG that feeds it; manual runs are not spared.
process_runs_first(spared) == <<force_fail(process_dag, spared), force_fail(ingestion_dag, {})>>
manual_runs_too(spared)    == <<force_fail(ingestion_dag, {}), force_fail(process_dag, {})>>

\* The runs of the schedule, and those of process_dag that are not spared.
cancel_runs(spared) == <<force_fail(ingestion_dag, {}), force_fail(process_dag, spared)>>

\* cancel_dataset_runs, remove_ingestion_dag (cancel_scheduled_runs, then delete_dag)
\* and purge_dataset_dag_runs.
loops_of(op) ==
    CASE op = "cancel_dataset_runs" -> cancel_runs({}) \o <<force_fail(staging_dag, {})>>
      [] op = "remove_ingestion_dag" -> cancel_runs({"manual"}) \o <<delete_dag(FALSE)>>
      [] op = "purge_dataset_dag_runs" -> <<delete(staging_dag), delete(process_dag)>>

begin(op) ==
    /\ call.op = "none" /\ op \in Operations
    /\ call' = [ NoCall EXCEPT !.op = op, !.loops = loops_of(op), !.since = lastRun ]
    /\ UNCHANGED <<run, lastRun, deployed>>

Loops == call.loops
NextLoop(c) == [c EXCEPT !.loops = Tail(@), !.page = {}, !.progressed = FALSE]

\* The states of a query count for deletions too.
active_only(loop) == {r \in OfDataset : run[r].kind \in loop.dag /\ Active(r)}

\* The filter of the query: the DAG, the run ids of the dataset, and the states when
\* runs are to be cancelled.
Matching(loop) ==
    {r \in Existing \cap OfDataset :
        /\ run[r].kind \in loop.dag
        /\ loop.action = "force_fail" => Active(r)}

all_at_once(S) == S

\* The runs of one answer, ordered by their creation.
First(S) == {r \in S : Cardinality({s \in S : s < r}) < LIMIT}

\* A page without progress is asked for again.
never_stuck(c) == FALSE

\* The loop ends when a page brought nothing.
stuck(c) == c.page # {} /\ ~c.progressed

\* A page is fetched: at first, and again after each page of which a run was changed.
query ==
    /\ Loops # <<>> /\ Head(Loops).action # "delete_dag" /\ call.page = {}
    /\ call' = IF Matching(Head(Loops)) = {}
               THEN NextLoop(call)
               ELSE [call EXCEPT !.page = First(Matching(Head(Loops))), !.progressed = FALSE]
    /\ UNCHANGED <<run, lastRun, deployed>>

\* After its last run, a page that made no progress ends the loop.
Done(r, progressed) ==
    LET c == [call EXCEPT !.progressed = @ \/ progressed] IN
    IF call.page # {r} THEN [c EXCEPT !.page = @ \ {r}]
    ELSE IF stuck(c) THEN NextLoop(c)
    ELSE [c EXCEPT !.page = {}]

\* The runs of a page in turn, whatever became of them since the query.
act(r) ==
    LET loop == Head(Loops) IN
    /\ Loops # <<>> /\ r \in call.page /\ \A s \in call.page : r <= s
    /\ \/ /\ run[r].kind \notin loop.spared
          /\ run' = [run EXCEPT ![r].state =
                        IF loop.action = "delete" \/ @ = "deleted"
                        THEN "deleted" ELSE "over"]
          /\ call' = Done(r, TRUE)
       \/ /\ \/ run[r].kind \in loop.spared
             \/ loop.action = "delete" /\ "delete" \in Faults
          /\ call' = [Done(r, FALSE) EXCEPT !.failed = @ \/ loop.action = "delete"]
          /\ UNCHANGED run
    /\ UNCHANGED <<lastRun, deployed>>

\* delete_dag: active runs are in the way (409), they are forced to fail and the
\* deletion is tried once more. The runs of the DAG go with it.
delete_ingestion_dag ==
    /\ Loops # <<>> /\ Head(Loops).action = "delete_dag"
    /\ IF Waiting("ingestion") # {}
       THEN /\ call' = IF Head(Loops).retry
                       THEN [call EXCEPT !.loops = <<>>]
                       ELSE [call EXCEPT !.loops =
                                <<force_fail(ingestion_dag, {}), delete_dag(TRUE)>>]
            /\ UNCHANGED <<run, deployed>>
       ELSE /\ call' = NextLoop(call)
            /\ run' = [r \in 1..lastRun |->
                          IF run[r].kind = "ingestion"
                          THEN [run[r] EXCEPT !.state = "deleted"] ELSE run[r]]
            /\ deployed' = FALSE
    /\ UNCHANGED lastRun

\* A query, a patch or delete_dag raises and the call ends there; a run that cannot be
\* deleted is logged instead. remove_ingestion_dag suppresses what was raised.
raise ==
    /\ "api" \in Faults
    /\ Loops # <<>> /\ (Head(Loops).action = "delete" => call.page = {})
    /\ call' = [NoCall EXCEPT !.op = call.op, !.raised = TRUE]
    /\ UNCHANGED <<run, lastRun, deployed>>

finish ==
    /\ call.op # "none" /\ Loops = <<>>
    /\ call' = NoCall
    /\ UNCHANGED <<run, lastRun, deployed>>

-----------------------------------------------------------------------------

Backend == query \/ (\E r \in Runs : act(r)) \/ delete_ingestion_dag \/ raise \/ finish

Next ==
    \/ \E kind \in Kinds \ {"scheduled"} : trigger(kind)
    \/ \E r \in 1..lastRun : trigger_process_dag(r) \/ end(r)
    \/ \E op \in Operations : begin(op)
    \/ Backend

Spec == Init /\ [][Next]_vars

\* A call goes on; nothing obliges Airflow, which may leave a run queued for ever.
FairSpec == Spec /\ WF_vars(Backend)

-----------------------------------------------------------------------------
(* Properties *)

\* Runs that are stopped by the call in progress, when it is over.
Stopped ==
    CASE call.op = "cancel_dataset_runs"  -> OfDataset
      [] call.op = "remove_ingestion_dag" -> {r \in OfDataset :
                                                run[r].kind \in {"ingestion", "scheduled"}}
      [] OTHER -> {}

\* When a cancellation ends that Airflow answered, the runs it is about that existed when
\* it began are over, and so are the runs they triggered meanwhile (cancel_dataset_runs:
\* "no run may keep writing to the tables"). One that Airflow did not answer raises;
\* remove_ingestion_dag, best effort, returns with runs still active.
CancelledRunsAreOver ==
    call.op # "none" /\ Loops = <<>> /\ ~call.raised =>
        \A r \in Stopped : r <= call.since \/ run[r].parent \in 1..call.since => ~Active(r)

\* A call changes no run of another dataset; the removal of a schedule spares the manual
\* and staging runs of its own ("not collateral damage").
OthersSpared ==
    [][\A r \in 1..lastRun :
          run'[r].state # run[r].state /\ (\E s \in Runs : act(s)) =>
              /\ run[r].kind # "other"
              /\ call.op = "remove_ingestion_dag" =>
                    run[r].kind \in {"ingestion", "scheduled"}]_vars

\* After a purge whose queries and deletions succeed, nothing of what existed is left in the history.
PurgedHistory ==
    call.op = "purge_dataset_dag_runs" /\ Loops = <<>> /\ ~call.failed /\ ~call.raised =>
        \A r \in (1..call.since) \cap OfDataset :
            run[r].kind # "ingestion" => run[r].state = "deleted"

\* A call ends, whatever cannot be changed or is spared.
CallsEnd == call.op # "none" ~> call.op = "none"
=============================================================================
