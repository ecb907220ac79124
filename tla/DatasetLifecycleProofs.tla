----------------------- MODULE DatasetLifecycleProofs -----------------------
(***************************************************************************)
(* What holds of DatasetLifecycle for every number of datasets, handlers,  *)
(* uploads, names and runs, whatever goes wrong and however users behave.  *)
(***************************************************************************)
EXTENDS DatasetLifecycle, FiniteSetTheorems, TLAPS

\* WellFormed in three parts: the runs, the requests, the rest of the state.
RunsInv ==
    /\ run \in [Runs -> DagRun]
    /\ lastRun \in 0..MaxRuns
    /\ \A r \in Runs : RunWellFormed(run[r])
    /\ \A r \in Runs : r > lastRun => run[r] = NoRun

RequestsInv ==
    /\ req \in [Handlers -> Request]
    /\ \A h \in Handlers : RequestWellFormed(req[h])

StoreInv ==
    /\ row \in [Links -> IntegrityLink]
    /\ lastUpload \in 0..MaxUploads
    /\ files \subseteq Uploads
    /\ staging \subseteq Uploads
    /\ temp \subseteq Runs
    /\ owner \in [Names -> Links \cup {NoLink}]
    /\ hollow \subseteq Names
    /\ layers \subseteq Organizations \X Names
    /\ records \subseteq Links
    /\ dag \in [Links -> IngestionDag]

\* The three parts are the whole.
LEMMA Parts == WellFormed <=> RunsInv /\ RequestsInv /\ StoreInv
  BY DEF WellFormed, TypeOK, RunsInv, RequestsInv, StoreInv

-----------------------------------------------------------------------------
(* Records *)

\* The blank row, run, DAG and request have their types.
LEMMA DefaultsTyped ==
    /\ Blank \in IntegrityLink
    /\ NoRun \in DagRun
    /\ NoDag \in IngestionDag
    /\ Idle \in Request
  BY ConstantsAssumption
  DEF Blank, IntegrityLink, NoRun, DagRun, RunSteps, NoDag, IngestionDag, Idle, Request

\* Initial states are well formed.
LEMMA InitWellFormed == Init => WellFormed
  BY DefaultsTyped, ConstantsAssumption
  DEF Init, WellFormed, TypeOK, Uploads, Names, Runs, RunWellFormed, RequestWellFormed, Idle

\* A started run that moves to a step of its DAG leaves the runs well formed.
LEMMA GotoWellFormed ==
    ASSUME RunsInv, NEW r \in Runs, NEW step \in RunSteps \ {"none"},
           run[r].step # "none",
           run[r].kind = "staging" => step \notin {"drop", "transform", "clean"},
           run' = Goto(r, step), lastRun' = lastRun
    PROVE  RunsInv'
  <1>1. run \in [Runs -> DagRun] /\ RunWellFormed(run[r])
    BY DEF RunsInv
  <1>2. [run[r] EXCEPT !.step = step] \in DagRun
    BY <1>1 DEF DagRun
  <1>3. run[r] # NoRun
    BY DEF NoRun
  <1>4. RunWellFormed([run[r] EXCEPT !.step = step])
    BY <1>1, <1>3 DEF RunWellFormed, DagRun
  <1>5. run' = [run EXCEPT ![r] = [run[r] EXCEPT !.step = step]]
    BY DEF Goto
  <1> QED
    BY <1>1, <1>2, <1>3, <1>4, <1>5 DEF RunsInv

\* Cancelling unfinished runs leaves the runs well formed.
LEMMA CancelledWellFormed ==
    ASSUME RunsInv, NEW S, \A r \in S \cap Runs : Active(r),
           run' = Cancelled(S), lastRun' = lastRun
    PROVE  RunsInv'
  <1>1. run \in [Runs -> DagRun]
    BY DEF RunsInv
  <1>2. ASSUME NEW r \in Runs, r \in S
        PROVE  /\ [run[r] EXCEPT !.step = "cancelled"] \in DagRun
               /\ run[r] # NoRun
               /\ RunWellFormed([run[r] EXCEPT !.step = "cancelled"])
    <2>1. RunWellFormed(run[r]) /\ Active(r)
      BY <1>2 DEF RunsInv
    <2>2. run[r] # NoRun
      BY <2>1 DEF Active, TaskSteps, NoRun
    <2> QED
      BY <1>1, <2>1, <2>2 DEF DagRun, RunSteps, RunWellFormed
  <1> QED
    BY <1>1, <1>2 DEF RunsInv, Cancelled

\* A new run of a dataset leaves the runs well formed.
LEMMA NewRunWellFormed ==
    ASSUME RunsInv, NEW conf \in DagRun, RunWellFormed(conf),
           lastRun < MaxRuns, lastRun' = lastRun + 1,
           run' = [run EXCEPT ![lastRun + 1] = conf]
    PROVE  RunsInv'
  BY ConstantsAssumption DEF RunsInv, Runs

\* So does an attempt to trigger one.
LEMMA TriggerWellFormed ==
    ASSUME RunsInv, NEW conf \in DagRun, RunWellFormed(conf), Trigger(conf)
    PROVE  RunsInv'
  <1>1. CASE lastRun < MaxRuns /\ lastRun' = lastRun + 1
             /\ run' = [run EXCEPT ![lastRun + 1] = conf]
    BY <1>1, NewRunWellFormed
  <1>2. CASE UNCHANGED <<run, lastRun>>
    BY <1>2 DEF RunsInv
  <1> QED
    BY <1>1, <1>2 DEF Trigger

\* The conf of a staging run is well formed.
LEMMA StagingRunWellFormed ==
    ASSUME NEW l \in Links, NEW u \in Uploads, NEW isFile \in BOOLEAN
    PROVE  StagingRun(l, u, isFile) \in DagRun /\ RunWellFormed(StagingRun(l, u, isFile))
  <1>1. u \in 0..MaxUploads /\ u # 0
    BY ConstantsAssumption DEF Uploads
  <1>2. StagingRun(l, u, isFile) \in DagRun
    BY <1>1, DefaultsTyped DEF StagingRun, DagRun, RunSteps, TaskSteps
  <1>3. /\ StagingRun(l, u, isFile).kind = "staging"
        /\ StagingRun(l, u, isFile).step = "ingest"
        /\ StagingRun(l, u, isFile).link = l
        /\ StagingRun(l, u, isFile).source = u
    BY DEF StagingRun, NoRun
  <1> QED
    BY <1>1, <1>2, <1>3 DEF RunWellFormed

\* A handler that goes idle leaves the requests well formed.
LEMMA IdleWellFormed ==
    ASSUME RequestsInv, NEW h \in Handlers, req' = [req EXCEPT ![h] = Idle]
    PROVE  RequestsInv'
  BY DefaultsTyped DEF RequestsInv, RequestWellFormed, Idle

\* So does one that starts a well formed request.
LEMMA StartWellFormed ==
    ASSUME RequestsInv, NEW h \in Handlers, NEW q \in Request, RequestWellFormed(q),
           req' = [req EXCEPT ![h] = q]
    PROVE  RequestsInv'
  BY DEF RequestsInv

-----------------------------------------------------------------------------
(* The staging routes *)

\* A staging failure callback leaves the requests as they are, or starts to take back a
\* dataset that was never processed.
LEMMA FailureCallbackDecides ==
    ASSUME RunsInv, StoreInv, NEW h \in Handlers, NEW r \in Runs,
           staging_dag_failure_callback(h, r)
    PROVE  \/ req' = req
           \/ /\ Live(run[r].link) /\ ~is_rerun(run[r].link)
              /\ \E q \in Request :
                    /\ q.op = "rollback" /\ q.link = run[r].link
                    /\ q.staging_table_name = row[run[r].link].staging_table_name
                    /\ req' = [req EXCEPT ![h] = q]
  <1> DEFINE l == run[r].link
             q == [Idle EXCEPT !.op = "rollback", !.link = l,
                               !.staging_table_name = row[l].staging_table_name]
  <1>1. CASE Live(l) /\ ~is_rerun(l) /\ req' = [req EXCEPT ![h] = q]
    <2>1. l \in Links
      BY DEF RunsInv, RunWellFormed, staging_dag_failure_callback, NoRun
    <2>2. row[l].staging_table_name \in 0..MaxUploads
      BY <2>1 DEF StoreInv, IntegrityLink
    <2>3. q \in Request
      BY <2>1, <2>2, DefaultsTyped DEF Request
    <2>4. q.op = "rollback" /\ q.link = l /\ q.staging_table_name = row[l].staging_table_name
      BY DEF Idle
    <2> HIDE DEF q
    <2> QED
      BY <1>1, <2>3, <2>4
  <1> QED
    BY <1>1 DEF staging_dag_failure_callback

\* The request that takes a dataset back goes on.
LEMMA RollbackGoesOn ==
    ASSUME RequestsInv, NEW h \in Handlers, rollback_drop(h)
    PROVE  \E q \in Request : /\ q.op = "discard" /\ q.link = req[h].link
                              /\ q.staging_table_name = req[h].staging_table_name
                              /\ req' = [req EXCEPT ![h] = q]
  <1> DEFINE q == [req[h] EXCEPT !.op = "discard"]
  <1>1. q \in Request /\ q.op = "discard" /\ q.link = req[h].link
        /\ q.staging_table_name = req[h].staging_table_name
    BY DEF RequestsInv, Request
  <1>2. req' = [req EXCEPT ![h] = q]
    BY DEF rollback_drop
  <1> HIDE DEF q
  <1> QED
    BY <1>1, <1>2

\* POST and PUT /staging and the callbacks of staging_dag keep the state well
\* formed.
LEMMA StagingWellFormed == WellFormed /\ StagingNext => WellFormed'
  <1> SUFFICES ASSUME RunsInv, RequestsInv, StoreInv, StagingNext
               PROVE  RunsInv' /\ RequestsInv' /\ StoreInv'
    BY Parts, PTL
  <1> USE DEF pgVars, catalogVars, airflowVars, backendVars
  <1>1. ASSUME NEW l \in Links, NEW isFile \in BOOLEAN, submit_staging(l, isFile)
        PROVE  RunsInv' /\ RequestsInv' /\ StoreInv'
    <2> DEFINE u == lastUpload + 1
    <2>1. u \in 0..MaxUploads /\ u \in Uploads
      BY <1>1, ConstantsAssumption DEF StoreInv, submit_staging, process_import_source, Uploads
    <2>2. [Blank EXCEPT !.state = "live", !.staging_table_name = u, !.is_file = isFile]
             \in IntegrityLink
      BY <2>1, DefaultsTyped DEF IntegrityLink
    <2>3. RunsInv'
      <3>1. Trigger(StagingRun(l, u, isFile))
        BY <1>1 DEF submit_staging, process_import_source
      <3> QED BY <2>1, <3>1, StagingRunWellFormed, TriggerWellFormed
    <2>4. StoreInv'
      BY <1>1, <2>1, <2>2 DEF submit_staging, process_import_source, StoreInv
    <2>5. RequestsInv'
      BY <1>1 DEF submit_staging, process_import_source, RequestsInv
    <2> QED
      BY <2>3, <2>4, <2>5
  <1>2. ASSUME NEW h \in Handlers, NEW l \in Links, NEW isFile \in BOOLEAN,
               edit_staging_commit(h, l, isFile)
        PROVE  RunsInv' /\ RequestsInv' /\ StoreInv'
    <2> DEFINE u == lastUpload + 1
               q == [Idle EXCEPT !.op = "edit", !.link = l, !.upload = u,
                                 !.staging_table_name = row[l].staging_table_name,
                                 !.flag = isFile]
    <2>1. u \in 0..MaxUploads /\ u \in Uploads
      BY <1>2, ConstantsAssumption DEF StoreInv, edit_staging_commit, process_import_source, Uploads
    <2>2. /\ row[l] \in IntegrityLink
          /\ row[l].staging_table_name \in 0..MaxUploads
      BY DEF StoreInv, IntegrityLink
    <2>3. [row[l] EXCEPT !.staging_table_name = u, !.is_file = isFile] \in IntegrityLink
      BY <2>1, <2>2 DEF IntegrityLink
    <2>4. StoreInv'
      BY <1>2, <2>1, <2>3 DEF edit_staging_commit, process_import_source, StoreInv
    <2>5. q \in Request /\ q.op = "edit" /\ q.link = l /\ q.upload = u
      BY <2>1, <2>2, DefaultsTyped DEF Request, UserOps, Idle
    <2>6. RequestWellFormed(q)
      <3> HIDE DEF q
      <3> QED BY <2>1, <2>5, ConstantsAssumption DEF RequestWellFormed, Uploads
    <2>7. req' = [req EXCEPT ![h] = q]
      BY <1>2 DEF edit_staging_commit, process_import_source
    <2>8. RunsInv'
      BY <1>2 DEF edit_staging_commit, process_import_source, RunsInv
    <2> QED
      BY <2>4, <2>5, <2>6, <2>7, <2>8, StartWellFormed
  <1>3. ASSUME NEW h \in Handlers, edit_staging_trigger(h)
        PROVE  RunsInv' /\ RequestsInv' /\ StoreInv'
    <2>1. /\ req[h].link \in Links
          /\ req[h].upload \in Uploads
          /\ req[h].flag \in BOOLEAN
      BY <1>3, ConstantsAssumption
      DEF edit_staging_trigger, RequestsInv, Request, RequestWellFormed, Uploads
    <2>2. RunsInv'
      BY <1>3, <2>1, StagingRunWellFormed, TriggerWellFormed DEF edit_staging_trigger
    <2>3. RequestsInv'
      BY <1>3, IdleWellFormed DEF edit_staging_trigger
    <2>4. StoreInv'
      BY <1>3 DEF edit_staging_trigger, StoreInv
    <2> QED
      BY <2>2, <2>3, <2>4
  <1>4. ASSUME NEW r \in Runs, staging_dag_success_callback(r)
        PROVE  RunsInv' /\ RequestsInv' /\ StoreInv'
    <2>1. RunsInv'
      BY <1>4, GotoWellFormed DEF staging_dag_success_callback, CallbackCalled, RunSteps
    <2>2. StoreInv'
      BY <1>4 DEF staging_dag_success_callback, delete_temp_source_file, StoreInv
    <2>3. RequestsInv'
      BY <1>4 DEF staging_dag_success_callback, RequestsInv
    <2> QED
      BY <2>1, <2>2, <2>3
  <1>5. ASSUME NEW h \in Handlers, NEW r \in Runs, staging_dag_failure_callback(h, r)
        PROVE  RunsInv' /\ RequestsInv' /\ StoreInv'
    <2>1. RunsInv'
      BY <1>5, GotoWellFormed DEF staging_dag_failure_callback, CallbackCalled, RunSteps
    <2>2. StoreInv'
      BY <1>5 DEF staging_dag_failure_callback, delete_temp_source_file, StoreInv
    <2>3. CASE req' = req
      BY <2>1, <2>2, <2>3 DEF RequestsInv
    <2>4. CASE \E q \in Request : /\ q.op = "rollback" /\ q.link = run[r].link
                                 /\ req' = [req EXCEPT ![h] = q]
      <3>1. run[r].link \in Links
        BY <1>5 DEF RunsInv, RunWellFormed, staging_dag_failure_callback, NoRun
      <3> QED
        BY <2>1, <2>2, <2>4, <3>1, StartWellFormed DEF RequestWellFormed
    <2> QED
      BY <1>5, <2>3, <2>4, FailureCallbackDecides
  <1>6. ASSUME NEW h \in Handlers, rollback_drop(h)
        PROVE  RunsInv' /\ RequestsInv' /\ StoreInv'
    <2>1. req[h].link \in Links
      BY <1>6 DEF rollback_drop, RequestsInv, RequestWellFormed
    <2>2. RequestsInv'
      BY <1>6, <2>1, RollbackGoesOn, StartWellFormed DEF RequestWellFormed
    <2>3. RunsInv' /\ StoreInv'
      BY <1>6 DEF rollback_drop, RunsInv, StoreInv
    <2> QED
      BY <2>2, <2>3
  <1>7. ASSUME NEW h \in Handlers, rollback_commit(h)
        PROVE  RunsInv' /\ RequestsInv' /\ StoreInv'
    <2>1. [Blank EXCEPT !.state = "rolled_back"] \in IntegrityLink
      BY DefaultsTyped DEF IntegrityLink
    <2>2. RequestsInv'
      BY <1>7, IdleWellFormed DEF rollback_commit
    <2>3. RunsInv' /\ StoreInv'
      BY <1>7, <2>1 DEF rollback_commit, RunsInv, StoreInv
    <2> QED
      BY <2>2, <2>3
  <1> QED
    BY <1>1, <1>2, <1>3, <1>4, <1>5, <1>6, <1>7 DEF StagingNext

-----------------------------------------------------------------------------
(* The process routes *)

\* Removing the ingestion DAG of a dataset keeps runs and DAGs well formed.
LEMMA RemoveDagWellFormed ==
    ASSUME RunsInv, StoreInv, NEW l \in Links, remove_ingestion_dag(l), lastRun' = lastRun
    PROVE  RunsInv' /\ dag' \in [Links -> IngestionDag]
  <1>1. CASE /\ run' = Cancelled({r \in Unfinished(l) : run[r].kind = "scheduled"})
             /\ dag' = [dag EXCEPT ![l] = NoDag]
    BY <1>1, CancelledWellFormed, DefaultsTyped DEF Unfinished, StoreInv
  <1>2. CASE UNCHANGED <<run, dag>>
    BY <1>2 DEF RunsInv, StoreInv
  <1> QED
    BY <1>1, <1>2 DEF remove_ingestion_dag

\* The name POST /process writes to is one of Names.
LEMMA NameToWrite ==
    ASSUME StoreInv, NEW l \in Links, NEW name \in final_table_name_to_write(l)
    PROVE  name \in Names
  <1>1. row[l] \in IntegrityLink
    BY DEF StoreInv
  <1> QED
    BY <1>1, ConstantsAssumption
    DEF final_table_name_to_write, get_available_table_name, IntegrityLink, Names

\* The conf of a manual run is well formed.
LEMMA ManualRunWellFormed ==
    ASSUME RequestsInv, StoreInv, NEW h \in Handlers, req[h].op = "process"
    PROVE  ManualRun(h) \in DagRun /\ RunWellFormed(ManualRun(h))
  <1> DEFINE l == req[h].link
             first == IF row[l].last_retrieval # 0 THEN "drop" ELSE "transform"
  <1>1. /\ l \in Links
        /\ req[h].staging_table_name \in 0..MaxUploads
        /\ req[h].final_table_name \in 0..MaxNames
        /\ req[h].final_table_name # 0
    BY DEF RequestsInv, Request, RequestWellFormed
  <1>2. row[l].is_file \in BOOLEAN
    BY <1>1 DEF StoreInv, IntegrityLink
  <1>3. first \in RunSteps /\ first # "none"
    BY DEF RunSteps, TaskSteps
  <1>4. ManualRun(h) \in DagRun
    BY <1>1, <1>2, <1>3, DefaultsTyped DEF ManualRun, DagRun
  <1>5. /\ ManualRun(h).kind = "manual"
        /\ ManualRun(h).step = first
        /\ ManualRun(h).link = l
        /\ ManualRun(h).final_table_name = req[h].final_table_name
    BY DefaultsTyped DEF ManualRun, NoRun
  <1> QED
    BY <1>1, <1>3, <1>4, <1>5 DEF RunWellFormed

\* POST /process and the callbacks of process_dag keep the state well formed.
LEMMA ProcessWellFormed == WellFormed /\ ProcessNext => WellFormed'
  <1> SUFFICES ASSUME RunsInv, RequestsInv, StoreInv, ProcessNext
               PROVE  RunsInv' /\ RequestsInv' /\ StoreInv'
    BY Parts, PTL
  <1> USE DEF pgVars, catalogVars, airflowVars, backendVars
  <1>1. ASSUME NEW h \in Handlers, NEW l \in Links, NEW recurrence \in BOOLEAN,
               process_staging_data_prepare(h, l, recurrence)
        PROVE  RunsInv' /\ RequestsInv' /\ StoreInv'
    <2>1. row[l] \in IntegrityLink
      BY DEF StoreInv
    <2>2. RunsInv' /\ dag' \in [Links -> IngestionDag]
      <3>1. CASE remove_ingestion_dag(l)
        BY <1>1, <3>1, RemoveDagWellFormed DEF process_staging_data_prepare
      <3>2. CASE UNCHANGED <<run, dag>>
        BY <1>1, <3>2 DEF process_staging_data_prepare, RunsInv, StoreInv
      <3> QED
        BY <1>1, <3>1, <3>2 DEF process_staging_data_prepare
    <2>3. PICK name \in final_table_name_to_write(l) :
            \/ /\ records' = IF row[l].metadata_id THEN records ELSE records \cup {l}
               /\ req' = [req EXCEPT ![h] =
                     [Idle EXCEPT !.op = "process", !.link = l,
                      !.staging_table_name = row[l].staging_table_name,
                      !.final_table_name = name, !.flag = recurrence]]
            \/ UNCHANGED <<records, req>>
      BY <1>1 DEF process_staging_data_prepare
    <2> DEFINE q == [Idle EXCEPT !.op = "process", !.link = l,
                      !.staging_table_name = row[l].staging_table_name,
                      !.final_table_name = name, !.flag = recurrence]
    <2>4. q \in Request /\ RequestWellFormed(q)
      <3>1. name \in 0..MaxNames /\ name # 0
        BY NameToWrite, ConstantsAssumption DEF Names
      <3>2. row[l].staging_table_name \in 0..MaxUploads
        BY <2>1 DEF IntegrityLink
      <3>3. q \in Request
        BY <3>1, <3>2, DefaultsTyped DEF Request, UserOps
      <3>4. q.link = l /\ q.final_table_name = name
        BY DefaultsTyped DEF Idle
      <3> QED
        BY <3>1, <3>3, <3>4 DEF RequestWellFormed
    <2>5. RequestsInv'
      BY <2>3, <2>4, StartWellFormed DEF RequestsInv
    <2>6. StoreInv'
      BY <1>1, <2>2, <2>3 DEF process_staging_data_prepare, StoreInv
    <2> QED
      BY <2>2, <2>5, <2>6
  <1>2. ASSUME NEW h \in Handlers, process_staging_data_commit(h)
        PROVE  RunsInv' /\ RequestsInv' /\ StoreInv'
    <2> DEFINE l == req[h].link
               x == [row[l] EXCEPT !.final_table_name = req[h].final_table_name,
                                   !.schedule = req[h].flag, !.metadata_id = TRUE]
    <2>1. RequestsInv'
      BY <1>2, IdleWellFormed DEF process_staging_data_commit
    <2>2. l \in Links /\ req[h].final_table_name \in 0..MaxNames /\ req[h].flag \in BOOLEAN
      BY <1>2 DEF process_staging_data_commit, RequestsInv, Request, RequestWellFormed
    <2>3. row[l] \in IntegrityLink
      BY <2>2 DEF StoreInv
    <2>4. x \in IntegrityLink
      BY <2>2, <2>3 DEF IntegrityLink
    <2>5. CASE row' = [row EXCEPT ![l] = x] /\ Trigger(ManualRun(h))
      <3>1. RunsInv'
        BY <1>2, <2>5, ManualRunWellFormed, TriggerWellFormed
        DEF process_staging_data_commit
      <3>2. StoreInv'
        BY <1>2, <2>4, <2>5 DEF process_staging_data_commit, StoreInv
      <3> QED BY <2>1, <3>1, <3>2
    <2>6. CASE UNCHANGED <<row, run, lastRun>>
      BY <1>2, <2>1, <2>6 DEF process_staging_data_commit, StoreInv, RunsInv
    <2> QED
      BY <1>2, <2>5, <2>6 DEF process_staging_data_commit
  <1>3. ASSUME NEW h \in Handlers, NEW r \in Runs, process_dag_success_publish(h, r)
        PROVE  RunsInv' /\ RequestsInv' /\ StoreInv'
    <2> DEFINE l == run[r].link
               name == run[r].final_table_name
               q(published) == [Idle EXCEPT !.op = "publish", !.link = l, !.run = r,
                                    !.final_table_name = name, !.flag = published]
    <2>1. RunsInv'
      BY <1>3, GotoWellFormed DEF process_dag_success_publish, CallbackCalled, RunSteps
    <2>2. /\ l \in Links /\ name \in 0..MaxNames /\ name \in Names /\ r \in 0..MaxRuns
      <3>1. run[r] \in DagRun /\ RunWellFormed(run[r])
        BY DEF RunsInv
      <3>2. run[r].kind \in ProcessKinds
        BY <1>3 DEF process_dag_success_publish
      <3>3. l \in Links /\ name # 0
        BY <3>1, <3>2 DEF RunWellFormed, NoRun, ProcessKinds
      <3>4. name \in 0..MaxNames
        BY <3>1 DEF DagRun
      <3> QED
        BY <3>3, <3>4, ConstantsAssumption DEF Names, Runs
    <2>3. ASSUME NEW published \in BOOLEAN
          PROVE  q(published) \in Request /\ RequestWellFormed(q(published))
      <3>1. q(published) \in Request
        BY <2>2, DefaultsTyped DEF Request
      <3>2. q(published).link = l /\ q(published).final_table_name = name /\ q(published).run = r
        BY DefaultsTyped DEF Idle
      <3> QED
        BY <2>2, <3>1, <3>2, ConstantsAssumption DEF RequestWellFormed, Names, Runs
    <2>4. CASE Live(l)
      <3>1. PICK published \in BOOLEAN :
              /\ layers' = IF published THEN layers \cup {layer(l, name)} ELSE layers
              /\ req' = [req EXCEPT ![h] = q(published)]
        BY <1>3, <2>4 DEF process_dag_success_publish
      <3>2. RequestsInv'
        BY <2>3, <3>1, StartWellFormed
      <3>3. layer(l, name) \in Organizations \X Names
        BY <2>2, ConstantsAssumption DEF layer
      <3>4. layers' \subseteq Organizations \X Names
        BY <3>1, <3>3 DEF StoreInv
      <3>5. StoreInv'
        BY <1>3, <2>2, <3>4 DEF process_dag_success_publish, StoreInv
      <3> QED BY <2>1, <3>2, <3>5
    <2>5. CASE ~Live(l)
      BY <1>3, <2>1, <2>5 DEF process_dag_success_publish, StoreInv, RequestsInv
    <2> QED
      BY <2>4, <2>5
  <1>4. ASSUME NEW h \in Handlers, process_dag_success_commit(h)
        PROVE  RunsInv' /\ RequestsInv' /\ StoreInv'
    <2> DEFINE l == req[h].link
               name == req[h].final_table_name
               data_id == IF req[h].flag THEN name ELSE row[l].data_id
               x == [row[l] EXCEPT !.final_table_name = name,
                                   !.last_retrieval = req[h].run, !.data_id = data_id]
    <2>1. RequestsInv'
      BY <1>4, IdleWellFormed DEF process_dag_success_commit
    <2>2. l \in Links /\ name \in 0..MaxNames /\ req[h].run \in 0..(MaxRuns + 1)
      BY <1>4, ConstantsAssumption DEF process_dag_success_commit, RequestsInv, Request, RequestWellFormed
    <2>3. row[l] \in IntegrityLink
      BY <2>2 DEF StoreInv
    <2>4. data_id \in 0..MaxNames
      BY <2>2, <2>3 DEF IntegrityLink
    <2>5. x \in IntegrityLink
      <3> HIDE DEF data_id
      <3> QED BY <2>2, <2>3, <2>4 DEF IntegrityLink
    <2>6. row' = [row EXCEPT ![l] = x] \/ row' = row
      BY <1>4 DEF process_dag_success_commit, retrieved
    <2>7. StoreInv'
      <3> HIDE DEF x
      <3> QED BY <1>4, <2>5, <2>6 DEF process_dag_success_commit, StoreInv
    <2>8. RunsInv'
      BY <1>4 DEF process_dag_success_commit, RunsInv
    <2> QED
      BY <2>1, <2>7, <2>8
  <1>5. ASSUME NEW r \in Runs, process_dag_failure_callback(r)
        PROVE  RunsInv' /\ RequestsInv' /\ StoreInv'
    <2>1. RunsInv'
      BY <1>5, GotoWellFormed DEF process_dag_failure_callback, CallbackCalled, RunSteps
    <2>2. StoreInv'
      BY <1>5 DEF process_dag_failure_callback, StoreInv
    <2>3. RequestsInv'
      BY <1>5 DEF process_dag_failure_callback, RequestsInv
    <2> QED
      BY <2>1, <2>2, <2>3
  <1> QED
    BY <1>1, <1>2, <1>3, <1>4, <1>5 DEF ProcessNext

-----------------------------------------------------------------------------
(* The DAGs *)

\* The conf of a scheduled run is well formed when its DAG names a table.
LEMMA ScheduledRunWellFormed ==
    ASSUME StoreInv, NEW l \in Links, dag[l].final_table_name # 0
    PROVE  ScheduledRun(l) \in DagRun /\ RunWellFormed(ScheduledRun(l))
  <1>1. /\ dag[l].source \in 0..MaxUploads
        /\ dag[l].is_file \in BOOLEAN
        /\ dag[l].final_table_name \in 0..MaxNames
    BY DEF StoreInv, IngestionDag
  <1>2. ScheduledRun(l) \in DagRun
    BY <1>1, DefaultsTyped DEF ScheduledRun, DagRun, RunSteps, TaskSteps
  <1>3. /\ ScheduledRun(l).kind = "scheduled"
        /\ ScheduledRun(l).step = "ingest"
        /\ ScheduledRun(l).link = l
        /\ ScheduledRun(l).final_table_name = dag[l].final_table_name
    BY DefaultsTyped DEF ScheduledRun, NoRun
  <1> QED
    BY <1>2, <1>3 DEF RunWellFormed

\* A run that transforms or cleans is a run of process_dag: it names a dataset
\* and a final table.
LEMMA ProcessRunNamesTable ==
    ASSUME RunsInv, NEW r \in Runs, run[r].step \in {"drop", "transform", "clean"}
    PROVE  /\ run[r].kind \in ProcessKinds
           /\ run[r].link \in Links
           /\ run[r].final_table_name \in Names
  <1>1. run[r] \in DagRun /\ RunWellFormed(run[r])
    BY DEF RunsInv
  <1>2. run[r].kind # "staging" /\ run[r].kind # "none" /\ run[r].final_table_name # 0
        /\ run[r].link \in Links
    BY <1>1 DEF RunWellFormed, NoRun
  <1>3. run[r].kind \in {"none", "staging", "manual", "scheduled", "reimport"}
        /\ run[r].final_table_name \in 0..MaxNames
    BY <1>1 DEF DagRun
  <1> QED
    BY <1>2, <1>3, ConstantsAssumption DEF Names, ProcessKinds

\* The tasks of Airflow, its callbacks that get lost, the generator and the cron
\* keep the state well formed.
LEMMA AirflowWellFormed == WellFormed /\ AirflowNext => WellFormed'
  <1> SUFFICES ASSUME RunsInv, RequestsInv, StoreInv, AirflowNext
               PROVE  RunsInv' /\ RequestsInv' /\ StoreInv'
    BY Parts, PTL
  <1> USE DEF pgVars, catalogVars, airflowVars, backendVars
  <1>1. ASSUME NEW r \in Runs, initial_ingestion(r)
        PROVE  RunsInv' /\ RequestsInv' /\ StoreInv'
    <2>1. run[r].kind = "staging" /\ run[r].step = "ingest" /\ run[r] \in DagRun
          /\ RunWellFormed(run[r]) /\ lastRun' = lastRun
      BY <1>1 DEF initial_ingestion, RunsInv
    <2>2. run' = Goto(r, "success") \/ run' = Goto(r, "failed")
      BY <1>1 DEF initial_ingestion
    <2>3. RunsInv'
      BY <2>1, <2>2, GotoWellFormed DEF RunSteps
    <2>4. run[r].source \in Uploads
      BY <2>1, ConstantsAssumption DEF DagRun, RunWellFormed, NoRun, Uploads
    <2>5. StoreInv'
      BY <1>1, <2>4 DEF initial_ingestion, StoreInv
    <2>6. RequestsInv'
      BY <1>1 DEF initial_ingestion, RequestsInv
    <2> QED
      BY <2>3, <2>5, <2>6
  <1>2. ASSUME NEW r \in Runs, refresh_ingestion(r)
        PROVE  RunsInv' /\ RequestsInv' /\ StoreInv'
    <2>1. re_ingests(r) /\ run[r].step = "ingest" /\ lastRun' = lastRun
      BY <1>2 DEF refresh_ingestion
    <2>2. run' = Goto(r, "transform") \/ run' = Goto(r, "clean")
      BY <1>2, <2>1 DEF refresh_ingestion, after_failure, re_ingests
    <2>3. RunsInv'
      BY <2>1, <2>2, GotoWellFormed DEF RunSteps, TaskSteps, re_ingests
    <2>4. StoreInv'
      BY <1>2 DEF refresh_ingestion, StoreInv
    <2>5. RequestsInv'
      BY <1>2 DEF refresh_ingestion, RequestsInv
    <2> QED
      BY <2>3, <2>4, <2>5
  <1>3. ASSUME NEW r \in Runs, drop_previous_final_table(r)
        PROVE  RunsInv' /\ RequestsInv' /\ StoreInv'
    <2>1. run[r].kind # "staging"
      BY <1>3, ProcessRunNamesTable DEF drop_previous_final_table, ProcessKinds
    <2>2. RunsInv'
      BY <1>3, <2>1, GotoWellFormed DEF drop_previous_final_table, RunSteps, TaskSteps
    <2>3. StoreInv' /\ RequestsInv'
      BY <1>3 DEF drop_previous_final_table, StoreInv, RequestsInv
    <2> QED
      BY <2>2, <2>3
  <1>4. ASSUME NEW r \in Runs, read_transform_write_task(r)
        PROVE  RunsInv' /\ RequestsInv' /\ StoreInv'
    <2>1. /\ run[r].step = "transform" /\ lastRun' = lastRun
          /\ run[r].kind \in ProcessKinds
          /\ run[r].link \in Links
          /\ run[r].final_table_name \in Names
      BY <1>4, ProcessRunNamesTable DEF read_transform_write_task
    <2>2. RunsInv'
      <3>1. CASE run' = [run EXCEPT ![r] = [@ EXCEPT !.step = "clean", !.wrote = TRUE]]
        <4> DEFINE x == [run[r] EXCEPT !.step = "clean", !.wrote = TRUE]
        <4>1. run[r] \in DagRun /\ RunWellFormed(run[r]) /\ run[r] # NoRun
          BY <2>1 DEF RunsInv, NoRun, ProcessKinds
        <4>2. x \in DagRun
          BY <4>1 DEF DagRun, RunSteps, TaskSteps
        <4>3. x.kind = run[r].kind /\ x.step = "clean" /\ x.link = run[r].link
              /\ x.final_table_name = run[r].final_table_name
          BY <4>1 DEF DagRun
        <4>4. RunWellFormed(x)
          BY <2>1, <4>3, ConstantsAssumption DEF RunWellFormed, Names, ProcessKinds
        <4> HIDE DEF x
        <4>5. run' = [run EXCEPT ![r] = x]
          BY <3>1 DEF x
        <4> QED
          BY <2>1, <4>1, <4>2, <4>4, <4>5 DEF RunsInv
      <3>2. CASE run' = Goto(r, after_failure(r))
        <4>1. after_failure(r) \in {"clean", "failed"}
          BY DEF after_failure
        <4> QED
          BY <2>1, <3>2, <4>1, GotoWellFormed DEF RunSteps, TaskSteps, ProcessKinds
      <3> QED
        BY <1>4, <3>1, <3>2 DEF read_transform_write_task
    <2>3. StoreInv'
      BY <1>4, <2>1 DEF read_transform_write_task, StoreInv
    <2>4. RequestsInv'
      BY <1>4 DEF read_transform_write_task, RequestsInv
    <2> QED
      BY <2>2, <2>3, <2>4
  <1>5. ASSUME NEW r \in Runs, clean_staging_table_task(r)
        PROVE  RunsInv' /\ RequestsInv' /\ StoreInv'
    <2>1. run[r].step = "clean" /\ lastRun' = lastRun
          /\ (run' = Goto(r, "success") \/ run' = Goto(r, "failed"))
      BY <1>5 DEF clean_staging_table_task
    <2>2. RunsInv'
      BY <2>1, GotoWellFormed DEF RunSteps
    <2>3. StoreInv'
      BY <1>5 DEF clean_staging_table_task, tables_to_clean, StoreInv
    <2>4. RequestsInv'
      BY <1>5 DEF clean_staging_table_task, RequestsInv
    <2> QED
      BY <2>2, <2>3, <2>4
  <1>6. ASSUME NEW r \in Runs, callback_lost(r)
        PROVE  RunsInv' /\ RequestsInv' /\ StoreInv'
    <2>1. RunsInv'
      BY <1>6, GotoWellFormed DEF callback_lost, CallbackCalled, RunSteps
    <2>2. StoreInv' /\ RequestsInv'
      BY <1>6 DEF callback_lost, StoreInv, RequestsInv
    <2> QED
      BY <2>1, <2>2
  <1>7. ASSUME NEW l \in Links, load_scheduled_integrity_links(l)
        PROVE  RunsInv' /\ RequestsInv' /\ StoreInv'
    <2> DEFINE emitted == [ parsed |-> TRUE, source |-> row[l].staging_table_name,
                            is_file |-> row[l].is_file,
                            final_table_name |-> row[l].final_table_name ]
    <2>1. row[l] \in IntegrityLink
      BY DEF StoreInv
    <2>2. emitted \in IngestionDag
      BY <2>1 DEF IngestionDag, IntegrityLink
    <2>3. dag' \in [Links -> IngestionDag]
      BY <1>7, <2>2, DefaultsTyped
      DEF load_scheduled_integrity_links, emitted_dag, StoreInv
    <2>4. StoreInv'
      BY <1>7, <2>3 DEF load_scheduled_integrity_links, StoreInv
    <2>5. RunsInv' /\ RequestsInv'
      BY <1>7 DEF load_scheduled_integrity_links, RunsInv, RequestsInv
    <2> QED
      BY <2>4, <2>5
  <1>8. ASSUME NEW l \in Links, trigger_process_dag(l)
        PROVE  RunsInv' /\ RequestsInv' /\ StoreInv'
    <2>1. lastRun < MaxRuns
      <3>1. Cardinality(WillTrigger) \in Nat
        BY ConstantsAssumption, FS_Subset, FS_CardinalityType DEF WillTrigger
      <3> QED
        BY <1>8, <3>1, ConstantsAssumption DEF trigger_process_dag, RunsLeft, RunsInv
    <2>2. RunsInv'
      BY <1>8, <2>1, ScheduledRunWellFormed, NewRunWellFormed
      DEF trigger_process_dag, conf_accepted
    <2>3. StoreInv' /\ RequestsInv'
      BY <1>8 DEF trigger_process_dag, StoreInv, RequestsInv
    <2> QED
      BY <2>2, <2>3
  <1> QED
    BY <1>1, <1>2, <1>3, <1>4, <1>5, <1>6, <1>7, <1>8 DEF AirflowNext, RunStep

-----------------------------------------------------------------------------
(* Deletion and schedules *)

\* Deleting a dataset and setting or clearing its schedule keep the state well
\* formed.
LEMMA DeletionWellFormed == WellFormed /\ DeletionNext => WellFormed'
  <1> SUFFICES ASSUME RunsInv, RequestsInv, StoreInv, DeletionNext
               PROVE  RunsInv' /\ RequestsInv' /\ StoreInv'
    BY Parts, PTL
  <1> USE DEF pgVars, catalogVars, airflowVars, backendVars
  <1>1. ASSUME NEW l \in Links, update_schedule(l)
        PROVE  RunsInv' /\ RequestsInv' /\ StoreInv'
    <2>1. [row[l] EXCEPT !.schedule = TRUE] \in IntegrityLink
      BY DEF StoreInv, IntegrityLink
    <2> QED
      BY <1>1, <2>1 DEF update_schedule, StoreInv, RunsInv, RequestsInv
  <1>2. ASSUME NEW h \in Handlers, NEW l \in Links, clear_schedule(h, l)
        PROVE  RunsInv' /\ RequestsInv' /\ StoreInv'
    <2> DEFINE q == [Idle EXCEPT !.op = "unschedule", !.link = l]
    <2>1. q \in Request /\ q.op = "unschedule" /\ q.link = l
      BY DefaultsTyped DEF Request, UserOps, Idle
    <2>2. RequestWellFormed(q)
      <3> HIDE DEF q
      <3> QED BY <2>1 DEF RequestWellFormed
    <2>3. RequestsInv'
      BY <1>2, <2>1, <2>2, StartWellFormed DEF clear_schedule
    <2>4. RunsInv' /\ StoreInv'
      BY <1>2, RemoveDagWellFormed DEF clear_schedule, StoreInv
    <2> QED
      BY <2>3, <2>4
  <1>3. ASSUME NEW h \in Handlers, clear_schedule_commit(h)
        PROVE  RunsInv' /\ RequestsInv' /\ StoreInv'
    <2> DEFINE l == req[h].link
    <2>1. l \in Links
      BY <1>3 DEF clear_schedule_commit, RequestsInv, RequestWellFormed
    <2>2. [row[l] EXCEPT !.schedule = FALSE] \in IntegrityLink
      <3> HIDE DEF l
      <3>1. row[l] \in IntegrityLink
        BY <2>1 DEF StoreInv
      <3> QED BY <3>1 DEF IntegrityLink
    <2>3. RequestsInv'
      BY <1>3, IdleWellFormed DEF clear_schedule_commit
    <2>4. StoreInv' /\ RunsInv'
      BY <1>3, <2>2 DEF clear_schedule_commit, StoreInv, RunsInv
    <2> QED
      BY <2>3, <2>4
  <1>4. ASSUME NEW h \in Handlers, NEW l \in Links, delete_dataset_cancel(h, l)
        PROVE  RunsInv' /\ RequestsInv' /\ StoreInv'
    <2> DEFINE q == [Idle EXCEPT !.op = "delete", !.link = l,
                        !.staging_table_name = row[l].staging_table_name,
                        !.final_table_name = row[l].final_table_name,
                        !.flag = row[l].metadata_id]
    <2>1. row[l] \in IntegrityLink
      BY DEF StoreInv
    <2>2. q \in Request /\ q.op = "delete" /\ q.link = l
      BY <2>1, DefaultsTyped DEF Request, IntegrityLink, UserOps, Idle
    <2>3. RequestWellFormed(q)
      <3> HIDE DEF q
      <3> QED BY <2>2 DEF RequestWellFormed
    <2>4. RunsInv'
      <3>1. CASE run' = Cancelled(runs_to_cancel(l))
        BY <1>4, <3>1, CancelledWellFormed
        DEF delete_dataset_cancel, runs_to_cancel, Unfinished
      <3>2. CASE UNCHANGED run
        BY <1>4, <3>2 DEF delete_dataset_cancel, RunsInv
      <3> QED
        BY <1>4, <3>1, <3>2 DEF delete_dataset_cancel
    <2>5. dag' \in [Links -> IngestionDag] /\ RequestsInv'
      <3>1. CASE dag' = [dag EXCEPT ![l] = NoDag] /\ req' = [req EXCEPT ![h] = q]
        BY <2>2, <2>3, <3>1, DefaultsTyped, StartWellFormed DEF StoreInv
      <3>2. CASE UNCHANGED <<dag, req>>
        BY <3>2 DEF StoreInv, RequestsInv
      <3> QED
        BY <1>4, <3>1, <3>2 DEF delete_dataset_cancel
    <2>6. StoreInv'
      BY <1>4, <2>5 DEF delete_dataset_cancel, StoreInv
    <2> QED
      BY <2>4, <2>5, <2>6
  <1>5. ASSUME NEW h \in Handlers, delete_dataset_data(h)
        PROVE  RunsInv' /\ RequestsInv' /\ StoreInv'
    <2>1. req[h] \in Request /\ RequestWellFormed(req[h]) /\ req[h].op = "delete"
      BY <1>5 DEF delete_dataset_data, RequestsInv
    <2> DEFINE q == [req[h] EXCEPT !.op = "forget"]
    <2>2. q \in Request /\ q.op = "forget" /\ q.link = req[h].link
      BY <2>1 DEF Request, UserOps
    <2>3. RequestWellFormed(q)
      <3> HIDE DEF q
      <3> QED BY <2>1, <2>2 DEF RequestWellFormed
    <2>4. RequestsInv'
      BY <1>5, <2>2, <2>3, StartWellFormed DEF delete_dataset_data
    <2>5. StoreInv' /\ RunsInv'
      BY <1>5 DEF delete_dataset_data, StoreInv, RunsInv
    <2> QED
      BY <2>4, <2>5
  <1>6. ASSUME NEW h \in Handlers, delete_dataset_row(h)
        PROVE  RunsInv' /\ RequestsInv' /\ StoreInv'
    <2>1. [Blank EXCEPT !.state = "deleted"] \in IntegrityLink
      BY DefaultsTyped DEF IntegrityLink
    <2>2. RequestsInv'
      BY <1>6, IdleWellFormed DEF delete_dataset_row
    <2>3. RunsInv'
      <3>1. PICK purged \in SUBSET Unfinished(req[h].link) : run' = Cancelled(purged)
        BY <1>6 DEF delete_dataset_row
      <3> QED
        BY <1>6, <3>1, CancelledWellFormed DEF delete_dataset_row, Unfinished
    <2>4. StoreInv'
      BY <1>6, <2>1 DEF delete_dataset_row, StoreInv
    <2> QED
      BY <2>2, <2>3, <2>4
  <1> QED
    BY <1>1, <1>2, <1>3, <1>4, <1>5, <1>6 DEF DeletionNext

-----------------------------------------------------------------------------
(* The theorems *)

\* In every behaviour the state is well formed: runs and requests belong to a
\* dataset and name the tables they act on (WellFormed, the inductive invariant).
THEOREM WellFormedAlways == Spec => []WellFormed
  <1>1. WellFormed /\ [Next]_vars => WellFormed'
    <2>1. CASE Next
      BY <2>1, StagingWellFormed, ProcessWellFormed, AirflowWellFormed, DeletionWellFormed
      DEF Next
    <2>2. CASE UNCHANGED vars
      BY <2>2
      DEF vars, WellFormed, TypeOK
    <2> QED
      BY <2>1, <2>2
  <1> QED
    BY InitWellFormed, <1>1, PTL DEF Spec

\* TypeOK holds of every reachable state of the routes, DAGs and callbacks.
THEOREM TypeCorrect == Spec => []TypeOK
  <1>1. WellFormed => TypeOK
    BY DEF WellFormed
  <1> QED
    BY <1>1, WellFormedAlways, PTL

-----------------------------------------------------------------------------
(* Temporary tables of refreshes *)

\* A step of a run that owns no temp_ table, or that keeps it for its cleaning,
\* preserves TempInv.
LEMMA GotoTemp ==
    ASSUME WellFormed, TempInv, NEW r \in Runs, NEW step \in RunSteps,
           run' = Goto(r, step), temp' = temp,
           r \in temp => step \in {"transform", "clean", "cancelled"}
    PROVE  TempInv'
  <1>1. run \in [Runs -> DagRun] /\ temp \subseteq Runs
    BY DEF WellFormed, TypeOK
  <1>2. ASSUME NEW s \in temp
        PROVE  run'[s].kind = run[s].kind
               /\ run'[s].step = IF s = r THEN step ELSE run[s].step
    BY <1>1 DEF Goto, DagRun
  <1> QED
    BY <1>1, <1>2 DEF TempInv, re_ingests

\* Cancelling runs preserves TempInv.
LEMMA CancelledTemp ==
    ASSUME WellFormed, TempInv, NEW S, run' = Cancelled(S), temp' = temp
    PROVE  TempInv'
  <1>1. run \in [Runs -> DagRun] /\ temp \subseteq Runs
    BY DEF WellFormed, TypeOK
  <1>2. ASSUME NEW s \in temp
        PROVE  run'[s].kind = run[s].kind
               /\ run'[s].step \in {run[s].step, "cancelled"}
    BY <1>1 DEF Cancelled, DagRun
  <1> QED
    BY <1>2 DEF TempInv, re_ingests

\* A new run owns no table yet.
LEMMA NewRunTemp ==
    ASSUME WellFormed, TempInv, NEW conf, temp' = temp,
           run' = [run EXCEPT ![lastRun + 1] = conf]
    PROVE  TempInv'
  <1>1. run \in [Runs -> DagRun] /\ temp \subseteq Runs /\ lastRun \in 0..MaxRuns
        /\ \A r \in Runs : r > lastRun => run[r] = NoRun
    BY DEF WellFormed, TypeOK
  <1>2. ASSUME NEW s \in temp
        PROVE  s # lastRun + 1
    BY <1>1, ConstantsAssumption DEF TempInv, re_ingests, NoRun, Runs
  <1> QED
    BY <1>1, <1>2 DEF TempInv, re_ingests

\* Neither does a triggered run.
LEMMA TriggerTemp ==
    ASSUME WellFormed, TempInv, NEW conf, Trigger(conf), temp' = temp
    PROVE  TempInv'
  BY NewRunTemp DEF Trigger, TempInv, re_ingests

\* Every step of the lifecycle keeps TempInv, when clean_staging_table_task never raises.
LEMMA TempStep ==
    ASSUME "cleanup" \notin Faults, WellFormed, TempInv, [Next]_vars
    PROVE  TempInv'
  <1> USE DEF pgVars, airflowVars
  <1>1. CASE StagingNext
    <2>1. ASSUME NEW l \in Links, NEW isFile \in BOOLEAN, submit_staging(l, isFile)
          PROVE  TempInv'
      BY <2>1, TriggerTemp DEF submit_staging, process_import_source
    <2>2. ASSUME NEW h \in Handlers, NEW l \in Links, NEW isFile \in BOOLEAN,
                 edit_staging_commit(h, l, isFile)
          PROVE  TempInv'
      BY <2>2 DEF edit_staging_commit, process_import_source, TempInv, re_ingests
    <2>3. ASSUME NEW h \in Handlers, edit_staging_trigger(h)
          PROVE  TempInv'
      BY <2>3, TriggerTemp DEF edit_staging_trigger
    <2>4. ASSUME NEW r \in Runs, staging_dag_success_callback(r)
          PROVE  TempInv'
      BY <2>4, GotoTemp
      DEF staging_dag_success_callback, CallbackCalled, RunSteps, TempInv, re_ingests
    <2>5. ASSUME NEW h \in Handlers, NEW r \in Runs, staging_dag_failure_callback(h, r)
          PROVE  TempInv'
      BY <2>5, GotoTemp
      DEF staging_dag_failure_callback, CallbackCalled, RunSteps, TempInv, re_ingests
    <2>6. ASSUME NEW h \in Handlers, rollback_drop(h) \/ rollback_commit(h)
          PROVE  TempInv'
      BY <2>6 DEF rollback_drop, rollback_commit, TempInv, re_ingests
    <2> QED
      BY <1>1, <2>1, <2>2, <2>3, <2>4, <2>5, <2>6 DEF StagingNext
  <1>2. CASE ProcessNext
    <2>1. ASSUME NEW h \in Handlers, NEW l \in Links, NEW recurrence \in BOOLEAN,
                 process_staging_data_prepare(h, l, recurrence)
          PROVE  TempInv'
      <3>1. CASE remove_ingestion_dag(l)
        BY <2>1, <3>1, CancelledTemp
        DEF process_staging_data_prepare, remove_ingestion_dag, TempInv, re_ingests
      <3>2. CASE UNCHANGED run
        BY <2>1, <3>2 DEF process_staging_data_prepare, TempInv, re_ingests
      <3> QED
        BY <2>1, <3>1, <3>2 DEF process_staging_data_prepare
    <2>2. ASSUME NEW h \in Handlers, process_staging_data_commit(h)
          PROVE  TempInv'
      BY <2>2, TriggerTemp DEF process_staging_data_commit, TempInv, re_ingests
    <2>3. ASSUME NEW h \in Handlers, NEW r \in Runs, process_dag_success_publish(h, r)
          PROVE  TempInv'
      BY <2>3, GotoTemp
      DEF process_dag_success_publish, CallbackCalled, RunSteps, TempInv, re_ingests
    <2>4. ASSUME NEW h \in Handlers, process_dag_success_commit(h)
          PROVE  TempInv'
      BY <2>4 DEF process_dag_success_commit, TempInv, re_ingests
    <2>5. ASSUME NEW r \in Runs, process_dag_failure_callback(r)
          PROVE  TempInv'
      BY <2>5, GotoTemp
      DEF process_dag_failure_callback, CallbackCalled, RunSteps, TempInv, re_ingests
    <2> QED
      BY <1>2, <2>1, <2>2, <2>3, <2>4, <2>5 DEF ProcessNext
  <1>3. CASE AirflowNext
    <2>1. ASSUME NEW r \in Runs, initial_ingestion(r)
          PROVE  TempInv'
      BY <2>1, GotoTemp DEF initial_ingestion, RunSteps, TempInv, re_ingests
    <2>2. ASSUME NEW r \in Runs, refresh_ingestion(r)
          PROVE  TempInv'
      <3>1. run \in [Runs -> DagRun] /\ temp \subseteq Runs
        BY DEF WellFormed, TypeOK
      <3>2. PICK step \in {"transform", "clean"} : run' = Goto(r, step)
        BY <2>2 DEF refresh_ingestion, after_failure, re_ingests
      <3>3. temp' \subseteq temp \cup {r} /\ re_ingests(r)
        BY <2>2 DEF refresh_ingestion
      <3>4. ASSUME NEW s \in Runs
            PROVE  run'[s].kind = run[s].kind
                   /\ run'[s].step = IF s = r THEN step ELSE run[s].step
        BY <3>1, <3>2 DEF Goto, DagRun
      <3> QED
        BY <3>1, <3>2, <3>3, <3>4 DEF TempInv, re_ingests
    <2>3. ASSUME NEW r \in Runs, drop_previous_final_table(r)
          PROVE  TempInv'
      BY <2>3, GotoTemp DEF drop_previous_final_table, RunSteps, TaskSteps
    <2>4. ASSUME NEW r \in Runs, read_transform_write_task(r)
          PROVE  TempInv'
      <3>1. CASE run' = Goto(r, after_failure(r))
        <4>1. r \in temp => after_failure(r) = "clean"
          BY DEF TempInv, re_ingests, after_failure
        <4>2. after_failure(r) \in RunSteps
          BY DEF after_failure, RunSteps, TaskSteps
        <4> QED
          BY <2>4, <3>1, <4>1, <4>2, GotoTemp DEF read_transform_write_task
      <3>2. CASE run' = [run EXCEPT ![r] = [@ EXCEPT !.step = "clean", !.wrote = TRUE]]
        <4>1. run \in [Runs -> DagRun] /\ temp \subseteq Runs /\ temp' = temp
          BY <2>4 DEF WellFormed, TypeOK, read_transform_write_task
        <4>2. ASSUME NEW s \in Runs
              PROVE  run'[s].kind = run[s].kind
                     /\ run'[s].step = IF s = r THEN "clean" ELSE run[s].step
          BY <3>2, <4>1 DEF DagRun
        <4> QED
          BY <4>1, <4>2 DEF TempInv, re_ingests
      <3> QED
        BY <2>4, <3>1, <3>2 DEF read_transform_write_task
    <2>5. ASSUME NEW r \in Runs, clean_staging_table_task(r)
          PROVE  TempInv'
      <3>1. CASE re_ingests(r)
        <4>1. run \in [Runs -> DagRun] /\ temp \subseteq Runs
          BY DEF WellFormed, TypeOK
        <4>2. temp' = temp \ {r} /\ run' = Goto(r, "success")
          BY <2>5, <3>1 DEF clean_staging_table_task, tables_to_clean
        <4>3. ASSUME NEW s \in temp'
              PROVE  run'[s] = run[s] /\ s \in temp
          BY <4>1, <4>2 DEF Goto
        <4> QED
          BY <4>3 DEF TempInv, re_ingests
      <3>2. CASE ~re_ingests(r)
        <4>1. temp' = temp /\ run' = Goto(r, "success") /\ r \notin temp
          BY <2>5, <3>2 DEF clean_staging_table_task, TempInv, re_ingests
        <4> QED
          BY <4>1, GotoTemp DEF RunSteps
      <3> QED
        BY <3>1, <3>2
    <2>6. ASSUME NEW r \in Runs, callback_lost(r)
          PROVE  TempInv'
      BY <2>6, GotoTemp DEF callback_lost, CallbackCalled, RunSteps, TempInv, re_ingests
    <2>7. ASSUME NEW l \in Links, load_scheduled_integrity_links(l)
          PROVE  TempInv'
      BY <2>7 DEF load_scheduled_integrity_links, TempInv, re_ingests
    <2>8. ASSUME NEW l \in Links, trigger_process_dag(l)
          PROVE  TempInv'
      BY <2>8, NewRunTemp DEF trigger_process_dag
    <2> QED
      BY <1>3, <2>1, <2>2, <2>3, <2>4, <2>5, <2>6, <2>7, <2>8 DEF AirflowNext, RunStep
  <1>4. CASE DeletionNext
    <2>1. ASSUME NEW l \in Links, update_schedule(l)
          PROVE  TempInv'
      BY <2>1 DEF update_schedule, TempInv, re_ingests
    <2>2. ASSUME NEW h \in Handlers, NEW l \in Links, clear_schedule(h, l)
          PROVE  TempInv'
      BY <2>2, CancelledTemp DEF clear_schedule, remove_ingestion_dag, TempInv, re_ingests
    <2>3. ASSUME NEW h \in Handlers, clear_schedule_commit(h)
          PROVE  TempInv'
      BY <2>3 DEF clear_schedule_commit, TempInv, re_ingests
    <2>4. ASSUME NEW h \in Handlers, NEW l \in Links, delete_dataset_cancel(h, l)
          PROVE  TempInv'
      BY <2>4, CancelledTemp DEF delete_dataset_cancel, TempInv, re_ingests
    <2>5. ASSUME NEW h \in Handlers, delete_dataset_data(h)
          PROVE  TempInv'
      BY <2>5 DEF delete_dataset_data, TempInv, re_ingests
    <2>6. ASSUME NEW h \in Handlers, delete_dataset_row(h)
          PROVE  TempInv'
      BY <2>6, CancelledTemp DEF delete_dataset_row
    <2> QED
      BY <1>4, <2>1, <2>2, <2>3, <2>4, <2>5, <2>6 DEF DeletionNext
  <1>5. CASE UNCHANGED vars
    BY <1>5 DEF vars, TempInv, re_ingests
  <1> QED
    BY <1>1, <1>2, <1>3, <1>4, <1>5 DEF Next

\* When clean_staging_table_task never raises, the temp_ table of a refresh lasts
\* no longer than the run, whatever else fails and whoever cancels what, unless the
\* run was force-failed (NoTempLeak, transformation.py clean_on_failure).
THEOREM NoTempLeakAlways ==
    ASSUME "cleanup" \notin Faults
    PROVE  Spec => []NoTempLeak
  <1>1. Init => TempInv
    BY DEF Init, TempInv, re_ingests
  <1>2. WellFormed /\ TempInv /\ [Next]_vars => TempInv'
    BY TempStep
  <1>3. TempInv => NoTempLeak
    BY DEF TempInv, NoTempLeak
  <1> QED
    BY <1>1, <1>2, <1>3, WellFormedAlways, PTL DEF Spec

-----------------------------------------------------------------------------
(* No refresh drops the table it refreshes. *)

\* Only the runs users ask for drop a table before they write it.
DropInv ==
    \A r \in Runs : run[r].kind # "reimport"
                    /\ (run[r].step = "drop" => run[r].kind = "manual")

\* A run that goes on, a run that is cancelled and a new run keep DropInv.
LEMMA GotoDrop ==
    ASSUME WellFormed, DropInv, NEW r \in Runs, NEW step, step # "drop",
           run' = Goto(r, step)
    PROVE  DropInv'
  <1>1. run \in [Runs -> DagRun]
    BY DEF WellFormed, TypeOK
  <1>2. ASSUME NEW s \in Runs
        PROVE  run'[s].kind = run[s].kind
               /\ run'[s].step = IF s = r THEN step ELSE run[s].step
    BY <1>1 DEF Goto, DagRun
  <1> QED
    BY <1>2 DEF DropInv

\* A cancellation takes no run to "drop".
LEMMA CancelledDrop ==
    ASSUME WellFormed, DropInv, NEW S, run' = Cancelled(S)
    PROVE  DropInv'
  <1>1. run \in [Runs -> DagRun]
    BY DEF WellFormed, TypeOK
  <1>2. ASSUME NEW s \in Runs
        PROVE  run'[s].kind = run[s].kind
               /\ run'[s].step \in {run[s].step, "cancelled"}
    BY <1>1 DEF Cancelled, DagRun
  <1> QED
    BY <1>2 DEF DropInv

\* A run that is created stands before "drop" only if it is a manual one.
LEMMA NewRunDrop ==
    ASSUME WellFormed, DropInv, NEW conf, run' = [run EXCEPT ![lastRun + 1] = conf],
           conf.kind # "reimport", conf.step = "drop" => conf.kind = "manual"
    PROVE  DropInv'
  <1>1. run \in [Runs -> DagRun]
    BY DEF WellFormed, TypeOK
  <1> QED
    BY <1>1 DEF DropInv

\* So does one that is triggered.
LEMMA TriggerDrop ==
    ASSUME WellFormed, DropInv, NEW conf, Trigger(conf),
           conf.kind # "reimport", conf.step = "drop" => conf.kind = "manual"
    PROVE  DropInv'
  BY NewRunDrop DEF Trigger, DropInv

\* Each step keeps DropInv.
LEMMA DropStep ==
    ASSUME WellFormed, DropInv, [Next]_vars
    PROVE  DropInv'
  <1> USE DEF airflowVars
  <1>1. CASE UNCHANGED run
    BY <1>1 DEF DropInv
  <1>2. ASSUME NEW l, NEW u, NEW isFile, Trigger(StagingRun(l, u, isFile))
        PROVE  DropInv'
    <2>1. StagingRun(l, u, isFile).kind = "staging" /\ StagingRun(l, u, isFile).step = "ingest"
      BY DEF StagingRun, NoRun
    <2> QED
      BY <1>2, <2>1, TriggerDrop
  <1>3. CASE StagingNext
    <2>1. ASSUME NEW h \in Handlers, NEW r \in Runs, staging_dag_failure_callback(h, r)
          PROVE  DropInv'
      BY <2>1, GotoDrop DEF staging_dag_failure_callback, CallbackCalled
    <2>2. ASSUME NEW r \in Runs, staging_dag_success_callback(r)
          PROVE  DropInv'
      BY <2>2, GotoDrop DEF staging_dag_success_callback, CallbackCalled
    <2> QED
      BY <1>1, <1>2, <1>3, <2>1, <2>2
      DEF StagingNext, submit_staging, edit_staging_commit, edit_staging_trigger,
          rollback_drop, rollback_commit
  <1>4. ASSUME NEW l, remove_ingestion_dag(l)
        PROVE  DropInv'
    BY <1>1, <1>4, CancelledDrop DEF remove_ingestion_dag
  <1>5. CASE ProcessNext
    <2>1. ASSUME NEW h \in Handlers, process_staging_data_commit(h)
          PROVE  DropInv'
      <3>1. ManualRun(h).kind = "manual"
        BY DEF ManualRun, NoRun
      <3> QED
        BY <1>1, <2>1, <3>1, TriggerDrop DEF process_staging_data_commit
    <2>2. ASSUME NEW h \in Handlers, NEW r \in Runs, process_dag_success_publish(h, r)
          PROVE  DropInv'
      BY <2>2, GotoDrop DEF process_dag_success_publish, CallbackCalled
    <2>3. ASSUME NEW r \in Runs, process_dag_failure_callback(r)
          PROVE  DropInv'
      BY <2>3, GotoDrop DEF process_dag_failure_callback, CallbackCalled
    <2> QED
      BY <1>1, <1>4, <1>5, <2>1, <2>2, <2>3
      DEF ProcessNext, process_staging_data_prepare, process_dag_success_commit
  <1>6. CASE AirflowNext
    <2>1. ASSUME NEW r \in Runs, initial_ingestion(r)
          PROVE  DropInv'
      BY <2>1, GotoDrop DEF initial_ingestion
    <2>2. ASSUME NEW r \in Runs, refresh_ingestion(r)
          PROVE  DropInv'
      BY <2>2, GotoDrop DEF refresh_ingestion, after_failure
    <2>3. ASSUME NEW r \in Runs, drop_previous_final_table(r)
          PROVE  DropInv'
      BY <2>3, GotoDrop DEF drop_previous_final_table
    <2>4. ASSUME NEW r \in Runs, read_transform_write_task(r)
          PROVE  DropInv'
      <3>1. CASE run' = Goto(r, after_failure(r))
        BY <3>1, GotoDrop DEF after_failure
      <3>2. CASE run' = [run EXCEPT ![r] = [@ EXCEPT !.step = "clean", !.wrote = TRUE]]
        <4>1. run \in [Runs -> DagRun]
          BY DEF WellFormed, TypeOK
        <4>2. ASSUME NEW s \in Runs
              PROVE  run'[s].kind = run[s].kind
                     /\ run'[s].step = IF s = r THEN "clean" ELSE run[s].step
          BY <3>2, <4>1 DEF DagRun
        <4> QED
          BY <4>2 DEF DropInv
      <3> QED
        BY <2>4, <3>1, <3>2 DEF read_transform_write_task
    <2>5. ASSUME NEW r \in Runs, clean_staging_table_task(r)
          PROVE  DropInv'
      BY <2>5, GotoDrop DEF clean_staging_table_task
    <2>6. ASSUME NEW r \in Runs, callback_lost(r)
          PROVE  DropInv'
      BY <2>6, GotoDrop DEF callback_lost, CallbackCalled
    <2>7. ASSUME NEW l \in Links, trigger_process_dag(l)
          PROVE  DropInv'
      <3>1. ScheduledRun(l).kind = "scheduled" /\ ScheduledRun(l).step = "ingest"
        BY DEF ScheduledRun, NoRun
      <3> QED
        BY <2>7, <3>1, NewRunDrop DEF trigger_process_dag
    <2> QED
      BY <1>1, <1>6, <2>1, <2>2, <2>3, <2>4, <2>5, <2>6, <2>7
      DEF AirflowNext, RunStep, load_scheduled_integrity_links
  <1>7. CASE DeletionNext
    <2>1. ASSUME NEW h \in Handlers, NEW l \in Links, delete_dataset_cancel(h, l)
          PROVE  DropInv'
      BY <1>1, <2>1, CancelledDrop DEF delete_dataset_cancel
    <2>2. ASSUME NEW h \in Handlers, delete_dataset_row(h)
          PROVE  DropInv'
      BY <2>2, CancelledDrop DEF delete_dataset_row
    <2> QED
      BY <1>1, <1>4, <1>7, <2>1, <2>2
      DEF DeletionNext, update_schedule, clear_schedule, clear_schedule_commit, delete_dataset_data
  <1> QED
    BY <1>1, <1>3, <1>5, <1>6, <1>7 DEF Next, vars

\* The steps that take a final table away.
LEMMA OwnerStep ==
    ASSUME WellFormed, DropInv, [Next]_vars, NEW n \in Names,
           owner[n] # NoLink, owner'[n] = NoLink
    PROVE  \/ \E h \in Handlers : req[h].op = "delete" /\ req[h].final_table_name = n
           \/ \E r \in Runs : /\ run[r].kind = "manual"
                              /\ run[r].final_table_name = n
                              /\ run[r].step \in {"drop", "failed"}
  <1> USE DEF backendVars, pgVars
  <1>1. /\ owner \in [Names -> Links \cup {NoLink}]
        /\ \A r \in Runs : RunWellFormed(run[r])
    BY DEF WellFormed, TypeOK
  <1>2. ASSUME NEW r \in Runs, drop_previous_final_table(r)
        PROVE  run[r].kind = "manual" /\ run[r].final_table_name = n /\ run[r].step = "drop"
    BY <1>1, <1>2 DEF drop_previous_final_table, DropInv
  <1>3. ASSUME NEW r \in Runs, process_dag_failure_callback(r)
        PROVE  run[r].kind = "manual" /\ run[r].final_table_name = n /\ run[r].step = "failed"
    BY <1>1, <1>3
    DEF process_dag_failure_callback, failure_callback_accepted, ProcessKinds, DropInv
  <1>4. ASSUME NEW r \in Runs, read_transform_write_task(r)
        PROVE  FALSE
    <2>1. run[r].link # NoLink
      BY <1>1, <1>4, ConstantsAssumption DEF RunWellFormed, NoRun, read_transform_write_task
    <2>2. \/ owner' = [owner EXCEPT ![run[r].final_table_name] = run[r].link]
          \/ UNCHANGED owner
      BY <1>4 DEF read_transform_write_task
    <2> QED
      BY <1>1, <2>1, <2>2
  <1>5. ASSUME NEW h \in Handlers, delete_dataset_data(h)
        PROVE  req[h].op = "delete" /\ req[h].final_table_name = n
    BY <1>5 DEF delete_dataset_data, final_tables_to_drop
  <1>6. ~ UNCHANGED owner
    OBVIOUS
  <1>7. ~ StagingNext
    BY <1>6
    DEF StagingNext, submit_staging, edit_staging_commit, edit_staging_trigger,
        staging_dag_success_callback, staging_dag_failure_callback, rollback_drop,
        rollback_commit
  <1>8. ASSUME ProcessNext
        PROVE  \E r \in Runs : process_dag_failure_callback(r)
    BY <1>6, <1>8
    DEF ProcessNext, process_staging_data_prepare, process_staging_data_commit,
        process_dag_success_publish, process_dag_success_commit
  <1>9. ASSUME AirflowNext
        PROVE  \E r \in Runs : drop_previous_final_table(r)
    BY <1>4, <1>6, <1>9
    DEF AirflowNext, RunStep, initial_ingestion, refresh_ingestion, clean_staging_table_task,
        callback_lost, load_scheduled_integrity_links, trigger_process_dag
  <1>10. ASSUME DeletionNext
         PROVE  \E h \in Handlers : delete_dataset_data(h)
    BY <1>6, <1>10
    DEF DeletionNext, update_schedule, clear_schedule, clear_schedule_commit,
        delete_dataset_cancel, delete_dataset_row
  <1> QED
    BY <1>2, <1>3, <1>5, <1>6, <1>7, <1>8, <1>9, <1>10 DEF Next, vars

\* Only the runs users ask for ever stand before "drop" (process_dag.py).
THEOREM DropInvAlways == Spec => []DropInv
  <1>1. Init => DropInv
    BY DEF Init, DropInv, NoRun
  <1>2. WellFormed /\ DropInv /\ [Next]_vars => DropInv'
    BY DropStep
  <1> QED
    BY <1>1, <1>2, WellFormedAlways, PTL DEF Spec

\* A final table disappears only with a dataset that is deleted, or by a processing a
\* user asked for: no scheduled run, failed or not, and no callback of one drops the
\* data it was to refresh (process.py dag_failure_callback, RefreshKeepsTable).
THEOREM RefreshKeepsTableAlways == Spec => RefreshKeepsTable
  <1> DEFINE Kept ==
        \A n \in Names : owner[n] # NoLink /\ owner'[n] = NoLink =>
          \/ \E h \in Handlers : req[h].op = "delete" /\ req[h].final_table_name = n
          \/ \E r \in Runs : /\ run[r].kind = "manual"
                             /\ run[r].final_table_name = n
                             /\ run[r].step \in {"drop", "failed"}
  <1>1. WellFormed /\ DropInv /\ [Next]_vars => Kept
    BY OwnerStep
  <1>2. Spec => [][Kept]_vars
    BY <1>1, DropInvAlways, WellFormedAlways, PTL DEF Spec
  <1> QED
    BY <1>2 DEF RefreshKeepsTable

-----------------------------------------------------------------------------
(* Layers, when organizations do not share one: each has one dataset. *)

\* A layer a dataset names, or is about to name, is in GeoServer unless a deletion of
\* the dataset is in progress; and only a dataset that had a row is published.
OwnLayerInv ==
    /\ \A l \in Links : Live(l) /\ row[l].data_id # 0 /\ ~BeingDeleted(l)
          => layer(l, row[l].data_id) \in layers
    /\ \A l \in Links : \A h \in Handlers : req[h].op = "publish" /\ req[h].link = l =>
          /\ row[l].state # "unborn"
          /\ req[h].flag /\ Live(l) /\ ~BeingDeleted(l)
                => layer(l, req[h].final_table_name) \in layers

\* What a step keeps that neither publishes nor deletes: the layers, the data_id of
\* rows, the requests that publish, and the deletions of datasets that have a row.
LayersQuiet ==
    /\ UNCHANGED layers
    /\ \A l \in Links : Live(l)' =>
          \/ Live(l) /\ row'[l].data_id = row[l].data_id
          \/ row[l].state = "unborn" /\ row'[l].data_id = 0
    /\ \A l \in Links : row[l].state # "unborn" => row'[l].state # "unborn"
    /\ \A h \in Handlers : req'[h].op = "publish" => req'[h] = req[h]
    /\ \A l \in Links : \A h \in Handlers :
          req[h].link = l /\ req[h].op \in {"delete", "forget"} /\ Live(l)' =>
             req'[h].link = l /\ req'[h].op \in {"delete", "forget"}

\* Such a step keeps OwnLayerInv.
LEMMA QuietKeepsLayers ==
    ASSUME WellFormed, OwnLayerInv, LayersQuiet
    PROVE  OwnLayerInv'
  <1>1. ASSUME NEW l \in Links, Live(l)', ~BeingDeleted(l)'
        PROVE  ~BeingDeleted(l)
    BY <1>1 DEF LayersQuiet, BeingDeleted
  <1>2. ASSUME NEW l \in Links, Live(l)', row'[l].data_id # 0, ~BeingDeleted(l)'
        PROVE  layer(l, row[l].data_id)' \in layers'
    BY <1>1, <1>2 DEF LayersQuiet, OwnLayerInv, layer
  <1>3. ASSUME NEW l \in Links, NEW h \in Handlers,
               req'[h].op = "publish", req'[h].link = l
        PROVE  /\ row'[l].state # "unborn"
               /\ req'[h].flag /\ Live(l)' /\ ~BeingDeleted(l)'
                     => layer(l, req[h].final_table_name)' \in layers'
    <2>1. req'[h] = req[h] /\ UNCHANGED layers
      BY <1>3 DEF LayersQuiet
    <2>2. row[l].state # "unborn" /\ (req[h].flag /\ Live(l) /\ ~BeingDeleted(l)
                => layer(l, req[h].final_table_name) \in layers)
      BY <1>3, <2>1 DEF OwnLayerInv
    <2>3. row'[l].state # "unborn"
      BY <2>2 DEF LayersQuiet
    <2>4. Live(l)' => Live(l)
      BY <2>2 DEF LayersQuiet
    <2> QED
      BY <1>1, <2>1, <2>2, <2>3, <2>4 DEF layer
  <1> QED
    BY <1>2, <1>3 DEF OwnLayerInv

\* A request that starts, and is neither a publication nor in place of another one.
LEMMA StartQuiet ==
    ASSUME WellFormed, NEW h \in Handlers, NEW q \in Request, q.op # "publish",
           req[h].op \notin {"delete", "forget"},
           UNCHANGED <<row, layers>>, req' = [req EXCEPT ![h] = q]
    PROVE  LayersQuiet
  BY DEF WellFormed, TypeOK, LayersQuiet, Live

\* The staging routes publish and delete nothing.
LEMMA StagingQuiet == WellFormed /\ StagingNext => LayersQuiet
  <1> SUFFICES ASSUME WellFormed, StagingNext
               PROVE  LayersQuiet
    OBVIOUS
  <1> USE DEF catalogVars, backendVars
  <1>1. row \in [Links -> IntegrityLink] /\ req \in [Handlers -> Request]
    BY DEF WellFormed, TypeOK
  <1>2. ASSUME NEW l \in Links, NEW isFile \in BOOLEAN, submit_staging(l, isFile)
        PROVE  LayersQuiet
    <2> DEFINE x == [Blank EXCEPT !.state = "live", !.staging_table_name = lastUpload + 1,
                                  !.is_file = isFile]
    <2>1. x.state = "live" /\ x.data_id = 0
      BY DEF Blank
    <2> HIDE DEF x
    <2>2. row' = [row EXCEPT ![l] = x] /\ row[l].state = "unborn" /\ UNCHANGED <<layers, req>>
      BY <1>2 DEF submit_staging, fresh, x
    <2> QED
      BY <1>1, <2>1, <2>2 DEF LayersQuiet, Live
  <1>3. ASSUME NEW h \in Handlers, NEW l \in Links, NEW isFile \in BOOLEAN,
               edit_staging_commit(h, l, isFile)
        PROVE  LayersQuiet
    <2> DEFINE x == [row[l] EXCEPT !.staging_table_name = lastUpload + 1, !.is_file = isFile]
               q == [Idle EXCEPT !.op = "edit", !.link = l, !.upload = lastUpload + 1,
                                 !.staging_table_name = row[l].staging_table_name,
                                 !.flag = isFile]
    <2>1. x.state = row[l].state /\ x.data_id = row[l].data_id /\ q.op = "edit"
      BY <1>1 DEF IntegrityLink, Idle
    <2>2. row' = [row EXCEPT ![l] = x] /\ req' = [req EXCEPT ![h] = q]
      BY <1>3 DEF edit_staging_commit
    <2> HIDE DEF x, q
    <2>3. req[h].op = "idle" /\ UNCHANGED layers
      BY <1>3 DEF edit_staging_commit, CanStart
    <2>4. \A m \in Links : row'[m].state = row[m].state /\ row'[m].data_id = row[m].data_id
      BY <1>1, <2>1, <2>2
    <2> QED
      BY <1>1, <2>1, <2>2, <2>3, <2>4 DEF LayersQuiet, Live
  <1>4. ASSUME NEW h \in Handlers, edit_staging_trigger(h)
        PROVE  LayersQuiet
    BY <1>4, StartQuiet, DefaultsTyped DEF edit_staging_trigger, Idle
  <1>5. ASSUME NEW r \in Runs, staging_dag_success_callback(r)
        PROVE  LayersQuiet
    BY <1>5 DEF staging_dag_success_callback, LayersQuiet, Live
  <1>6. ASSUME NEW h \in Handlers, NEW r \in Runs, staging_dag_failure_callback(h, r)
        PROVE  LayersQuiet
    <2>1. UNCHANGED <<row, layers>> /\ req[h].op = "idle"
      BY <1>6 DEF staging_dag_failure_callback, CanStart
    <2>2. CASE req' = req
      BY <2>1, <2>2 DEF LayersQuiet, Live
    <2>3. CASE \E q \in Request : q.op = "rollback" /\ req' = [req EXCEPT ![h] = q]
      BY <2>1, <2>3, StartQuiet
    <2> QED
      BY <1>6, <2>2, <2>3, FailureCallbackDecides, Parts
  <1>7. ASSUME NEW h \in Handlers, rollback_drop(h)
        PROVE  LayersQuiet
    <2>1. UNCHANGED <<row, layers>> /\ req[h].op = "rollback"
      BY <1>7 DEF rollback_drop
    <2>2. \E q \in Request : q.op = "discard" /\ req' = [req EXCEPT ![h] = q]
      BY <1>7, RollbackGoesOn, Parts
    <2> QED
      BY <2>1, <2>2, StartQuiet
  <1>8. ASSUME NEW h \in Handlers, rollback_commit(h)
        PROVE  LayersQuiet
    <2> DEFINE x == [Blank EXCEPT !.state = "rolled_back"]
    <2>1. /\ x.state = "rolled_back" /\ req[h].op = "discard" /\ UNCHANGED layers
          /\ req' = [req EXCEPT ![h] = Idle] /\ Idle.op = "idle"
      BY <1>8 DEF rollback_commit, Idle, Blank
    <2>2. row' = row \/ row' = [row EXCEPT ![req[h].link] = x]
      BY <1>8 DEF rollback_commit
    <2> HIDE DEF x
    <2> QED
      BY <1>1, <2>1, <2>2 DEF LayersQuiet, Live
  <1> QED
    BY <1>2, <1>3, <1>4, <1>5, <1>6, <1>7, <1>8 DEF StagingNext

\* Nor does Airflow.
LEMMA AirflowQuiet == AirflowNext => LayersQuiet
  <1> SUFFICES ASSUME AirflowNext
               PROVE  UNCHANGED <<row, layers, req>>
    BY DEF LayersQuiet, Live
  <1> QED
    BY DEF AirflowNext, RunStep, initial_ingestion, refresh_ingestion,
        drop_previous_final_table, read_transform_write_task, clean_staging_table_task,
        callback_lost, load_scheduled_integrity_links, trigger_process_dag,
        backendVars, catalogVars

\* The process routes keep OwnLayerInv: a layer is named after it was published.
LEMMA ProcessKeepsLayers == WellFormed /\ OwnLayerInv /\ ProcessNext => OwnLayerInv'
  <1> SUFFICES ASSUME WellFormed, OwnLayerInv, ProcessNext
               PROVE  OwnLayerInv'
    OBVIOUS
  <1> USE DEF catalogVars, backendVars, pgVars
  <1>1. row \in [Links -> IntegrityLink] /\ req \in [Handlers -> Request]
    BY DEF WellFormed, TypeOK
  <1>2. ASSUME NEW h \in Handlers, NEW l \in Links, NEW recurrence \in BOOLEAN,
               process_staging_data_prepare(h, l, recurrence)
        PROVE  OwnLayerInv'
    <2>1. req[h].op = "idle" /\ UNCHANGED <<row, layers>>
      BY <1>2 DEF process_staging_data_prepare, CanStart
    <2>2. (\E q : q.op = "process" /\ req' = [req EXCEPT ![h] = q]) \/ UNCHANGED req
      BY <1>2 DEF process_staging_data_prepare, Idle
    <2>3. LayersQuiet
      BY <1>1, <2>1, <2>2 DEF LayersQuiet, Live
    <2> QED
      BY <2>3, QuietKeepsLayers
  <1>3. ASSUME NEW h \in Handlers, process_staging_data_commit(h)
        PROVE  OwnLayerInv'
    <2> DEFINE x == [row[req[h].link] EXCEPT !.final_table_name = req[h].final_table_name,
                               !.schedule = req[h].flag, !.metadata_id = TRUE]
    <2>1. UNCHANGED row \/ row' = [row EXCEPT ![req[h].link] = x]
      BY <1>3 DEF process_staging_data_commit
    <2>2. req[h].link \in Links => x.state = row[req[h].link].state
                                   /\ x.data_id = row[req[h].link].data_id
      BY <1>1 DEF IntegrityLink
    <2> HIDE DEF x
    <2>3. \A m \in Links : row'[m].state = row[m].state /\ row'[m].data_id = row[m].data_id
      BY <1>1, <2>1, <2>2
    <2>4. /\ UNCHANGED layers /\ req[h].op = "process"
          /\ req' = [req EXCEPT ![h] = Idle] /\ Idle.op = "idle"
      BY <1>3 DEF process_staging_data_commit, Idle
    <2>5. LayersQuiet
      BY <1>1, <2>3, <2>4 DEF LayersQuiet, Live
    <2> QED
      BY <2>5, QuietKeepsLayers
  <1>4. ASSUME NEW h \in Handlers, NEW r \in Runs, process_dag_success_publish(h, r)
        PROVE  OwnLayerInv'
    <2>1. UNCHANGED row /\ req[h].op = "idle"
      BY <1>4 DEF process_dag_success_publish, CanStart
    <2>2. CASE UNCHANGED <<layers, req>>
      <3>1. LayersQuiet
        BY <2>1, <2>2 DEF LayersQuiet, Live
      <3> QED
        BY <3>1, QuietKeepsLayers
    <2>3. CASE Live(run[r].link)
      <3> DEFINE n == run[r].final_table_name
                 q(published) == [Idle EXCEPT !.op = "publish", !.link = run[r].link,
                          !.run = r, !.final_table_name = n, !.flag = published]
      <3>1. ASSUME NEW published
            PROVE  /\ q(published).op = "publish" /\ q(published).link = run[r].link
                   /\ q(published).flag = published /\ q(published).final_table_name = n
        BY DEF Idle
      <3>2. PICK published \in BOOLEAN :
              /\ layers' = IF published THEN layers \cup {layer(run[r].link, n)} ELSE layers
              /\ req' = [req EXCEPT ![h] = q(published)]
        BY <1>4, <2>3 DEF process_dag_success_publish
      <3> HIDE DEF q, n
      <3>3. \A k \in Handlers : req'[k] = IF k = h THEN q(published) ELSE req[k]
        BY <1>1, <3>2
      <3>4. \A x : x \in layers => x \in layers'
        BY <3>2
      <3>5. ASSUME NEW m \in Links
            PROVE  /\ BeingDeleted(m) => BeingDeleted(m)'
                   /\ Live(m)' <=> Live(m)
        BY <2>1, <3>3 DEF BeingDeleted, Live
      <3>6. ASSUME NEW m \in Links, Live(m)', row'[m].data_id # 0, ~BeingDeleted(m)'
            PROVE  layer(m, row[m].data_id)' \in layers'
        BY <2>1, <3>4, <3>5, <3>6 DEF OwnLayerInv, layer
      <3>7. ASSUME NEW m \in Links, NEW k \in Handlers,
                   req'[k].op = "publish", req'[k].link = m
            PROVE  /\ row'[m].state # "unborn"
                   /\ req'[k].flag /\ Live(m)' /\ ~BeingDeleted(m)'
                         => layer(m, req[k].final_table_name)' \in layers'
        <4>1. CASE k = h
          <5>1. m = run[r].link /\ req'[k].final_table_name = n /\ req'[k].flag = published
            BY <3>1, <3>3, <3>7, <4>1
          <5> QED
            BY <2>1, <2>3, <3>2, <5>1 DEF Live, layer
        <4>2. CASE k # h
          <5>1. req'[k] = req[k]
            BY <3>3, <4>2
          <5>2. /\ row[m].state # "unborn"
                /\ req[k].flag /\ Live(m) /\ ~BeingDeleted(m)
                         => layer(m, req[k].final_table_name) \in layers
            BY <3>7, <5>1 DEF OwnLayerInv
          <5> QED
            BY <2>1, <3>4, <3>5, <5>1, <5>2 DEF layer
        <4> QED
          BY <4>1, <4>2
      <3> QED
        BY <3>6, <3>7 DEF OwnLayerInv
    <2> QED
      BY <1>4, <2>2, <2>3 DEF process_dag_success_publish
  <1>5. ASSUME NEW h \in Handlers, process_dag_success_commit(h)
        PROVE  OwnLayerInv'
    <2>1. /\ UNCHANGED layers /\ req[h].op = "publish"
          /\ req' = [req EXCEPT ![h] = Idle] /\ Idle.op = "idle"
      BY <1>5 DEF process_dag_success_commit, Idle
    <2>2. PICK l \in Links : l = req[h].link
      BY <2>1 DEF WellFormed, RequestWellFormed
    <2> DEFINE x == retrieved(h)
    <2>3. UNCHANGED row \/ row' = [row EXCEPT ![l] = x]
      BY <1>5, <2>2 DEF process_dag_success_commit
    <2>4. /\ x.state = row[l].state
          /\ x.data_id = IF req[h].flag THEN req[h].final_table_name ELSE row[l].data_id
      BY <1>1, <2>2 DEF retrieved, IntegrityLink
    <2> HIDE DEF x
    <2>5. ASSUME NEW m \in Links
          PROVE  /\ row'[m].state = row[m].state
                 /\ \/ row'[m].data_id = row[m].data_id
                    \/ m = l /\ req[h].flag /\ row'[m].data_id = req[h].final_table_name
      BY <1>1, <2>3, <2>4
    <2>6. ASSUME NEW m \in Links
          PROVE  /\ BeingDeleted(m) => BeingDeleted(m)'
                 /\ Live(m)' <=> Live(m)
      BY <1>1, <2>1, <2>5 DEF BeingDeleted, Live
    <2>7. ASSUME NEW m \in Links, Live(m)', row'[m].data_id # 0, ~BeingDeleted(m)'
          PROVE  layer(m, row[m].data_id)' \in layers'
      <3>1. Live(m) /\ ~BeingDeleted(m)
        BY <2>6, <2>7
      <3>2. CASE row'[m].data_id = row[m].data_id
        BY <2>1, <2>7, <3>1, <3>2 DEF OwnLayerInv, layer
      <3>3. CASE m = l /\ req[h].flag /\ row'[m].data_id = req[h].final_table_name
        BY <2>1, <2>2, <3>1, <3>3 DEF OwnLayerInv, layer
      <3> QED
        BY <2>5, <3>2, <3>3
    <2>8. ASSUME NEW m \in Links, NEW k \in Handlers,
                 req'[k].op = "publish", req'[k].link = m
          PROVE  /\ row'[m].state # "unborn"
                 /\ req'[k].flag /\ Live(m)' /\ ~BeingDeleted(m)'
                       => layer(m, req[k].final_table_name)' \in layers'
      <3>1. req'[k] = req[k]
        BY <1>1, <2>1, <2>8
      <3>2. row[m].state # "unborn" /\ (req[k].flag /\ Live(m) /\ ~BeingDeleted(m)
                       => layer(m, req[k].final_table_name) \in layers)
        BY <2>8, <3>1 DEF OwnLayerInv
      <3>3. row'[m].state = row[m].state
        BY <2>5
      <3> QED
        BY <2>1, <2>6, <3>1, <3>2, <3>3 DEF layer
    <2> QED
      BY <2>7, <2>8 DEF OwnLayerInv
  <1>6. ASSUME NEW r \in Runs, process_dag_failure_callback(r)
        PROVE  OwnLayerInv'
    <2>1. LayersQuiet
      BY <1>6 DEF process_dag_failure_callback, LayersQuiet, Live
    <2> QED
      BY <2>1, QuietKeepsLayers
  <1> QED
    BY <1>2, <1>3, <1>4, <1>5, <1>6 DEF ProcessNext

\* A deletion takes only the layers of its own dataset, when organizations do not share
\* one dataset's workspace; a row that is gone names no layer.
LEMMA DeletionKeepsLayers ==
    ASSUME \A l, m \in Links :
              integrity_organization[l] = integrity_organization[m] => l = m,
           WellFormed, OwnLayerInv, DeletionNext
    PROVE  OwnLayerInv'
  <1> USE DEF catalogVars, backendVars, pgVars
  <1>1. row \in [Links -> IntegrityLink] /\ req \in [Handlers -> Request]
    BY DEF WellFormed, TypeOK
  <1>2. ASSUME NEW l \in Links, update_schedule(l)
        PROVE  OwnLayerInv'
    <2>1. LayersQuiet
      BY <1>1, <1>2 DEF update_schedule, LayersQuiet, Live, IntegrityLink
    <2> QED
      BY <2>1, QuietKeepsLayers
  <1>3. ASSUME NEW h \in Handlers, NEW l \in Links, clear_schedule(h, l)
        PROVE  OwnLayerInv'
    <2> DEFINE q == [Idle EXCEPT !.op = "unschedule", !.link = l]
    <2>1. q.op = "unschedule" /\ req[h].op = "idle" /\ UNCHANGED <<row, layers>>
      BY <1>3 DEF clear_schedule, CanStart, Idle
    <2>2. req' = [req EXCEPT ![h] = q]
      BY <1>3 DEF clear_schedule
    <2> HIDE DEF q
    <2>3. LayersQuiet
      BY <1>1, <2>1, <2>2 DEF LayersQuiet, Live
    <2> QED
      BY <2>3, QuietKeepsLayers
  <1>4. ASSUME NEW h \in Handlers, clear_schedule_commit(h)
        PROVE  OwnLayerInv'
    <2>1. /\ UNCHANGED layers /\ req[h].op = "unschedule"
          /\ req' = [req EXCEPT ![h] = Idle] /\ Idle.op = "idle"
      BY <1>4 DEF clear_schedule_commit, Idle
    <2>2. \A m \in Links : row'[m].state = row[m].state /\ row'[m].data_id = row[m].data_id
      BY <1>1, <1>4 DEF clear_schedule_commit, IntegrityLink
    <2>3. LayersQuiet
      BY <1>1, <2>1, <2>2 DEF LayersQuiet, Live
    <2> QED
      BY <2>3, QuietKeepsLayers
  <1>5. ASSUME NEW h \in Handlers, NEW l \in Links, delete_dataset_cancel(h, l)
        PROVE  OwnLayerInv'
    <2> DEFINE q == [Idle EXCEPT !.op = "delete", !.link = l,
                        !.staging_table_name = row[l].staging_table_name,
                        !.final_table_name = row[l].final_table_name,
                        !.flag = row[l].metadata_id]
    <2>1. q.op = "delete" /\ req[h].op = "idle" /\ UNCHANGED <<row, layers>>
      BY <1>5 DEF delete_dataset_cancel, CanStart, Idle
    <2>2. req' = [req EXCEPT ![h] = q] \/ UNCHANGED req
      BY <1>5 DEF delete_dataset_cancel
    <2> HIDE DEF q
    <2>3. LayersQuiet
      BY <1>1, <2>1, <2>2 DEF LayersQuiet, Live
    <2> QED
      BY <2>3, QuietKeepsLayers
  <1>6. ASSUME NEW h \in Handlers, delete_dataset_data(h)
        PROVE  OwnLayerInv'
    <2>1. PICK l \in Links : l = req[h].link
      BY <1>6 DEF delete_dataset_data, WellFormed, RequestWellFormed
    <2>2. ASSUME NEW m \in Links, m # l, NEW n, layer(m, n) \in layers
          PROVE  layer(m, n) \in layers'
      BY <1>6, <2>1, <2>2 DEF delete_dataset_data, layer
    <2>3. req' = [req EXCEPT ![h].op = "forget"] /\ UNCHANGED row /\ req[h].op = "delete"
      BY <1>6 DEF delete_dataset_data
    <2>4. \A k \in Handlers : /\ k # h => req'[k] = req[k]
                              /\ req'[h].op = "forget" /\ req'[h].link = l
      BY <1>1, <2>1, <2>3 DEF Request
    <2>5. BeingDeleted(l)'
      BY <2>4 DEF BeingDeleted
    <2>6. ASSUME NEW m \in Links
          PROVE  /\ BeingDeleted(m) => BeingDeleted(m)'
                 /\ Live(m)' <=> Live(m)
      BY <2>1, <2>3, <2>4 DEF BeingDeleted, Live
    <2>7. ASSUME NEW m \in Links, Live(m)', row'[m].data_id # 0, ~BeingDeleted(m)'
          PROVE  layer(m, row[m].data_id)' \in layers'
      BY <2>2, <2>3, <2>5, <2>6, <2>7 DEF OwnLayerInv, layer
    <2>8. ASSUME NEW m \in Links, NEW k \in Handlers,
                 req'[k].op = "publish", req'[k].link = m
          PROVE  /\ row'[m].state # "unborn"
                 /\ req'[k].flag /\ Live(m)' /\ ~BeingDeleted(m)'
                       => layer(m, req[k].final_table_name)' \in layers'
      <3>1. req'[k] = req[k] /\ row' = row
        BY <2>3, <2>4, <2>8
      <3>2. row[m].state # "unborn" /\ (req[k].flag /\ Live(m) /\ ~BeingDeleted(m)
                       => layer(m, req[k].final_table_name) \in layers)
        BY <2>8, <3>1 DEF OwnLayerInv
      <3> QED
        BY <2>2, <2>5, <2>6, <3>1, <3>2 DEF layer
    <2> QED
      BY <2>7, <2>8 DEF OwnLayerInv
  <1>7. ASSUME NEW h \in Handlers, delete_dataset_row(h)
        PROVE  OwnLayerInv'
    <2> DEFINE x == [Blank EXCEPT !.state = "deleted"]
    <2>1. /\ x.state = "deleted" /\ req[h].op = "forget" /\ UNCHANGED layers
          /\ req' = [req EXCEPT ![h] = Idle] /\ Idle.op = "idle"
      BY <1>7 DEF delete_dataset_row, Idle, Blank
    <2>2. row' = [row EXCEPT ![req[h].link] = x]
      BY <1>7 DEF delete_dataset_row
    <2> HIDE DEF x
    <2>3. LayersQuiet
      BY <1>1, <2>1, <2>2 DEF LayersQuiet, Live
    <2> QED
      BY <2>3, QuietKeepsLayers
  <1> QED
    BY <1>2, <1>3, <1>4, <1>5, <1>6, <1>7 DEF DeletionNext

\* The layer a dataset names (data_id) is in GeoServer unless a deletion of it is in
\* progress, whatever its users, its schedule and its runs do and whatever fails, as long
\* as no other dataset shares its workspace (LayerBacksDataId; layer_publication.py).
THEOREM OwnLayerBacksDataId ==
    ASSUME \A l, m \in Links :
              integrity_organization[l] = integrity_organization[m] => l = m
    PROVE  Spec => []LayerBacksDataId
  <1>1. Init => OwnLayerInv
    BY DEF Init, OwnLayerInv, Live, Blank, Idle
  <1>2. WellFormed /\ OwnLayerInv /\ [Next]_vars => OwnLayerInv'
    <2> SUFFICES ASSUME WellFormed, OwnLayerInv, [Next]_vars
                 PROVE  OwnLayerInv'
      OBVIOUS
    <2>1. CASE StagingNext
      BY <2>1, StagingQuiet, QuietKeepsLayers
    <2>2. CASE ProcessNext
      BY <2>2, ProcessKeepsLayers
    <2>3. CASE AirflowNext
      BY <2>3, AirflowQuiet, QuietKeepsLayers
    <2>4. CASE DeletionNext
      BY <2>4, DeletionKeepsLayers
    <2>5. CASE UNCHANGED vars
      <3>1. LayersQuiet
        BY <2>5 DEF LayersQuiet, Live, vars
      <3> QED
        BY <3>1, QuietKeepsLayers
    <2> QED
      BY <2>1, <2>2, <2>3, <2>4, <2>5 DEF Next
  <1>3. OwnLayerInv => LayerBacksDataId
    BY DEF OwnLayerInv, LayerBacksDataId
  <1> QED
    BY <1>1, <1>2, <1>3, WellFormedAlways, PTL DEF Spec

-----------------------------------------------------------------------------
(* The life of a dataset implements the contract of DatasetContract. *)

\* The values the refinement mapping gives to the variables of the contract.
phaseView == [l \in Links |-> PhaseOf(l)]
nameView  == [l \in Links |-> IF Live(l) THEN row[l].final_table_name ELSE 0]

\* The datasets whose deletion, or whose end after a failure, is being carried out stay
\* the same.
SameAims == DeletionsAsked' = DeletionsAsked /\ RollbacksDecided' = RollbacksDecided

\* A step that leaves the rows as they are, and these, is a stutter of the contract.
LEMMA SameRows ==
    ASSUME row' = row, SameAims
    PROVE  UNCHANGED Contract!contractVars
  BY DEF SameAims, Contract!contractVars, PhaseOf, Live

\* So is one that touches neither the state, nor the name, nor the first retrieval.
LEMMA SameView ==
    ASSUME NEW l \in Links, NEW x, row \in [Links -> IntegrityLink],
           row' = [row EXCEPT ![l] = x],
           x.state = row[l].state, x.final_table_name = row[l].final_table_name,
           x.last_retrieval = row[l].last_retrieval,
           SameAims
    PROVE  UNCHANGED Contract!contractVars
  <1>1. ASSUME NEW m \in Links
        PROVE  PhaseOf(m)' = PhaseOf(m) /\ Live(m)' = Live(m)
               /\ row'[m].final_table_name = row[m].final_table_name
    BY DEF PhaseOf, Live
  <1> QED
    BY <1>1 DEF SameAims, Contract!contractVars

\* Nobody asks for a deletion, and no rollback is decided, when a handler starts, goes on
\* with or ends another request.
LEMMA SameAsked ==
    ASSUME RequestsInv, NEW h \in Handlers, NEW q,
           req' = [req EXCEPT ![h] = q],
           req[h].op \notin {"delete", "forget", "rollback", "discard"},
           q.op \notin {"delete", "forget", "rollback", "discard"}
    PROVE  SameAims
  <1>1. \A g \in Handlers : req'[g] = IF g = h THEN q ELSE req[g]
    BY DEF RequestsInv
  <1> QED
    BY <1>1 DEF SameAims, DeletionsAsked, RollbacksDecided, RollingBack

\* Nor when no request moves.
LEMMA SameRequests == ASSUME req' = req PROVE SameAims
  BY DEF SameAims, DeletionsAsked, RollbacksDecided, RollingBack

\* The row of one dataset changes: what the others show stays.
LEMMA RowView ==
    ASSUME NEW l \in Links, NEW x, row \in [Links -> IntegrityLink],
           row' = [row EXCEPT ![l] = x]
    PROVE  /\ phaseView' = [phaseView EXCEPT ![l] = PhaseOf(l)']
           /\ nameView' = [nameView EXCEPT ![l] = IF Live(l)' THEN x.final_table_name ELSE 0]
  <1>1. ASSUME NEW m \in Links, m # l
        PROVE  PhaseOf(m)' = PhaseOf(m) /\ Live(m)' = Live(m)
               /\ row'[m] = row[m]
    BY <1>1 DEF PhaseOf, Live
  <1>2. row'[l] = x
    OBVIOUS
  <1> QED
    BY <1>1, <1>2 DEF phaseView, nameView

\* Existing datasets of the contract are live rows.
LEMMA ExistingIsLive ==
    ASSUME NEW l \in Links, row \in [Links -> IntegrityLink]
    PROVE  phaseView[l] \in {"draft", "published"} <=> Live(l)
  BY DEF phaseView, PhaseOf, Live, IntegrityLink

\* A name that the unique constraint accepts is reservable.
LEMMA FreeIsReservable ==
    ASSUME NEW l \in Links, NEW n, row \in [Links -> IntegrityLink], ~name_taken(l, n)
    PROVE  Contract!Reservable(l, n)
  <1>1. ASSUME NEW m \in Links \ {l}, Contract!Existing(m),
               integrity_organization[m] = integrity_organization[l]
        PROVE  nameView[m] # n
    BY <1>1, ExistingIsLive DEF Contract!Existing, phaseView, nameView, name_taken, Live
  <1> QED
    BY <1>1 DEF Contract!Reservable, nameView

-----------------------------------------------------------------------------
(* One step of the lifecycle is one step of the contract, or a stutter. *)

\* An initial state is one of the contract: no dataset exists, nothing is asked.
LEMMA ContractInit == Init => Contract!Init
  BY DEF Init, Contract!Init, PhaseOf, Live, Blank, DeletionsAsked, RollbacksDecided,
         RollingBack, Idle

\* Requests that stage a dataset and the callbacks of staging_dag.
LEMMA StagingContract ==
    WellFormed /\ StagingNext => [Contract!Next]_(Contract!contractVars)
  <1> SUFFICES ASSUME WellFormed, StagingNext
               PROVE  [Contract!Next]_(Contract!contractVars)
    OBVIOUS
  <1> USE DEF backendVars
  <1>1. RequestsInv /\ RunsInv /\ row \in [Links -> IntegrityLink]
    BY Parts DEF StoreInv
  <1>2. ASSUME NEW l \in Links, NEW isFile \in BOOLEAN, submit_staging(l, isFile)
        PROVE  Contract!Create(l)
    <2> DEFINE x == [Blank EXCEPT !.state = "live", !.staging_table_name = lastUpload + 1,
                                  !.is_file = isFile]
    <2>1. row' = [row EXCEPT ![l] = x] /\ req' = req /\ row[l].state = "unborn"
      BY <1>2 DEF submit_staging, fresh, process_import_source
    <2>2. x.state = "live" /\ x.final_table_name = 0 /\ x.last_retrieval = 0
      BY DEF Blank
    <2>3. phaseView' = [phaseView EXCEPT ![l] = PhaseOf(l)']
          /\ nameView' = [nameView EXCEPT ![l] = IF Live(l)' THEN x.final_table_name ELSE 0]
      BY <1>1, <2>1, RowView
    <2>4. PhaseOf(l)' = "draft" /\ phaseView[l] = "absent" /\ nameView[l] = 0
      BY <1>1, <2>1, <2>2 DEF PhaseOf, phaseView, nameView, Live
    <2>5. nameView' = nameView
      BY <2>2, <2>3, <2>4 DEF nameView
    <2>6. SameAims
      BY <2>1, SameRequests
    <2> QED
      BY <2>3, <2>4, <2>5, <2>6 DEF SameAims, Contract!Create, phaseView, nameView
  <1>3. ASSUME NEW h \in Handlers, NEW l \in Links, NEW isFile \in BOOLEAN,
               edit_staging_commit(h, l, isFile)
        PROVE  UNCHANGED Contract!contractVars
    <2> DEFINE x == [row[l] EXCEPT !.staging_table_name = lastUpload + 1, !.is_file = isFile]
               q == [Idle EXCEPT !.op = "edit", !.link = l, !.upload = lastUpload + 1,
                                 !.staging_table_name = row[l].staging_table_name,
                                 !.flag = isFile]
    <2>1. row' = [row EXCEPT ![l] = x] /\ req' = [req EXCEPT ![h] = q]
          /\ req[h].op = "idle"
      BY <1>3 DEF edit_staging_commit, process_import_source, CanStart
    <2>2. x.state = row[l].state /\ x.final_table_name = row[l].final_table_name
          /\ x.last_retrieval = row[l].last_retrieval
      BY <1>1 DEF IntegrityLink
    <2>3. q.op = "edit"
      BY DEF Idle
    <2> HIDE DEF x, q
    <2>4. SameAims
      BY <1>1, <2>1, <2>3, SameAsked
    <2> QED
      BY <1>1, <2>1, <2>2, <2>4, SameView
  <1>4. ASSUME NEW h \in Handlers, edit_staging_trigger(h)
        PROVE  UNCHANGED Contract!contractVars
    <2>1. req' = [req EXCEPT ![h] = Idle] /\ req[h].op = "edit" /\ row' = row
      BY <1>4 DEF edit_staging_trigger
    <2> QED
      BY <1>1, <2>1, SameAsked, SameRows DEF Idle
  <1>5. ASSUME NEW r \in Runs, staging_dag_success_callback(r)
        PROVE  UNCHANGED Contract!contractVars
    BY <1>5, SameRows, SameRequests DEF staging_dag_success_callback
  <1>6. ASSUME NEW h \in Handlers, NEW r \in Runs, staging_dag_failure_callback(h, r)
        PROVE  [Contract!Next]_(Contract!contractVars)
    <2>1. PICK l \in Links : l = run[r].link
      BY <1>1, <1>6 DEF RunsInv, RunWellFormed, staging_dag_failure_callback, NoRun
    <2>2. row' = row /\ req[h].op = "idle"
      BY <1>6 DEF staging_dag_failure_callback, CanStart
    <2>3. CASE req' = req
      BY <2>2, <2>3, SameRows, SameRequests
    <2>4. CASE Live(l) /\ ~is_rerun(l)
               /\ \E q : q.op = "rollback" /\ q.link = l /\ req' = [req EXCEPT ![h] = q]
      <3>1. PICK q : q.op = "rollback" /\ q.link = l /\ req' = [req EXCEPT ![h] = q]
        BY <2>4
      <3>2. \A g \in Handlers : req'[g] = IF g = h THEN q ELSE req[g]
        BY <1>1, <3>1 DEF RequestsInv
      <3>3. DeletionsAsked' = DeletionsAsked
        BY <2>2, <3>1, <3>2 DEF DeletionsAsked
      <3>4. RollbacksDecided' = RollbacksDecided \cup {l}
        BY <2>2, <3>1, <3>2 DEF RollbacksDecided, RollingBack
      <3>5. phaseView' = phaseView /\ nameView' = nameView
        BY <2>2 DEF phaseView, nameView, PhaseOf, Live
      <3>6. phaseView[l] = "draft"
        BY <2>4 DEF phaseView, PhaseOf, Live, is_rerun
      <3>7. Contract!Doom(l)
        BY <3>3, <3>4, <3>5, <3>6 DEF Contract!Doom, phaseView, nameView
      <3> QED
        BY <3>7 DEF Contract!Next
    <2> QED
      BY <1>1, <1>6, <2>1, <2>3, <2>4, FailureCallbackDecides, Parts
  <1>7. ASSUME NEW h \in Handlers, rollback_drop(h)
        PROVE  UNCHANGED Contract!contractVars
    <2>1. row' = row /\ req[h].op = "rollback"
      BY <1>7 DEF rollback_drop
    <2>2. PICK q : /\ q.op = "discard" /\ q.link = req[h].link
                   /\ req' = [req EXCEPT ![h] = q]
      BY <1>1, <1>7, RollbackGoesOn
    <2>3. \A g \in Handlers : req'[g] = IF g = h THEN q ELSE req[g]
      BY <1>1, <2>2 DEF RequestsInv
    <2>4. SameAims
      BY <2>1, <2>2, <2>3 DEF SameAims, DeletionsAsked, RollbacksDecided, RollingBack
    <2> QED
      BY <2>1, <2>4, SameRows
  <1>8. ASSUME NEW h \in Handlers, rollback_commit(h)
        PROVE  [Contract!Next]_(Contract!contractVars)
    <2>1. req[h].op = "discard" /\ req' = [req EXCEPT ![h] = Idle]
      BY <1>8 DEF rollback_commit
    <2>2. PICK l \in Links : l = req[h].link
      BY <1>1, <2>1 DEF RequestsInv, RequestWellFormed
    <2>3. \A g \in Handlers : req'[g] = IF g = h THEN Idle ELSE req[g]
      BY <1>1, <2>1 DEF RequestsInv
    <2>4. l \in RollbacksDecided
          /\ RollbacksDecided' \in {RollbacksDecided, RollbacksDecided \ {l}}
      BY <2>1, <2>2, <2>3 DEF RollbacksDecided, RollingBack, Idle
    <2>5. DeletionsAsked' = DeletionsAsked
      BY <2>1, <2>2, <2>3 DEF DeletionsAsked, Idle
    <2>6. CASE Live(l)
      <3> DEFINE x == [Blank EXCEPT !.state = "rolled_back"]
      <3>1. row' = [row EXCEPT ![l] = x] /\ x.state = "rolled_back"
        BY <1>8, <2>2, <2>6 DEF rollback_commit, Blank
      <3> HIDE DEF x
      <3>2. phaseView' = [phaseView EXCEPT ![l] = PhaseOf(l)']
            /\ nameView' = [nameView EXCEPT ![l] = IF Live(l)' THEN x.final_table_name ELSE 0]
        BY <1>1, <3>1, RowView
      <3>3. PhaseOf(l)' = "discarded" /\ ~Live(l)'
        BY <1>1, <3>1 DEF PhaseOf, Live
      <3>4. phaseView[l] \in {"draft", "published"}
        BY <1>1, <2>6, ExistingIsLive
      <3>5. Contract!Discard(l)
        BY <2>4, <2>5, <3>2, <3>3, <3>4
        DEF Contract!Discard, Contract!Existing, phaseView, nameView
      <3> QED
        BY <3>5 DEF Contract!Next
    <2>7. CASE ~Live(l)
      <3>1. row' = row
        BY <1>8, <2>2, <2>7 DEF rollback_commit
      <3>2. phaseView' = phaseView /\ nameView' = nameView
        BY <3>1 DEF phaseView, nameView, PhaseOf, Live
      <3>3. phaseView[l] \notin {"draft", "published"}
        BY <1>1, <2>7, ExistingIsLive
      <3>4. Contract!Discard(l)
        BY <2>4, <2>5, <3>2, <3>3
        DEF Contract!Discard, Contract!Existing, phaseView, nameView
      <3> QED
        BY <3>4 DEF Contract!Next
    <2> QED
      BY <2>6, <2>7
  <1> QED
    BY <1>2, <1>3, <1>4, <1>5, <1>6, <1>7, <1>8 DEF StagingNext, Contract!Next

\* The processing request and the callbacks of process_dag.
LEMMA ProcessContract ==
    WellFormed /\ ProcessNext => [Contract!Next]_(Contract!contractVars)
  <1> SUFFICES ASSUME WellFormed, ProcessNext
               PROVE  [Contract!Next]_(Contract!contractVars)
    OBVIOUS
  <1> USE DEF backendVars
  <1>1. RequestsInv /\ RunsInv /\ row \in [Links -> IntegrityLink]
    BY Parts DEF StoreInv
  <1>2. ASSUME NEW h \in Handlers, NEW l \in Links, NEW recurrence \in BOOLEAN,
               process_staging_data_prepare(h, l, recurrence)
        PROVE  UNCHANGED Contract!contractVars
    <2>1. row' = row /\ req[h].op = "idle"
      BY <1>2 DEF process_staging_data_prepare, CanStart
    <2>2. PICK name \in final_table_name_to_write(l) :
            \/ req' = [req EXCEPT ![h] =
                  [Idle EXCEPT !.op = "process", !.link = l,
                   !.staging_table_name = row[l].staging_table_name,
                   !.final_table_name = name, !.flag = recurrence]]
            \/ req' = req
      BY <1>2 DEF process_staging_data_prepare
    <2> DEFINE q == [Idle EXCEPT !.op = "process", !.link = l,
                     !.staging_table_name = row[l].staging_table_name,
                     !.final_table_name = name, !.flag = recurrence]
    <2>3. q.op = "process"
      BY DEF Idle
    <2> HIDE DEF q
    <2>4. CASE req' = [req EXCEPT ![h] = q]
      BY <1>1, <2>1, <2>3, <2>4, SameAsked, SameRows
    <2>5. CASE req' = req
      BY <2>1, <2>5, SameRows, SameRequests
    <2> QED
      BY <2>2, <2>4, <2>5 DEF q
  <1>3. ASSUME NEW h \in Handlers, process_staging_data_commit(h)
        PROVE  [Contract!Next]_(Contract!contractVars)
    <2>1. req[h].op = "process" /\ req' = [req EXCEPT ![h] = Idle]
      BY <1>3 DEF process_staging_data_commit
    <2>2. PICK l \in Links : l = req[h].link
      BY <1>1, <2>1 DEF RequestsInv, RequestWellFormed
    <2>3. PICK n \in 1..MaxNames : n = req[h].final_table_name
      BY <1>1, <2>1, ConstantsAssumption DEF RequestsInv, RequestWellFormed, Request
    <2>4. SameAims
      BY <1>1, <2>1, SameAsked DEF Idle
    <2>5. CASE row' = row
      BY <2>4, <2>5, SameRows
    <2>6. CASE /\ Live(l) /\ ~name_taken(l, n)
               /\ row' = [row EXCEPT ![l] = [@ EXCEPT !.final_table_name = n,
                                             !.schedule = req[h].flag, !.metadata_id = TRUE]]
      <3> DEFINE x == [row[l] EXCEPT !.final_table_name = n, !.schedule = req[h].flag,
                                     !.metadata_id = TRUE]
      <3>1. x.state = row[l].state /\ x.last_retrieval = row[l].last_retrieval
            /\ x.final_table_name = n
        BY <1>1 DEF IntegrityLink
      <3>2. row' = [row EXCEPT ![l] = x]
        BY <2>6
      <3> HIDE DEF x
      <3>3. phaseView' = [phaseView EXCEPT ![l] = PhaseOf(l)']
            /\ nameView' = [nameView EXCEPT ![l] = IF Live(l)' THEN x.final_table_name ELSE 0]
        BY <1>1, <3>2, RowView
      <3>4. PhaseOf(l)' = phaseView[l] /\ Live(l)'
        BY <1>1, <2>6, <3>1, <3>2 DEF PhaseOf, phaseView, Live
      <3>5. phaseView' = phaseView
        BY <3>3, <3>4 DEF phaseView
      <3>6. Contract!Reserve(l, n)
        BY <1>1, <2>4, <2>6, <3>1, <3>3, <3>4, <3>5, FreeIsReservable, ExistingIsLive
        DEF SameAims, Contract!Reserve, Contract!Existing, phaseView, nameView
      <3> QED
        BY <3>6 DEF Contract!Next
    <2> QED
      BY <1>3, <2>2, <2>3, <2>5, <2>6 DEF process_staging_data_commit
  <1>4. ASSUME NEW h \in Handlers, NEW r \in Runs, process_dag_success_publish(h, r)
        PROVE  UNCHANGED Contract!contractVars
    <2>1. row' = row /\ req[h].op = "idle"
      BY <1>4 DEF process_dag_success_publish, CanStart
    <2>2. PICK published \in BOOLEAN :
            \/ req' = [req EXCEPT ![h] = [Idle EXCEPT !.op = "publish", !.link = run[r].link,
                          !.run = r, !.final_table_name = run[r].final_table_name,
                          !.flag = published]]
            \/ req' = req
      BY <1>4 DEF process_dag_success_publish
    <2> DEFINE q == [Idle EXCEPT !.op = "publish", !.link = run[r].link,
                          !.run = r, !.final_table_name = run[r].final_table_name,
                          !.flag = published]
    <2>3. q.op = "publish"
      BY DEF Idle
    <2> HIDE DEF q
    <2>4. CASE req' = [req EXCEPT ![h] = q]
      BY <1>1, <2>1, <2>3, <2>4, SameAsked, SameRows
    <2>5. CASE req' = req
      BY <2>1, <2>5, SameRows, SameRequests
    <2> QED
      BY <2>2, <2>4, <2>5 DEF q
  <1>5. ASSUME NEW h \in Handlers, process_dag_success_commit(h)
        PROVE  [Contract!Next]_(Contract!contractVars)
    <2>1. req[h].op = "publish" /\ req' = [req EXCEPT ![h] = Idle]
      BY <1>5 DEF process_dag_success_commit
    <2>2. PICK l \in Links : l = req[h].link
      BY <1>1, <2>1 DEF RequestsInv, RequestWellFormed
    <2>3. PICK n \in 1..MaxNames : n = req[h].final_table_name
      BY <1>1, <2>1, ConstantsAssumption DEF RequestsInv, RequestWellFormed, Request
    <2>4. SameAims
      BY <1>1, <2>1, SameAsked DEF Idle
    <2>5. CASE row' = row
      BY <2>4, <2>5, SameRows
    <2>6. CASE /\ Live(l) /\ ~name_taken(l, n)
               /\ row' = [row EXCEPT ![l] = retrieved(h)]
      <3> DEFINE x == retrieved(h)
      <3>1. x.state = row[l].state /\ x.last_retrieval # 0 /\ x.final_table_name = n
        BY <1>1, <2>1, <2>2, <2>3
        DEF IntegrityLink, retrieved, RequestsInv, RequestWellFormed
      <3>2. row' = [row EXCEPT ![l] = x]
        BY <2>6
      <3> HIDE DEF x
      <3>3. phaseView' = [phaseView EXCEPT ![l] = PhaseOf(l)']
            /\ nameView' = [nameView EXCEPT ![l] = IF Live(l)' THEN x.final_table_name ELSE 0]
        BY <1>1, <3>2, RowView
      <3>4. PhaseOf(l)' = "published" /\ Live(l)'
        BY <1>1, <2>6, <3>1, <3>2 DEF PhaseOf, Live
      <3>5. Contract!Publish(l, n)
        BY <1>1, <2>4, <2>6, <3>1, <3>3, <3>4, FreeIsReservable, ExistingIsLive
        DEF SameAims, Contract!Publish, Contract!Existing, phaseView, nameView
      <3> QED
        BY <3>5 DEF Contract!Next
    <2> QED
      BY <1>5, <2>2, <2>3, <2>5, <2>6 DEF process_dag_success_commit
  <1>6. ASSUME NEW r \in Runs, process_dag_failure_callback(r)
        PROVE  UNCHANGED Contract!contractVars
    BY <1>6, SameRows, SameRequests DEF process_dag_failure_callback
  <1> QED
    BY <1>2, <1>3, <1>4, <1>5, <1>6 DEF ProcessNext

\* What Airflow does changes no row.
LEMMA AirflowContract ==
    AirflowNext => UNCHANGED Contract!contractVars
  <1> SUFFICES ASSUME AirflowNext
               PROVE  UNCHANGED Contract!contractVars
    OBVIOUS
  <1>1. row' = row /\ req' = req
    BY DEF AirflowNext, RunStep, initial_ingestion, refresh_ingestion,
           drop_previous_final_table, read_transform_write_task,
           clean_staging_table_task, callback_lost, load_scheduled_integrity_links,
           trigger_process_dag, backendVars
  <1> QED
    BY <1>1, SameRows, SameRequests

\* Schedules, and the steps of a deletion.
LEMMA DeletionContract ==
    WellFormed /\ DeletionNext => [Contract!Next]_(Contract!contractVars)
  <1> SUFFICES ASSUME WellFormed, DeletionNext
               PROVE  [Contract!Next]_(Contract!contractVars)
    OBVIOUS
  <1> USE DEF backendVars
  <1>1. RequestsInv /\ RunsInv /\ row \in [Links -> IntegrityLink]
    BY Parts DEF StoreInv
  <1>2. ASSUME NEW l \in Links, update_schedule(l)
        PROVE  UNCHANGED Contract!contractVars
    <2> DEFINE x == [row[l] EXCEPT !.schedule = TRUE]
    <2>1. x.state = row[l].state /\ x.final_table_name = row[l].final_table_name
          /\ x.last_retrieval = row[l].last_retrieval /\ row' = [row EXCEPT ![l] = x]
      BY <1>1, <1>2 DEF IntegrityLink, update_schedule
    <2> HIDE DEF x
    <2>2. SameAims
      BY <1>2, SameRequests DEF update_schedule
    <2> QED
      BY <1>1, <2>1, <2>2, SameView
  <1>3. ASSUME NEW h \in Handlers, NEW l \in Links, clear_schedule(h, l)
        PROVE  UNCHANGED Contract!contractVars
    <2>1. row' = row /\ req[h].op = "idle"
          /\ req' = [req EXCEPT ![h] = [Idle EXCEPT !.op = "unschedule", !.link = l]]
      BY <1>3 DEF clear_schedule, CanStart
    <2> QED
      BY <1>1, <2>1, SameAsked, SameRows DEF Idle
  <1>4. ASSUME NEW h \in Handlers, clear_schedule_commit(h)
        PROVE  UNCHANGED Contract!contractVars
    <2>1. req[h].op = "unschedule" /\ req' = [req EXCEPT ![h] = Idle]
      BY <1>4 DEF clear_schedule_commit
    <2>2. PICK l \in Links : l = req[h].link
      BY <1>1, <2>1 DEF RequestsInv, RequestWellFormed
    <2>3. SameAims
      BY <1>1, <2>1, SameAsked DEF Idle
    <2>4. CASE row' = row
      BY <2>3, <2>4, SameRows
    <2>5. CASE row' = [row EXCEPT ![l].schedule = FALSE]
      <3> DEFINE x == [row[l] EXCEPT !.schedule = FALSE]
      <3>1. x.state = row[l].state /\ x.final_table_name = row[l].final_table_name
            /\ x.last_retrieval = row[l].last_retrieval /\ row' = [row EXCEPT ![l] = x]
        BY <1>1, <2>5 DEF IntegrityLink
      <3> HIDE DEF x
      <3> QED
        BY <1>1, <2>3, <3>1, SameView
    <2> QED
      BY <1>4, <2>2, <2>4, <2>5 DEF clear_schedule_commit
  <1>5. ASSUME NEW h \in Handlers, NEW l \in Links, delete_dataset_cancel(h, l)
        PROVE  [Contract!Next]_(Contract!contractVars)
    <2>1. row' = row /\ req[h].op = "idle" /\ Live(l)
      BY <1>5 DEF delete_dataset_cancel, CanStart
    <2>2. CASE req' = req
      BY <2>1, <2>2, SameRows, SameRequests
    <2>3. CASE \E q : q.op = "delete" /\ q.link = l /\ req' = [req EXCEPT ![h] = q]
      <3>1. PICK q : q.op = "delete" /\ q.link = l /\ req' = [req EXCEPT ![h] = q]
        BY <2>3
      <3>2. \A g \in Handlers : req'[g] = IF g = h THEN q ELSE req[g]
        BY <1>1, <3>1 DEF RequestsInv
      <3>3. DeletionsAsked' = DeletionsAsked \cup {l}
        BY <2>1, <3>1, <3>2 DEF DeletionsAsked
      <3>6. RollbacksDecided' = RollbacksDecided
        BY <2>1, <3>1, <3>2 DEF RollbacksDecided, RollingBack
      <3>4. phaseView' = phaseView /\ nameView' = nameView
        BY <2>1 DEF phaseView, nameView, PhaseOf, Live
      <3>5. Contract!Ask(l)
        BY <1>1, <2>1, <3>3, <3>4, <3>6, ExistingIsLive
        DEF Contract!Ask, Contract!Existing, phaseView, nameView
      <3> QED
        BY <3>5 DEF Contract!Next
    <2>4. [Idle EXCEPT !.op = "delete", !.link = l,
              !.staging_table_name = row[l].staging_table_name,
              !.final_table_name = row[l].final_table_name,
              !.flag = row[l].metadata_id].op = "delete"
          /\ [Idle EXCEPT !.op = "delete", !.link = l,
              !.staging_table_name = row[l].staging_table_name,
              !.final_table_name = row[l].final_table_name,
              !.flag = row[l].metadata_id].link = l
      BY DEF Idle
    <2> QED
      BY <1>5, <2>2, <2>3, <2>4 DEF delete_dataset_cancel
  <1>6. ASSUME NEW h \in Handlers, delete_dataset_data(h)
        PROVE  UNCHANGED Contract!contractVars
    <2>1. row' = row /\ req[h].op = "delete" /\ req' = [req EXCEPT ![h].op = "forget"]
      BY <1>6 DEF delete_dataset_data
    <2>2. \A g \in Handlers : req'[g] = IF g = h THEN [req[h] EXCEPT !.op = "forget"]
                                                 ELSE req[g]
      BY <1>1, <2>1 DEF RequestsInv
    <2>3. [req[h] EXCEPT !.op = "forget"].op = "forget"
          /\ [req[h] EXCEPT !.op = "forget"].link = req[h].link
      BY <1>1 DEF RequestsInv, Request
    <2>4. SameAims
      BY <2>1, <2>2, <2>3 DEF SameAims, DeletionsAsked, RollbacksDecided, RollingBack
    <2> QED
      BY <2>1, <2>4, SameRows
  <1>7. ASSUME NEW h \in Handlers, delete_dataset_row(h)
        PROVE  [Contract!Next]_(Contract!contractVars)
    <2>1. req[h].op = "forget" /\ req' = [req EXCEPT ![h] = Idle]
      BY <1>7 DEF delete_dataset_row
    <2>2. PICK l \in Links : l = req[h].link
      BY <1>1, <2>1 DEF RequestsInv, RequestWellFormed
    <2> DEFINE x == [Blank EXCEPT !.state = "deleted"]
    <2>3. row' = [row EXCEPT ![l] = x] /\ x.state = "deleted"
      BY <1>7, <2>2 DEF delete_dataset_row, Blank
    <2> HIDE DEF x
    <2>4. phaseView' = [phaseView EXCEPT ![l] = PhaseOf(l)']
          /\ nameView' = [nameView EXCEPT ![l] = IF Live(l)' THEN x.final_table_name ELSE 0]
      BY <1>1, <2>3, RowView
    <2>5. PhaseOf(l)' = "deleted" /\ ~Live(l)'
      BY <1>1, <2>3 DEF PhaseOf, Live
    <2>6. \A g \in Handlers : req'[g] = IF g = h THEN Idle ELSE req[g]
      BY <1>1, <2>1 DEF RequestsInv
    <2>7. l \in DeletionsAsked /\ DeletionsAsked' \in {DeletionsAsked, DeletionsAsked \ {l}}
      BY <2>1, <2>2, <2>6 DEF DeletionsAsked, Idle
    <2>9. RollbacksDecided' = RollbacksDecided
      BY <2>1, <2>2, <2>6 DEF RollbacksDecided, RollingBack, Idle
    <2>8. Contract!Delete(l)
      BY <2>4, <2>5, <2>7, <2>9 DEF Contract!Delete, phaseView, nameView
    <2> QED
      BY <2>8 DEF Contract!Next
  <1> QED
    BY <1>2, <1>3, <1>4, <1>5, <1>6, <1>7 DEF DeletionNext

\* Whatever the step, when the invariants of the lifecycle hold.
LEMMA StepContract == WellFormed /\ [Next]_vars => [Contract!Next]_(Contract!contractVars)
  <1> SUFFICES ASSUME WellFormed, [Next]_vars
               PROVE  [Contract!Next]_(Contract!contractVars)
    OBVIOUS
  <1>1. CASE UNCHANGED vars
    BY <1>1, SameRows, SameRequests DEF vars
  <1> QED
    BY <1>1, StagingContract, ProcessContract, AirflowContract, DeletionContract DEF Next

\* The lifecycle implements the contract: requests, runs and callbacks, however they
\* interleave and whatever fails, take a dataset back only on a decision made when it was
\* a draft, never delete one unasked and never give one name twice in an organization
\* (KeepsContract).
THEOREM ContractKept == Spec => KeepsContract
  BY StepContract, ContractInit, WellFormedAlways, PTL DEF Spec, KeepsContract, Contract!Spec

-----------------------------------------------------------------------------
(* What the contract says of published datasets. *)

\* The row of a published dataset disappears only at the end of a deletion, or of a
\* rollback.
LEMMA PublishedRowStep ==
    ASSUME WellFormed, [Next]_vars, NEW k \in Links, Published(k), ~Live(k)'
    PROVE  \E h \in Handlers : req[h].op \in {"forget", "discard"} /\ req[h].link = k
  <1> DEFINE Kept == \A l \in Links : Published(l) /\ ~Live(l)'
                       => \E h \in Handlers : /\ req[h].op \in {"forget", "discard"}
                                              /\ req[h].link = l
  <1>1. Kept
    <2> USE DEF backendVars, vars
    <2>1. TypeOK /\ row \in [Links -> IntegrityLink]
      BY DEF WellFormed, TypeOK
    <2>2. CASE StagingNext
      <3>1. ASSUME NEW h \in Handlers, rollback_commit(h)
            PROVE  Kept
        BY <2>1, <3>1 DEF rollback_commit, Published, Live
      <3>2. ASSUME NEW l \in Links, NEW isFile \in BOOLEAN, submit_staging(l, isFile)
            PROVE  Kept
        BY <2>1, <3>2 DEF submit_staging, fresh, Published, Live, Blank
      <3>3. ASSUME NEW h \in Handlers, NEW l \in Links, NEW isFile \in BOOLEAN,
                   edit_staging_commit(h, l, isFile)
            PROVE  Kept
        BY <2>1, <3>3 DEF edit_staging_commit, process_import_source, Published, Live, IntegrityLink
      <3>4. ASSUME UNCHANGED row
            PROVE  Kept
        BY <3>4 DEF Published, Live
      <3> QED
        BY <2>2, <3>1, <3>2, <3>3, <3>4
        DEF StagingNext, edit_staging_trigger, staging_dag_success_callback,
            staging_dag_failure_callback, rollback_drop
    <2>3. CASE ProcessNext
      <3>1. ASSUME NEW h \in Handlers, process_staging_data_commit(h)
            PROVE  Kept
        <4> DEFINE m == req[h].link
                   x == [row[m] EXCEPT !.final_table_name = req[h].final_table_name,
                                       !.schedule = req[h].flag, !.metadata_id = TRUE]
        <4>1. row' = [row EXCEPT ![m] = x] \/ UNCHANGED row
          BY <3>1 DEF process_staging_data_commit
        <4>2. m \in Links => x.state = row[m].state
          BY <2>1 DEF IntegrityLink
        <4> HIDE DEF x
        <4> QED
          BY <2>1, <4>1, <4>2 DEF Published, Live
      <3>2. ASSUME NEW h \in Handlers, process_dag_success_commit(h)
            PROVE  Kept
        BY <2>1, <3>2 DEF process_dag_success_commit, retrieved, Published, Live, IntegrityLink
      <3>3. ASSUME UNCHANGED row
            PROVE  Kept
        BY <3>3 DEF Published, Live
      <3> QED
        BY <2>3, <3>1, <3>2, <3>3
        DEF ProcessNext, process_staging_data_prepare, process_dag_success_publish,
            process_dag_failure_callback
    <2>4. CASE AirflowNext
      <3>1. UNCHANGED row
        BY <2>4 DEF AirflowNext, RunStep, initial_ingestion, refresh_ingestion,
            drop_previous_final_table, read_transform_write_task,
            clean_staging_table_task, callback_lost, load_scheduled_integrity_links,
            trigger_process_dag
      <3> QED
        BY <3>1 DEF Published, Live
    <2>5. CASE DeletionNext
      <3>1. ASSUME NEW h \in Handlers, delete_dataset_row(h)
            PROVE  Kept
        BY <2>1, <3>1 DEF delete_dataset_row, Published, Live
      <3>2. ASSUME NEW l \in Links, update_schedule(l)
            PROVE  Kept
        BY <2>1, <3>2 DEF update_schedule, Published, Live, IntegrityLink
      <3>3. ASSUME NEW h \in Handlers, clear_schedule_commit(h)
            PROVE  Kept
        BY <2>1, <3>3 DEF clear_schedule_commit, Published, Live, IntegrityLink
      <3>4. ASSUME UNCHANGED row
            PROVE  Kept
        BY <3>4 DEF Published, Live
      <3> QED
        BY <2>5, <3>1, <3>2, <3>3, <3>4
        DEF DeletionNext, clear_schedule, delete_dataset_cancel, delete_dataset_data
    <2>6. CASE UNCHANGED vars
      BY <2>6 DEF Published, Live
    <2> QED
      BY <2>2, <2>3, <2>4, <2>5, <2>6 DEF Next
  <1> QED
    BY <1>1

\* A rollback is decided only of a dataset that is not published.
LEMMA PublishedNotDoomed ==
    ASSUME WellFormed, [Next]_vars, NEW l \in Links, Published(l), ~RollingBack(l)
    PROVE  ~RollingBack(l)'
  <1>1. l \notin RollbacksDecided /\ PhaseOf(l) = "published"
    BY DEF RollbacksDecided, Published, PhaseOf, Live
  <1>2. CASE UNCHANGED Contract!contractVars
    BY <1>1, <1>2 DEF Contract!contractVars, RollbacksDecided
  <1>3. ASSUME NEW m \in Links, Contract!Doom(m)
        PROVE  ~RollingBack(l)'
    <2>1. m # l
      BY <1>1, <1>3 DEF Contract!Doom
    <2>2. RollbacksDecided' = RollbacksDecided \cup {m}
      BY <1>3 DEF Contract!Doom
    <2> QED
      BY <1>1, <2>1, <2>2 DEF RollbacksDecided
  <1>4. ASSUME RollbacksDecided' \subseteq RollbacksDecided
        PROVE  ~RollingBack(l)'
    BY <1>1, <1>4 DEF RollbacksDecided
  <1>5. ASSUME NEW m \in Links, NEW n,
               \/ Contract!Create(m) \/ Contract!Discard(m) \/ Contract!Ask(m)
               \/ Contract!Delete(m) \/ Contract!Reserve(m, n) \/ Contract!Publish(m, n)
        PROVE  RollbacksDecided' \subseteq RollbacksDecided
    BY <1>5 DEF Contract!Create, Contract!Discard, Contract!Ask, Contract!Delete,
                Contract!Reserve, Contract!Publish
  <1>6. [Contract!Next]_(Contract!contractVars)
    BY StepContract
  <1> QED
    BY <1>2, <1>3, <1>4, <1>5, <1>6 DEF Contract!Next

\* A published dataset that no rollback decided earlier is about to delete disappears only
\* at the end of a deletion request: no staging failure callback that looks at it, however
\* late, and no other handler or task removes its row (PublishedSurvives, staging.py
\* is_rerun).
THEOREM PublishedSurvivesAlways == Spec => PublishedSurvives
  <1> DEFINE Kept == \A l \in Links : Published(l) /\ ~RollingBack(l) =>
                       /\ ~RollingBack(l)'
                       /\ \/ Live(l)'
                          \/ \E h \in Handlers : req[h].op = "forget" /\ req[h].link = l
  <1>1. WellFormed /\ [Next]_vars => Kept
    BY PublishedRowStep, PublishedNotDoomed DEF RollingBack
  <1>2. Spec => [][Kept]_vars
    BY <1>1, WellFormedAlways, PTL DEF Spec
  <1> QED
    BY <1>2 DEF PublishedSurvives

-----------------------------------------------------------------------------
(* What the contract says of names, read in the lifecycle. *)

\* A dataset that does not exist shows no name.
LEMMA AbsentIsNameless ==
    ASSUME NEW l \in Links, row \in [Links -> IntegrityLink], ~Contract!Existing(l)
    PROVE  nameView[l] = 0
  BY ExistingIsLive DEF Contract!Existing, nameView, phaseView

\* The contract preserves the reservation of names.
LEMMA NamesStep ==
    ASSUME row \in [Links -> IntegrityLink], Contract!NamesReserved,
           [Contract!Next]_(Contract!contractVars)
    PROVE  Contract!NamesReserved'
  <1>1. CASE UNCHANGED Contract!contractVars
    BY <1>1 DEF Contract!contractVars, Contract!NamesReserved, Contract!Existing
  <1>2. ASSUME NEW l \in Links, Contract!Create(l)
        PROVE  Contract!NamesReserved'
    <2>1. nameView[l] = 0
      BY <1>2, AbsentIsNameless DEF Contract!Create, Contract!Existing
    <2>2. phaseView' = [phaseView EXCEPT ![l] = "draft"] /\ nameView' = nameView
      BY <1>2 DEF Contract!Create, phaseView, nameView
    <2> QED
      BY <2>1, <2>2 DEF Contract!NamesReserved, Contract!Existing, phaseView, nameView
  <1>3. ASSUME NEW l \in Links,
               (Contract!Discard(l) /\ Contract!Existing(l)) \/ Contract!Delete(l)
        PROVE  Contract!NamesReserved'
    <2>1. PICK p \in {"discarded", "deleted"} :
               phaseView' = [phaseView EXCEPT ![l] = p] /\ nameView' = [nameView EXCEPT ![l] = 0]
      BY <1>3 DEF Contract!Discard, Contract!Delete, phaseView, nameView
    <2> QED
      BY <2>1 DEF Contract!NamesReserved, Contract!Existing, phaseView, nameView
  <1>4. ASSUME NEW l \in Links,
               \/ Contract!Ask(l) \/ Contract!Doom(l)
               \/ Contract!Discard(l) /\ ~Contract!Existing(l)
        PROVE  Contract!NamesReserved'
    BY <1>4 DEF Contract!Ask, Contract!Doom, Contract!Discard, Contract!NamesReserved, Contract!Existing
  <1>5. ASSUME NEW l \in Links, NEW n \in 1..MaxNames,
               Contract!Reserve(l, n) \/ Contract!Publish(l, n)
        PROVE  Contract!NamesReserved'
    <2>1. phaseView' \in {phaseView, [phaseView EXCEPT ![l] = "published"]}
          /\ nameView' = [nameView EXCEPT ![l] = n]
      BY <1>5 DEF Contract!Reserve, Contract!Publish, phaseView, nameView
    <2>2. phaseView[l] \in {"draft", "published"} /\ Contract!Reservable(l, n)
      BY <1>5 DEF Contract!Reserve, Contract!Publish, Contract!Existing, phaseView
    <2>3. \A m \in Links : m # l => phaseView'[m] = phaseView[m] /\ nameView'[m] = nameView[m]
      BY <2>1 DEF phaseView, nameView
    <2>4. nameView'[l] = n
      BY <2>1 DEF nameView
    <2>5. \A m \in Links \ {l} :
              phaseView[m] \in {"draft", "published"}
              /\ integrity_organization[m] = integrity_organization[l] => nameView[m] # n
      BY <2>2 DEF Contract!Reservable, Contract!Existing, phaseView, nameView
    <2>6. \A k, m \in Links :
              k # m /\ phaseView'[k] \in {"draft", "published"}
                    /\ phaseView'[m] \in {"draft", "published"}
                    /\ integrity_organization[k] = integrity_organization[m]
                    /\ nameView'[k] # 0
                 => nameView'[k] # nameView'[m]
      <3> SUFFICES ASSUME NEW k \in Links, NEW m \in Links, k # m,
                          phaseView'[k] \in {"draft", "published"},
                          phaseView'[m] \in {"draft", "published"},
                          integrity_organization[k] = integrity_organization[m],
                          nameView'[k] # 0
                   PROVE  nameView'[k] # nameView'[m]
        OBVIOUS
      <3>1. CASE k = l
        BY <2>3, <2>4, <2>5, <3>1
      <3>2. CASE m = l
        BY <2>3, <2>4, <2>5, <3>2
      <3>3. CASE k # l /\ m # l
        BY <2>3, <3>3 DEF Contract!NamesReserved, Contract!Existing, phaseView, nameView
      <3> QED
        BY <3>1, <3>2, <3>3
    <2> QED
      BY <2>6 DEF Contract!NamesReserved, Contract!Existing, phaseView, nameView
  <1> QED
    BY <1>1, <1>2, <1>3, <1>4, <1>5 DEF Contract!Next

\* Hence two live datasets of one organization never name the same table, although
\* the names are chosen by looking at the tables and committed later (process.py,
\* the unique constraint of integrity_link).
THEOREM NamesReservedAlways == Spec => []Contract!NamesReserved
  <1>1. Init => Contract!NamesReserved
    BY DEF Init, Contract!NamesReserved, Contract!Existing, PhaseOf, Blank
  <1>2. WellFormed /\ Contract!NamesReserved /\ [Next]_vars => Contract!NamesReserved'
    BY StepContract, NamesStep, Parts DEF StoreInv
  <1> QED
    BY <1>1, <1>2, WellFormedAlways, PTL DEF Spec

-----------------------------------------------------------------------------
(* Uploads and the staging runs that read them *)

Staged(r) == run[r].kind = "staging"

\* Later stagings of a dataset have later uploads, and no two datasets share one; the row
\* names the last. What was staged first, or is about to be, is on disk until it is read.
UploadOrder ==
    /\ \A l \in Links : row[l].staging_table_name <= lastUpload
    /\ \A r \in Runs : Staged(r) => run[r].source <= lastUpload
    /\ \A h \in Handlers : req[h].op = "edit" => req[h].upload <= lastUpload
    /\ \A g, h \in Handlers : req[g].op = "edit" /\ req[h].op = "edit" => g = h
    /\ \A r \in Runs : Staged(r) /\ Live(run[r].link)
          => run[r].source <= row[run[r].link].staging_table_name
    /\ \A h \in Handlers : req[h].op = "edit" /\ Live(req[h].link)
          => req[h].upload <= row[req[h].link].staging_table_name
    /\ \A r, s \in Runs : Staged(r) /\ Staged(s) /\ run[s].link = run[r].link /\ s < r
          => run[s].source < run[r].source
    /\ \A r \in Runs, h \in Handlers :
          Staged(r) /\ req[h].op = "edit" /\ req[h].link = run[r].link
          => run[r].source < req[h].upload
    /\ \A r \in Runs, l \in Links : Staged(r) /\ run[r].link # l
          => run[r].source # row[l].staging_table_name
    /\ \A h \in Handlers, l \in Links : req[h].op = "edit" /\ req[h].link # l
          => req[h].upload # row[l].staging_table_name
    /\ \A h \in Handlers : req[h].op = "edit" /\ req[h].flag => req[h].upload \in files

\* A step that starts no staging run and moves the others only forward.
StagedQuiet ==
    \A r \in Runs :
        /\ Staged(r)' <=> Staged(r)
        /\ Staged(r) => /\ run'[r].link = run[r].link /\ run'[r].source = run[r].source
                        /\ run'[r].is_file = run[r].is_file
                        /\ run'[r].step = "ingest" => run[r].step = "ingest"

\* What a step keeps that gives no dataset an upload, touches no file and starts no edit.
NoUpload ==
    /\ lastUpload' = lastUpload /\ files' = files
    /\ \A l \in Links : /\ row'[l].staging_table_name \in {row[l].staging_table_name, 0}
                        /\ Live(l)' => /\ Live(l)
                                       /\ row'[l].staging_table_name = row[l].staging_table_name
    /\ \A h \in Handlers : req'[h].op = "edit" => req'[h] = req[h]

UploadQuiet == StagedQuiet /\ NoUpload

\* What the types say of uploads.
LEMMA UploadNumbers ==
    ASSUME WellFormed
    PROVE  /\ lastUpload \in Nat
           /\ \A l \in Links : row[l].staging_table_name \in Nat
           /\ \A r \in Runs : Staged(r) => /\ run[r].source \in Nat \ {0}
                                           /\ run[r].link \in Links
           /\ \A h \in Handlers : req[h].op = "edit" => /\ req[h].upload \in Nat \ {0}
                                                        /\ req[h].link \in Links
           /\ Runs \subseteq Nat /\ lastRun \in Nat
           /\ \A r \in Runs : Staged(r) => r <= lastRun
  <1>1. RunsInv /\ RequestsInv /\ StoreInv
    BY Parts
  <1>2. \A l \in Links : row[l] \in IntegrityLink
    BY <1>1 DEF StoreInv
  <1>3. ASSUME NEW r \in Runs, Staged(r)
        PROVE  /\ run[r].source \in Nat \ {0} /\ run[r].link \in Links /\ r <= lastRun
    <2>1. run[r] \in DagRun /\ RunWellFormed(run[r]) /\ run[r] # NoRun
      BY <1>1, <1>3 DEF RunsInv, Staged, NoRun
    <2>2. r <= lastRun
      BY <1>1, <2>1, ConstantsAssumption DEF RunsInv, Runs
    <2> QED
      BY <1>3, <2>1, <2>2, ConstantsAssumption DEF DagRun, RunWellFormed, Staged
  <1>4. ASSUME NEW h \in Handlers, req[h].op = "edit"
        PROVE  req[h].upload \in Nat \ {0} /\ req[h].link \in Links
    BY <1>1, <1>4, ConstantsAssumption DEF RequestsInv, Request, RequestWellFormed
  <1> QED
    BY <1>1, <1>2, <1>3, <1>4, ConstantsAssumption
    DEF StoreInv, RunsInv, IntegrityLink, Runs

\* Such steps keep UploadOrder.
LEMMA QuietKeepsUploads ==
    ASSUME WellFormed, UploadOrder, UploadQuiet
    PROVE  UploadOrder'
  <1>1. ASSUME NEW r \in Runs, Staged(r)'
        PROVE  /\ Staged(r) /\ run'[r].link = run[r].link /\ run'[r].source = run[r].source
               /\ run'[r].is_file = run[r].is_file
               /\ run'[r].step = "ingest" => run[r].step = "ingest"
    BY <1>1 DEF UploadQuiet, StagedQuiet
  <1>2. ASSUME NEW r \in Runs, Staged(r)
        PROVE  Staged(r)' /\ run'[r].link = run[r].link
    BY <1>2 DEF UploadQuiet, StagedQuiet
  <1>3. ASSUME NEW h \in Handlers, req'[h].op = "edit"
        PROVE  req'[h] = req[h]
    BY <1>3 DEF UploadQuiet, NoUpload
  <1>4. lastUpload' = lastUpload /\ files' = files
    BY DEF UploadQuiet, NoUpload
  <1>5. ASSUME NEW l \in Links
        PROVE  /\ row'[l].staging_table_name \in {row[l].staging_table_name, 0}
               /\ Live(l)' => /\ Live(l)
                              /\ row'[l].staging_table_name = row[l].staging_table_name
    BY <1>5 DEF UploadQuiet, NoUpload
  <1>6. /\ \A l \in Links : row'[l].staging_table_name <= lastUpload'
        /\ \A r \in Runs : Staged(r)' => run'[r].source <= lastUpload'
        /\ \A h \in Handlers : req'[h].op = "edit" => req'[h].upload <= lastUpload'
        /\ \A g, h \in Handlers : req'[g].op = "edit" /\ req'[h].op = "edit" => g = h
    BY <1>1, <1>3, <1>4, <1>5, UploadNumbers DEF UploadOrder
  <1>7. /\ \A r \in Runs : Staged(r)' /\ Live(run[r].link)'
              => run'[r].source <= row'[run'[r].link].staging_table_name
        /\ \A h \in Handlers : req'[h].op = "edit" /\ Live(req[h].link)'
              => req'[h].upload <= row'[req'[h].link].staging_table_name
    BY <1>1, <1>3, <1>5, UploadNumbers DEF UploadOrder, Live
  <1>8. /\ \A r, s \in Runs :
              Staged(r)' /\ Staged(s)' /\ run'[s].link = run'[r].link /\ s < r
              => run'[s].source < run'[r].source
        /\ \A r \in Runs, h \in Handlers :
              Staged(r)' /\ req'[h].op = "edit" /\ req'[h].link = run'[r].link
              => run'[r].source < req'[h].upload
    BY <1>1, <1>3 DEF UploadOrder
  <1>9. /\ \A r \in Runs, l \in Links : Staged(r)' /\ run'[r].link # l
              => run'[r].source # row'[l].staging_table_name
        /\ \A h \in Handlers, l \in Links : req'[h].op = "edit" /\ req'[h].link # l
              => req'[h].upload # row'[l].staging_table_name
    BY <1>1, <1>3, <1>5, UploadNumbers DEF UploadOrder
  <1>10. \A h \in Handlers : req'[h].op = "edit" /\ req'[h].flag => req'[h].upload \in files'
    BY <1>3, <1>4 DEF UploadOrder
  <1> QED
    BY <1>6, <1>7, <1>8, <1>9, <1>10 DEF UploadOrder

\* A run that moves to a later step is still the run it was.
LEMMA GotoStaged ==
    ASSUME WellFormed, NEW r \in Runs, NEW step, step # "ingest", run' = Goto(r, step)
    PROVE  StagedQuiet
  <1>1. run \in [Runs -> DagRun]
    BY DEF WellFormed, TypeOK
  <1>2. ASSUME NEW s \in Runs
        PROVE  /\ run'[s].kind = run[s].kind /\ run'[s].link = run[s].link
               /\ run'[s].source = run[s].source /\ run'[s].is_file = run[s].is_file
               /\ run'[s].step = IF s = r THEN step ELSE run[s].step
    BY <1>1 DEF Goto, DagRun
  <1> QED
    BY <1>2 DEF StagedQuiet, Staged

\* So are cancelled ones.
LEMMA CancelledStaged ==
    ASSUME WellFormed, NEW S, run' = Cancelled(S)
    PROVE  StagedQuiet
  <1>1. run \in [Runs -> DagRun]
    BY DEF WellFormed, TypeOK
  <1>2. ASSUME NEW s \in Runs
        PROVE  /\ run'[s].kind = run[s].kind /\ run'[s].link = run[s].link
               /\ run'[s].source = run[s].source /\ run'[s].is_file = run[s].is_file
               /\ run'[s].step \in {run[s].step, "cancelled"}
    BY <1>1 DEF Cancelled, DagRun
  <1> QED
    BY <1>2 DEF StagedQuiet, Staged

\* A new run of process_dag is none of staging_dag.
LEMMA NewRunStaged ==
    ASSUME WellFormed, NEW conf, conf.kind # "staging",
           run' = [run EXCEPT ![lastRun + 1] = conf]
    PROVE  StagedQuiet
  <1>1. /\ run \in [Runs -> DagRun] /\ lastRun \in Nat
        /\ \A r \in Runs : r > lastRun => run[r] = NoRun
    BY ConstantsAssumption DEF WellFormed, TypeOK
  <1>2. ASSUME NEW s \in Runs
        PROVE  /\ Staged(s)' <=> Staged(s)
               /\ Staged(s) => run'[s] = run[s]
    <2>1. s = lastRun + 1 => run[s] = NoRun /\ run'[s] = conf
      BY <1>1 DEF Runs
    <2>2. s # lastRun + 1 => run'[s] = run[s]
      BY <1>1
    <2>3. NoRun.kind # "staging"
      BY DEF NoRun
    <2> QED
      BY <2>1, <2>2, <2>3 DEF Staged
  <1> QED
    BY <1>2 DEF StagedQuiet

\* Outside staging.py no staging run starts.
LEMMA RunsStayStaged ==
    ASSUME WellFormed, ProcessNext \/ AirflowNext \/ DeletionNext
    PROVE  StagedQuiet
  <1> USE DEF airflowVars
  <1>1. CASE UNCHANGED run
    BY <1>1 DEF StagedQuiet, Staged
  <1>2. ASSUME NEW l, remove_ingestion_dag(l)
        PROVE  StagedQuiet
    BY <1>1, <1>2, CancelledStaged DEF remove_ingestion_dag
  <1>3. CASE ProcessNext
    <2>1. ASSUME NEW h \in Handlers, process_staging_data_commit(h)
          PROVE  StagedQuiet
      <3>1. ManualRun(h).kind # "staging"
        BY DEF ManualRun, NoRun
      <3> QED
        BY <1>1, <2>1, <3>1, NewRunStaged DEF process_staging_data_commit, Trigger
    <2>2. ASSUME NEW h \in Handlers, NEW r \in Runs, process_dag_success_publish(h, r)
          PROVE  StagedQuiet
      BY <2>2, GotoStaged DEF process_dag_success_publish, CallbackCalled
    <2>3. ASSUME NEW r \in Runs, process_dag_failure_callback(r)
          PROVE  StagedQuiet
      BY <2>3, GotoStaged DEF process_dag_failure_callback, CallbackCalled
    <2> QED
      BY <1>1, <1>2, <1>3, <2>1, <2>2, <2>3
      DEF ProcessNext, process_staging_data_prepare, process_dag_success_commit
  <1>4. CASE AirflowNext
    <2>1. ASSUME NEW r \in Runs, initial_ingestion(r)
          PROVE  StagedQuiet
      BY <2>1, GotoStaged DEF initial_ingestion
    <2>2. ASSUME NEW r \in Runs, refresh_ingestion(r)
          PROVE  StagedQuiet
      BY <2>2, GotoStaged DEF refresh_ingestion, after_failure
    <2>3. ASSUME NEW r \in Runs, drop_previous_final_table(r)
          PROVE  StagedQuiet
      BY <2>3, GotoStaged DEF drop_previous_final_table
    <2>4. ASSUME NEW r \in Runs, read_transform_write_task(r)
          PROVE  StagedQuiet
      <3>1. CASE run' = Goto(r, after_failure(r))
        BY <3>1, GotoStaged DEF after_failure
      <3>2. CASE run' = [run EXCEPT ![r] = [@ EXCEPT !.step = "clean", !.wrote = TRUE]]
        <4>1. run \in [Runs -> DagRun]
          BY DEF WellFormed, TypeOK
        <4>2. ASSUME NEW s \in Runs
              PROVE  /\ run'[s].kind = run[s].kind /\ run'[s].link = run[s].link
                     /\ run'[s].source = run[s].source /\ run'[s].is_file = run[s].is_file
                     /\ run'[s].step = IF s = r THEN "clean" ELSE run[s].step
          BY <3>2, <4>1 DEF DagRun
        <4> QED
          BY <4>2 DEF StagedQuiet, Staged
      <3> QED
        BY <2>4, <3>1, <3>2 DEF read_transform_write_task
    <2>5. ASSUME NEW r \in Runs, clean_staging_table_task(r)
          PROVE  StagedQuiet
      BY <2>5, GotoStaged DEF clean_staging_table_task
    <2>6. ASSUME NEW r \in Runs, callback_lost(r)
          PROVE  StagedQuiet
      BY <2>6, GotoStaged DEF callback_lost, CallbackCalled
    <2>7. ASSUME NEW l \in Links, trigger_process_dag(l)
          PROVE  StagedQuiet
      <3>1. ScheduledRun(l).kind # "staging"
        BY DEF ScheduledRun, NoRun
      <3> QED
        BY <2>7, <3>1, NewRunStaged DEF trigger_process_dag
    <2> QED
      BY <1>1, <1>4, <2>1, <2>2, <2>3, <2>4, <2>5, <2>6, <2>7
      DEF AirflowNext, RunStep, load_scheduled_integrity_links
  <1>5. CASE DeletionNext
    <2>1. ASSUME NEW h \in Handlers, NEW l \in Links, delete_dataset_cancel(h, l)
          PROVE  StagedQuiet
      BY <1>1, <2>1, CancelledStaged DEF delete_dataset_cancel
    <2>2. ASSUME NEW h \in Handlers, delete_dataset_row(h)
          PROVE  StagedQuiet
      BY <2>2, CancelledStaged DEF delete_dataset_row
    <2> QED
      BY <1>1, <1>2, <1>5, <2>1, <2>2
      DEF DeletionNext, update_schedule, clear_schedule, clear_schedule_commit, delete_dataset_data
  <1> QED
    BY <1>3, <1>4, <1>5

\* One row that keeps its upload or is gone, one request that is not an edit.
LEMMA OneRowNoUpload ==
    ASSUME WellFormed, UNCHANGED <<lastUpload, files>>,
           \/ row' = row
           \/ \E l \in Links : \E x :
                 /\ row' = [row EXCEPT ![l] = x]
                 /\ \/ x.state # "live" /\ x.staging_table_name = 0
                    \/ Live(l) /\ x.staging_table_name = row[l].staging_table_name,
           \/ req' = req
           \/ \E h \in Handlers : \E q :
                 q.op # "edit" /\ req' = [req EXCEPT ![h] = q]
    PROVE  NoUpload
  <1>1. row \in [Links -> IntegrityLink] /\ req \in [Handlers -> Request]
    BY DEF WellFormed, TypeOK
  <1>2. ASSUME NEW l \in Links
        PROVE  /\ row'[l].staging_table_name \in {row[l].staging_table_name, 0}
               /\ Live(l)' => /\ Live(l)
                              /\ row'[l].staging_table_name = row[l].staging_table_name
    BY <1>1 DEF Live
  <1>3. ASSUME NEW h \in Handlers, req'[h].op = "edit"
        PROVE  req'[h] = req[h]
    BY <1>1, <1>3
  <1> QED
    BY <1>2, <1>3 DEF NoUpload

\* The process routes, Airflow and deletions give no dataset an upload.
LEMMA OthersUploadNothing ==
    ASSUME WellFormed, ProcessNext \/ AirflowNext \/ DeletionNext
    PROVE  NoUpload
  <1> USE DEF backendVars
  <1>1. /\ \A l \in Links : row[l] \in IntegrityLink
        /\ \A h \in Handlers : RequestWellFormed(req[h]) /\ req[h] \in Request
    BY DEF WellFormed, TypeOK
  <1>2. Idle.op # "edit"
    BY DEF Idle
  <1>3. CASE UNCHANGED <<row, lastUpload, files, req>>
    BY <1>3, OneRowNoUpload
  <1>4. CASE AirflowNext
    BY <1>3, <1>4
    DEF AirflowNext, RunStep, initial_ingestion, refresh_ingestion,
        drop_previous_final_table, read_transform_write_task, clean_staging_table_task,
        callback_lost, load_scheduled_integrity_links, trigger_process_dag
  <1>5. ASSUME NEW h \in Handlers, NEW l \in Links, NEW recurrence \in BOOLEAN,
               process_staging_data_prepare(h, l, recurrence)
        PROVE  NoUpload
    <2>1. CASE req' = req
      BY <1>3, <1>5, <2>1 DEF process_staging_data_prepare
    <2>2. ASSUME NEW name,
                 req' = [req EXCEPT ![h] = [Idle EXCEPT !.op = "process", !.link = l,
                           !.staging_table_name = row[l].staging_table_name,
                           !.final_table_name = name, !.flag = recurrence]]
          PROVE  NoUpload
      <3> DEFINE q == [Idle EXCEPT !.op = "process", !.link = l,
                           !.staging_table_name = row[l].staging_table_name,
                           !.final_table_name = name, !.flag = recurrence]
      <3>1. q.op # "edit" /\ req' = [req EXCEPT ![h] = q]
        BY <2>2 DEF Idle
      <3> HIDE DEF q
      <3> QED
        BY <1>5, <3>1, OneRowNoUpload DEF process_staging_data_prepare
    <2> QED
      BY <1>5, <2>1, <2>2 DEF process_staging_data_prepare
  <1>6. ASSUME NEW h \in Handlers, process_staging_data_commit(h)
        PROVE  NoUpload
    <2> DEFINE l == req[h].link
               x == [row[l] EXCEPT !.final_table_name = req[h].final_table_name,
                                   !.schedule = req[h].flag, !.metadata_id = TRUE]
    <2>1. /\ l \in Links /\ x.staging_table_name = row[l].staging_table_name
          /\ req' = [req EXCEPT ![h] = Idle]
          /\ row' = row \/ (Live(l) /\ row' = [row EXCEPT ![l] = x])
          /\ UNCHANGED <<lastUpload, files>>
      BY <1>1, <1>6 DEF process_staging_data_commit, RequestWellFormed, IntegrityLink
    <2> HIDE DEF x, l
    <2> QED
      BY <1>2, <2>1, OneRowNoUpload
  <1>7. ASSUME NEW h \in Handlers, NEW r \in Runs, process_dag_success_publish(h, r)
        PROVE  NoUpload
    <2>1. CASE req' = req
      BY <1>3, <1>7, <2>1 DEF process_dag_success_publish
    <2>2. ASSUME NEW published \in BOOLEAN,
                 req' = [req EXCEPT ![h] = [Idle EXCEPT !.op = "publish", !.link = run[r].link,
                           !.run = r, !.final_table_name = run[r].final_table_name,
                           !.flag = published]]
          PROVE  NoUpload
      <3> DEFINE q == [Idle EXCEPT !.op = "publish", !.link = run[r].link, !.run = r,
                           !.final_table_name = run[r].final_table_name, !.flag = published]
      <3>1. q.op # "edit" /\ req' = [req EXCEPT ![h] = q]
        BY <2>2 DEF Idle
      <3> HIDE DEF q
      <3> QED
        BY <1>7, <3>1, OneRowNoUpload DEF process_dag_success_publish
    <2> QED
      BY <1>7, <2>1, <2>2 DEF process_dag_success_publish
  <1>8. ASSUME NEW h \in Handlers, process_dag_success_commit(h)
        PROVE  NoUpload
    <2> DEFINE l == req[h].link
               x == retrieved(h)
    <2>1. /\ l \in Links /\ x.staging_table_name = row[l].staging_table_name
          /\ req' = [req EXCEPT ![h] = Idle]
          /\ row' = row \/ (Live(l) /\ row' = [row EXCEPT ![l] = x])
          /\ UNCHANGED <<lastUpload, files>>
      BY <1>1, <1>8 DEF process_dag_success_commit, RequestWellFormed, retrieved, IntegrityLink
    <2> HIDE DEF x, l
    <2> QED
      BY <1>2, <2>1, OneRowNoUpload
  <1>9. ASSUME NEW r \in Runs, process_dag_failure_callback(r)
        PROVE  NoUpload
    BY <1>3, <1>9 DEF process_dag_failure_callback
  <1>10. ASSUME NEW l \in Links, update_schedule(l)
         PROVE  NoUpload
    <2> DEFINE x == [row[l] EXCEPT !.schedule = TRUE]
    <2>1. /\ x.staging_table_name = row[l].staging_table_name /\ Live(l)
          /\ row' = [row EXCEPT ![l] = x] /\ UNCHANGED <<lastUpload, files, req>>
      BY <1>1, <1>10 DEF update_schedule, IntegrityLink
    <2> HIDE DEF x
    <2> QED
      BY <2>1, OneRowNoUpload
  <1>11. ASSUME NEW h \in Handlers, NEW l \in Links, clear_schedule(h, l)
         PROVE  NoUpload
    <2> DEFINE q == [Idle EXCEPT !.op = "unschedule", !.link = l]
    <2>1. q.op # "edit" /\ req' = [req EXCEPT ![h] = q]
      BY <1>11 DEF clear_schedule, Idle
    <2> HIDE DEF q
    <2> QED
      BY <1>11, <2>1, OneRowNoUpload DEF clear_schedule
  <1>12. ASSUME NEW h \in Handlers, clear_schedule_commit(h)
         PROVE  NoUpload
    <2> DEFINE l == req[h].link
               x == [row[l] EXCEPT !.schedule = FALSE]
    <2>1. /\ l \in Links /\ x.staging_table_name = row[l].staging_table_name
          /\ req' = [req EXCEPT ![h] = Idle]
          /\ row' = row \/ (Live(l) /\ row' = [row EXCEPT ![l] = x])
          /\ UNCHANGED <<lastUpload, files>>
      BY <1>1, <1>12 DEF clear_schedule_commit, RequestWellFormed, IntegrityLink
    <2> HIDE DEF x, l
    <2> QED
      BY <1>2, <2>1, OneRowNoUpload
  <1>13. ASSUME NEW h \in Handlers, NEW l \in Links, delete_dataset_cancel(h, l)
         PROVE  NoUpload
    <2> DEFINE q == [Idle EXCEPT !.op = "delete", !.link = l,
                        !.staging_table_name = row[l].staging_table_name,
                        !.final_table_name = row[l].final_table_name,
                        !.flag = row[l].metadata_id]
    <2>1. q.op # "edit" /\ (req' = req \/ req' = [req EXCEPT ![h] = q])
      BY <1>13 DEF delete_dataset_cancel, Idle
    <2> HIDE DEF q
    <2> QED
      BY <1>13, <2>1, OneRowNoUpload DEF delete_dataset_cancel
  <1>14. ASSUME NEW h \in Handlers, delete_dataset_data(h)
         PROVE  NoUpload
    <2> DEFINE q == [req[h] EXCEPT !.op = "forget"]
    <2>1. q.op # "edit" /\ req' = [req EXCEPT ![h] = q]
      BY <1>1, <1>14 DEF delete_dataset_data, Request
    <2> HIDE DEF q
    <2> QED
      BY <1>14, <2>1, OneRowNoUpload DEF delete_dataset_data
  <1>15. ASSUME NEW h \in Handlers, delete_dataset_row(h)
         PROVE  NoUpload
    <2> DEFINE l == req[h].link
               x == [Blank EXCEPT !.state = "deleted"]
    <2>1. /\ l \in Links /\ x.staging_table_name = 0 /\ x.state # "live"
          /\ req' = [req EXCEPT ![h] = Idle]
          /\ row' = [row EXCEPT ![l] = x]
          /\ UNCHANGED <<lastUpload, files>>
      BY <1>1, <1>15 DEF delete_dataset_row, RequestWellFormed, Blank
    <2> HIDE DEF x, l
    <2> QED
      BY <1>2, <2>1, OneRowNoUpload
  <1>16. CASE ProcessNext
    BY <1>5, <1>6, <1>7, <1>8, <1>9, <1>16 DEF ProcessNext
  <1>17. CASE DeletionNext
    BY <1>10, <1>11, <1>12, <1>13, <1>14, <1>15, <1>17 DEF DeletionNext
  <1> QED
    BY <1>4, <1>16, <1>17

\* Nor does a dataset that is taken back.
LEMMA RollbacksQuiet ==
    ASSUME WellFormed, NEW h \in Handlers, rollback_drop(h) \/ rollback_commit(h)
    PROVE  UploadQuiet
  <1> USE DEF backendVars, airflowVars
  <1>1. StagedQuiet
    BY DEF rollback_drop, rollback_commit, StagedQuiet, Staged
  <1>2. CASE rollback_drop(h)
    <2>1. \E q \in Request : q.op = "discard" /\ req' = [req EXCEPT ![h] = q]
      BY <1>2, RollbackGoesOn, Parts
    <2>2. NoUpload
      BY <1>2, <2>1, OneRowNoUpload DEF rollback_drop
    <2> QED
      BY <1>1, <2>2 DEF UploadQuiet
  <1>3. CASE rollback_commit(h)
    <2> DEFINE l == req[h].link
               x == [Blank EXCEPT !.state = "rolled_back"]
    <2>1. /\ l \in Links /\ x.staging_table_name = 0 /\ x.state # "live"
          /\ Idle.op # "edit" /\ req' = [req EXCEPT ![h] = Idle]
          /\ row' = row \/ row' = [row EXCEPT ![l] = x]
          /\ UNCHANGED <<lastUpload, files>>
      BY <1>3 DEF rollback_commit, WellFormed, RequestWellFormed, Blank, Idle
    <2> HIDE DEF x, l
    <2>2. NoUpload
      BY <2>1, OneRowNoUpload
    <2> QED
      BY <1>1, <2>2 DEF UploadQuiet, NoUpload
  <1> QED
    BY <1>2, <1>3

\* A run of staging_dag that starts, or is refused by the executor.
LEMMA StagingTriggered ==
    ASSUME WellFormed, NEW l, NEW u, NEW isFile, Trigger(StagingRun(l, u, isFile))
    PROVE  /\ \A r \in Runs : Staged(r) => Staged(r)' /\ run'[r] = run[r] /\ r <= lastRun
           /\ \A r \in Runs : Staged(r)' /\ ~Staged(r) =>
                 /\ r > lastRun
                 /\ run'[r].link = l /\ run'[r].source = u /\ run'[r].is_file = isFile
           /\ \A r, s \in Runs : Staged(r)' /\ ~Staged(r) /\ Staged(s)' /\ ~Staged(s) => s = r
  <1>1. /\ run \in [Runs -> DagRun] /\ lastRun \in Nat /\ Runs \subseteq Nat
        /\ \A r \in Runs : r > lastRun => run[r] = NoRun
    BY ConstantsAssumption DEF WellFormed, TypeOK, Runs
  <1>2. NoRun.kind # "staging"
    BY DEF NoRun
  <1> DEFINE conf == StagingRun(l, u, isFile)
  <1>3. conf.link = l /\ conf.source = u /\ conf.is_file = isFile
    BY DEF StagingRun, NoRun
  <1>4. run' = run \/ run' = [run EXCEPT ![lastRun + 1] = conf]
    BY DEF Trigger
  <1> HIDE DEF conf
  <1>5. ASSUME NEW r \in Runs
        PROVE  /\ Staged(r) => r <= lastRun
               /\ r <= lastRun => run'[r] = run[r]
               /\ r > lastRun => ~Staged(r) /\ (run'[r] = NoRun \/ (r = lastRun + 1 /\ run'[r] = conf))
    BY <1>1, <1>2, <1>4 DEF Staged
  <1>6. ASSUME NEW r \in Runs, Staged(r)', ~Staged(r)
        PROVE  r = lastRun + 1 /\ run'[r] = conf
    BY <1>1, <1>2, <1>5, <1>6 DEF Staged
  <1>7. ASSUME NEW r \in Runs, Staged(r)
        PROVE  Staged(r)' /\ run'[r] = run[r] /\ r <= lastRun
    BY <1>5, <1>7 DEF Staged
  <1> QED
    BY <1>1, <1>3, <1>6, <1>7

\* POST /staging keeps UploadOrder: its upload is the last.
LEMMA SubmitKeepsUploads ==
    ASSUME WellFormed, UploadOrder, NEW l \in Links, NEW isFile \in BOOLEAN,
           submit_staging(l, isFile)
    PROVE  UploadOrder'
  <1> DEFINE u == lastUpload + 1
             x == [Blank EXCEPT !.state = "live", !.staging_table_name = u, !.is_file = isFile]
  <1>1. x.staging_table_name = u
    BY DEF Blank
  <1>2. /\ row' = [row EXCEPT ![l] = x] /\ lastUpload' = u /\ req' = req
        /\ files' = IF isFile THEN files \cup {u} ELSE files
        /\ Trigger(StagingRun(l, u, isFile)) /\ LoopFree
    BY DEF submit_staging, process_import_source
  <1>3. row \in [Links -> IntegrityLink] /\ isFile \in BOOLEAN
    BY DEF WellFormed, TypeOK
  <1> HIDE DEF x
  <1>4. ASSUME NEW m \in Links
        PROVE  /\ m = l => row'[m].staging_table_name = u
               /\ m # l => row'[m] = row[m]
    BY <1>1, <1>2, <1>3
  <1>5. \A h \in Handlers : req'[h].op # "edit"
    BY <1>2 DEF LoopFree
  <1>6. lastUpload \in Nat /\ u = lastUpload + 1
    BY UploadNumbers
  <1> HIDE DEF u
  <1>7. ASSUME NEW r \in Runs, Staged(r)'
        PROVE  \/ /\ Staged(r) /\ run'[r] = run[r] /\ r <= lastRun
                  /\ run'[r].source <= lastUpload /\ run'[r].source \in Nat
               \/ /\ ~Staged(r) /\ r > lastRun /\ run'[r].link = l /\ run'[r].source = u
                  /\ run'[r].is_file = isFile
    BY <1>2, <1>7, StagingTriggered, UploadNumbers DEF UploadOrder
  <1>8. ASSUME NEW r, NEW s \in Runs, r \in Runs, Staged(r)', ~Staged(r), Staged(s)', ~Staged(s)
        PROVE  s = r
    BY <1>2, <1>8, StagingTriggered
  <1>9. Runs \subseteq Nat /\ lastRun \in Nat /\ \A m \in Links : row[m].staging_table_name \in Nat
    BY UploadNumbers
  <1>10. /\ \A m \in Links : row'[m].staging_table_name <= lastUpload'
         /\ \A r \in Runs : Staged(r)' => run'[r].source <= lastUpload'
    <2>1. \A m \in Links : row[m].staging_table_name <= lastUpload
      BY DEF UploadOrder
    <2> QED
      BY <1>2, <1>4, <1>6, <1>7, <1>9, <2>1
  <1>11. ASSUME NEW r \in Runs, Staged(r)', Live(run[r].link)'
         PROVE  run'[r].source <= row'[run'[r].link].staging_table_name
    <2>1. CASE Staged(r) /\ run'[r] = run[r] /\ run[r].link # l
      BY <1>4, <1>11, <2>1, UploadNumbers DEF UploadOrder, Live
    <2>2. CASE run'[r].link = l
      BY <1>4, <1>6, <1>7, <1>11, <2>2
    <2> QED
      BY <1>7, <1>11, <2>1, <2>2
  <1>12. ASSUME NEW r \in Runs, NEW s \in Runs, Staged(r)', Staged(s)',
                run'[s].link = run'[r].link, s < r
         PROVE  run'[s].source < run'[r].source
    <2>1. CASE Staged(r)
      <3>1. Staged(s)
        BY <1>7, <1>9, <1>12, <2>1
      <3> QED
        BY <1>7, <1>12, <2>1, <3>1 DEF UploadOrder
    <2>2. CASE ~Staged(r) /\ Staged(s)
      BY <1>6, <1>7, <1>12, <2>2
    <2>3. CASE ~Staged(r) /\ ~Staged(s)
      BY <1>8, <1>9, <1>12, <2>3
    <2> QED
      BY <2>1, <2>2, <2>3
  <1>13. ASSUME NEW r \in Runs, NEW m \in Links, Staged(r)', run'[r].link # m
         PROVE  run'[r].source # row'[m].staging_table_name
    <2>1. CASE Staged(r) /\ m # l
      BY <1>4, <1>7, <1>13, <2>1 DEF UploadOrder
    <2>2. CASE Staged(r) /\ m = l
      BY <1>4, <1>6, <1>7, <1>13, <2>2
    <2>3. CASE ~Staged(r)
      <3>1. row[m].staging_table_name <= lastUpload
        BY DEF UploadOrder
      <3> QED
        BY <1>4, <1>6, <1>7, <1>9, <1>13, <2>3, <3>1
    <2> QED
      BY <2>1, <2>2, <2>3
  <1> QED
    BY <1>5, <1>10, <1>11, <1>12, <1>13 DEF UploadOrder

\* So does PUT /staging, up to its commit.
LEMMA EditKeepsUploads ==
    ASSUME WellFormed, UploadOrder, NEW h \in Handlers, NEW l \in Links,
           NEW isFile \in BOOLEAN, edit_staging_commit(h, l, isFile)
    PROVE  UploadOrder'
  <1> DEFINE u == lastUpload + 1
             x == [row[l] EXCEPT !.staging_table_name = u, !.is_file = isFile]
             q == [Idle EXCEPT !.op = "edit", !.link = l, !.upload = u,
                               !.staging_table_name = row[l].staging_table_name,
                               !.flag = isFile]
  <1>1. row \in [Links -> IntegrityLink] /\ req \in [Handlers -> Request]
    BY DEF WellFormed, TypeOK
  <1>2. /\ x.staging_table_name = u
        /\ q.link = l /\ q.upload = u /\ q.flag = isFile
    BY <1>1 DEF Idle, IntegrityLink
  <1>3. /\ row' = [row EXCEPT ![l] = x] /\ lastUpload' = u /\ req' = [req EXCEPT ![h] = q]
        /\ files' = IF isFile THEN files \cup {u} ELSE files
        /\ run' = run /\ CanStart(h) /\ Live(l)
    BY DEF edit_staging_commit, process_import_source, airflowVars
  <1> HIDE DEF x, q
  <1>4. ASSUME NEW m \in Links
        PROVE  /\ m = l => row'[m].staging_table_name = u
               /\ m # l => row'[m] = row[m]
    BY <1>1, <1>2, <1>3
  <1>5. ASSUME NEW g \in Handlers, req'[g].op = "edit"
        PROVE  /\ g = h /\ req'[g].link = l /\ req'[g].upload = u /\ req'[g].flag = isFile
    BY <1>1, <1>2, <1>3, <1>5 DEF CanStart, LoopFree
  <1>6. lastUpload \in Nat /\ u = lastUpload + 1
    BY UploadNumbers
  <1> HIDE DEF u
  <1>7. ASSUME NEW r \in Runs, Staged(r)'
        PROVE  /\ Staged(r) /\ run'[r] = run[r]
               /\ run'[r].source <= lastUpload /\ run'[r].source \in Nat
    BY <1>3, <1>7, UploadNumbers DEF UploadOrder, Staged
  <1>8. \A m \in Links : row[m].staging_table_name \in Nat /\ row[m].staging_table_name <= lastUpload
    BY UploadNumbers DEF UploadOrder
  <1>9. /\ \A m \in Links : row'[m].staging_table_name <= lastUpload'
        /\ \A r \in Runs : Staged(r)' => run'[r].source <= lastUpload'
        /\ \A g \in Handlers : req'[g].op = "edit" => req'[g].upload <= lastUpload'
        /\ \A f, g \in Handlers : req'[f].op = "edit" /\ req'[g].op = "edit" => f = g
    BY <1>3, <1>4, <1>5, <1>6, <1>7, <1>8
  <1>10. ASSUME NEW r \in Runs, Staged(r)', Live(run[r].link)'
         PROVE  run'[r].source <= row'[run'[r].link].staging_table_name
    <2>1. CASE run'[r].link # l
      BY <1>4, <1>7, <1>10, <2>1, UploadNumbers DEF UploadOrder, Live
    <2>2. CASE run'[r].link = l
      BY <1>4, <1>6, <1>7, <1>10, <2>2
    <2> QED
      BY <2>1, <2>2
  <1>11. ASSUME NEW g \in Handlers, req'[g].op = "edit"
         PROVE  req'[g].upload <= row'[req'[g].link].staging_table_name
    BY <1>4, <1>5, <1>6, <1>11
  <1>12. \A r, s \in Runs : Staged(r)' /\ Staged(s)' /\ run'[s].link = run'[r].link /\ s < r
              => run'[s].source < run'[r].source
    BY <1>7 DEF UploadOrder
  <1>13. \A r \in Runs, g \in Handlers : Staged(r)' /\ req'[g].op = "edit"
              => run'[r].source < req'[g].upload
    BY <1>5, <1>6, <1>7
  <1>14. ASSUME NEW r \in Runs, NEW m \in Links, Staged(r)', run'[r].link # m
         PROVE  run'[r].source # row'[m].staging_table_name
    <2>1. CASE m # l
      BY <1>4, <1>7, <1>14, <2>1 DEF UploadOrder
    <2>2. CASE m = l
      BY <1>4, <1>6, <1>7, <1>14, <2>2
    <2> QED
      BY <2>1, <2>2
  <1>15. ASSUME NEW g \in Handlers, NEW m \in Links, req'[g].op = "edit", req'[g].link # m
         PROVE  req'[g].upload # row'[m].staging_table_name
    BY <1>4, <1>5, <1>6, <1>8, <1>15
  <1>16. ASSUME NEW g \in Handlers, req'[g].op = "edit", req'[g].flag
         PROVE  req'[g].upload \in files'
    BY <1>3, <1>5, <1>16
  <1> QED
    BY <1>9, <1>10, <1>11, <1>12, <1>13, <1>14, <1>15, <1>16 DEF UploadOrder

\* And its end, whether the run is refused or not.
LEMMA EditEndKeepsUploads ==
    ASSUME WellFormed, UploadOrder, NEW h \in Handlers, edit_staging_trigger(h)
    PROVE  UploadOrder'
  <1> DEFINE l == req[h].link
             u == req[h].upload
             isFile == req[h].flag
  <1>1. /\ row' = row /\ lastUpload' = lastUpload /\ files' = files
        /\ req[h].op = "edit" /\ req' = [req EXCEPT ![h] = Idle]
        /\ Trigger(StagingRun(l, u, isFile))
    BY DEF edit_staging_trigger, backendVars
  <1>2. /\ Live(l) => u <= row[l].staging_table_name
        /\ \A m \in Links : m # l => u # row[m].staging_table_name
    BY <1>1, UploadNumbers DEF UploadOrder
  <1>3. ASSUME NEW r \in Runs, Staged(r), run[r].link = l
        PROVE  run[r].source < u
    BY <1>1, <1>3 DEF UploadOrder
  <1>4. \A g \in Handlers : req'[g].op # "edit"
    <2>1. req \in [Handlers -> Request] /\ Idle.op # "edit"
      BY DEF WellFormed, TypeOK, Idle
    <2>2. \A g \in Handlers : req[g].op = "edit" => g = h
      BY <1>1 DEF UploadOrder
    <2> QED
      BY <1>1, <2>1, <2>2
  <1>6. u \in Nat /\ l \in Links /\ u <= lastUpload
    BY <1>1, UploadNumbers DEF UploadOrder
  <1> HIDE DEF l, u, isFile
  <1>7. ASSUME NEW r \in Runs, Staged(r)'
        PROVE  \/ /\ Staged(r) /\ run'[r] = run[r] /\ r <= lastRun
               \/ /\ ~Staged(r) /\ r > lastRun /\ run'[r].link = l /\ run'[r].source = u
                  /\ run'[r].is_file = isFile
    BY <1>1, <1>7, StagingTriggered
  <1>8. ASSUME NEW r, NEW s \in Runs, r \in Runs, Staged(r)', ~Staged(r), Staged(s)', ~Staged(s)
        PROVE  s = r
    BY <1>1, <1>8, StagingTriggered
  <1>9. Runs \subseteq Nat /\ lastRun \in Nat /\ \A m \in Links : row[m].staging_table_name \in Nat
    BY UploadNumbers
  <1>10. /\ \A m \in Links : row'[m].staging_table_name <= lastUpload'
         /\ \A r \in Runs : Staged(r)' => run'[r].source <= lastUpload'
    BY <1>1, <1>6, <1>7 DEF UploadOrder
  <1>11. ASSUME NEW r \in Runs, Staged(r)', Live(run[r].link)'
         PROVE  run'[r].source <= row'[run'[r].link].staging_table_name
    BY <1>1, <1>2, <1>7, <1>11 DEF UploadOrder, Live
  <1>12. ASSUME NEW r \in Runs, NEW s \in Runs, Staged(r)', Staged(s)',
                run'[s].link = run'[r].link, s < r
         PROVE  run'[s].source < run'[r].source
    <2>1. CASE Staged(r)
      <3>1. Staged(s)
        BY <1>7, <1>9, <1>12, <2>1
      <3> QED
        BY <1>7, <1>12, <2>1, <3>1 DEF UploadOrder
    <2>2. CASE ~Staged(r) /\ Staged(s)
      BY <1>3, <1>7, <1>12, <2>2
    <2>3. CASE ~Staged(r) /\ ~Staged(s)
      BY <1>8, <1>9, <1>12, <2>3
    <2> QED
      BY <2>1, <2>2, <2>3
  <1>13. ASSUME NEW r \in Runs, NEW m \in Links, Staged(r)', run'[r].link # m
         PROVE  run'[r].source # row'[m].staging_table_name
    BY <1>1, <1>2, <1>7, <1>13 DEF UploadOrder
  <1> QED
    BY <1>4, <1>10, <1>11, <1>12, <1>13 DEF UploadOrder

\* A callback of staging_dag keeps it too: no edit is in progress.
LEMMA CallbackKeepsUploads ==
    ASSUME WellFormed, UploadOrder, NEW s \in Runs, Staged(s), run[s].step # "ingest",
           StagedQuiet, row' = row, lastUpload' = lastUpload,
           files' = IF Live(run[s].link) THEN delete_temp_source_file(run[s].link) ELSE files,
           \A h \in Handlers : req[h].op # "edit" /\ req'[h].op # "edit"
    PROVE  UploadOrder'
  <1> DEFINE l == run[s].link
  <1>1. ASSUME NEW r \in Runs, Staged(r)'
        PROVE  /\ Staged(r) /\ run'[r].link = run[r].link /\ run'[r].source = run[r].source
               /\ run'[r].is_file = run[r].is_file
               /\ run'[r].step = "ingest" => run[r].step = "ingest"
    BY <1>1 DEF StagedQuiet
  <1>2. ASSUME NEW r \in Runs, Staged(r)
        PROVE  Staged(r)' /\ run'[r].link = run[r].link
    BY <1>2 DEF StagedQuiet
  <1>3. /\ \A m \in Links : row'[m].staging_table_name <= lastUpload'
        /\ \A r \in Runs : Staged(r)' => run'[r].source <= lastUpload'
    BY <1>1 DEF UploadOrder
  <1>4. \A r \in Runs : Staged(r)' /\ Live(run[r].link)'
              => run'[r].source <= row'[run'[r].link].staging_table_name
    BY <1>1 DEF UploadOrder, Live
  <1>5. \A r, t \in Runs : Staged(r)' /\ Staged(t)' /\ run'[t].link = run'[r].link /\ t < r
              => run'[t].source < run'[r].source
    BY <1>1 DEF UploadOrder
  <1>6. \A r \in Runs, m \in Links : Staged(r)' /\ run'[r].link # m
              => run'[r].source # row'[m].staging_table_name
    BY <1>1 DEF UploadOrder
  <1> QED
    BY <1>3, <1>4, <1>5, <1>6 DEF UploadOrder

\* Every step keeps UploadOrder.
LEMMA UploadStep ==
    ASSUME WellFormed, UploadOrder, [Next]_vars
    PROVE  UploadOrder'
  <1>1. CASE UNCHANGED vars
    BY <1>1 DEF vars, UploadOrder, Staged, Live
  <1>2. CASE ProcessNext \/ AirflowNext \/ DeletionNext
    BY <1>2, RunsStayStaged, OthersUploadNothing, QuietKeepsUploads DEF UploadQuiet
  <1>3. ASSUME NEW r \in Runs, staging_dag_success_callback(r)
        PROVE  UploadOrder'
    <2>1. StagedQuiet
      BY <1>3, GotoStaged DEF staging_dag_success_callback, CallbackCalled
    <2>2. /\ Staged(r) /\ run[r].step # "ingest" /\ row' = row /\ lastUpload' = lastUpload
          /\ files' = IF Live(run[r].link) THEN delete_temp_source_file(run[r].link) ELSE files
          /\ \A h \in Handlers : req[h].op # "edit" /\ req'[h].op # "edit"
      BY <1>3 DEF staging_dag_success_callback, Staged, LoopFree
    <2> QED
      BY <2>1, <2>2, CallbackKeepsUploads
  <1>4. ASSUME NEW h \in Handlers, NEW r \in Runs, staging_dag_failure_callback(h, r)
        PROVE  UploadOrder'
    <2>1. StagedQuiet
      BY <1>4, GotoStaged DEF staging_dag_failure_callback, CallbackCalled
    <2>2. /\ Staged(r) /\ run[r].step # "ingest" /\ row' = row /\ lastUpload' = lastUpload
          /\ files' = IF Live(run[r].link) THEN delete_temp_source_file(run[r].link) ELSE files
          /\ \A g \in Handlers : req[g].op # "edit"
      BY <1>4 DEF staging_dag_failure_callback, Staged, CanStart, LoopFree
    <2>3. req' = req \/ \E q : q.op = "rollback" /\ req' = [req EXCEPT ![h] = q]
      BY <1>4, FailureCallbackDecides, Parts
    <2>4. \A g \in Handlers : req'[g].op # "edit"
      <3>1. req \in [Handlers -> Request]
        BY DEF WellFormed, TypeOK
      <3> QED
        BY <2>2, <2>3, <3>1
    <2> QED
      BY <2>1, <2>2, <2>4, CallbackKeepsUploads
  <1>5. CASE StagingNext
    BY <1>3, <1>4, <1>5, SubmitKeepsUploads, EditKeepsUploads, EditEndKeepsUploads,
       RollbacksQuiet, QuietKeepsUploads DEF StagingNext
  <1> QED
    BY <1>1, <1>2, <1>5 DEF Next

\* A callback of staging_dag takes the file of a run that has not read it only if its own
\* run is an earlier one of the dataset.
LEMMA CallbackTakesLater ==
    ASSUME WellFormed, UploadOrder, NEW s \in Runs, NEW r \in Runs,
           Staged(s), run[s].step # "ingest", Loading(r), source_reachable(r),
           Live(run[s].link), run[r].is_file,
           run[r].source \notin delete_temp_source_file(run[s].link)
    PROVE  s < r /\ run[s].link = run[r].link
  <1> DEFINE l == run[s].link
  <1>1. Staged(r)
    BY DEF Loading, Staged
  <1>2. run[r].source = row[l].staging_table_name
    BY DEF source_reachable, delete_temp_source_file
  <1>3. /\ l \in Links /\ r \in Nat /\ s \in Nat
        /\ run[r].source \in Nat /\ run[s].source \in Nat /\ row[l].staging_table_name \in Nat
    BY <1>1, UploadNumbers
  <1>4. run[r].link = l
    BY <1>1, <1>2, <1>3 DEF UploadOrder
  <1>5. r # s
    BY DEF Loading
  <1>6. ~(r < s)
    <2>1. ASSUME r < s
          PROVE  run[r].source < run[s].source /\ run[s].source <= row[l].staging_table_name
      BY <1>1, <1>4, <2>1 DEF UploadOrder
    <2> QED
      BY <1>2, <1>3, <2>1
  <1> QED
    BY <1>3, <1>4, <1>5, <1>6

\* What a step does to the uploads of the runs that read them.
LEMMA UploadKeptStep ==
    ASSUME WellFormed, UploadOrder, [Next]_vars, NEW r \in Runs,
           Loading(r)', ~source_reachable(r)'
    PROVE  \/ Loading(r) /\ ~source_reachable(r)
           \/ \E s \in Runs : /\ s < r /\ run[s].kind = "staging" /\ run[s].link = run[r].link
                              /\ run[s].step \in {"success", "failed"}
                              /\ run'[s].step = "over"
  <1> DEFINE Lost == Loading(r) /\ ~source_reachable(r)
             Answered(s) == /\ s < r /\ run[s].kind = "staging" /\ run[s].link = run[r].link
                            /\ run[s].step \in {"success", "failed"} /\ run'[s].step = "over"
  <1>1. CASE UNCHANGED vars
    BY <1>1 DEF vars, Loading, source_reachable
  <1>2. ASSUME UploadQuiet
        PROVE  Lost
    BY <1>2 DEF UploadQuiet, StagedQuiet, NoUpload, Staged, Loading, source_reachable
  <1>3. CASE ProcessNext \/ AirflowNext \/ DeletionNext
    BY <1>2, <1>3, RunsStayStaged, OthersUploadNothing DEF UploadQuiet
  <1>4. ASSUME NEW l \in Links, NEW isFile \in BOOLEAN, submit_staging(l, isFile)
        PROVE  Lost
    <2>1. /\ files' = IF isFile THEN files \cup {lastUpload + 1} ELSE files
          /\ Trigger(StagingRun(l, lastUpload + 1, isFile))
      BY <1>4 DEF submit_staging, process_import_source
    <2> QED
      BY <2>1, StagingTriggered DEF Loading, source_reachable, Staged
  <1>5. ASSUME NEW h \in Handlers, NEW l \in Links, NEW isFile \in BOOLEAN,
               edit_staging_commit(h, l, isFile)
        PROVE  Lost
    BY <1>5 DEF edit_staging_commit, process_import_source, airflowVars, Loading, source_reachable
  <1>6. ASSUME NEW h \in Handlers, edit_staging_trigger(h)
        PROVE  Lost
    <2>1. /\ files' = files /\ (req[h].flag => req[h].upload \in files)
          /\ Trigger(StagingRun(req[h].link, req[h].upload, req[h].flag))
      BY <1>6 DEF edit_staging_trigger, backendVars, UploadOrder
    <2> QED
      BY <2>1, StagingTriggered DEF Loading, source_reachable, Staged
  <1>7. ASSUME NEW s \in Runs, Staged(s), run[s].step \in {"success", "failed"},
               run' = CallbackCalled(s),
               files' = IF Live(run[s].link) THEN delete_temp_source_file(run[s].link) ELSE files
        PROVE  Lost \/ Answered(s)
    <2>1. run \in [Runs -> DagRun]
      BY DEF WellFormed, TypeOK
    <2>2. run'[s].step = "over" /\ r # s /\ run'[r] = run[r]
      BY <1>7, <2>1 DEF CallbackCalled, Goto, DagRun, Loading
    <2>3. Loading(r)
      BY <2>2 DEF Loading
    <2>4. ASSUME source_reachable(r)
          PROVE  s < r /\ run[s].link = run[r].link
      <3>1. run[r].is_file /\ run[r].source \in files /\ run[r].source \notin files'
        BY <2>2, <2>4, <2>1 DEF source_reachable, DagRun
      <3>2. Live(run[s].link) /\ run[r].source \notin delete_temp_source_file(run[s].link)
        BY <1>7, <3>1
      <3> QED
        BY <1>7, <2>3, <2>4, <3>1, <3>2, CallbackTakesLater
    <2> QED
      BY <1>7, <2>2, <2>3, <2>4 DEF Staged
  <1>8. ASSUME NEW s \in Runs, staging_dag_success_callback(s)
        PROVE  Lost \/ Answered(s)
    BY <1>7, <1>8 DEF staging_dag_success_callback, Staged
  <1>9. ASSUME NEW h \in Handlers, NEW s \in Runs, staging_dag_failure_callback(h, s)
        PROVE  Lost \/ Answered(s)
    BY <1>7, <1>9 DEF staging_dag_failure_callback, Staged
  <1>10. CASE StagingNext
    BY <1>2, <1>4, <1>5, <1>6, <1>8, <1>9, <1>10, RollbacksQuiet DEF StagingNext
  <1> QED
    BY <1>1, <1>3, <1>10 DEF Next

\* A staging run has its upload on disk until it has read it, unless an earlier staging of
\* the dataset was still to be answered: only the callback of an earlier run, which deletes
\* the file the row names by then, takes it (staging.py, _delete_temp_source_file;
\* UploadKeptForRun).
THEOREM UploadKeptForRunAlways == Spec => UploadKeptForRun
  <1>1. Init => UploadOrder
    <2>1. NoRun.kind # "staging" /\ Idle.op # "edit" /\ Blank.staging_table_name = 0
      BY DEF NoRun, Idle, Blank
    <2> QED
      BY <2>1 DEF Init, UploadOrder, Staged
  <1>2. WellFormed /\ UploadOrder /\ [Next]_vars => UploadOrder'
    BY UploadStep
  <1>3. WellFormed /\ UploadOrder /\ [Next]_vars =>
          [\A r \in Runs : Loading(r)' /\ ~source_reachable(r)' =>
              \/ Loading(r) /\ ~source_reachable(r)
              \/ \E s \in Runs : /\ s < r /\ run[s].kind = "staging"
                                 /\ run[s].link = run[r].link
                                 /\ run[s].step \in {"success", "failed"}
                                 /\ run'[s].step = "over"]_vars
    BY UploadKeptStep
  <1> QED
    BY <1>1, <1>2, <1>3, WellFormedAlways, PTL DEF Spec, UploadKeptForRun
=============================================================================
